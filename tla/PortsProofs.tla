----------------------------- MODULE PortsProofs ----------------------------
(***************************************************************************)
(* Proofs about the ports, for every number of processes, semaphores and   *)
(* ports, every capacity and every set of calls the application makes.     *)
(***************************************************************************)
EXTENDS Ports, KernelProofs, TLAPS, SequenceTheorems, FiniteSetTheorems

USE NPROCAssumption

(* What the variables of the ports hold. *)
PortRec == [ptstate : {"PTFREE", "PTLIMBO", "PTALLOC"}, ptssem : Sem \cup {SYSERR},
            ptrsem : Sem \cup {SYSERR}, ptmaxcnt : Counts \cup {0}, ptseq : Nat, queue : Seq(Proc)]

LostRec == [psend : Nat, preceive : Nat, ptclear : Nat]

PortTyped ==
  /\ ports \in [Port -> PortRec] /\ ptnextp \in Port /\ ptfree \in Nat
  /\ lost \in [Port -> LostRec]

(* The ways to be in a call of a port, and those that reset or delete one. *)
PortPoints == {"pcreate", "psend", "preceive", "preset", "pdelete"}
Clearers   == {"preset", "pdelete"}

LEMMA PortIsInt == Port \subseteq Int /\ Sem \subseteq Int /\ SYSERR \in Int /\ SYSERR \notin Sem
BY NPORTSAssumption, NSEMAssumption DEF Port, Sem, SYSERR

LEMMA PortFrameFacts ==
  ASSUME NEW pt \in PortPoints, NEW p \in Port, NEW n \in Nat
  PROVE  /\ At(pt, p, n) \in Frame /\ At(pt, p, n).at = pt /\ At(pt, p, n).arg = p
         /\ At(pt, p, n).cnt = n /\ pt \notin Loops /\ pt # "user"
BY PortIsInt, FrameFacts DEF Points, PortPoints, Loops

LEMMA PortPointsDiffer ==
  \A pt \in PortPoints : /\ pt \notin Loops /\ pt # "user" /\ pt \notin Held
                         /\ pt \notin {"stopclk", "wakeup", "clkint", "strtclk", "recvtim"}
BY DEF PortPoints, Loops, Held

(* Where no loop is under way, nor is after the step. *)
LEMMA StackOnly ==
  ASSUME IInv, Top(curr).at \notin Loops, kstack' \in Stacks, NoLoops(kstack'),
         UNCHANGED <<sched, semVars, clkVars, procVars>>
  PROVE  IInv'
<1>1. Core(sched') /\ Highest(sched')
  BY QuietStart
<1>2. SameQueues(sched, sched')
  BY DEF SameQueues
<1>3. UNCHANGED <<semaph, psem, nextsem, clockq>>
  BY DEF semVars, clkVars
<1>4. PInv'
  BY QuietStart DEF PInv, procVars
<1> QED
  BY <1>1, <1>2, <1>3, <1>4, SchedOnly

(* The current process begins a call of a port. *)
LEMMA PortCallStack ==
  ASSUME IInv, InUser, NEW pt \in PortPoints, NEW p \in Port, NEW n \in Nat,
         Call(<<At(pt, p, n)>>)
  PROVE  Top(curr).at \notin Loops /\ kstack' \in Stacks /\ NoLoops(kstack')
<1>1. Top(curr).at \notin Loops
  BY InUserTop
<1>2. PICK f : f = At(pt, p, n)
  OBVIOUS
<1>3. f \in Frame /\ f.at \notin Loops
  BY <1>2, PortFrameFacts
<1>4. Call(<<f>>)
  BY <1>2
<1> QED
  BY <1>1, <1>3, <1>4, CallOne

(* It returns from one. *)
LEMMA PortReturnStack ==
  ASSUME IInv, Top(curr).at \in PortPoints, Return
  PROVE  Top(curr).at \notin Loops /\ kstack' \in Stacks /\ NoLoops(kstack')
BY PortPointsDiffer, ReturnOne

(* screate, called by pcreate *)
LEMMA ScreateResultInv ==
  ASSUME IInv, Top(curr).at \notin Loops, kstack' \in Stacks, NoLoops(kstack'),
         NEW s \in Sem \cup {SYSERR}, NEW count \in Nat, ScreateResult(s, count),
         UNCHANGED <<sched, psem, clkVars, procVars>>
  PROVE  IInv'
<1>1. CASE s = SYSERR
  <2>1. UNCHANGED <<semaph, nextsem>>
    BY <1>1 DEF ScreateResult
  <2> QED
    BY <2>1, StackOnly DEF semVars
<1>2. CASE s # SYSERR
  <2>1. PICK i \in 0..(NSEM - 1) : NextFree(i) /\ TakeSem(i, count)
    BY <1>2 DEF ScreateResult
  <2> QED
    BY <2>1, TakeSemInv
<1> QED
  BY <1>1, <1>2

LEMMA ProbePortFacts ==
  ASSUME ptnextp \in Port, NEW i \in Int
  PROVE  ProbePort(i) \in Port
<1>1. ptnextp - i \in Int /\ NPORTS \in Nat \ {0}
  BY PortIsInt, NPORTSAssumption
<1>2. (ptnextp - i) % NPORTS \in 0..(NPORTS - 1)
  BY <1>1, ModBound
<1> QED
  BY <1>2 DEF ProbePort, Port

LEMMA PcreateIInv ==
  ASSUME IInv, PortTyped, NEW count \in Nat, Pcreate(count)
  PROVE  IInv'
<1>1. PICK i \in 0..(NPORTS - 1), s \in Sem \cup {SYSERR} :
        ScreateResult(s, count) /\ Call(<<At("pcreate", ProbePort(i), 0)>>)
  BY DEF Pcreate
<1>2. InUser /\ UNCHANGED <<sched, psem, clkVars, procVars>>
  BY DEF Pcreate, Calling, SameKernel
<1>3. PICK p \in Port : p = ProbePort(i)
  BY ProbePortFacts DEF PortTyped
<1>4. Top(curr).at \notin Loops /\ kstack' \in Stacks /\ NoLoops(kstack')
  <2>1. "pcreate" \in PortPoints /\ 0 \in Nat
    BY DEF PortPoints
  <2> QED
    BY <1>1, <1>2, <1>3, <2>1, PortCallStack
<1> QED
  BY <1>1, <1>2, <1>4, ScreateResultInv

LEMMA PcreateEndIInv ==
  ASSUME IInv, PcreateEnd
  PROVE  IInv'
<1>1. PICK s \in Sem \cup {SYSERR} : ScreateResult(s, 0)
  BY DEF PcreateEnd
<1>2. Top(curr).at \in PortPoints /\ Return /\ UNCHANGED <<sched, psem, clkVars, procVars>>
  BY DEF PcreateEnd, SameKernel, PortPoints
<1>3. Top(curr).at \notin Loops /\ kstack' \in Stacks /\ NoLoops(kstack')
  BY <1>2, PortReturnStack
<1>4. 0 \in Nat
  OBVIOUS
<1> QED
  BY <1>1, <1>2, <1>3, <1>4, ScreateResultInv

LEMMA SemOfPort ==
  ASSUME PortTyped, NEW p \in Port
  PROVE  /\ ports[p] \in PortRec /\ ports[p].ptseq \in Nat /\ ports[p].ptmaxcnt \in Nat
         /\ ports[p].ptssem \in Sem \cup {SYSERR} /\ ports[p].ptrsem \in Sem \cup {SYSERR}
         /\ ports[p].queue \in Seq(Proc)
         /\ ports[p].ptstate \in {"PTFREE", "PTLIMBO", "PTALLOC"}
<1>1. ports[p] \in PortRec
  BY DEF PortTyped
<1>2. Counts \cup {0} \subseteq Nat
  BY CountsAssumption
<1> QED
  BY <1>1, <1>2 DEF PortRec

LEMMA WaitInPortIInv ==
  ASSUME IInv, PortTyped, NEW p \in Port, NEW point \in PortPoints, Calling(point),
         NEW s \in Sem \cup {SYSERR}, WaitInPort(p, s, point)
  PROVE  IInv'
<1>1. /\ InUser /\ curr # NULLPROC /\ s \in Sem /\ isUsed(s) /\ WaitOn(s) /\ nextsem' = nextsem
      /\ UNCHANGED <<clkVars, procVars>> /\ Call(<<At(point, p, ports[p].ptseq)>>)
  BY DEF WaitInPort, HasSem, SameKernel, Calling
<1>2. Top(curr).at \notin Loops /\ kstack' \in Stacks /\ NoLoops(kstack')
  BY <1>1, SemOfPort, PortCallStack
<1> QED
  BY <1>1, <1>2, WaitOnInv

LEMMA SignalPortInv ==
  ASSUME IInv, Top(curr).at \in PortPoints, Return, NEW s \in Sem \cup {SYSERR},
         SignalPort(s) \/ UNCHANGED <<sched, semaph>>,
         UNCHANGED <<psem, nextsem>>, SameKernel
  PROVE  IInv'
<1>1. Top(curr).at \notin Loops /\ kstack' \in Stacks /\ NoLoops(kstack')
  BY PortReturnStack
<1>2. UNCHANGED <<clkVars, procVars>>
  BY DEF SameKernel
<1>3. CASE UNCHANGED <<sched, semaph>>
  BY <1>1, <1>2, <1>3, StackOnly DEF semVars
<1>4. CASE HasSem(s) /\ SignalOnce(s, Resched)
  <2>1. s \in Sem /\ isUsed(s)
    BY <1>4 DEF HasSem
  <2> QED
    BY <1>1, <1>2, <1>4, <2>1, SignalOnceInv
<1> QED
  BY <1>3, <1>4 DEF SignalPort

(* The kernel stack of a process: no call of a port is under way, or one    *)
(* is, and it has called nothing but the loop of sreset or sdelete.         *)
Ordinary(k) == \A i \in DOMAIN k : k[i].at \notin PortPoints

PortFrame(f) == /\ f.at \in PortPoints /\ f.arg \in Port /\ f.cnt \in Nat
                /\ f.at \in Clearers => f.cnt \in 1..3

PortStack(k) ==
  \/ Ordinary(k)
  \/ Len(k) = 1 /\ PortFrame(k[1])
  \/ /\ Len(k) = 2 /\ k[1].at \in {"sreset", "sdelete"}
     /\ PortFrame(k[2]) /\ k[2].at \in Clearers

PortStacks == \A r \in Proc : PortStack(kstack[r])

(* Sequences of one and of two. *)
LEMMA OneSeq ==
  ASSUME NEW S, NEW g \in S, NEW q, q = <<g>>
  PROVE  q \in Seq(S) /\ q # <<>> /\ Len(q) = 1 /\ q[1] = g /\ DOMAIN q = {1}
OBVIOUS

LEMMA TwoSeq ==
  ASSUME NEW S, NEW f \in S, NEW g \in S, NEW q, q = <<f, g>>
  PROVE  q \in Seq(S) /\ q # <<>> /\ Len(q) = 2 /\ q[1] = f /\ q[2] = g
         /\ DOMAIN q = {1, 2}
OBVIOUS

LEMMA IsOne ==
  ASSUME NEW S, NEW q \in Seq(S), Len(q) = 1
  PROVE  q = <<q[1]>>
OBVIOUS

LEMMA TailOne ==
  ASSUME NEW S, NEW q \in Seq(S), q # <<>>, Len(q) = 1
  PROVE  Tail(q) = <<>>
<1>1. Tail(q) \in Seq(S) /\ Len(Tail(q)) = 0
  BY HeadTailProperties
<1> QED
  BY <1>1, EmptySeq

LEMMA TailTwo ==
  ASSUME NEW S, NEW q \in Seq(S), Len(q) = 2
  PROVE  Tail(q) = <<q[2]>> /\ q # <<>> /\ Head(q) = q[1]
<1>1. q # <<>> /\ 1 \in DOMAIN q
  BY SMTT(60)
<1>2. Tail(q) \in Seq(S) /\ Len(Tail(q)) = 1 /\ Tail(q)[1] = q[2]
  <2>1. Tail(q) \in Seq(S) /\ Len(Tail(q)) = Len(q) - 1
    BY <1>1, HeadTailProperties
  <2>2. \A i \in 1..Len(Tail(q)) : Tail(q)[i] = q[i+1]
    BY <1>1, HeadTailProperties
  <2>3. Len(Tail(q)) = 1 /\ 1 \in 1..1
    BY <2>1
  <2>4. Tail(q)[1] = q[1+1]
    BY <2>2, <2>3, Zenon
  <2>5. 1 + 1 = 2
    OBVIOUS
  <2> QED
    BY <2>1, <2>3, <2>4, <2>5, Zenon
<1>3. Tail(q) = <<Tail(q)[1]>>
  BY <1>2, IsOne
<1>4. Head(q) = q[1]
  BY <1>1
<1> QED
  BY <1>1, <1>2, <1>3, <1>4, Zenon

LEMMA TwoFrames ==
  ASSUME NEW S, NEW f \in S, NEW g \in S
  PROVE  /\ <<>> \o <<g>> = <<g>> /\ <<f>> \o <<g>> = <<f, g>>
         /\ <<g>> \o <<>> = <<g>> /\ <<f, g>> \o <<>> = <<f, g>>
         /\ <<>> \o <<g>> \o <<>> = <<g>> /\ <<f>> \o <<g>> \o <<>> = <<f, g>>
<1>1. <<>> \o <<g>> = <<g>>
  OBVIOUS
<1>2. <<f>> \o <<g>> = <<f, g>>
  <2>1. PICK a : a = <<f>>
    OBVIOUS
  <2>2. PICK b : b = <<g>>
    OBVIOUS
  <2>3. a \in Seq(S) /\ b \in Seq(S) /\ Len(a) = 1 /\ Len(b) = 1 /\ a[1] = f /\ b[1] = g
    BY <2>1, <2>2
  <2>4. PICK q : q = a \o b
    OBVIOUS
  <2>5. q \in Seq(S) /\ Len(q) = 2 /\ q[1] = f /\ q[2] = g
    BY <2>3, <2>4, ConcatProperties
  <2>6. q = <<q[1], q[2]>>
    BY <2>5
  <2> QED
    BY <2>1, <2>2, <2>4, <2>5, <2>6, Zenon
<1>3. <<g>> \o <<>> = <<g>>
  <2>1. PICK q : q = <<g>>
    OBVIOUS
  <2>2. q \in Seq(S)
    BY <2>1
  <2>3. q \o <<>> = q
    BY <2>2, ConcatEmptySeq
  <2> QED
    BY <2>1, <2>3
<1>4. <<f, g>> \o <<>> = <<f, g>>
  <2>1. PICK q : q = <<f, g>>
    OBVIOUS
  <2>2. q \in Seq(S)
    BY <2>1
  <2>3. q \o <<>> = q
    BY <2>2, ConcatEmptySeq
  <2> QED
    BY <2>1, <2>3
<1>5. <<>> \o <<g>> \o <<>> = <<g>>
  BY <1>1, <1>3, Zenon
<1>6. <<f>> \o <<g>> \o <<>> = <<f, g>>
  BY <1>2, <1>4, Zenon
<1> QED
  BY <1>1, <1>2, <1>3, <1>4, <1>5, <1>6

LEMMA StackLen ==
  ASSUME NEW k \in Stacks, NEW r \in Proc
  PROVE  /\ k[r] \in Seq(Frame) /\ Len(k[r]) \in Nat /\ DOMAIN k[r] = 1..Len(k[r])
         /\ k[r] = <<>> <=> Len(k[r]) = 0
         /\ \A i \in DOMAIN k[r] : k[r][i] \in Frame
BY DEF Stacks

LEMMA TopIsFirst ==
  ASSUME NEW k \in Stacks, NEW r \in Proc, TopOf(k, r).at # "user"
  PROVE  k[r] # <<>> /\ TopOf(k, r) = k[r][1] /\ 1 \in DOMAIN k[r]
<1>1. k[r] \in Seq(Frame) /\ k[r] # <<>>
  BY DEF Stacks, TopOf, At
<1> QED
  BY <1>1 DEF TopOf

(* Where the current process is in a call of a port, that is all there is. *)
LEMMA PortTop ==
  ASSUME IInv, PortStacks, Top(curr).at \in PortPoints
  PROVE  /\ Len(kstack[curr]) = 1 /\ kstack[curr][1] = Top(curr)
         /\ kstack[curr] # <<>> /\ Tail(kstack[curr]) = <<>>
         /\ PortFrame(Top(curr)) /\ Top(curr).at \notin Loops
<1>1. kstack \in Stacks /\ curr \in Proc /\ TopOf(kstack, curr) = Top(curr)
      /\ Top(curr).at # "user" /\ Top(curr).at \notin Loops
  BY AnyStart, TopIsTopOf, PortPointsDiffer
<1>2. kstack[curr] \in Seq(Frame) /\ kstack[curr] # <<>> /\ Top(curr) = kstack[curr][1]
      /\ 1 \in DOMAIN kstack[curr]
  BY <1>1, StackLen, TopIsFirst
<1>3. Len(kstack[curr]) = 1 /\ PortFrame(kstack[curr][1])
  <2>1. PICK q : q = kstack[curr]
    OBVIOUS
  <2>2. ~Ordinary(q)
    BY <1>1, <1>2, <2>1 DEF Ordinary
  <2>3. q[1].at \notin {"sreset", "sdelete"}
    BY <1>1, <1>2, <2>1 DEF Loops
  <2>4. PortStack(q)
    BY <1>1, <2>1 DEF PortStacks
  <2>5. Len(q) = 1 /\ PortFrame(q[1])
    BY <2>2, <2>3, <2>4 DEF PortStack
  <2> QED
    BY <2>1, <2>5
<1>4. Tail(kstack[curr]) = <<>>
  BY <1>2, <1>3, TailOne
<1> QED
  BY <1>1, <1>2, <1>3, <1>4

LEMMA PortReturn ==
  ASSUME IInv, PortStacks, Top(curr).at \in PortPoints, Return
  PROVE  kstack' = [kstack EXCEPT ![curr] = <<>>]
BY PortTop DEF Return

LEMMA UserStack ==
  ASSUME IInv, InUser, NEW f \in Frame, Call(<<f>>)
  PROVE  kstack' = [kstack EXCEPT ![curr] = <<f>>]
<1>1. kstack[curr] = <<>>
  BY DEF InUser
<1>2. <<f>> \o <<>> = <<f>>
  BY ConcatEmptySeq
<1> QED
  BY <1>1, <1>2 DEF Call

LEMMA SetStack ==
  ASSUME NEW k \in Stacks, NEW c \in Proc, NEW q, NEW n, n = [k EXCEPT ![c] = q]
  PROVE  n[c] = q /\ \A r \in Proc \ {c} : n[r] = k[r]
BY DEF Stacks

LEMMA PsendEndIInv ==
  ASSUME IInv, PortStacks, PortTyped, PsendEnd
  PROVE  IInv'
<1> DEFINE p == Top(curr).arg
<1>1. Top(curr).at \in PortPoints /\ Return /\ UNCHANGED <<psem, nextsem>> /\ SameKernel
  BY DEF PsendEnd, PortPoints
<1>2. p \in Port
  BY <1>1, PortTop DEF PortFrame
<1>3. ports[p].ptrsem \in Sem \cup {SYSERR}
  BY <1>2, SemOfPort
<1>4. SignalPort(ports[p].ptrsem) \/ UNCHANGED <<sched, semaph>>
  BY DEF PsendEnd
<1> QED
  BY <1>1, <1>3, <1>4, SignalPortInv

LEMMA PreceiveEndIInv ==
  ASSUME IInv, PortStacks, PortTyped, PreceiveEnd
  PROVE  IInv'
<1> DEFINE p == Top(curr).arg
<1>1. Top(curr).at \in PortPoints /\ Return /\ UNCHANGED <<psem, nextsem>> /\ SameKernel
  BY DEF PreceiveEnd, PortPoints
<1>2. p \in Port
  BY <1>1, PortTop DEF PortFrame
<1>3. ports[p].ptssem \in Sem \cup {SYSERR}
  BY <1>2, SemOfPort
<1>4. SignalPort(ports[p].ptssem) \/ UNCHANGED <<sched, semaph>>
  BY DEF PreceiveEnd
<1> QED
  BY <1>1, <1>3, <1>4, SignalPortInv

LEMMA PtclearIInv ==
  ASSUME IInv, NEW p \in Port, NEW point \in Clearers, Ptclear(p, point)
  PROVE  IInv'
<1>1. InUser /\ Call(<<At(point, p, 1)>>) /\ UNCHANGED <<sched, semVars, clkVars, procVars>>
  BY DEF Ptclear, Calling, SameKernel
<1>2. point \in PortPoints /\ 1 \in Nat
  BY DEF Clearers, PortPoints
<1>3. Top(curr).at \notin Loops /\ kstack' \in Stacks /\ NoLoops(kstack')
  BY <1>1, <1>2, PortCallStack
<1> QED
  BY <1>1, <1>3, StackOnly

LEMMA PtclearEndIInv ==
  ASSUME IInv, PtclearEnd
  PROVE  IInv'
<1>1. /\ Top(curr).at \in PortPoints /\ Return
      /\ UNCHANGED <<sched, semVars, clkVars, procVars>>
  BY DEF PtclearEnd, SameKernel, PortPoints
<1>2. Top(curr).at \notin Loops /\ kstack' \in Stacks /\ NoLoops(kstack')
  BY <1>1, PortReturnStack
<1> QED
  BY <1>1, <1>2, StackOnly

(* The semaphore that comes next in ptclear, and the count it gets. *)
Ends      == {"psend", "preceive"}
Stage(pt) == IF pt = "psend" THEN 1 ELSE 2

SemOf(p, pt)      == IF pt = "psend" THEN ports[p].ptssem ELSE ports[p].ptrsem
StartCount(p, pt) == IF pt = "psend" THEN ports[p].ptmaxcnt ELSE 0

LEMMA SemOfFacts ==
  ASSUME PortTyped, NEW p \in Port, NEW pt \in Ends
  PROVE  /\ SemOf(p, pt) \in Sem \cup {SYSERR} /\ SemOf(p, pt) \in Int
         /\ StartCount(p, pt) \in Nat /\ Stage(pt) \in {1, 2}
         /\ SemOf(p, pt) # SYSERR => SemOf(p, pt) \in Sem
BY SemOfPort, PortIsInt DEF SemOf, StartCount, Stage

(* The three ways to go on with one of the semaphores. *)
ClearSem(pt) ==
  LET k == Top(curr)
      g == At(k.at, k.arg, k.cnt + 1)
      s == SemOf(k.arg, pt)
  IN  /\ k.at \in Clearers /\ k.cnt = Stage(pt)
      /\ g \in Frame
      /\ \/ /\ ~HasSem(s) /\ semaph' = semaph
            /\ kstack' = [kstack EXCEPT ![curr] = <<g>>]
         \/ /\ s \in Sem /\ isUsed(s) /\ k.at = "preset" /\ semaph' = semaph
            /\ At("sreset", s, StartCount(k.arg, pt)) \in Frame
            /\ kstack' = [kstack EXCEPT ![curr] = <<At("sreset", s, StartCount(k.arg, pt)), g>>]
         \/ /\ s \in Sem /\ isUsed(s) /\ k.at = "pdelete" /\ semaph[s].queue = <<>>
            /\ semaph' = [semaph EXCEPT ![s].sstate = "SFREE"]
            /\ kstack' = [kstack EXCEPT ![curr] = <<g>>]
         \/ /\ s \in Sem /\ isUsed(s) /\ k.at = "pdelete" /\ semaph[s].queue # <<>>
            /\ semaph' = [semaph EXCEPT ![s].sstate = "SFREE"]
            /\ At("sdelete", s, 0) \in Frame
            /\ kstack' = [kstack EXCEPT ![curr] = <<At("sdelete", s, 0), g>>]

LEMMA PtclearSemsCases ==
  ASSUME IInv, PortStacks, PortTyped, PtclearSems
  PROVE  \E pt \in Ends : ClearSem(pt)
<1> DEFINE k == Top(curr)
           g == At(k.at, k.arg, k.cnt + 1)
<1>1. k.at \in Clearers /\ k.cnt <= 2 /\ k.at \in PortPoints /\ k.at \in {"preset", "pdelete"}
  BY DEF PtclearSems, Clearers, PortPoints
<1>2. k.arg \in Port /\ k.cnt \in 1..3 /\ Tail(kstack[curr]) = <<>> /\ kstack \in Stacks
  BY <1>1, PortTop, AnyStart DEF PortFrame
<1>3. k.cnt = 1 \/ k.cnt = 2
  BY <1>1, <1>2
<1>4. PICK pt \in Ends : k.cnt = Stage(pt)
  BY <1>3 DEF Ends, Stage
<1> DEFINE s == SemOf(k.arg, pt)
           c == StartCount(k.arg, pt)
<1>5. /\ s = (IF k.cnt = 1 THEN ports[k.arg].ptssem ELSE ports[k.arg].ptrsem)
      /\ c = (IF k.cnt = 1 THEN ports[k.arg].ptmaxcnt ELSE 0)
  BY <1>3, <1>4 DEF Stage, SemOf, StartCount, Ends
<1>6. s \in Sem \cup {SYSERR} /\ c \in Nat
  BY <1>2, SemOfFacts
<1>7. g \in Frame
  BY <1>1, <1>2, PortFrameFacts
<1>8. ASSUME s \in Sem
      PROVE  At("sreset", s, c) \in Frame /\ At("sdelete", s, 0) \in Frame
  <2>1. "sreset" \in Points /\ "sdelete" \in Points
    BY DEF Points
  <2> HIDE DEF s, c
  <2>2. s \in Int /\ c \in Int /\ 0 \in Int /\ s \in Sem /\ c \in Nat
    BY <1>6, <1>8, PortIsInt
  <2>3. At("sreset", s, c) \in Frame
    BY <2>1, <2>2, FrameFacts
  <2>4. At("sdelete", s, 0) \in Frame
    BY <2>1, <2>2, FrameFacts
  <2> QED
    BY <2>3, <2>4
<1>9. ASSUME NEW fs, kstack' = [kstack EXCEPT ![curr] = fs \o <<g>> \o Tail(@)]
      PROVE  kstack' = [kstack EXCEPT ![curr] = fs \o <<g>> \o <<>>]
  BY <1>2, <1>9, Zenon
<1>10. ASSUME kstack' = [kstack EXCEPT ![curr] = <<>> \o <<g>> \o Tail(@)]
       PROVE  kstack' = [kstack EXCEPT ![curr] = <<g>>]
  <2>1. PICK h \in Frame : h = g
    BY <1>7
  <2>2. <<>> \o <<g>> \o <<>> = <<g>>
    <3>1. <<>> \o <<h>> \o <<>> = <<h>>
      BY TwoFrames
    <3> QED
      BY <2>1, <3>1
  <2>3. kstack' = [kstack EXCEPT ![curr] = <<>> \o <<g>> \o <<>>]
    BY <1>9, <1>10, Zenon
  <2> QED
    BY <2>2, <2>3, Zenon
<1>11. ASSUME NEW f \in Frame, kstack' = [kstack EXCEPT ![curr] = <<f>> \o <<g>> \o Tail(@)]
       PROVE  kstack' = [kstack EXCEPT ![curr] = <<f, g>>]
  <2>1. <<f>> \o <<g>> \o <<>> = <<f, g>>
    BY <1>7, TwoFrames, Zenon
  <2>2. kstack' = [kstack EXCEPT ![curr] = <<f>> \o <<g>> \o <<>>]
    BY <1>9, <1>11, Zenon
  <2> QED
    BY <2>1, <2>2, Zenon
<1>12. HasSem(s) => s \in Sem /\ isUsed(s)
  BY <1>6 DEF HasSem
<1>13. \/ /\ ~HasSem(s) /\ semaph' = semaph
          /\ kstack' = [kstack EXCEPT ![curr] = <<>> \o <<g>> \o Tail(@)]
       \/ /\ HasSem(s) /\ k.at = "preset" /\ semaph' = semaph
          /\ kstack' = [kstack EXCEPT ![curr] = <<At("sreset", s, c)>> \o <<g>> \o Tail(@)]
       \/ /\ HasSem(s) /\ k.at = "pdelete" /\ semaph[s].queue = <<>>
          /\ semaph' = [semaph EXCEPT ![s].sstate = "SFREE"]
          /\ kstack' = [kstack EXCEPT ![curr] = <<>> \o <<g>> \o Tail(@)]
       \/ /\ HasSem(s) /\ k.at = "pdelete" /\ semaph[s].queue # <<>>
          /\ semaph' = [semaph EXCEPT ![s].sstate = "SFREE"]
          /\ kstack' = [kstack EXCEPT ![curr] = <<At("sdelete", s, 0)>> \o <<g>> \o Tail(@)]
  <2> HIDE DEF s, c
  <2> QED
    BY <1>5 DEF PtclearSems
<1>14. ClearSem(pt)
  <2>1. CASE /\ ~HasSem(s) /\ semaph' = semaph
             /\ kstack' = [kstack EXCEPT ![curr] = <<>> \o <<g>> \o Tail(@)]
    <3>1. kstack' = [kstack EXCEPT ![curr] = <<g>>]
      BY <1>10, <2>1
    <3> QED
      BY <1>1, <1>4, <1>7, <2>1, <3>1 DEF ClearSem
  <2>2. CASE /\ HasSem(s) /\ k.at = "preset" /\ semaph' = semaph
             /\ kstack' = [kstack EXCEPT ![curr] = <<At("sreset", s, c)>> \o <<g>> \o Tail(@)]
    <3>1. At("sreset", s, c) \in Frame
      BY <1>8, <1>12, <2>2
    <3>2. kstack' = [kstack EXCEPT ![curr] = <<At("sreset", s, c), g>>]
      BY <1>11, <2>2, <3>1
    <3> QED
      BY <1>1, <1>4, <1>7, <1>12, <2>2, <3>1, <3>2 DEF ClearSem
  <2>3. CASE /\ HasSem(s) /\ k.at = "pdelete" /\ semaph[s].queue = <<>>
             /\ semaph' = [semaph EXCEPT ![s].sstate = "SFREE"]
             /\ kstack' = [kstack EXCEPT ![curr] = <<>> \o <<g>> \o Tail(@)]
    <3>1. kstack' = [kstack EXCEPT ![curr] = <<g>>]
      BY <1>10, <2>3
    <3> QED
      BY <1>1, <1>4, <1>7, <1>12, <2>3, <3>1 DEF ClearSem
  <2>4. CASE /\ HasSem(s) /\ k.at = "pdelete" /\ semaph[s].queue # <<>>
             /\ semaph' = [semaph EXCEPT ![s].sstate = "SFREE"]
             /\ kstack' = [kstack EXCEPT ![curr] = <<At("sdelete", s, 0)>> \o <<g>> \o Tail(@)]
    <3>1. At("sdelete", s, 0) \in Frame
      BY <1>8, <1>12, <2>4
    <3>2. kstack' = [kstack EXCEPT ![curr] = <<At("sdelete", s, 0), g>>]
      BY <1>11, <2>4, <3>1
    <3> QED
      BY <1>1, <1>4, <1>7, <1>12, <2>4, <3>1, <3>2 DEF ClearSem
  <2> QED
    BY <1>13, <2>1, <2>2, <2>3, <2>4
<1> QED
  BY <1>4, <1>14

(* The stack of the current process becomes fs. *)
LEMMA StackSet ==
  ASSUME IInv, Top(curr).at \notin Loops, NEW fs \in Seq(Frame), fs # <<>>,
         \A i \in DOMAIN fs : fs[i].at \in Loops => i = 1,
         kstack' = [kstack EXCEPT ![curr] = fs]
  PROVE  /\ kstack' \in Stacks /\ OnlyLoopAt(kstack', curr)
         /\ TopOf(kstack', curr) = fs[1]
         /\ fs[1].at \notin Loops => NoLoops(kstack')
<1>1. kstack \in Stacks /\ curr \in Proc /\ NoLoops(kstack)
  BY QuietStart
<1>2. kstack' \in Stacks
  BY <1>1 DEF Stacks
<1>3. kstack'[curr] = fs /\ \A r \in Proc \ {curr} : kstack'[r] = kstack[r]
  BY <1>1 DEF Stacks
<1>4. OnlyLoopAt(kstack', curr)
  BY <1>1, <1>3 DEF OnlyLoopAt, NoLoops
<1>5. Head(fs) = fs[1]
  OBVIOUS
<1>6. TopOf(kstack', curr) = fs[1]
  BY <1>3, <1>5 DEF TopOf
<1>7. ASSUME fs[1].at \notin Loops PROVE NoLoops(kstack')
  BY <1>1, <1>3, <1>7 DEF NoLoops
<1> QED
  BY <1>2, <1>4, <1>6, <1>7

LEMMA PtclearSemsIInv ==
  ASSUME IInv, PortStacks, PortTyped, PtclearSems
  PROVE  IInv'
<1> DEFINE k == Top(curr)
           g == At(k.at, k.arg, k.cnt + 1)
<1>1. PICK pt \in Ends : ClearSem(pt)
  BY PtclearSemsCases
<1> DEFINE s == SemOf(k.arg, pt)
           c == StartCount(k.arg, pt)
<1>2. /\ k.at \in PortPoints /\ k.at \notin Loops /\ g \in Frame /\ g.at = k.at
      /\ UNCHANGED <<sched, psem, nextsem, clkVars, procVars>>
  <2>1. k.at \in PortPoints
    BY DEF PtclearSems, PortPoints
  <2> QED
    BY <1>1, <2>1, PortPointsDiffer DEF PtclearSems, SameKernel, ClearSem, At
<1> HIDE DEF k, g
<1>3. ASSUME kstack' = [kstack EXCEPT ![curr] = <<g>>]
      PROVE  kstack' \in Stacks /\ NoLoops(kstack')
  <2>1. PICK fs : fs = <<g>>
    OBVIOUS
  <2>2. fs \in Seq(Frame) /\ fs # <<>> /\ fs[1] = g /\ DOMAIN fs = {1}
    BY <1>2, <2>1, OneSeq
  <2>3. kstack' = [kstack EXCEPT ![curr] = fs]
    BY <1>3, <2>1
  <2> QED
    BY <1>2, <2>2, <2>3, StackSet DEF k
<1>4. ASSUME NEW f \in Frame, kstack' = [kstack EXCEPT ![curr] = <<f, g>>]
      PROVE  kstack' \in Stacks /\ OnlyLoopAt(kstack', curr) /\ TopOf(kstack', curr) = f
  <2>1. PICK fs : fs = <<f, g>>
    OBVIOUS
  <2>2. fs \in Seq(Frame) /\ fs # <<>> /\ fs[1] = f /\ fs[2] = g /\ DOMAIN fs = {1, 2}
    BY <1>2, <2>1, TwoSeq
  <2>3. kstack' = [kstack EXCEPT ![curr] = fs]
    BY <1>4, <2>1
  <2>4. \A i \in DOMAIN fs : fs[i].at \in Loops => i = 1
    BY <1>2, <2>2
  <2> QED
    BY <1>2, <2>2, <2>3, <2>4, StackSet DEF k
<1>5. CASE semaph' = semaph /\ kstack' = [kstack EXCEPT ![curr] = <<g>>]
  <2>1. UNCHANGED <<sched, semVars, clkVars, procVars>>
    BY <1>2, <1>5 DEF semVars
  <2> QED
    BY <1>2, <1>3, <1>5, <2>1, StackOnly DEF k
<1>6. CASE /\ s \in Sem /\ isUsed(s) /\ semaph' = semaph /\ At("sreset", s, c) \in Frame
           /\ kstack' = [kstack EXCEPT ![curr] = <<At("sreset", s, c), g>>]
  <2>1. UNCHANGED <<sched, semVars, clkVars, procVars>>
    BY <1>2, <1>6 DEF semVars
  <2>2. PICK f \in Frame : f = At("sreset", s, c)
    BY <1>6
  <2>3. f.at = "sreset" /\ f.arg = s
    BY <2>2 DEF At
  <2>4. kstack' \in Stacks /\ OnlyLoopAt(kstack', curr) /\ TopOf(kstack', curr) = f
    BY <1>4, <1>6, <2>2
  <2> HIDE DEF s
  <2> QED
    BY <1>2, <1>6, <2>1, <2>3, <2>4, LoopStart DEF k
<1>7. CASE /\ s \in Sem /\ isUsed(s) /\ semaph[s].queue = <<>>
           /\ semaph' = [semaph EXCEPT ![s].sstate = "SFREE"]
           /\ kstack' = [kstack EXCEPT ![curr] = <<g>>]
  <2>1. kstack' \in Stacks /\ NoLoops(kstack')
    BY <1>3, <1>7
  <2>2. Top(curr).at \notin Loops
    BY <1>2 DEF k
  <2>3. /\ s \in Sem /\ semaph' = [semaph EXCEPT ![s].sstate = "SFREE"]
        /\ semaph[s].queue = <<>>
    BY <1>7, Zenon
  <2>4. UNCHANGED <<sched, psem, nextsem, clkVars, procVars>>
    BY <1>2
  <2> HIDE DEF s
  <2> QED
    BY <2>1, <2>2, <2>3, <2>4, FreeSemInv, Zenon
<1>8. CASE /\ s \in Sem /\ isUsed(s) /\ semaph[s].queue # <<>>
           /\ semaph' = [semaph EXCEPT ![s].sstate = "SFREE"]
           /\ At("sdelete", s, 0) \in Frame
           /\ kstack' = [kstack EXCEPT ![curr] = <<At("sdelete", s, 0), g>>]
  <2>1. PICK f \in Frame : f = At("sdelete", s, 0)
    BY <1>8
  <2>2. f.at = "sdelete" /\ f.arg = s
    BY <2>1 DEF At
  <2>3. kstack' \in Stacks /\ OnlyLoopAt(kstack', curr) /\ TopOf(kstack', curr) = f
    BY <1>4, <1>8, <2>1
  <2> HIDE DEF s
  <2> QED
    BY <1>2, <1>8, <2>2, <2>3, FreeSemInv DEF k
<1>9. \/ semaph' = semaph /\ kstack' = [kstack EXCEPT ![curr] = <<g>>]
      \/ /\ s \in Sem /\ isUsed(s) /\ semaph' = semaph /\ At("sreset", s, c) \in Frame
         /\ kstack' = [kstack EXCEPT ![curr] = <<At("sreset", s, c), g>>]
      \/ /\ s \in Sem /\ isUsed(s) /\ semaph[s].queue = <<>>
         /\ semaph' = [semaph EXCEPT ![s].sstate = "SFREE"]
         /\ kstack' = [kstack EXCEPT ![curr] = <<g>>]
      \/ /\ s \in Sem /\ isUsed(s) /\ semaph[s].queue # <<>>
         /\ semaph' = [semaph EXCEPT ![s].sstate = "SFREE"]
         /\ At("sdelete", s, 0) \in Frame
         /\ kstack' = [kstack EXCEPT ![curr] = <<At("sdelete", s, 0), g>>]
  <2> USE DEF k, g
  <2> HIDE DEF s, c
  <2> QED
    BY <1>1, Zenon DEF ClearSem, s, c
<1> QED
  BY <1>5, <1>6, <1>7, <1>8, <1>9

(***************************************************************************)
(* What the kernel's own steps do to the stacks.                           *)
(***************************************************************************)

SemLoops == {"signaln", "sreset", "sdelete"}

(* The calls of the application by which semaphore s is changed. *)
SemCalls(s) == \/ Wait(s) \/ Signal(s) \/ Sdelete(s)
               \/ \E n \in 0..MaxCount : Signaln(s, n) \/ Sreset(s, n)

(* A frame of a call the application can make of the kernel. *)
AppFrame(f) == f.at \notin PortPoints /\ (f.at \in SemLoops => SemCalls(f.arg))

SameFree == \A q \in Proc : sched'.pstate[q] = "PRFREE" <=> sched.pstate[q] = "PRFREE"

KernelStack ==
  \/ kstack' = kstack
  \/ Return /\ Top(curr).at \notin PortPoints \cup {"user"}
  \/ \E fs \in Seq(Frame) : /\ \A i \in DOMAIN fs : AppFrame(fs[i])
                            /\ Call(fs) /\ Top(curr).at \in {"user", "stopclk"}
  \/ \E f \in Frame : /\ f.at = "signaln" /\ f.arg = Top(curr).arg
                     /\ Goto(f) /\ Top(curr).at = "signaln"

LEMMA CallApp ==
  ASSUME NEW f \in Frame, AppFrame(f), Top(curr).at \in {"user", "stopclk"}, Call(<<f>>)
  PROVE  KernelStack
<1>1. PICK fs : fs = <<f>>
  OBVIOUS
<1>2. fs \in Seq(Frame) /\ DOMAIN fs = {1} /\ fs[1] = f
  BY <1>1, OneSeq
<1>3. Call(fs) /\ \A i \in DOMAIN fs : AppFrame(fs[i])
  BY <1>1, <1>2
<1> QED
  BY <1>2, <1>3 DEF KernelStack

LEMMA CallApps ==
  ASSUME NEW f \in Frame, NEW g \in Frame, AppFrame(f), AppFrame(g),
         Top(curr).at \in {"user", "stopclk"}, Call(<<f, g>>)
  PROVE  KernelStack
<1>1. PICK fs : fs = <<f, g>>
  OBVIOUS
<1>2. fs \in Seq(Frame) /\ DOMAIN fs = {1, 2} /\ fs[1] = f /\ fs[2] = g
  BY <1>1, TwoSeq
<1>3. Call(fs) /\ \A i \in DOMAIN fs : AppFrame(fs[i])
  BY <1>1, <1>2
<1> QED
  BY <1>2, <1>3 DEF KernelStack

LEMMA EasyStacks ==
  /\ kstack' = kstack => KernelStack
  /\ Return /\ Top(curr).at \notin PortPoints \cup {"user"} => KernelStack
BY Zenon DEF KernelStack

LEMMA GotoStack ==
  ASSUME NEW f \in Frame, f.at = "signaln", f.arg = Top(curr).arg, Goto(f),
         Top(curr).at = "signaln"
  PROVE  KernelStack
BY Zenon DEF KernelStack

LEMMA PlainFree == ASSUME PlainStep PROVE SameFree
BY DEF PlainStep, Plain, SameFree

LEMMA OtherPoints ==
  \A pt \in {"receive", "recvtim", "clkint", "strtclk", "stopclk", "wakeup", "kill",
             "signaln", "sreset", "sdelete"} :
    /\ pt \notin PortPoints \cup {"user"}
    /\ pt \notin SemLoops <=> pt \notin {"signaln", "sreset", "sdelete"}
BY DEF PortPoints, SemLoops

LEMMA SchedCallStack ==
  ASSUME IInv, GInv, SchedCall
  PROVE  KernelStack /\ SameFree
<1>1. kstack' = kstack
  BY DEF SchedCall, Suspend, Resume, Chprio
<1> QED
  BY <1>1, SchedCallPlain, PlainFree DEF KernelStack

LEMMA SemCallStack ==
  ASSUME IInv, GInv, SemCall
  PROVE  KernelStack /\ SameFree
<1>1. SUFFICES KernelStack
  BY SemCallPlain, PlainFree
<1>2. ASSUME NEW pt \in SemLoops, NEW s \in Sem, NEW n \in Nat, Calling(pt),
             SemCalls(s), Call(<<At(pt, s, n)>>)
      PROVE  KernelStack
  <2>1. PICK f : f = At(pt, s, n)
    OBVIOUS
  <2>2. f \in Frame /\ f.at = pt /\ f.arg = s
    <3>1. s \in Int /\ n \in Int /\ pt \in Points /\ pt # "kill"
      BY PortIsInt DEF SemLoops, Points
    <3> QED
      BY <2>1, <3>1, FrameFacts
  <2>3. pt \in Calls /\ InUser /\ Top(curr).at = "user"
    BY <1>2, InUserTop DEF Calling
  <2>4. pt \notin PortPoints
    BY DEF SemLoops, PortPoints
  <2>5. AppFrame(f)
    BY <1>2, <2>2, <2>3, <2>4 DEF AppFrame
  <2>6. Call(<<f>>)
    BY <1>2, <2>1
  <2> QED
    BY <2>2, <2>3, <2>5, <2>6, CallApp
<1>3. ASSUME NEW s \in Sem, Wait(s) \/ Signal(s) \/ Sdelete(s) PROVE KernelStack
  <2>1. CASE Wait(s) \/ Signal(s)
    BY <2>1 DEF Wait, Signal, KernelStack
  <2>2. CASE Sdelete(s)
    <3>1. kstack' = kstack \/ (Calling("sdelete") /\ Call(<<At("sdelete", s, 0)>>))
      BY <2>2 DEF Sdelete
    <3>2. "sdelete" \in SemLoops /\ 0 \in Nat /\ SemCalls(s)
      BY <2>2 DEF SemLoops, SemCalls
    <3> QED
      BY <1>2, <3>1, <3>2 DEF KernelStack
  <2> QED
    BY <1>3, <2>1, <2>2
<1>4. ASSUME NEW s \in Sem, NEW n \in 0..MaxCount, Signaln(s, n) \/ Sreset(s, n)
      PROVE  KernelStack
  <2>1. n \in Nat /\ "signaln" \in SemLoops /\ "sreset" \in SemLoops /\ SemCalls(s)
    BY <1>4, MaxCountAssumption DEF SemLoops, SemCalls
  <2> QED
    BY <1>2, <1>4, <2>1 DEF Signaln, Sreset
<1>5. ASSUME NEW n \in 0..MaxCount, Screate(n) PROVE KernelStack
  BY <1>5 DEF Screate, KernelStack
<1>6. CASE SignalnLoop
  <2> DEFINE s == Top(curr).arg
             n == Top(curr).cnt
  <2>1. Top(curr).at = "signaln" /\ Top(curr).at \notin PortPoints \cup {"user"}
    BY <1>6, OtherPoints DEF SignalnLoop
  <2>2. s \in Sem /\ n \in Nat /\ s \in Int /\ n \in Int
    BY <2>1, InCall, PortIsInt DEF Frame
  <2> HIDE DEF s, n
  <2>3. CASE n > 0 /\ Goto(At("signaln", s, n - 1))
    <3>1. PICK f : f = At("signaln", s, n - 1)
      OBVIOUS
    <3>2. n - 1 \in Nat /\ n - 1 \in Int
      BY <2>2, <2>3
    <3>3. "signaln" \in Points /\ "signaln" # "kill"
      BY DEF Points
    <3>4. f \in Frame /\ f.at = "signaln" /\ f.arg = s /\ s = Top(curr).arg
      BY <2>2, <3>1, <3>2, <3>3, FrameFacts DEF s
    <3> QED
      BY <2>1, <2>3, <3>1, <3>4, GotoStack
  <2>4. CASE Return
    BY <2>1, <2>4, EasyStacks
  <2> QED
    BY <1>6, <2>3, <2>4 DEF SignalnLoop, s, n
<1>7. CASE FlushLoop
  <2>1. Top(curr).at \notin PortPoints \cup {"user"}
    BY <1>7, OtherPoints DEF FlushLoop
  <2> QED
    BY <1>7, <2>1, EasyStacks DEF FlushLoop
<1> QED
  BY <1>3, <1>4, <1>5, <1>6, <1>7 DEF SemCall

(* The frames of the clock and of the calls of messages. *)
LEMMA AppFrames ==
  ASSUME NEW pt \in {"receive", "recvtim", "clkint", "strtclk", "stopclk", "wakeup"},
         NEW n \in Int
  PROVE  At(pt, 0, n) \in Frame /\ AppFrame(At(pt, 0, n))
<1>1. At(pt, 0, n) \in Frame /\ At(pt, 0, n).at = pt
  BY FrameAt
<1>2. pt \notin PortPoints /\ pt \notin SemLoops
  BY DEF PortPoints, SemLoops
<1> QED
  BY <1>1, <1>2 DEF AppFrame

LEMMA MsgCallStack ==
  ASSUME IInv, MsgCall
  PROVE  KernelStack /\ SameFree
<1>1. Core(sched) /\ curr \in Proc /\ sched.pstate[curr] = "PRCURR"
  BY AnyStart
<1>2. ASSUME NEW p \in Proc, NEW msg \in Msgs, Send(p, msg) PROVE KernelStack /\ SameFree
  <2>1. kstack' = kstack /\ Deliver(p, msg)
    BY <1>2 DEF Send
  <2> QED
    BY <2>1, DeliverMoves DEF KernelStack, SameFree
<1>3. ASSUME NEW p \in Proc, NEW msg \in Msgs, Sendf(p, msg) PROVE KernelStack /\ SameFree
  <2>1. kstack' = kstack
    BY <1>3 DEF Sendf
  <2>2. CASE sched.pstate[p] = "PRRECV" /\ sched' = Resched(Ready(sched, p))
    <3>1. sched.pstate[p] \notin Runnable /\ sched.pstate[p] # "PRFREE"
      BY <2>2 DEF Runnable
    <3>2. Moved(sched, sched', p, "RUN")
      BY <1>1, <2>2, <3>1, ReadyReschedStep
    <3>3. Class(sched'.pstate[p]) = "RUN"
          /\ \A q \in Proc \ {p} : Class(sched'.pstate[q]) = Class(sched.pstate[q])
      BY <3>2 DEF Moved
    <3>4. SameFree
      BY <3>1, <3>3, ClassPlain DEF SameFree
    <3> QED
      BY <2>1, <3>4 DEF KernelStack
  <2>3. CASE sched' = sched
    BY <2>1, <2>3 DEF KernelStack, SameFree
  <2> QED
    BY <1>3, <2>2, <2>3 DEF Sendf
<1>4. CASE Receive
  <2>1. PICK f : f = At("receive", 0, 0)
    OBVIOUS
  <2>2. f \in Frame /\ AppFrame(f)
    BY <2>1, AppFrames
  <2>3. Call(<<f>>) /\ Top(curr).at = "user" /\ curr # NULLPROC
    BY <1>4, <2>1, InUserTop DEF Receive, Calling
  <2>4. KernelStack
    BY <2>2, <2>3, CallApp
  <2>5. CASE sched' = Resched(Block(sched, curr, "PRRECV"))
    <3>1. "PRRECV" \in PRStates \ Runnable
      BY StatesDistinct
    <3>2. Moved(sched, sched', curr, "PRRECV")
      BY <1>1, <2>3, <2>5, <3>1, BlockReschedStep
    <3>3. Class(sched'.pstate[curr]) = "PRRECV"
          /\ \A q \in Proc \ {curr} : Class(sched'.pstate[q]) = Class(sched.pstate[q])
      BY <1>1, <3>2 DEF Moved
    <3>4. sched'.pstate[curr] # "PRFREE"
      BY <3>3, ClassPlain
    <3> QED
      BY <1>1, <2>4, <3>3, <3>4, ClassPlain DEF SameFree
  <2>6. CASE sched' = sched
    BY <2>4, <2>6 DEF SameFree
  <2> QED
    BY <1>4, <2>5, <2>6 DEF Receive
<1>5. CASE ReceiveEnd
  <2>1. Return /\ Top(curr).at \notin PortPoints \cup {"user"} /\ sched' = sched
    BY <1>5, OtherPoints DEF ReceiveEnd
  <2> QED
    BY <2>1 DEF KernelStack, SameFree
<1>6. CASE Recvclr
  BY <1>6 DEF Recvclr, KernelStack, SameFree
<1> QED
  BY <1>2, <1>3, <1>4, <1>5, <1>6 DEF MsgCall

LEMMA ClockCallStack ==
  ASSUME IInv, GInv, defclk \in 0..MaxDefer, ClockCall
  PROVE  KernelStack /\ SameFree
<1>1. SUFFICES KernelStack
  BY ClockCallPlain, PlainFree
<1>2. CASE ClkintEnd \/ StrtclkEnd \/ StopclkEnd
  <2>1. Return /\ Top(curr).at \notin PortPoints \cup {"user"}
    BY <1>2, OtherPoints DEF ClkintEnd, StrtclkEnd, StopclkEnd
  <2> QED
    BY <2>1, EasyStacks
<1>3. CASE Wakeup
  <2>1. Top(curr).at \notin PortPoints \cup {"user"} /\ (kstack' = kstack \/ Return)
    BY <1>3, OtherPoints DEF Wakeup
  <2> QED
    BY <2>1, EasyStacks
<1>4. CASE Stopclk
  <2>1. PICK f : f = At("stopclk", 0, defclk)
    OBVIOUS
  <2>2. f \in Frame /\ AppFrame(f)
    BY <2>1, AppFrames, DeferAssumption
  <2>3. Call(<<f>>) /\ Top(curr).at = "user"
    BY <1>4, <2>1, InUserTop DEF Stopclk, Calling
  <2> QED
    BY <2>2, <2>3, CallApp
<1>5. CASE Strtclk
  <2>1. PICK f, g : f = At("wakeup", 0, 0) /\ g = At("strtclk", 0, 0)
    OBVIOUS
  <2>2. f \in Frame /\ AppFrame(f) /\ g \in Frame /\ AppFrame(g)
    BY <2>1, AppFrames
  <2>3. Top(curr).at = "user" /\ (kstack' = kstack \/ Call(<<f, g>>) \/ Call(<<g>>))
    BY <1>5, <2>1, InUserTop DEF Strtclk, Calling
  <2> QED
    BY <2>2, <2>3, CallApp, CallApps, EasyStacks
<1> QED
  BY <1>2, <1>3, <1>4, <1>5 DEF ClockCall

LEMMA TimerStack ==
  ASSUME IInv, GInv, Tick \/ \E n \in Delays : SleepCall(n) \/ RecvtimCall(n)
  PROVE  KernelStack /\ SameFree
<1>1. CASE Tick
  <2>1. PICK f, g : f = At("wakeup", 0, 0) /\ g = At("clkint", 0, 0)
    OBVIOUS
  <2>2. f \in Frame /\ AppFrame(f) /\ g \in Frame /\ AppFrame(g)
    BY <2>1, AppFrames
  <2>3. Top(curr).at \in {"user", "stopclk"}
        /\ (kstack' = kstack \/ Call(<<f, g>>) \/ Call(<<g>>))
    BY <1>1, <2>1, InUserTop DEF Tick, Clkint, Interruptible
  <2>4. KernelStack
    BY <2>2, <2>3, CallApp, CallApps, EasyStacks
  <2> QED
    BY <1>1, <2>4, TickPlain, PlainFree
<1>2. ASSUME NEW n \in Delays, SleepCall(n) PROVE KernelStack /\ SameFree
  <2>1. kstack' = kstack
    BY <1>2 DEF SleepCall, Sleep10
  <2> QED
    BY <1>2, <2>1, SleepersPlain, PlainFree DEF KernelStack
<1>3. ASSUME NEW n \in Delays, RecvtimCall(n) PROVE KernelStack /\ SameFree
  <2>1. PICK f : f = At("recvtim", 0, 0)
    OBVIOUS
  <2>2. f \in Frame /\ AppFrame(f)
    BY <2>1, AppFrames
  <2>3. Call(<<f>>) /\ Top(curr).at = "user"
    BY <1>3, <2>1, InUserTop DEF RecvtimCall, Recvtim, Calling
  <2>4. KernelStack
    BY <2>2, <2>3, CallApp
  <2> QED
    BY <1>3, <2>4, SleepersPlain, PlainFree
<1> QED
  BY <1>1, <1>2, <1>3

(* create: a free entry is taken, and its stack is empty. *)
Taken == \E p \in Proc : /\ sched.pstate[p] = "PRFREE" /\ sched'.pstate[p] # "PRFREE"
                         /\ \A q \in Proc \ {p} : sched'.pstate[q] = sched.pstate[q]
                         /\ kstack' = [kstack EXCEPT ![p] = <<>>]

LEMMA ProcCallStack ==
  ASSUME IInv, GInv, ProcCall
  PROVE  (KernelStack /\ SameFree) \/ Taken \/ KillEnd
<1>1. ASSUME NEW prio \in Nat, NewProc(prio) PROVE (KernelStack /\ SameFree) \/ Taken
  <2>1. CASE UNCHANGED <<sched, kstack, numproc, phasmsg>>
    BY <2>1 DEF KernelStack, SameFree
  <2>2. ASSUME NEW p \in Proc \ {NULLPROC},
               sched.pstate[p] = "PRFREE" /\ sched'.pstate[p] = "PRSUSP",
               \A q \in Proc \ {p} : sched'.pstate[q] = sched.pstate[q],
               kstack' = [kstack EXCEPT ![p] = <<>>]
        PROVE  Taken
    BY <2>2 DEF Taken
  <2> QED
    BY <1>1, <2>1, <2>2, NewProcCases
<1>2. ASSUME NEW prio \in Prios \cup {0}, Create(prio) PROVE (KernelStack /\ SameFree) \/ Taken
  <2>1. prio \in Nat
    BY PriosAssumption
  <2> QED
    BY <1>1, <1>2, <2>1 DEF Create
<1>3. CASE NullCreate
  BY <1>1, <1>3 DEF NullCreate, INITPRIO
<1>4. CASE NullResume
  <2>1. NPROC - 1 \in Proc
    BY DEF Proc
  <2>2. kstack' = kstack /\ Resume(NPROC - 1)
    BY <1>4 DEF NullResume, Resume
  <2>3. Plain(sched, sched')
    BY <2>1, <2>2, ResumePlain
  <2> QED
    BY <2>2, <2>3 DEF KernelStack, Plain, SameFree
<1>5. ASSUME NEW p \in Proc, NEW nok \in Kin, Setnok(nok, p) PROVE KernelStack /\ SameFree
  BY <1>5 DEF Setnok, KernelStack, SameFree
<1>6. ASSUME NEW p \in Proc, Kill(p) PROVE KernelStack /\ SameFree
  <2>1. PICK f : f = At("kill", p, 0)
    OBVIOUS
  <2>2. f \in Frame /\ f.at = "kill"
    <3>1. p \in Int /\ p \in Proc \ {NULLPROC}
      BY <1>6, GoodPid DEF Kill, Proc
    <3>2. "kill" \in Points /\ "kill" \notin {"signaln", "sreset", "sdelete"}
      BY DEF Points
    <3> QED
      BY <2>1, <3>1, <3>2, FrameFacts
  <2>3. AppFrame(f)
    BY <2>2 DEF AppFrame, PortPoints, SemLoops
  <2>4. Call(<<f>>) /\ Top(curr).at = "user"
    BY <1>6, <2>1, InUserTop DEF Kill, Calling
  <2>5. KernelStack
    BY <2>2, <2>3, <2>4, CallApp
  <2>6. SameFree
    <3>1. CASE CanSend(pnxtkin[p])
      <4>1. pnxtkin[p] \in Proc
        BY <3>1, AnyStart DEF CanSend, isbadpid, PInv, BADPID
      <4>2. Deliver(pnxtkin[p], p)
        BY <1>6, <3>1 DEF Kill
      <4> QED
        BY <4>1, <4>2, DeliverMoves DEF SameFree
    <3>2. CASE ~CanSend(pnxtkin[p])
      BY <1>6, <3>2 DEF Kill, SameFree
    <3> QED
      BY <3>1, <3>2
  <2> QED
    BY <2>5, <2>6
<1> QED
  BY <1>2, <1>3, <1>4, <1>5, <1>6 DEF ProcCall

LEMMA KernelSteps ==
  ASSUME IInv, GInv, defclk \in 0..MaxDefer, Next
  PROVE  (KernelStack /\ SameFree) \/ Taken \/ KillEnd
BY SchedCallStack, SemCallStack, MsgCallStack, ClockCallStack, TimerStack, ProcCallStack
   DEF Next, Untimed

(***************************************************************************)
(* What a process is doing with a port.                                    *)
(***************************************************************************)

Idle      == At("user", 0, 0)
TaskOf(k) == IF Ordinary(k) THEN Idle ELSE k[Len(k)]

(* The call of a port that process r is in. *)
Task(r) == IF sched.pstate[r] = "PRFREE" THEN Idle ELSE TaskOf(kstack[r])

LEMMA IdleFacts == /\ Idle.at = "user" /\ Idle.at \notin PortPoints
                   /\ Idle.at \notin Ends /\ Idle.at \notin Clearers /\ Idle.at # "pcreate"
BY DEF Idle, At, PortPoints, Ends, Clearers

(* Two stacks that mean the same to the ports. *)
SameTask(k, n) == PortStack(n) /\ TaskOf(n) = TaskOf(k)

LEMMA PushTask ==
  ASSUME NEW k \in Seq(Frame), NEW fs \in Seq(Frame), Ordinary(k),
         \A i \in DOMAIN fs : fs[i].at \notin PortPoints
  PROVE  SameTask(k, fs \o k)
<1>1. PICK n : n = fs \o k
  OBVIOUS
<1>2. /\ n \in Seq(Frame) /\ Len(n) = Len(fs) + Len(k) /\ Len(fs) \in Nat /\ Len(k) \in Nat
      /\ DOMAIN n = 1..Len(n) /\ DOMAIN fs = 1..Len(fs) /\ DOMAIN k = 1..Len(k)
      /\ \A i \in 1..(Len(fs) + Len(k)) : n[i] = IF i <= Len(fs) THEN fs[i] ELSE k[i - Len(fs)]
  BY <1>1, ConcatProperties
<1>3. ASSUME NEW i \in DOMAIN n PROVE n[i].at \notin PortPoints
  <2>1. CASE i <= Len(fs)
    <3>1. i \in DOMAIN fs /\ n[i] = fs[i]
      BY <1>2, <2>1
    <3> QED
      BY <3>1
  <2>2. CASE ~(i <= Len(fs))
    <3>1. PICK j : j = i - Len(fs)
      OBVIOUS
    <3>2. j \in DOMAIN k /\ n[i] = k[j]
      BY <1>2, <2>2, <3>1
    <3> QED
      BY <1>2, <3>2 DEF Ordinary
  <2> QED
    BY <2>1, <2>2
<1>4. Ordinary(n)
  BY <1>3 DEF Ordinary
<1>5. SameTask(k, n)
  BY <1>4 DEF SameTask, PortStack, TaskOf
<1> QED
  BY <1>1, <1>5

LEMMA PopTask ==
  ASSUME NEW k \in Seq(Frame), k # <<>>, PortStack(k),
         k[1].at \notin PortPoints
  PROVE  SameTask(k, Tail(k))
<1>1. Len(k) \in Nat /\ DOMAIN k = 1..Len(k) /\ 1 \in DOMAIN k
  OBVIOUS
<1>2. PICK n : n = Tail(k)
  OBVIOUS
<1>3. n \in Seq(Frame) /\ Len(n) = Len(k) - 1 /\ DOMAIN n = 1..Len(n)
      /\ \A i \in 1..Len(n) : n[i] = k[i+1]
  BY <1>2, HeadTailProperties
<1>4. CASE Ordinary(k)
  <2>1. ASSUME NEW i \in DOMAIN n PROVE \E j \in DOMAIN k : n[i] = k[j]
    <3>1. i + 1 \in DOMAIN k /\ n[i] = k[i+1]
      BY <1>1, <1>3
    <3> QED
      BY <3>1
  <2>2. Ordinary(n)
    BY <1>4, <2>1 DEF Ordinary
  <2>3. SameTask(k, n)
    BY <1>4, <2>2 DEF SameTask, PortStack, TaskOf
  <2> QED
    BY <1>2, <2>3
<1>5. CASE ~Ordinary(k)
  <2>1. ~(Len(k) = 1 /\ PortFrame(k[1]))
    BY DEF PortFrame
  <2>2. Len(k) = 2 /\ PortFrame(k[2])
    BY <1>5, <2>1 DEF PortStack
  <2>3. Len(n) = 1 /\ n[1] = k[2] /\ 1 \in DOMAIN n
    <3>1. Len(n) = 1 /\ 1 \in 1..Len(n)
      BY <1>3, <2>2
    <3>2. n[1] = k[1+1] /\ 1 + 1 = 2
      BY <1>3, <3>1
    <3> QED
      BY <1>3, <3>1, <3>2
  <2>4. ~Ordinary(n) /\ PortStack(n)
    BY <2>2, <2>3 DEF Ordinary, PortStack, PortFrame
  <2>5. TaskOf(k) = k[2] /\ TaskOf(n) = n[1]
    BY <1>5, <2>2, <2>3, <2>4 DEF TaskOf
  <2>6. SameTask(k, n)
    BY <2>3, <2>4, <2>5 DEF SameTask
  <2> QED
    BY <1>2, <2>6
<1> QED
  BY <1>4, <1>5

(* A process in its own code, or in stopclk, is in no call of a port. *)
LEMMA UserOrdinary ==
  ASSUME NEW k \in Seq(Frame), PortStack(k), k = <<>> \/ k[1].at \in {"stopclk", "signaln"}
  PROVE  Ordinary(k)
<1>1. Len(k) \in Nat /\ DOMAIN k = 1..Len(k)
  OBVIOUS
<1>2. CASE k = <<>>
  BY <1>1, <1>2 DEF Ordinary
<1>3. CASE k[1].at \in {"stopclk", "signaln"}
  <2>1. ~PortFrame(k[1])
    BY <1>3 DEF PortFrame, PortPoints
  <2>2. k[1].at \notin {"sreset", "sdelete"}
    BY <1>3
  <2> QED
    BY <2>1, <2>2 DEF PortStack
<1> QED
  BY <1>2, <1>3

LEMMA KernelTaskOf ==
  ASSUME IInv, PortStacks, KernelStack, NEW r \in Proc
  PROVE  SameTask(kstack[r], kstack'[r])
<1>1. kstack \in Stacks /\ curr \in Proc /\ Top(curr) = TopOf(kstack, curr)
      /\ \A q \in Proc : kstack[q] \in Seq(Frame)
  BY AnyStart, TopIsTopOf DEF Stacks
<1>2. ASSUME NEW q \in Proc PROVE SameTask(kstack[q], kstack[q])
  BY DEF SameTask, PortStacks
<1>3. CASE kstack' = kstack
  BY <1>2, <1>3
<1>4. CASE Return /\ Top(curr).at \notin PortPoints \cup {"user"}
  <2>1. kstack[curr] # <<>> /\ Top(curr) = kstack[curr][1]
    BY <1>1, <1>4, TopIsFirst
  <2>2. SameTask(kstack[curr], Tail(kstack[curr]))
    BY <1>1, <1>4, <2>1, PopTask DEF PortStacks
  <2>3. kstack'[curr] = Tail(kstack[curr]) /\ \A q \in Proc \ {curr} : kstack'[q] = kstack[q]
    BY <1>1, <1>4 DEF Return, Stacks
  <2> QED
    BY <1>2, <2>2, <2>3
<1>5. ASSUME NEW fs \in Seq(Frame), \A i \in DOMAIN fs : AppFrame(fs[i]), Call(fs),
             Top(curr).at \in {"user", "stopclk"}
      PROVE  SameTask(kstack[r], kstack'[r])
  <2>1. kstack[curr] = <<>> \/ kstack[curr][1].at \in {"stopclk", "signaln"}
    <3>1. CASE Top(curr).at = "user"
      <4>1. Top(curr) \notin Frame
        BY <3>1 DEF Frame, Points
      <4>2. CASE kstack[curr] # <<>>
        BY <1>1, <4>1, <4>2 DEF TopOf
      <4> QED
        BY <4>2
    <3>2. CASE Top(curr).at = "stopclk"
      <4>1. Top(curr) = kstack[curr][1]
        BY <1>1, <3>2, TopIsFirst
      <4> QED
        BY <3>2, <4>1
    <3> QED
      BY <1>5, <3>1, <3>2
  <2>2. Ordinary(kstack[curr])
    BY <1>1, <2>1, UserOrdinary DEF PortStacks
  <2>3. SameTask(kstack[curr], fs \o kstack[curr])
    BY <1>1, <1>5, <2>2, PushTask DEF AppFrame
  <2>4. kstack'[curr] = fs \o kstack[curr] /\ \A q \in Proc \ {curr} : kstack'[q] = kstack[q]
    BY <1>1, <1>5 DEF Call, Stacks
  <2> QED
    BY <1>2, <2>3, <2>4
<1>6. ASSUME NEW f \in Frame, f.at = "signaln", Goto(f), Top(curr).at = "signaln"
      PROVE  SameTask(kstack[r], kstack'[r])
  <2>1. kstack[curr] # <<>> /\ Top(curr) = kstack[curr][1] /\ 1 \in DOMAIN kstack[curr]
    BY <1>1, <1>6, TopIsFirst
  <2>2. Ordinary(kstack[curr])
    BY <1>1, <1>6, <2>1, UserOrdinary DEF PortStacks
  <2>3. PICK t : t = Tail(kstack[curr])
    OBVIOUS
  <2>4. SameTask(kstack[curr], t)
    BY <1>1, <2>1, <2>2, <2>3, PopTask DEF PortStacks, Ordinary
  <2>5. t \in Seq(Frame) /\ Ordinary(t)
    <3>1. t \in Seq(Frame)
      BY <1>1, <2>1, <2>3, HeadTailProperties
    <3>2. ASSUME NEW i \in DOMAIN t PROVE t[i].at \notin PortPoints
      <4>1. /\ Len(t) = Len(kstack[curr]) - 1 /\ t[i] = kstack[curr][i+1]
            /\ i \in 1..Len(t) /\ Len(kstack[curr]) \in Nat
            /\ DOMAIN kstack[curr] = 1..Len(kstack[curr])
        BY <1>1, <2>1, <2>3, <3>1, HeadTailProperties
      <4>2. PICK j : j = i + 1
        OBVIOUS
      <4>3. j \in DOMAIN kstack[curr] /\ t[i] = kstack[curr][j]
        BY <4>1, <4>2
      <4> QED
        BY <2>2, <4>3 DEF Ordinary
    <3> QED
      BY <2>4, <3>1, <3>2 DEF SameTask, Ordinary
  <2>6. PICK fs : fs = <<f>>
    OBVIOUS
  <2>7. fs \in Seq(Frame) /\ \A i \in DOMAIN fs : fs[i].at \notin PortPoints
    <3>1. fs \in Seq(Frame) /\ DOMAIN fs = {1} /\ fs[1] = f
      BY <2>6, OneSeq
    <3>2. f.at \notin PortPoints
      BY <1>6 DEF PortPoints
    <3> QED
      BY <3>1, <3>2
  <2>8. SameTask(t, fs \o t)
    BY <2>5, <2>7, PushTask
  <2>9. SameTask(kstack[curr], fs \o t)
    BY <2>4, <2>8 DEF SameTask
  <2>10. kstack'[curr] = fs \o t /\ \A q \in Proc \ {curr} : kstack'[q] = kstack[q]
    BY <1>1, <1>6, <2>3, <2>6 DEF Goto, Stacks
  <2> QED
    BY <1>2, <2>9, <2>10
<1> QED
  BY <1>3, <1>4, <1>5, <1>6 DEF KernelStack

(* Nobody is killed; what the processes do with the ports stays the same,   *)
(* but for process c.                                                       *)
NoKill    == \A r \in Proc : sched.pstate[r] # "PRFREE" => sched'.pstate[r] # "PRFREE"
SameTasks == \A r \in Proc : Task(r)' = Task(r)
TaskStep(c, t) == \A r \in Proc : Task(r)' = IF r = c THEN t ELSE Task(r)

StacksInv == PortStacks

LEMMA SameFreeTasks ==
  ASSUME IInv, StacksInv, KernelStack, SameFree
  PROVE  StacksInv' /\ SameTasks /\ NoKill
<1>1. \A r \in Proc : SameTask(kstack[r], kstack'[r])
  BY KernelTaskOf DEF StacksInv
<1>2. StacksInv'
  BY <1>1 DEF SameTask, StacksInv, PortStacks
<1>3. SameTasks
  BY <1>1 DEF SameTask, SameTasks, Task, SameFree
<1>4. NoKill
  BY DEF NoKill, SameFree
<1> QED
  BY <1>2, <1>3, <1>4

LEMMA EmptyStack ==
  PortStack(<<>>) /\ TaskOf(<<>>) = Idle /\ Ordinary(<<>>)
<1>1. Ordinary(<<>>)
  BY DEF Ordinary
<1> QED
  BY <1>1 DEF PortStack, TaskOf

LEMMA TakenTasks ==
  ASSUME IInv, StacksInv, Taken
  PROVE  StacksInv' /\ SameTasks /\ NoKill
<1>1. PICK p \in Proc : /\ sched.pstate[p] = "PRFREE" /\ sched'.pstate[p] # "PRFREE"
                        /\ \A q \in Proc \ {p} : sched'.pstate[q] = sched.pstate[q]
                        /\ kstack' = [kstack EXCEPT ![p] = <<>>]
  BY DEF Taken
<1>2. kstack'[p] = <<>> /\ \A r \in Proc \ {p} : kstack'[r] = kstack[r]
  BY <1>1, AnyStart DEF Stacks
<1>3. StacksInv'
  BY <1>2, EmptyStack DEF StacksInv, PortStacks
<1>4. SameTasks
  BY <1>1, <1>2, EmptyStack DEF SameTasks, Task
<1>5. NoKill
  BY <1>1 DEF NoKill
<1> QED
  BY <1>3, <1>4, <1>5

LEMMA KillMoves ==
  ASSUME IInv, KillEnd, NEW p, p = Top(curr).arg
  PROVE  /\ p \in Proc /\ p # NULLPROC /\ Moved(sched, sched', p, "PRFREE")
         /\ sched'.pstate[p] = "PRFREE"
         /\ \A q \in Proc \ {p} : sched'.pstate[q] = "PRFREE" <=> sched.pstate[q] = "PRFREE"
<1> DEFINE st == sched.pstate[p]
<1>1. /\ Core(sched) /\ curr \in Proc /\ sched.pstate[curr] = "PRCURR"
      /\ Top(curr).at = "kill"
  BY AnyStart DEF KillEnd
<1>2. p \in Proc /\ p # NULLPROC
  BY <1>1, InCall DEF Frame
<1>3. /\ CASE st = "PRCURR"  -> sched' = Resched(Block(sched, p, "PRFREE"))
           [] st = "PRREADY" -> sched' = Unready(sched, p, "PRFREE")
           [] OTHER          -> sched' = Block(sched, p, "PRFREE")
  BY DEF KillEnd
<1>4. "PRFREE" \in PRStates \ Runnable
  BY DEF PRStates, Runnable
<1>5. Moved(sched, sched', p, "PRFREE")
  <2>1. CASE st = "PRCURR"
    <3>1. sched' = Resched(Block(sched, p, "PRFREE"))
      BY <1>3, <2>1
    <3> QED
      BY <1>1, <1>2, <1>4, <2>1, <3>1, BlockReschedStep
  <2>2. CASE st # "PRCURR"
    <3>1. p # sched.currpid
      BY <1>1, <2>2 DEF curr
    <3>2. sched' = IF sched.pstate[p] = "PRREADY" THEN Unready(sched, p, "PRFREE")
                   ELSE Block(sched, p, "PRFREE")
      BY <1>3, <2>2
    <3> QED
      BY <1>1, <1>2, <1>4, <3>1, <3>2, DropStep
  <2> QED
    BY <2>1, <2>2
<1>6. /\ sched'.pstate[p] = "PRFREE"
      /\ \A q \in Proc \ {p} : sched'.pstate[q] = "PRFREE" <=> sched.pstate[q] = "PRFREE"
  <2>1. Class(sched'.pstate[p]) = "PRFREE"
    BY <1>2, <1>5 DEF Moved
  <2>2. \A q \in Proc \ {p} : Class(sched'.pstate[q]) = Class(sched.pstate[q])
    BY <1>5 DEF Moved
  <2> QED
    BY <2>1, <2>2, ClassPlain
<1> QED
  BY <1>2, <1>5, <1>6

LEMMA KillEndTasks ==
  ASSUME IInv, StacksInv, KillEnd
  PROVE  StacksInv' /\ TaskStep(Top(curr).arg, Idle)
<1>1. PICK v : v = Top(curr).arg
  OBVIOUS
<1>2. /\ v \in Proc /\ sched'.pstate[v] = "PRFREE"
      /\ \A q \in Proc \ {v} : sched'.pstate[q] = "PRFREE" <=> sched.pstate[q] = "PRFREE"
  BY <1>1, KillMoves
<1>3. KernelStack
  <2>1. Return /\ Top(curr).at \notin PortPoints \cup {"user"}
    BY OtherPoints DEF KillEnd
  <2> QED
    BY <2>1, EasyStacks
<1>4. \A r \in Proc : SameTask(kstack[r], kstack'[r])
  BY <1>3, KernelTaskOf DEF StacksInv
<1>5. StacksInv'
  BY <1>4 DEF SameTask, StacksInv, PortStacks
<1>6. TaskStep(v, Idle)
  BY <1>2, <1>4 DEF SameTask, TaskStep, Task
<1> QED
  BY <1>1, <1>5, <1>6

(* A step of the kernel, for the ports. *)
LEMMA KernelTasks ==
  ASSUME IInv, GInv, defclk \in 0..MaxDefer, StacksInv, Next
  PROVE  StacksInv' /\ ((SameTasks /\ NoKill) \/ (KillEnd /\ TaskStep(Top(curr).arg, Idle)))
<1>1. CASE KernelStack /\ SameFree
  BY <1>1, SameFreeTasks
<1>2. CASE Taken
  BY <1>2, TakenTasks
<1>3. CASE KillEnd
  BY <1>3, KillEndTasks
<1> QED
  BY <1>1, <1>2, <1>3, KernelSteps

(* A step of a port: the current process has stack q from here on. *)
LEMMA PortTasks ==
  ASSUME IInv, StacksInv, NEW q \in Seq(Frame), PortStack(q),
         kstack' = [kstack EXCEPT ![curr] = q], SameFree
  PROVE  StacksInv' /\ TaskStep(curr, TaskOf(q)) /\ NoKill
<1>1. PICK c : c = curr
  OBVIOUS
<1>2. c \in Proc /\ kstack \in Stacks /\ sched.pstate[c] # "PRFREE"
  BY <1>1, AnyStart
<1>3. kstack'[c] = q /\ \A r \in Proc \ {c} : kstack'[r] = kstack[r]
  BY <1>1, <1>2 DEF Stacks
<1>4. StacksInv'
  BY <1>3 DEF StacksInv, PortStacks
<1>5. TaskStep(c, TaskOf(q))
  BY <1>2, <1>3 DEF TaskStep, Task, SameFree
<1>6. NoKill
  BY DEF NoKill, SameFree
<1> QED
  BY <1>1, <1>4, <1>5, <1>6

LEMMA TopTask ==
  ASSUME IInv, PortStacks, Top(curr).at \in PortPoints
  PROVE  Task(curr) = Top(curr) /\ PortFrame(Top(curr))
<1>1. /\ Len(kstack[curr]) = 1 /\ kstack[curr][1] = Top(curr) /\ PortFrame(Top(curr))
      /\ kstack \in Stacks /\ curr \in Proc /\ sched.pstate[curr] # "PRFREE"
  BY PortTop, AnyStart
<1>2. 1 \in DOMAIN kstack[curr]
  BY <1>1, StackLen
<1>3. ~Ordinary(kstack[curr])
  BY <1>1, <1>2 DEF Ordinary
<1> QED
  BY <1>1, <1>3 DEF Task, TaskOf

LEMMA UserTask ==
  ASSUME IInv, InUser
  PROVE  Task(curr) = Idle
BY EmptyStack DEF Task, InUser

(* Outside the calls of ports and the loops of semaphores. *)
LEMMA OneFrame ==
  ASSUME NEW f \in Frame, PortFrame(f), NEW q, q = <<f>>
  PROVE  q \in Seq(Frame) /\ PortStack(q) /\ TaskOf(q) = f
<1>1. q \in Seq(Frame) /\ Len(q) = 1 /\ q[1] = f /\ DOMAIN q = {1}
  BY OneSeq
<1>2. ~Ordinary(q)
  BY <1>1 DEF Ordinary, PortFrame
<1> QED
  BY <1>1, <1>2 DEF PortStack, TaskOf

LEMMA LoopFrame ==
  ASSUME NEW f \in Frame, NEW g \in Frame, PortFrame(g), g.at \in Clearers,
         f.at \in {"sreset", "sdelete"}, NEW q, q = <<f, g>>
  PROVE  q \in Seq(Frame) /\ PortStack(q) /\ TaskOf(q) = g
<1>1. q \in Seq(Frame) /\ Len(q) = 2 /\ q[1] = f /\ q[2] = g /\ DOMAIN q = {1, 2}
  BY TwoSeq
<1>2. ~Ordinary(q)
  BY <1>1 DEF Ordinary, PortFrame
<1> QED
  BY <1>1, <1>2 DEF PortStack, TaskOf

(* The kernel goes on only where the current process is in no call of a     *)
(* port, and in a loop that empties a queue only with that.                 *)
LEMMA NextTop ==
  ASSUME Next
  PROVE  FlushLoop \/ Top(curr).at \notin PortPoints \cup {"sreset", "sdelete"}
<1>1. InUser => Top(curr).at \notin PortPoints \cup {"sreset", "sdelete"}
  BY InUserTop DEF PortPoints
<1>2. Top(curr).at \in {"receive", "recvtim", "clkint", "strtclk", "stopclk", "wakeup", "kill",
                        "signaln"} => Top(curr).at \notin PortPoints \cup {"sreset", "sdelete"}
  BY DEF PortPoints
<1>3. SchedCall => InUser
  BY DEF SchedCall, Suspend, Chprio, Calling
<1>4. SemCall => InUser \/ Top(curr).at = "signaln" \/ FlushLoop
  BY DEF SemCall, Wait, Signal, Sdelete, Signaln, Sreset, Screate, SignalnLoop, Calling
<1>5. MsgCall => InUser \/ Top(curr).at \in {"receive", "recvtim"}
  BY DEF MsgCall, Send, Sendf, Receive, ReceiveEnd, Recvclr, Calling
<1>6. ClockCall => InUser \/ Top(curr).at \in {"clkint", "wakeup", "stopclk", "strtclk"}
  BY DEF ClockCall, ClkintEnd, Wakeup, Stopclk, StopclkEnd, Strtclk, StrtclkEnd, Calling
<1>7. ProcCall => InUser \/ Top(curr).at = "kill"
  BY DEF ProcCall, Create, NullCreate, NullResume, Setnok, Kill, KillEnd, Calling
<1>8. Tick => InUser \/ Top(curr).at = "stopclk"
  BY DEF Tick, Clkint, Interruptible
<1>9. ASSUME NEW n \in Delays, SleepCall(n) \/ RecvtimCall(n) PROVE InUser
  BY <1>9 DEF SleepCall, Sleep10, RecvtimCall, Recvtim, Calling
<1> QED
  BY <1>1, <1>2, <1>3, <1>4, <1>5, <1>6, <1>7, <1>8, <1>9 DEF Next, Untimed

(* A step of a port, as the kernel sees it: the current process has stack q *)
(* from here on.                                                            *)
PortMove(q) ==
  /\ q \in Seq(Frame) /\ PortStack(q)
  /\ \A i \in DOMAIN q : q[i].at \in PortPoints \cup {"sreset", "sdelete"}
  /\ kstack' = [kstack EXCEPT ![curr] = q]
  /\ Top(curr).at \notin Loops \cup Held

LEMMA PortKernel ==
  ASSUME KernelInv, IInv', SameKernel, Plain(sched, sched'), NEW q, PortMove(q)
  PROVE  KernelInv'
<1>1. /\ IInv /\ DInv /\ GInv /\ MInv /\ NInv /\ TInv /\ HInv
      /\ UNCHANGED <<clkVars, msgVars, procVars>> /\ Top(curr).at \notin Loops
      /\ Top(curr).at \notin Held
  BY DEF KernelInv, SameKernel, PortMove
<1>2. PICK c : c = curr
  OBVIOUS
<1>3. c \in Proc /\ kstack \in Stacks /\ NoLoops(kstack) /\ TopOf(kstack, c) = Top(curr)
  BY <1>1, <1>2, QuietStart, TopIsTopOf
<1>4. kstack'[c] = q /\ \A r \in Proc \ {c} : kstack'[r] = kstack[r]
  BY <1>2, <1>3 DEF Stacks, PortMove
<1>5. \A r \in Proc \ {c} : TopOf(kstack', r) = TopOf(kstack, r)
  BY <1>4 DEF TopOf
<1>6. TopOf(kstack', c).at \in PortPoints \cup {"sreset", "sdelete", "user"}
  <2>1. CASE q = <<>>
    BY <1>4, <2>1 DEF TopOf, At
  <2>2. CASE q # <<>>
    <3>1. 1 \in DOMAIN q /\ Head(q) = q[1]
      BY <2>2 DEF PortMove
    <3> QED
      BY <1>4, <2>2, <3>1 DEF TopOf, PortMove
  <2> QED
    BY <2>1, <2>2
<1>7. TopOf(kstack', c).at \notin Held /\ TopOf(kstack', c).at # "wakeup"
  BY <1>6 DEF PortPoints, Held
<1>8. GInv'
  <2>1. GoodStack(q)
    BY DEF PortMove, GoodStack, PortPoints, Held
  <2> QED
    BY <1>1, <1>4, <2>1 DEF GInv, GoodStacks
<1>9. SameHeld(kstack, kstack')
  BY <1>1, <1>3, <1>5, <1>7 DEF SameHeld
<1>10. NoWakeup(kstack')
  <2>1. \A r \in Proc : TopOf(kstack, r).at # "wakeup"
    BY <1>3, NoLoopsTop DEF Loops
  <2> QED
    BY <1>5, <1>7, <2>1 DEF NoWakeup
<1>11. GInv' /\ MInv' /\ NInv'
  <2>1. PlainStep
    BY <1>8, <1>9 DEF PlainStep
  <2>2. UNCHANGED msgVars /\ numproc' = numproc /\ boot' \in {"create", "resume", "idle"}
    BY <1>1 DEF procVars, NInv
  <2> QED
    BY <1>1, <2>1, <2>2, PlainInv3
<1>12. TInv' /\ DInv'
  BY <1>1 DEF TInv, DInv, clkVars
<1>13. HInv'
  <2>1. /\ clockq \in Seq(Entries(Proc)) /\ slnempty \in BOOLEAN /\ sltop \in Proc
        /\ Current(clockq, slnempty, sltop)
    BY <1>1, <1>3, <1>2 DEF HInv, Loops
  <2>2. clockq' = clockq /\ slnempty' = slnempty /\ sltop' = sltop
    BY <1>1 DEF clkVars
  <2> QED
    BY <1>10, <2>1, <2>2, QuietQueue
<1> QED
  BY <1>11, <1>12, <1>13 DEF KernelInv

LEMMA PlainIsFree == Plain(sched, sched') => SameFree
BY DEF Plain, SameFree

LEMMA CallMove ==
  ASSUME IInv, InUser, NEW pt \in PortPoints, NEW p \in Port, NEW n \in Nat,
         pt \in Clearers => n \in 1..3, Call(<<At(pt, p, n)>>)
  PROVE  \E q : PortMove(q) /\ TaskOf(q) = At(pt, p, n)
<1>1. PICK f : f = At(pt, p, n)
  OBVIOUS
<1>2. f \in Frame /\ PortFrame(f) /\ f.at = pt
  BY <1>1, PortFrameFacts DEF PortFrame
<1>3. PICK q : q = <<f>>
  OBVIOUS
<1>4. q \in Seq(Frame) /\ PortStack(q) /\ TaskOf(q) = f
  BY <1>2, <1>3, OneFrame
<1>5. q[1] = f /\ DOMAIN q = {1}
  BY <1>2, <1>3, OneSeq
<1>6. kstack' = [kstack EXCEPT ![curr] = q]
  <2>1. Call(<<f>>)
    BY <1>1
  <2> QED
    BY <1>2, <1>3, <2>1, UserStack
<1>7. Top(curr).at \notin Loops \cup Held
  BY InUserTop DEF Held
<1>8. PortMove(q)
  BY <1>2, <1>4, <1>5, <1>6, <1>7 DEF PortMove
<1> QED
  BY <1>1, <1>4, <1>8

LEMMA ReturnMove ==
  ASSUME IInv, PortStacks, Top(curr).at \in PortPoints, Return
  PROVE  PortMove(<<>>) /\ TaskOf(<<>>) = Idle
<1>1. kstack' = [kstack EXCEPT ![curr] = <<>>]
  BY PortReturn
<1>2. Top(curr).at \notin Loops \cup Held
  BY PortPointsDiffer
<1> QED
  BY <1>1, <1>2, EmptyStack DEF PortMove

LEMMA ClearMove ==
  ASSUME IInv, PortStacks, PortTyped, NEW pt \in Ends, ClearSem(pt)
  PROVE  \E q : PortMove(q) /\ TaskOf(q) = At(Top(curr).at, Top(curr).arg, Top(curr).cnt + 1)
<1>1. PICK g : g = At(Top(curr).at, Top(curr).arg, Top(curr).cnt + 1)
  OBVIOUS
<1>2. g \in Frame /\ g.at = Top(curr).at /\ g.arg = Top(curr).arg /\ g.cnt = Top(curr).cnt + 1
      /\ Top(curr).at \in Clearers /\ Top(curr).cnt = Stage(pt)
  BY <1>1 DEF ClearSem, At
<1>3. Top(curr).at \in PortPoints /\ Top(curr).at \notin Loops \cup Held
  BY <1>2, PortPointsDiffer DEF Clearers, PortPoints
<1>4. PortFrame(g) /\ g.at \in PortPoints /\ g.at \in Clearers
  <2>1. Top(curr).arg \in Port
    BY <1>3, PortTop DEF PortFrame
  <2>2. g.cnt \in 1..3
    BY <1>2 DEF Stage
  <2> QED
    BY <1>2, <1>3, <2>1, <2>2 DEF PortFrame
<1>5. CASE kstack' = [kstack EXCEPT ![curr] = <<g>>]
  <2>1. PICK q : q = <<g>>
    OBVIOUS
  <2>2. q \in Seq(Frame) /\ PortStack(q) /\ TaskOf(q) = g
    BY <1>2, <1>4, <2>1, OneFrame
  <2>3. q[1] = g /\ DOMAIN q = {1}
    BY <1>2, <2>1, OneSeq
  <2>4. PortMove(q)
    BY <1>3, <1>4, <1>5, <2>1, <2>2, <2>3 DEF PortMove
  <2> QED
    BY <1>1, <2>2, <2>4
<1>6. ASSUME NEW f \in Frame, f.at \in {"sreset", "sdelete"},
             kstack' = [kstack EXCEPT ![curr] = <<f, g>>]
      PROVE  \E q : PortMove(q) /\ TaskOf(q) = g
  <2>1. PICK q : q = <<f, g>>
    OBVIOUS
  <2>2. q \in Seq(Frame) /\ PortStack(q) /\ TaskOf(q) = g
    BY <1>2, <1>4, <1>6, <2>1, LoopFrame
  <2>3. q[1] = f /\ q[2] = g /\ DOMAIN q = {1, 2}
    BY <1>2, <2>1, TwoSeq
  <2>4. PortMove(q)
    BY <1>3, <1>4, <1>6, <2>1, <2>2, <2>3 DEF PortMove
  <2> QED
    BY <2>2, <2>4
<1>7. \/ kstack' = [kstack EXCEPT ![curr] = <<g>>]
      \/ \E f \in Frame : f.at \in {"sreset", "sdelete"}
                          /\ kstack' = [kstack EXCEPT ![curr] = <<f, g>>]
  <2> DEFINE s == SemOf(Top(curr).arg, pt)
             m == StartCount(Top(curr).arg, pt)
  <2>1. At("sreset", s, m).at = "sreset" /\ At("sdelete", s, 0).at = "sdelete"
    BY DEF At
  <2>2. \/ kstack' = [kstack EXCEPT ![curr] = <<g>>]
        \/ /\ At("sreset", s, m) \in Frame
           /\ kstack' = [kstack EXCEPT ![curr] = <<At("sreset", s, m), g>>]
        \/ /\ At("sdelete", s, 0) \in Frame
           /\ kstack' = [kstack EXCEPT ![curr] = <<At("sdelete", s, 0), g>>]
    <3> HIDE DEF s, m
    <3> QED
      BY <1>1, Zenon DEF ClearSem, s, m
  <2> HIDE DEF s, m
  <2>3. PICK a, b : a = At("sreset", s, m) /\ b = At("sdelete", s, 0)
    OBVIOUS
  <2>4. \/ kstack' = [kstack EXCEPT ![curr] = <<g>>]
        \/ a \in Frame /\ a.at = "sreset" /\ kstack' = [kstack EXCEPT ![curr] = <<a, g>>]
        \/ b \in Frame /\ b.at = "sdelete" /\ kstack' = [kstack EXCEPT ![curr] = <<b, g>>]
    BY <2>1, <2>2, <2>3, Zenon
  <2> QED
    BY <2>4
<1> QED
  BY <1>1, <1>5, <1>6, <1>7

(* What a step of a port does, apart from the port itself: the current      *)
(* process does t from here on.                                             *)
PortStep(t) == KernelInv' /\ StacksInv' /\ TaskStep(curr, t) /\ NoKill

LEMMA MoveStep ==
  ASSUME KernelInv, IInv', StacksInv, SameKernel, Plain(sched, sched'), NEW q, PortMove(q)
  PROVE  PortStep(TaskOf(q))
<1>1. KernelInv'
  BY PortKernel
<1>2. StacksInv' /\ TaskStep(curr, TaskOf(q)) /\ NoKill
  BY PlainIsFree, PortTasks DEF PortMove, KernelInv
<1> QED
  BY <1>1, <1>2 DEF PortStep

LEMMA MoveLoops ==
  ASSUME IInv, NEW q, PortMove(q), \A i \in DOMAIN q : q[i].at \in PortPoints
  PROVE  NoLoops(kstack')
<1>1. PICK c : c = curr
  OBVIOUS
<1>2. c \in Proc /\ kstack \in Stacks /\ NoLoops(kstack)
  BY <1>1, QuietStart DEF PortMove
<1>3. kstack'[c] = q /\ \A r \in Proc \ {c} : kstack'[r] = kstack[r]
  BY <1>1, <1>2 DEF Stacks, PortMove
<1> QED
  BY <1>2, <1>3, PortPointsDiffer DEF NoLoops

(* The call of a port from user code, and the return from it. *)
LEMMA CallStep ==
  ASSUME KernelInv, IInv', StacksInv, SameKernel, Plain(sched, sched'),
         InUser, NEW pt \in PortPoints, NEW p \in Port, NEW n \in Nat,
         pt \in Clearers => n \in 1..3, Call(<<At(pt, p, n)>>)
  PROVE  PortStep(At(pt, p, n)) /\ Task(curr) = Idle
<1>1. IInv
  BY DEF KernelInv
<1>2. PICK q : PortMove(q) /\ TaskOf(q) = At(pt, p, n)
  BY <1>1, CallMove
<1>3. PortStep(TaskOf(q))
  BY <1>2, MoveStep
<1> QED
  BY <1>1, <1>2, <1>3, UserTask

LEMMA ReturnStep ==
  ASSUME KernelInv, IInv', StacksInv, SameKernel, Plain(sched, sched'),
         Top(curr).at \in PortPoints, Return
  PROVE  PortStep(Idle) /\ Task(curr) = Top(curr) /\ PortFrame(Top(curr))
<1>1. IInv /\ PortStacks
  BY DEF KernelInv, StacksInv
<1>2. PortMove(<<>>) /\ TaskOf(<<>>) = Idle
  BY <1>1, ReturnMove
<1>3. PortStep(TaskOf(<<>>))
  BY <1>2, MoveStep
<1> QED
  BY <1>1, <1>2, <1>3, TopTask

LEMMA PcreateStep ==
  ASSUME KernelInv, StacksInv, PortTyped, NEW count \in Counts, Pcreate(count)
  PROVE  \E p \in Port, s \in Sem \cup {SYSERR} :
           /\ ports[p].ptstate = "PTFREE" /\ ports[p].ptseq < MaxSeq
           /\ ScreateResult(s, count) /\ ptnextp' \in Port /\ ptfree' = ptfree
           /\ ports' = [ports EXCEPT ![p].ptstate = "PTALLOC", ![p].ptssem = s,
                                     ![p].ptmaxcnt = count, ![p].queue = <<>>]
           /\ Task(curr) = Idle /\ PortStep(At("pcreate", p, 0))
           /\ sched' = sched
<1>1. IInv /\ count \in Nat
  BY CountsAssumption DEF KernelInv
<1>2. PICK i \in 0..(NPORTS - 1), s \in Sem \cup {SYSERR} :
        /\ ports[ProbePort(i)].ptstate = "PTFREE" /\ ports[ProbePort(i)].ptseq < MaxSeq
        /\ ptnextp' = ProbePort(i + 1)
        /\ ScreateResult(s, count)
        /\ ports' = [ports EXCEPT ![ProbePort(i)].ptstate = "PTALLOC",
                                  ![ProbePort(i)].ptssem = s,
                                  ![ProbePort(i)].ptmaxcnt = count,
                                  ![ProbePort(i)].queue = <<>>]
        /\ Call(<<At("pcreate", ProbePort(i), 0)>>)
  BY DEF Pcreate
<1>3. InUser /\ sched' = sched /\ SameKernel /\ ptfree' = ptfree
  BY DEF Pcreate, Calling
<1>4. ProbePort(i) \in Port /\ ProbePort(i + 1) \in Port
  BY ProbePortFacts DEF PortTyped
<1>5. PICK p \in Port : p = ProbePort(i)
  BY <1>4
<1>6. PortStep(At("pcreate", p, 0)) /\ Task(curr) = Idle
  <2>1. "pcreate" \in PortPoints /\ "pcreate" \notin Clearers /\ 0 \in Nat
    BY DEF PortPoints, Clearers
  <2>2. IInv'
    BY <1>1, PcreateIInv
  <2>3. Plain(sched, sched')
    BY <1>3, SamePlain
  <2>4. Call(<<At("pcreate", p, 0)>>)
    BY <1>2, <1>5
  <2> QED
    BY <1>3, <2>1, <2>2, <2>3, <2>4, CallStep
<1>7. ports' = [ports EXCEPT ![p].ptstate = "PTALLOC", ![p].ptssem = s,
                             ![p].ptmaxcnt = count, ![p].queue = <<>>]
  BY <1>2, <1>5, Zenon
<1>8. ports[p].ptstate = "PTFREE" /\ ports[p].ptseq < MaxSeq /\ ptnextp' \in Port
  BY <1>2, <1>4, <1>5
<1>9. ScreateResult(s, count)
  BY <1>2
<1> QED
  BY <1>3, <1>6, <1>7, <1>8, <1>9

LEMMA PcreateEndStep ==
  ASSUME KernelInv, StacksInv, PortTyped, PcreateEnd
  PROVE  \E p \in Port, s \in Sem \cup {SYSERR} :
           /\ ScreateResult(s, 0) /\ UNCHANGED <<ptnextp, ptfree, sched>>
           /\ ports' = [ports EXCEPT ![p].ptrsem = s, ![p].ptseq = @ + 1]
           /\ Task(curr) = Top(curr) /\ Top(curr).at = "pcreate" /\ Top(curr).arg = p
           /\ PortStep(Idle)
<1>1. IInv
  BY DEF KernelInv
<1>2. PICK p : p = Top(curr).arg
  OBVIOUS
<1>3. PICK s \in Sem \cup {SYSERR} :
        /\ ScreateResult(s, 0)
        /\ ports' = [ports EXCEPT ![p].ptrsem = s, ![p].ptseq = @ + 1]
  BY <1>2 DEF PcreateEnd
<1>4. /\ Top(curr).at = "pcreate" /\ Top(curr).at \in PortPoints /\ Return
      /\ UNCHANGED <<ptnextp, ptfree, sched>> /\ SameKernel
  BY DEF PcreateEnd, PortPoints
<1>5. PortStep(Idle) /\ Task(curr) = Top(curr) /\ PortFrame(Top(curr))
  <2>1. IInv'
    BY <1>1, PcreateEndIInv
  <2>2. Plain(sched, sched')
    BY <1>4, SamePlain
  <2> QED
    BY <1>4, <2>1, <2>2, ReturnStep
<1>6. p \in Port
  BY <1>2, <1>5 DEF PortFrame
<1> QED
  BY <1>2, <1>3, <1>4, <1>5, <1>6

LEMMA WaitInPortStep ==
  ASSUME KernelInv, StacksInv, PortTyped, NEW p \in Port, NEW pt \in Ends, Calling(pt),
         WaitInPort(p, SemOf(p, pt), pt)
  PROVE  /\ ports[p].ptstate = "PTALLOC" /\ SemOf(p, pt) \in Sem /\ isUsed(SemOf(p, pt))
         /\ WaitOn(SemOf(p, pt)) /\ UNCHANGED portVars
         /\ Task(curr) = Idle /\ PortStep(At(pt, p, ports[p].ptseq))
<1>1. IInv
  BY DEF KernelInv
<1>2. PICK s : s = SemOf(p, pt)
  OBVIOUS
<1>3. /\ ports[p].ptstate = "PTALLOC" /\ s \in Sem /\ isUsed(s) /\ WaitOn(s)
      /\ UNCHANGED portVars /\ SameKernel /\ Call(<<At(pt, p, ports[p].ptseq)>>)
      /\ InUser /\ curr # NULLPROC
  BY <1>2, SemOfFacts DEF WaitInPort, HasSem, Calling
<1>4. pt \in PortPoints /\ pt \notin Clearers /\ ports[p].ptseq \in Nat
  BY SemOfPort DEF Ends, PortPoints, Clearers
<1>5. IInv'
  BY <1>1, <1>2, <1>3, <1>4, WaitInPortIInv
<1>6. Plain(sched, sched')
  <2>1. CASE sched' = Resched(Block(sched, curr, "PRWAIT"))
    BY <1>1, <1>3, <2>1, AnyStart, BlockPlain
  <2>2. CASE sched' = sched
    BY <2>2, SamePlain
  <2> QED
    BY <1>3, <2>1, <2>2 DEF WaitOn
<1>7. PortStep(At(pt, p, ports[p].ptseq)) /\ Task(curr) = Idle
  BY <1>3, <1>4, <1>5, <1>6, CallStep
<1> QED
  BY <1>2, <1>3, <1>7

LEMMA SignalPlain ==
  ASSUME IInv, Top(curr).at \in PortPoints, NEW s \in Sem \cup {SYSERR},
         SignalPort(s) \/ UNCHANGED <<sched, semaph>>
  PROVE  Plain(sched, sched')
<1>1. CASE sched' = sched
  BY <1>1, SamePlain
<1>2. CASE /\ HasSem(s) /\ semaph[s].semcnt < 0
           /\ sched' = Resched(Ready(sched, Head(semaph[s].queue)))
  <2>1. s \in Sem /\ isUsed(s)
    BY <1>2 DEF HasSem
  <2>2. CountMatches(semaph[s]) /\ SemTyped(semaph, psem, nextsem)
    BY <2>1, QuietStart, PortPointsDiffer
  <2>3. semaph[s].queue # <<>>
    BY <1>2, <2>1, <2>2, SemFacts DEF CountMatches, isUsed
  <2> QED
    BY <1>2, <2>1, <2>3, ReleasePlain
<1> QED
  BY <1>1, <1>2 DEF SignalPort, SignalOnce

LEMMA EndStep ==
  ASSUME KernelInv, StacksInv, PortTyped, PsendEnd \/ PreceiveEnd
  PROVE  /\ PortStep(Idle) /\ Task(curr) = Top(curr) /\ PortFrame(Top(curr))
         /\ Top(curr).at \in Ends
<1>1. IInv /\ PortStacks
  BY DEF KernelInv, StacksInv
<1>2. /\ Top(curr).at \in PortPoints /\ Top(curr).at \in Ends /\ Return /\ SameKernel
  BY DEF PsendEnd, PreceiveEnd, PortPoints, Ends
<1>3. PICK p \in Port : p = Top(curr).arg
  BY <1>1, <1>2, PortTop DEF PortFrame
<1>4. ports[p].ptrsem \in Sem \cup {SYSERR} /\ ports[p].ptssem \in Sem \cup {SYSERR}
  BY SemOfPort
<1>5. \E s \in Sem \cup {SYSERR} : SignalPort(s) \/ UNCHANGED <<sched, semaph>>
  BY <1>3, <1>4 DEF PsendEnd, PreceiveEnd
<1>6. Plain(sched, sched')
  BY <1>1, <1>2, <1>5, SignalPlain
<1>7. IInv'
  BY <1>1, PsendEndIInv, PreceiveEndIInv
<1> QED
  BY <1>2, <1>6, <1>7, ReturnStep

LEMMA PtclearStep ==
  ASSUME KernelInv, StacksInv, PortTyped, NEW p \in Port, NEW point \in Clearers,
         Ptclear(p, point)
  PROVE  Task(curr) = Idle /\ PortStep(At(point, p, 1))
<1>1. IInv
  BY DEF KernelInv
<1>2. InUser /\ Call(<<At(point, p, 1)>>) /\ sched' = sched /\ SameKernel
  BY DEF Ptclear, Calling
<1>3. point \in PortPoints /\ 1 \in Nat /\ 1 \in 1..3
  BY DEF Clearers, PortPoints
<1>4. IInv'
  BY <1>1, PtclearIInv
<1>5. Plain(sched, sched')
  BY <1>2, SamePlain
<1> QED
  BY <1>2, <1>3, <1>4, <1>5, CallStep

LEMMA PtclearSemsStep ==
  ASSUME KernelInv, StacksInv, PortTyped, PtclearSems
  PROVE  /\ Task(curr) = Top(curr) /\ PortFrame(Top(curr)) /\ Top(curr).at \in Clearers
         /\ UNCHANGED <<sched, psem, nextsem, portVars>>
         /\ PortStep(At(Top(curr).at, Top(curr).arg, Top(curr).cnt + 1))
         /\ \E pt \in Ends : ClearSem(pt)
<1>1. IInv /\ PortStacks
  BY DEF KernelInv, StacksInv
<1>2. PICK pt \in Ends : ClearSem(pt)
  BY <1>1, PtclearSemsCases
<1>3. /\ Top(curr).at \in PortPoints /\ Top(curr).at \in Clearers /\ SameKernel
      /\ UNCHANGED <<sched, psem, nextsem, portVars>>
  BY DEF PtclearSems, PortPoints, Clearers
<1>4. PICK q : PortMove(q) /\ TaskOf(q) = At(Top(curr).at, Top(curr).arg, Top(curr).cnt + 1)
  BY <1>1, <1>2, ClearMove
<1>5. IInv'
  BY <1>1, PtclearSemsIInv
<1>6. Plain(sched, sched')
  BY <1>3, SamePlain
<1>7. PortStep(TaskOf(q))
  BY <1>3, <1>4, <1>5, <1>6, MoveStep
<1> QED
  BY <1>1, <1>2, <1>3, <1>4, <1>7, TopTask

LEMMA PtclearEndStep ==
  ASSUME KernelInv, StacksInv, PortTyped, PtclearEnd
  PROVE  /\ Task(curr) = Top(curr) /\ PortFrame(Top(curr)) /\ Top(curr).at \in Clearers
         /\ PortStep(Idle)
<1>1. IInv
  BY DEF KernelInv
<1>2. /\ Top(curr).at \in PortPoints /\ Top(curr).at \in Clearers /\ Return /\ SameKernel
      /\ sched' = sched
  BY DEF PtclearEnd, PortPoints, Clearers
<1>3. IInv'
  BY <1>1, PtclearEndIInv
<1>4. Plain(sched, sched')
  BY <1>2, SamePlain
<1> QED
  BY <1>2, <1>3, <1>4, ReturnStep

(* A step of the kernel. *)
LEMMA NextStep ==
  ASSUME KernelInv, StacksInv, Next
  PROVE  /\ KernelInv' /\ StacksInv'
         /\ (SameTasks /\ NoKill) \/ (KillEnd /\ TaskStep(Top(curr).arg, Idle))
<1>1. KernelInv'
  BY KernelNext
<1>2. StacksInv' /\ ((SameTasks /\ NoKill) \/ (KillEnd /\ TaskStep(Top(curr).arg, Idle)))
  BY KernelTasks DEF KernelInv, TInv
<1> QED
  BY <1>1, <1>2

(***************************************************************************)
(* The ports and the processes in their calls.                             *)
(***************************************************************************)

Creates(r, p) == Task(r).at = "pcreate" /\ Task(r).arg = p
Clears(r, p)  == Task(r).at \in Clearers /\ Task(r).arg = p

Creating(p) == \E r \in Proc : Creates(r, p)
Made(p)     == ports[p].ptstate = "PTALLOC" /\ ~Creating(p)

(* Whoever is in a call of a port has the port's state and number to go by. *)
CreatorInv ==
  \A r \in Proc : Task(r).at = "pcreate" =>
     r = curr /\ ports[Task(r).arg].ptstate = "PTALLOC" /\ ports[Task(r).arg].ptseq < MaxSeq

UserInv ==
  \A r \in Proc, p \in Port : Task(r).at \in Ends /\ Task(r).arg = p =>
     /\ Task(r).cnt <= ports[p].ptseq
     /\ Task(r).cnt = ports[p].ptseq => Made(p)

ClearerInv ==
  /\ \A r \in Proc : Task(r).at \in Clearers => ports[Task(r).arg].ptstate = "PTLIMBO"
  /\ \A r, q \in Proc, p \in Port : Clears(r, p) /\ Clears(q, p) => r = q

TaskInv == CreatorInv /\ UserInv /\ ClearerInv

LEMMA TaskFrames ==
  ASSUME StacksInv, IInv, NEW r \in Proc, Task(r).at \in PortPoints
  PROVE  PortFrame(Task(r))
<1>1. kstack[r] \in Seq(Frame) /\ PortStack(kstack[r])
  BY AnyStart DEF StacksInv, PortStacks, Stacks
<1>2. ~Ordinary(kstack[r]) /\ Task(r) = kstack[r][Len(kstack[r])]
  BY IdleFacts DEF Task, TaskOf
<1> QED
  BY <1>1, <1>2 DEF PortStack

(* A step at port p by process c, which does t from here on. *)
LEMMA TaskPort ==
  ASSUME TaskInv, StacksInv, IInv, PortTyped, NEW c \in Proc, c = curr, NEW t, TaskStep(c, t),
         NEW p \in Port, ports' \in [Port -> PortRec],
         \A q \in Port \ {p} : ports'[q] = ports[q],
         Task(c).at = "pcreate" => Task(c).arg = p,
         t.at \in PortPoints => t.arg = p,
         t.at = "pcreate" => curr' = c /\ ports'[p].ptstate = "PTALLOC" /\ ports'[p].ptseq < MaxSeq,
         t.at \in Ends => /\ t.cnt <= ports'[p].ptseq
                          /\ t.cnt = ports'[p].ptseq => Made(p)',
         t.at \in Clearers => ports'[p].ptstate = "PTLIMBO",
         \A r \in Proc \ {c} : Clears(r, p) => ports'[p].ptstate = "PTLIMBO" /\ t.at \notin Clearers,
         ports'[p].ptseq > ports[p].ptseq \/ (ports'[p].ptseq = ports[p].ptseq /\ (Made(p) => Made(p)'))
  PROVE  TaskInv'
<1>1. Task(c)' = t /\ \A r \in Proc \ {c} : Task(r)' = Task(r)
  BY DEF TaskStep
<1>2. \A r \in Proc \ {c} : Task(r).at # "pcreate"
  BY DEF TaskInv, CreatorInv
<1>3. \A r \in Proc : Task(r).at \in PortPoints => Task(r).arg \in Port /\ Task(r).cnt \in Nat
  BY TaskFrames DEF PortFrame
<1>4. "pcreate" \in PortPoints /\ Ends \subseteq PortPoints /\ Clearers \subseteq PortPoints
  BY DEF PortPoints, Ends, Clearers
<1>5. ASSUME NEW q \in Port \ {p} PROVE Made(q)' <=> Made(q)
  <2>1. ~Creating(q)
    BY <1>2, <1>5 DEF Creating, Creates
  <2>2. ~Creating(q)'
    BY <1>1, <1>2, <1>4, <1>5 DEF Creating, Creates
  <2> QED
    BY <1>5, <2>1, <2>2 DEF Made
<1>6. CreatorInv'
  <2> SUFFICES ASSUME NEW r \in Proc, Task(r)'.at = "pcreate"
               PROVE  r = curr' /\ ports'[Task(r)'.arg].ptstate = "PTALLOC"
                      /\ ports'[Task(r)'.arg].ptseq < MaxSeq
    BY DEF CreatorInv
  <2>1. r = c /\ Task(r)' = t
    BY <1>1, <1>2
  <2> QED
    BY <1>4, <2>1
<1>7. UserInv'
  <2> SUFFICES ASSUME NEW r \in Proc, NEW q \in Port, Task(r)'.at \in Ends, Task(r)'.arg = q
               PROVE  /\ Task(r)'.cnt <= ports'[q].ptseq
                      /\ Task(r)'.cnt = ports'[q].ptseq => Made(q)'
    BY DEF UserInv
  <2>1. CASE r = c
    <3>1. Task(r)' = t
      BY <1>1, <2>1
    <3>2. q = p
      BY <1>4, <3>1
    <3> QED
      BY <3>1, <3>2
  <2>2. CASE r # c
    <3>1. /\ Task(r)' = Task(r) /\ Task(r).cnt \in Nat
          /\ Task(r).cnt <= ports[q].ptseq /\ (Task(r).cnt = ports[q].ptseq => Made(q))
      BY <1>1, <1>3, <1>4, <2>2 DEF TaskInv, UserInv
    <3>2. ports[q].ptseq \in Nat /\ ports'[q].ptseq \in Nat
      BY SemOfPort DEF PortRec
    <3>3. CASE q # p
      BY <1>5, <3>1, <3>3
    <3>4. CASE q = p
      BY <3>1, <3>2, <3>4
    <3> QED
      BY <3>3, <3>4
  <2> QED
    BY <2>1, <2>2
<1>8. ASSUME NEW r \in Proc, NEW q \in Port, Clears(r, q)'
      PROVE  IF r = c THEN t.at \in Clearers /\ q = p ELSE Clears(r, q)
  BY <1>1, <1>4, <1>8 DEF Clears
<1>9. ClearerInv'
  <2>1. ASSUME NEW r \in Proc, Task(r)'.at \in Clearers
        PROVE  ports'[Task(r)'.arg].ptstate = "PTLIMBO"
    <3>1. CASE r = c
      BY <1>1, <1>4, <2>1, <3>1
    <3>2. CASE r # c
      <4>1. PICK q : q = Task(r).arg
        OBVIOUS
      <4>2. q \in Port /\ ports[q].ptstate = "PTLIMBO" /\ Task(r)' = Task(r) /\ Clears(r, q)
        BY <1>1, <1>3, <1>4, <2>1, <3>2, <4>1 DEF TaskInv, ClearerInv, Clears
      <4> QED
        BY <3>2, <4>1, <4>2
    <3> QED
      BY <3>1, <3>2
  <2>2. ASSUME NEW r \in Proc, NEW x \in Proc, NEW q \in Port, Clears(r, q)', Clears(x, q)'
        PROVE  r = x
    <3>1. IF r = c THEN t.at \in Clearers /\ q = p ELSE Clears(r, q)
      BY <1>8, <2>2
    <3>2. IF x = c THEN t.at \in Clearers /\ q = p ELSE Clears(x, q)
      BY <1>8, <2>2
    <3>3. CASE r # c /\ x # c
      BY <3>1, <3>2, <3>3 DEF TaskInv, ClearerInv
    <3>4. CASE r = c \/ x = c
      BY <3>1, <3>2, <3>4
    <3> QED
      BY <3>3, <3>4
  <2> QED
    BY <2>1, <2>2 DEF ClearerInv
<1> QED
  BY <1>6, <1>7, <1>9 DEF TaskInv

(* A step of the kernel, which at most takes a process away. *)
TasksShrink == \A r \in Proc : Task(r)' = Task(r) \/ Task(r)' = Idle

LEMMA TaskKernel ==
  ASSUME TaskInv, StacksInv, IInv, TasksShrink, ports' = ports, Task(curr).at # "pcreate"
  PROVE  TaskInv' /\ \A p \in Port : ~Creating(p) /\ ~Creating(p)' /\ (Made(p)' <=> Made(p))
<1>1. \A r \in Proc : Task(r).at # "pcreate" /\ Task(r)'.at # "pcreate"
  BY IdleFacts DEF TaskInv, CreatorInv, TasksShrink
<1>2. \A p \in Port : ~Creating(p) /\ ~Creating(p)' /\ (Made(p)' <=> Made(p))
  BY <1>1 DEF Creating, Creates, Made
<1>3. CreatorInv'
  BY <1>1 DEF CreatorInv
<1>4. UserInv'
  <2> SUFFICES ASSUME NEW r \in Proc, NEW q \in Port, Task(r)'.at \in Ends, Task(r)'.arg = q
               PROVE  /\ Task(r)'.cnt <= ports'[q].ptseq
                      /\ Task(r)'.cnt = ports'[q].ptseq => Made(q)'
    BY DEF UserInv
  <2>1. Task(r)' = Task(r)
    BY IdleFacts DEF TasksShrink
  <2> QED
    BY <1>2, <2>1 DEF TaskInv, UserInv
<1>5. ClearerInv'
  <2>1. \A r \in Proc : Task(r)'.at \in Clearers => Task(r)' = Task(r)
    BY IdleFacts DEF TasksShrink
  <2> QED
    BY <2>1 DEF TaskInv, ClearerInv, Clears
<1> QED
  BY <1>2, <1>3, <1>4, <1>5 DEF TaskInv

(***************************************************************************)
(* The entry of one port changes.                                          *)
(***************************************************************************)

PortChange(f, g, p, state, ssem, rsem, maxcnt, seq, queue) ==
  /\ g \in [Port -> PortRec]
  /\ g[p].ptstate = state /\ g[p].ptssem = ssem /\ g[p].ptrsem = rsem
  /\ g[p].ptmaxcnt = maxcnt /\ g[p].ptseq = seq /\ g[p].queue = queue
  /\ \A q \in Port \ {p} : g[q] = f[q]

PortUpd(p, state, ssem, rsem, maxcnt, seq, queue) ==
  PortChange(ports, ports', p, state, ssem, rsem, maxcnt, seq, queue)

LEMMA SetCreated ==
  ASSUME NEW f \in [Port -> PortRec], NEW p \in Port, NEW g, NEW s \in Sem \cup {SYSERR},
         NEW n \in Counts,
         g = [f EXCEPT ![p].ptstate = "PTALLOC", ![p].ptssem = s, ![p].ptmaxcnt = n,
                       ![p].queue = <<>>]
  PROVE  PortChange(f, g, p, "PTALLOC", s, f[p].ptrsem, n, f[p].ptseq, <<>>)
<1>1. f[p] \in PortRec
  OBVIOUS
<1>2. g = [f EXCEPT ![p] = g[p]]
  OBVIOUS
<1>3. g[p] = [ptstate |-> "PTALLOC", ptssem |-> s, ptrsem |-> f[p].ptrsem, ptmaxcnt |-> n,
              ptseq |-> f[p].ptseq, queue |-> <<>>]
  BY <1>1 DEF PortRec
<1>4. f[p].ptrsem \in Sem \cup {SYSERR} /\ f[p].ptseq \in Nat /\ <<>> \in Seq(Proc)
  BY <1>1 DEF PortRec
<1>5. g[p] \in PortRec
  BY <1>3, <1>4 DEF PortRec
<1>6. g \in [Port -> PortRec] /\ \A q \in Port \ {p} : g[q] = f[q]
  BY <1>2, <1>5
<1> QED
  BY <1>3, <1>6 DEF PortChange

LEMMA SetNumber ==
  ASSUME NEW f \in [Port -> PortRec], NEW p \in Port, NEW g, NEW s \in Sem \cup {SYSERR},
         NEW n \in Nat, g = [f EXCEPT ![p].ptrsem = s, ![p].ptseq = n]
  PROVE  PortChange(f, g, p, f[p].ptstate, f[p].ptssem, s, f[p].ptmaxcnt, n, f[p].queue)
<1>1. f[p] \in PortRec
  OBVIOUS
<1>2. g = [f EXCEPT ![p] = g[p]]
  OBVIOUS
<1>3. g[p] = [ptstate |-> f[p].ptstate, ptssem |-> f[p].ptssem, ptrsem |-> s,
              ptmaxcnt |-> f[p].ptmaxcnt, ptseq |-> n, queue |-> f[p].queue]
  BY <1>1 DEF PortRec
<1>4. /\ f[p].ptstate \in {"PTFREE", "PTLIMBO", "PTALLOC"} /\ f[p].ptssem \in Sem \cup {SYSERR}
      /\ f[p].ptmaxcnt \in Counts \cup {0} /\ f[p].queue \in Seq(Proc)
  BY <1>1 DEF PortRec
<1>5. g[p] \in PortRec
  BY <1>3, <1>4 DEF PortRec
<1>6. g \in [Port -> PortRec] /\ \A q \in Port \ {p} : g[q] = f[q]
  BY <1>2, <1>5
<1> QED
  BY <1>3, <1>6 DEF PortChange

LEMMA SetLimbo ==
  ASSUME NEW f \in [Port -> PortRec], NEW p \in Port, NEW g, NEW n \in Nat,
         g = [f EXCEPT ![p].ptstate = "PTLIMBO", ![p].ptseq = n, ![p].queue = <<>>]
  PROVE  PortChange(f, g, p, "PTLIMBO", f[p].ptssem, f[p].ptrsem, f[p].ptmaxcnt, n, <<>>)
<1>1. f[p] \in PortRec
  OBVIOUS
<1>2. g = [f EXCEPT ![p] = g[p]]
  OBVIOUS
<1>3. g[p] = [ptstate |-> "PTLIMBO", ptssem |-> f[p].ptssem, ptrsem |-> f[p].ptrsem,
              ptmaxcnt |-> f[p].ptmaxcnt, ptseq |-> n, queue |-> <<>>]
  BY <1>1 DEF PortRec
<1>4. /\ f[p].ptrsem \in Sem \cup {SYSERR} /\ f[p].ptssem \in Sem \cup {SYSERR}
      /\ f[p].ptmaxcnt \in Counts \cup {0} /\ <<>> \in Seq(Proc)
  BY <1>1 DEF PortRec
<1>5. g[p] \in PortRec
  BY <1>3, <1>4 DEF PortRec
<1>6. g \in [Port -> PortRec] /\ \A q \in Port \ {p} : g[q] = f[q]
  BY <1>2, <1>5
<1> QED
  BY <1>3, <1>6 DEF PortChange

LEMMA CreateUpd ==
  ASSUME PortTyped, NEW p \in Port, NEW s \in Sem \cup {SYSERR}, NEW n \in Counts,
         ports' = [ports EXCEPT ![p].ptstate = "PTALLOC", ![p].ptssem = s,
                                ![p].ptmaxcnt = n, ![p].queue = <<>>]
  PROVE  PortUpd(p, "PTALLOC", s, ports[p].ptrsem, n, ports[p].ptseq, <<>>)
<1>1. ports \in [Port -> PortRec]
  BY DEF PortTyped
<1> QED
  BY <1>1, SetCreated, Zenon DEF PortUpd

LEMMA CreateEndUpd ==
  ASSUME PortTyped, NEW p \in Port, NEW s \in Sem \cup {SYSERR},
         ports' = [ports EXCEPT ![p].ptrsem = s, ![p].ptseq = @ + 1]
  PROVE  PortUpd(p, ports[p].ptstate, ports[p].ptssem, s, ports[p].ptmaxcnt,
                 ports[p].ptseq + 1, ports[p].queue)
<1>1. ports \in [Port -> PortRec] /\ ports[p].ptseq + 1 \in Nat
  BY SemOfPort DEF PortTyped
<1> QED
  BY <1>1, SetNumber, Zenon DEF PortUpd

LEMMA QueueUpd ==
  ASSUME PortTyped, NEW p \in Port, NEW q \in Seq(Proc),
         ports' = [ports EXCEPT ![p].queue = q]
  PROVE  PortUpd(p, ports[p].ptstate, ports[p].ptssem, ports[p].ptrsem, ports[p].ptmaxcnt,
                 ports[p].ptseq, q)
BY SemOfPort DEF PortUpd, PortChange, PortTyped, PortRec

LEMMA ClearUpd ==
  ASSUME PortTyped, NEW p \in Port,
         ports' = [ports EXCEPT ![p].ptstate = "PTLIMBO", ![p].ptseq = @ + 1,
                                ![p].queue = <<>>]
  PROVE  PortUpd(p, "PTLIMBO", ports[p].ptssem, ports[p].ptrsem, ports[p].ptmaxcnt,
                 ports[p].ptseq + 1, <<>>)
<1>1. ports \in [Port -> PortRec] /\ ports[p].ptseq + 1 \in Nat
  BY SemOfPort DEF PortTyped
<1> QED
  BY <1>1, SetLimbo, Zenon DEF PortUpd

LEMMA ClearEndUpd ==
  ASSUME PortTyped, NEW p \in Port, NEW st \in {"PTALLOC", "PTFREE"},
         ports' = [ports EXCEPT ![p].ptstate = st]
  PROVE  PortUpd(p, st, ports[p].ptssem, ports[p].ptrsem, ports[p].ptmaxcnt,
                 ports[p].ptseq, ports[p].queue)
BY SemOfPort DEF PortUpd, PortChange, PortTyped, PortRec

LEMMA NoUpd ==
  ASSUME PortTyped, NEW p \in Port, ports' = ports
  PROVE  PortUpd(p, ports[p].ptstate, ports[p].ptssem, ports[p].ptrsem, ports[p].ptmaxcnt,
                 ports[p].ptseq, ports[p].queue)
BY DEF PortUpd, PortChange, PortTyped

(***************************************************************************)
(* The nodes in the ports, and those on the free list.                     *)
(***************************************************************************)

Stored == {x \in Port \X Nat : x[2] \in 1..Len(ports[x[1]].queue)}

NodeInv ==
  /\ IsFiniteSet(Stored) /\ ptfree + Cardinality(Stored) = MAXMSGS
  /\ \A p \in Port : ~Made(p) => ports[p].queue = <<>>

LEMMA StoredIs ==
  ASSUME PortTyped, NEW p \in Port, NEW i
  PROVE  <<p, i>> \in Stored <=> i \in 1..Len(ports[p].queue)
<1>1. Len(ports[p].queue) \in Nat
  BY SemOfPort
<1> QED
  BY <1>1 DEF Stored

LEMMA StoredPairs == \A x \in Stored : x = <<x[1], x[2]>> /\ x[1] \in Port /\ x[2] \in Nat
BY DEF Stored

LEMMA StoredPort ==
  ASSUME PortTyped, PortTyped', NEW p \in Port,
         \A q \in Port \ {p} : ports'[q].queue = ports[q].queue,
         NEW x, x \in Stored \/ x \in Stored', x[1] # p
  PROVE  x \in Stored <=> x \in Stored'
BY DEF Stored

LEMMA StoredSame ==
  ASSUME PortTyped, PortTyped', \A q \in Port : ports'[q].queue = ports[q].queue
  PROVE  Stored' = Stored
BY DEF Stored

LEMMA StoredMore ==
  ASSUME PortTyped, PortTyped', NEW p \in Port, IsFiniteSet(Stored),
         \A q \in Port \ {p} : ports'[q].queue = ports[q].queue,
         Len(ports'[p].queue) = Len(ports[p].queue) + 1
  PROVE  IsFiniteSet(Stored') /\ Cardinality(Stored') = Cardinality(Stored) + 1
<1>1. PICK n \in Nat : n = Len(ports[p].queue)
  BY SemOfPort
<1>2. Stored' = Stored \cup {<<p, n + 1>>}
  BY SMTT(60), <1>1 DEF Stored
<1>3. <<p, n + 1>> \notin Stored
  BY <1>1, StoredIs
<1> QED
  BY <1>2, <1>3, FS_AddElement

LEMMA StoredLess ==
  ASSUME PortTyped, PortTyped', NEW p \in Port, IsFiniteSet(Stored),
         \A q \in Port \ {p} : ports'[q].queue = ports[q].queue,
         Len(ports[p].queue) = Len(ports'[p].queue) + 1
  PROVE  IsFiniteSet(Stored') /\ Cardinality(Stored') = Cardinality(Stored) - 1
<1>1. PICK n \in Nat : n = Len(ports'[p].queue)
  BY DEF PortTyped, PortRec
<1>2. Stored' = Stored \ {<<p, n + 1>>}
  BY SMTT(60), <1>1 DEF Stored
<1>3. <<p, n + 1>> \in Stored
  BY <1>1, StoredIs
<1> QED
  BY <1>2, <1>3, FS_RemoveElement

LEMMA StoredNone ==
  ASSUME PortTyped, PortTyped', NEW p \in Port, IsFiniteSet(Stored),
         \A q \in Port \ {p} : ports'[q].queue = ports[q].queue,
         ports'[p].queue = <<>>
  PROVE  /\ IsFiniteSet(Stored')
         /\ Cardinality(Stored') = Cardinality(Stored) - Len(ports[p].queue)
<1>1. PICK n \in Nat : n = Len(ports[p].queue)
  BY SemOfPort
<1> DEFINE T == {p} \X (1..n)
<1>2. T \subseteq Stored /\ Stored = Stored' \cup T /\ Stored' \cap T = {} /\ Stored' \subseteq Stored
  BY <1>1 DEF Stored
<1>3. IsFiniteSet(1..n) /\ Cardinality(1..n) = n
  <2>1. 1 \in Int /\ n \in Int /\ (1 > n => n = 0) /\ n - 1 + 1 = n
    OBVIOUS
  <2>2. IsFiniteSet(1..n) /\ Cardinality(1..n) = IF 1 > n THEN 0 ELSE n - 1 + 1
    BY <2>1, FS_Interval
  <2> QED
    BY <2>1, <2>2
<1>4. ExistsBijection(1..n, T)
  <2> DEFINE f == [i \in 1..n |-> <<p, i>>]
  <2>1. f \in [1..n -> T] /\ (\A a, b \in 1..n : f[a] = f[b] => a = b)
        /\ \A x \in T : \E i \in 1..n : f[i] = x
    OBVIOUS
  <2>2. f \in Bijection(1..n, T)
    BY <2>1 DEF Bijection, Injection, Surjection, IsInjective
  <2> QED
    BY <2>2 DEF ExistsBijection
<1> HIDE DEF T
<1>5. IsFiniteSet(T) /\ Cardinality(T) = n
  BY <1>3, <1>4, FS_Bijection
<1>6. IsFiniteSet(Stored')
  BY <1>2, FS_Subset
<1>7. Cardinality(Stored) = Cardinality(Stored') + Cardinality(T) - Cardinality({})
  BY <1>2, <1>5, <1>6, FS_Union
<1>8. Cardinality(Stored) \in Nat /\ Cardinality(Stored') \in Nat /\ Cardinality({}) = 0
  BY <1>6, FS_CardinalityType, FS_EmptySet
<1> QED
  BY <1>1, <1>5, <1>6, <1>7, <1>8

(***************************************************************************)
(* What kill has taken along.                                              *)
(***************************************************************************)

LostIs == lost' = [p \in Port |-> LostNow(p)]

LEMMA LostQuiet ==
  ASSUME PortTyped, LostIs, NoKill, NEW p \in Port
  PROVE  /\ lost'[p] \in LostRec
         /\ ports'[p].ptseq = ports[p].ptseq => lost'[p].ptclear = lost[p].ptclear
         /\ lost'[p].psend = IF ports'[p].ptseq = ports[p].ptseq THEN lost[p].psend ELSE 0
         /\ lost'[p].preceive = IF ports'[p].ptseq = ports[p].ptseq THEN lost[p].preceive ELSE 0
<1>1. ASSUME NEW S, S \subseteq {r \in Proc : sched.pstate[r] # "PRFREE"}
      PROVE  Cardinality({r \in S : sched'.pstate[r] = "PRFREE"}) = 0
  <2>1. {r \in S : sched'.pstate[r] = "PRFREE"} = {}
    BY <1>1 DEF NoKill
  <2> QED
    BY <2>1, FS_EmptySet
<1>2. \A pt : Granted(p, pt) \subseteq {r \in Proc : sched.pstate[r] # "PRFREE"}
  BY DEF Granted, Inside
<1>3. Clearing(p) \subseteq {r \in Proc : sched.pstate[r] # "PRFREE"}
  BY DEF Clearing
<1>4. /\ Cardinality({r \in Granted(p, "psend") : sched'.pstate[r] = "PRFREE"}) = 0
      /\ Cardinality({r \in Granted(p, "preceive") : sched'.pstate[r] = "PRFREE"}) = 0
      /\ Cardinality({r \in Clearing(p) : sched'.pstate[r] = "PRFREE"}) = 0
  BY <1>1, <1>2, <1>3
<1>5. lost[p].psend \in Nat /\ lost[p].preceive \in Nat /\ lost[p].ptclear \in Nat
  BY DEF PortTyped, LostRec
<1>6. CASE ports'[p].ptseq = ports[p].ptseq
  <2>1. lost'[p] = [psend |-> lost[p].psend, preceive |-> lost[p].preceive,
                    ptclear |-> lost[p].ptclear]
    BY <1>4, <1>5, <1>6 DEF LostIs, LostNow
  <2> QED
    BY <1>5, <1>6, <2>1 DEF LostRec
<1>7. CASE ports'[p].ptseq # ports[p].ptseq
  <2>1. lost'[p] = [psend |-> 0, preceive |-> 0, ptclear |-> 0]
    BY <1>4, <1>7 DEF LostIs, LostNow
  <2> QED
    BY <1>5, <1>7, <2>1 DEF LostRec
<1> QED
  BY <1>6, <1>7

(* Process v is killed. *)
LEMMA LostKill ==
  ASSUME PortTyped, LostIs, ports' = ports, NEW v \in Proc, sched'.pstate[v] = "PRFREE",
         \A q \in Proc \ {v} : sched'.pstate[q] = "PRFREE" <=> sched.pstate[q] = "PRFREE",
         NEW p \in Port
  PROVE  /\ lost'[p] \in LostRec
         /\ lost'[p].psend = lost[p].psend + (IF v \in Granted(p, "psend") THEN 1 ELSE 0)
         /\ lost'[p].preceive = lost[p].preceive + (IF v \in Granted(p, "preceive") THEN 1 ELSE 0)
         /\ lost'[p].ptclear = lost[p].ptclear + (IF v \in Clearing(p) THEN 1 ELSE 0)
<1>1. ASSUME NEW S, S \subseteq {r \in Proc : sched.pstate[r] # "PRFREE"}
      PROVE  Cardinality({r \in S : sched'.pstate[r] = "PRFREE"}) = IF v \in S THEN 1 ELSE 0
  <2>1. {r \in S : sched'.pstate[r] = "PRFREE"} = IF v \in S THEN {v} ELSE {}
    BY <1>1
  <2> QED
    BY <2>1, FS_EmptySet, FS_Singleton
<1>2. \A pt : Granted(p, pt) \subseteq {r \in Proc : sched.pstate[r] # "PRFREE"}
  BY DEF Granted, Inside
<1>3. Clearing(p) \subseteq {r \in Proc : sched.pstate[r] # "PRFREE"}
  BY DEF Clearing
<1>4. PICK a, b, c : /\ a = (IF v \in Granted(p, "psend") THEN 1 ELSE 0)
                     /\ b = (IF v \in Granted(p, "preceive") THEN 1 ELSE 0)
                     /\ c = (IF v \in Clearing(p) THEN 1 ELSE 0)
  OBVIOUS
<1>5. /\ Cardinality({r \in Granted(p, "psend") : sched'.pstate[r] = "PRFREE"}) = a
      /\ Cardinality({r \in Granted(p, "preceive") : sched'.pstate[r] = "PRFREE"}) = b
      /\ Cardinality({r \in Clearing(p) : sched'.pstate[r] = "PRFREE"}) = c
  BY <1>1, <1>2, <1>3, <1>4
<1>6. lost[p].psend \in Nat /\ lost[p].preceive \in Nat /\ lost[p].ptclear \in Nat
  BY DEF PortTyped, LostRec
<1>7. lost'[p] = [psend |-> lost[p].psend + a, preceive |-> lost[p].preceive + b,
                  ptclear |-> lost[p].ptclear + c]
  BY <1>5, <1>6 DEF LostIs, LostNow
<1>8. a \in Nat /\ b \in Nat /\ c \in Nat
  BY <1>4
<1> QED
  BY <1>4, <1>6, <1>7, <1>8 DEF LostRec

(* The processes in a call of a port, by what they do. *)
Within(p, pt) == {r \in Proc : Task(r) = At(pt, p, ports[p].ptseq)}

LEMMA InsideIsWithin ==
  ASSUME StacksInv, IInv, NEW p \in Port, NEW pt \in Ends
  PROVE  Inside(p, pt) = Within(p, pt)
<1>1. pt \in PortPoints /\ pt \notin Clearers /\ pt # "user" /\ At(pt, p, ports[p].ptseq).at = pt
  BY DEF PortPoints, Ends, Clearers, At
<1>2. ASSUME NEW r \in Proc, sched.pstate[r] # "PRFREE", Top(r) = At(pt, p, ports[p].ptseq)
      PROVE  Task(r) = At(pt, p, ports[p].ptseq)
  <2>1. PICK k : k = kstack[r]
    OBVIOUS
  <2>2. k \in Seq(Frame) /\ PortStack(k)
    BY <2>1, AnyStart DEF StacksInv, PortStacks, Stacks
  <2>3. k # <<>> /\ k[1] = At(pt, p, ports[p].ptseq) /\ 1 \in DOMAIN k
    <3>1. k # <<>>
      BY <1>1, <1>2, <2>1 DEF Top, At
    <3> QED
      BY <1>2, <2>1, <2>2, <3>1 DEF Top
  <2>4. ~Ordinary(k) /\ k[1].at \notin {"sreset", "sdelete"}
    BY <1>1, <2>3 DEF Ordinary, Ends
  <2>5. Len(k) = 1
    BY <2>2, <2>4 DEF PortStack
  <2> QED
    BY <1>2, <2>1, <2>3, <2>4, <2>5 DEF Task, TaskOf
<1>3. ASSUME NEW r \in Proc, Task(r) = At(pt, p, ports[p].ptseq)
      PROVE  sched.pstate[r] # "PRFREE" /\ Top(r) = At(pt, p, ports[p].ptseq)
  <2>1. PICK k : k = kstack[r]
    OBVIOUS
  <2>2. k \in Seq(Frame) /\ PortStack(k)
    BY <2>1, AnyStart DEF StacksInv, PortStacks, Stacks
  <2>3. sched.pstate[r] # "PRFREE" /\ ~Ordinary(k) /\ k[Len(k)].at = pt
        /\ k[Len(k)] = At(pt, p, ports[p].ptseq)
    BY <1>1, <1>3, <2>1, IdleFacts DEF Task, TaskOf
  <2>4. Len(k) = 1
    BY <1>1, <2>2, <2>3 DEF PortStack
  <2>5. k # <<>> /\ Head(k) = k[1]
    BY <2>2, <2>4
  <2> QED
    BY <2>1, <2>3, <2>4, <2>5 DEF Top
<1> QED
  BY <1>2, <1>3 DEF Inside, Within

LEMMA ClearingIs ==
  ASSUME StacksInv, IInv, NEW p \in Port
  PROVE  Clearing(p) = {r \in Proc : Clears(r, p)}
<1>1. Clearers = {"preset", "pdelete"} /\ Clearers \subseteq PortPoints
  BY DEF Clearers, PortPoints
<1>2. ASSUME NEW r \in Proc, sched.pstate[r] # "PRFREE", NEW i \in DOMAIN kstack[r],
             kstack[r][i].at \in Clearers, kstack[r][i].arg = p
      PROVE  Clears(r, p)
  <2>1. PICK k : k = kstack[r]
    OBVIOUS
  <2>2. k \in Seq(Frame) /\ PortStack(k) /\ DOMAIN k = 1..Len(k) /\ Len(k) \in Nat
    BY <2>1, AnyStart DEF StacksInv, PortStacks, Stacks
  <2>3. ~Ordinary(k) /\ i \in 1..Len(k)
    BY <1>1, <1>2, <2>1, <2>2 DEF Ordinary
  <2>4. i = Len(k)
    <3>1. CASE Len(k) = 1
      BY <2>3, <3>1
    <3>2. CASE Len(k) = 2 /\ k[1].at \in {"sreset", "sdelete"}
      BY <1>1, <1>2, <2>1, <2>3, <3>2
    <3> QED
      BY <2>2, <2>3, <3>1, <3>2 DEF PortStack
  <2> QED
    BY <1>2, <2>1, <2>3, <2>4 DEF Clears, Task, TaskOf
<1>3. ASSUME NEW r \in Proc, Clears(r, p)
      PROVE  sched.pstate[r] # "PRFREE" /\ \E i \in DOMAIN kstack[r] :
               kstack[r][i].at \in Clearers /\ kstack[r][i].arg = p
  <2>1. PICK k : k = kstack[r]
    OBVIOUS
  <2>2. k \in Seq(Frame) /\ DOMAIN k = 1..Len(k) /\ Len(k) \in Nat
    BY <2>1, AnyStart DEF Stacks
  <2>3. sched.pstate[r] # "PRFREE" /\ ~Ordinary(k) /\ Task(r) = k[Len(k)]
    BY <1>3, <2>1, IdleFacts DEF Clears, Task, TaskOf
  <2>4. Len(k) \in DOMAIN k
    BY <2>2, <2>3 DEF Ordinary
  <2> QED
    BY <1>3, <2>1, <2>3, <2>4 DEF Clears
<1> QED
  BY <1>1, <1>2, <1>3 DEF Clearing

(***************************************************************************)
(* The part of the invariant that asks nothing of the application.         *)
(***************************************************************************)

SeqInv   == \A p \in Port : ports[p].ptseq <= MaxSeq
LimboInv == \A p \in Port : ports[p].ptstate = "PTLIMBO" =>
                              (\E r \in Proc : Clears(r, p)) \/ lost[p].ptclear > 0

CallInv == KernelInv /\ StacksInv /\ PortTyped /\ TaskInv /\ SeqInv /\ LimboInv
BaseInv == CallInv /\ NodeInv

LEMMA MadeUser ==
  ASSUME CallInv, NEW c \in Proc, c = curr, Task(c).at # "pcreate", NEW p \in Port
  PROVE  ~Creating(p) /\ (Made(p) <=> ports[p].ptstate = "PTALLOC")
BY DEF CallInv, TaskInv, CreatorInv, Creating, Creates, Made

(* A step at port p of process c, which does t from here on. *)
LEMMA PortBase ==
  ASSUME CallInv, LostIs, NEW c \in Proc, c = curr, NEW t, PortStep(t), NEW p \in Port,
         NEW st, NEW ss, NEW rs, NEW mx, NEW sq, NEW qu,
         PortUpd(p, st, ss, rs, mx, sq, qu), ptnextp' \in Port, ptfree' \in Nat,
         Task(c).at \in PortPoints => Task(c).arg = p,
         t.at \in PortPoints => t.arg = p,
         t.at = "pcreate" => curr' = c /\ st = "PTALLOC" /\ sq < MaxSeq,
         t.at \in Ends => t.cnt <= sq /\ (t.cnt = sq => st = "PTALLOC"),
         t.at \in Clearers => st = "PTLIMBO",
         \A r \in Proc \ {c} : Clears(r, p) => st = "PTLIMBO" /\ t.at \notin Clearers,
         sq > ports[p].ptseq \/ (sq = ports[p].ptseq
                                 /\ (Made(p) => st = "PTALLOC" /\ t.at # "pcreate")),
         st = "PTLIMBO" => \/ t.at \in Clearers
                           \/ /\ ports[p].ptstate = "PTLIMBO" /\ sq = ports[p].ptseq
                              /\ Task(c).at \notin Clearers,
         sq <= MaxSeq
  PROVE  /\ CallInv' /\ \A q \in Port \ {p} : Made(q)' <=> Made(q)
         /\ Made(p)' <=> st = "PTALLOC" /\ t.at # "pcreate"
<1>1. KernelInv /\ IInv /\ StacksInv /\ PortTyped /\ TaskInv
  BY DEF CallInv, KernelInv
<1>2. KernelInv' /\ StacksInv' /\ TaskStep(c, t) /\ NoKill
  BY DEF PortStep
<1>3. /\ ports' \in [Port -> PortRec] /\ ports'[p].ptstate = st /\ ports'[p].ptseq = sq
      /\ \A q \in Port \ {p} : ports'[q] = ports[q]
  BY DEF PortUpd, PortChange
<1>4. Task(c)' = t /\ \A r \in Proc \ {c} : Task(r)' = Task(r)
  BY <1>2 DEF TaskStep
<1>5. \A r \in Proc \ {c} : Task(r).at # "pcreate"
  BY <1>1 DEF TaskInv, CreatorInv
<1>5a. "pcreate" \in PortPoints /\ Ends \subseteq PortPoints /\ Clearers \subseteq PortPoints
       /\ "pcreate" \notin Ends /\ "pcreate" \notin Clearers
  BY DEF PortPoints, Ends, Clearers
<1>6. Made(p)' <=> st = "PTALLOC" /\ t.at # "pcreate"
  <2>1. Creating(p)' <=> t.at = "pcreate"
    BY <1>4, <1>5, <1>5a DEF Creating, Creates
  <2> QED
    BY <1>3, <2>1 DEF Made
<1>7. \A q \in Port \ {p} : Made(q)' <=> Made(q)
  <2> SUFFICES ASSUME NEW q \in Port \ {p} PROVE Made(q)' <=> Made(q)
    OBVIOUS
  <2>1. ~Creating(q)
    BY <1>5, <1>5a DEF Creating, Creates
  <2>2. ~Creating(q)'
    BY <1>4, <1>5, <1>5a DEF Creating, Creates
  <2> QED
    BY <1>3, <2>1, <2>2 DEF Made
<1>8. TaskInv'
  <2>1. Task(c).at = "pcreate" => Task(c).arg = p
    BY <1>5a
  <2>2. t.at = "pcreate" => curr' = c /\ ports'[p].ptstate = "PTALLOC" /\ ports'[p].ptseq < MaxSeq
    BY <1>3
  <2>3. t.at \in Ends => t.cnt <= ports'[p].ptseq /\ (t.cnt = ports'[p].ptseq => Made(p)')
    BY <1>3, <1>5a, <1>6
  <2>4. t.at \in Clearers => ports'[p].ptstate = "PTLIMBO"
    BY <1>3
  <2>5. \A r \in Proc \ {c} : Clears(r, p) => ports'[p].ptstate = "PTLIMBO" /\ t.at \notin Clearers
    BY <1>3
  <2>6. ports'[p].ptseq > ports[p].ptseq
        \/ (ports'[p].ptseq = ports[p].ptseq /\ (Made(p) => Made(p)'))
    BY <1>3, <1>6
  <2> HIDE DEF CallInv, PortStep
  <2> QED
    BY <1>1, <1>2, <1>3, <2>1, <2>2, <2>3, <2>4, <2>5, <2>6, TaskPort
<1>9. \A q \in Port : /\ lost'[q] \in LostRec
                      /\ ports'[q].ptseq = ports[q].ptseq => lost'[q].ptclear = lost[q].ptclear
  BY <1>1, <1>2, LostQuiet
<1>10. PortTyped'
  <2>1. lost' \in [Port -> LostRec]
    <3>1. lost' = [q \in Port |-> lost'[q]]
      BY DEF LostIs
    <3> QED
      BY <1>9, <3>1
  <2> QED
    BY <1>3, <2>1 DEF PortTyped
<1>11. SeqInv'
  <2> SUFFICES ASSUME NEW q \in Port PROVE ports'[q].ptseq <= MaxSeq
    BY DEF SeqInv
  <2>1. CASE q = p
    BY <1>3, <2>1
  <2>2. CASE q # p
    BY <1>3, <2>2 DEF CallInv, SeqInv
  <2> QED
    BY <2>1, <2>2
<1>12. LimboInv'
  <2> SUFFICES ASSUME NEW q \in Port, ports'[q].ptstate = "PTLIMBO"
               PROVE  (\E r \in Proc : Clears(r, q)') \/ lost'[q].ptclear > 0
    BY DEF LimboInv
  <2>1. ASSUME ports[q].ptstate = "PTLIMBO", ports'[q].ptseq = ports[q].ptseq,
               ~Clears(c, q)
        PROVE  (\E r \in Proc : Clears(r, q)') \/ lost'[q].ptclear > 0
    <3>1. CASE lost[q].ptclear > 0
      BY <1>9, <2>1, <3>1
    <3>2. ASSUME NEW r \in Proc, Clears(r, q) PROVE Clears(r, q)'
      <4>1. r # c
        BY <2>1, <3>2
      <4> QED
        BY <1>4, <3>2, <4>1 DEF Clears
    <3> QED
      BY <2>1, <3>1, <3>2 DEF CallInv, LimboInv
  <2>2. CASE q # p
    <3>1. ~Clears(c, q)
      BY <1>5a, <2>2 DEF Clears
    <3> QED
      BY <1>3, <2>1, <2>2, <3>1
  <2>3. CASE q = p /\ t.at \in Clearers
    <3>1. Clears(c, q)'
      BY <1>4, <1>5a, <2>3 DEF Clears
    <3> QED
      BY <3>1
  <2>4. CASE q = p /\ t.at \notin Clearers
    BY <1>3, <2>1, <2>4 DEF Clears
  <2> QED
    BY <2>2, <2>3, <2>4
<1> QED
  BY <1>2, <1>6, <1>7, <1>8, <1>10, <1>11, <1>12 DEF CallInv

(* The nodes, when no queue changes. *)
LEMMA NodeSame ==
  ASSUME NodeInv, PortTyped, PortTyped', NEW p \in Port, ptfree' = ptfree,
         \A q \in Port \ {p} : ports'[q] = ports[q] /\ (Made(q)' <=> Made(q)),
         ports'[p].queue = ports[p].queue, ~Made(p)' => ports'[p].queue = <<>>
  PROVE  NodeInv'
<1>1. \A q \in Port : ports'[q].queue = ports[q].queue
  OBVIOUS
<1>2. Stored' = Stored
  BY <1>1, StoredSame
<1> QED
  BY <1>2 DEF NodeInv

LEMMA NodeChange ==
  ASSUME NodeInv, PortTyped', NEW p \in Port,
         \A q \in Port \ {p} : ports'[q] = ports[q] /\ (Made(q)' <=> Made(q)),
         ~Made(p)' => ports'[p].queue = <<>>,
         IsFiniteSet(Stored'), ptfree' + Cardinality(Stored') = ptfree + Cardinality(Stored)
  PROVE  NodeInv'
BY DEF NodeInv

LEMMA PcreateBase ==
  ASSUME BaseInv, LostIs, NEW n \in Counts, Pcreate(n)
  PROVE  BaseInv'
<1>1. CallInv /\ KernelInv /\ IInv /\ StacksInv /\ PortTyped /\ TaskInv /\ NodeInv
  BY DEF BaseInv, CallInv, KernelInv
<1>2. PICK p \in Port, s \in Sem \cup {SYSERR} :
        /\ ports[p].ptstate = "PTFREE" /\ ports[p].ptseq < MaxSeq
        /\ ptnextp' \in Port /\ ptfree' = ptfree
        /\ ports' = [ports EXCEPT ![p].ptstate = "PTALLOC", ![p].ptssem = s,
                                  ![p].ptmaxcnt = n, ![p].queue = <<>>]
        /\ Task(curr) = Idle /\ PortStep(At("pcreate", p, 0))
        /\ sched' = sched
  BY <1>1, PcreateStep
<1>3. PortUpd(p, "PTALLOC", s, ports[p].ptrsem, n, ports[p].ptseq, <<>>)
  BY <1>1, <1>2, CreateUpd, Zenon
<1>4. PICK c \in Proc : c = curr
  BY <1>1, AnyStart
<1>5. PICK t : t = At("pcreate", p, 0)
  OBVIOUS
<1>6. t.at = "pcreate" /\ t.arg = p /\ t.at \notin Ends /\ t.at \notin Clearers
  BY <1>5 DEF At, Ends, Clearers
<1>7. CallInv' /\ (\A q \in Port \ {p} : Made(q)' <=> Made(q)) /\ ~Made(p)'
  <2>1. Task(c).at \notin PortPoints
    BY <1>2, <1>4, IdleFacts
  <2>2. \A r \in Proc \ {c} : ~Clears(r, p)
    BY <1>1, <1>2 DEF TaskInv, ClearerInv, Clears
  <2>3. curr' = c
    BY <1>2, <1>4 DEF curr
  <2>4. ~Made(p) /\ ports[p].ptseq <= MaxSeq
    BY <1>1, <1>2, SemOfPort, MaxSeqAssumption DEF Made
  <2>5. ptfree' \in Nat /\ PortStep(t)
    BY <1>1, <1>2, <1>5 DEF PortTyped
  <2> QED
    BY <1>1, <1>2, <1>3, <1>4, <1>6, <2>1, <2>2, <2>3, <2>4, <2>5, PortBase
<1>8. ports'[p].queue = <<>> /\ \A q \in Port \ {p} : ports'[q] = ports[q]
  BY <1>3 DEF PortUpd, PortChange
<1>9. ports[p].queue = <<>>
  BY <1>1, <1>2 DEF NodeInv, Made
<1>10. NodeInv'
  BY <1>1, <1>2, <1>7, <1>8, <1>9, NodeSame DEF CallInv
<1> QED
  BY <1>7, <1>10 DEF BaseInv

LEMMA PcreateEndBase ==
  ASSUME BaseInv, LostIs, PcreateEnd
  PROVE  BaseInv'
<1>1. CallInv /\ KernelInv /\ IInv /\ StacksInv /\ PortTyped /\ TaskInv /\ NodeInv
  BY DEF BaseInv, CallInv, KernelInv
<1>2. PICK p \in Port, s \in Sem \cup {SYSERR} :
        /\ UNCHANGED <<ptnextp, ptfree, sched>>
        /\ ports' = [ports EXCEPT ![p].ptrsem = s, ![p].ptseq = @ + 1]
        /\ Task(curr) = Top(curr) /\ Top(curr).at = "pcreate" /\ Top(curr).arg = p
        /\ PortStep(Idle)
  BY <1>1, PcreateEndStep
<1>3. PortUpd(p, ports[p].ptstate, ports[p].ptssem, s, ports[p].ptmaxcnt,
              ports[p].ptseq + 1, ports[p].queue)
  BY <1>1, <1>2, CreateEndUpd, Zenon
<1>4. PICK c \in Proc : c = curr
  BY <1>1, AnyStart
<1>5. PICK t : t = Idle
  OBVIOUS
<1>6. t.at \notin PortPoints /\ t.at # "pcreate" /\ t.at \notin Ends /\ t.at \notin Clearers
  BY <1>5, IdleFacts
<1>7. Task(c).at = "pcreate" /\ Task(c).arg = p /\ ports[p].ptstate = "PTALLOC"
      /\ ports[p].ptseq < MaxSeq /\ ~Made(p)
  BY <1>1, <1>2, <1>4 DEF TaskInv, CreatorInv, Made, Creating, Creates
<1>8. CallInv' /\ (\A q \in Port \ {p} : Made(q)' <=> Made(q))
  <2>1. \A r \in Proc \ {c} : ~Clears(r, p)
    BY <1>1, <1>7 DEF TaskInv, ClearerInv, Clears
  <2>2. ports[p].ptseq + 1 <= MaxSeq /\ ports[p].ptseq + 1 > ports[p].ptseq
    BY <1>1, <1>7, SemOfPort, MaxSeqAssumption
  <2>3. ptfree' \in Nat /\ ptnextp' \in Port /\ PortStep(t)
    BY <1>1, <1>2, <1>5 DEF PortTyped
  <2> QED
    BY <1>1, <1>3, <1>4, <1>6, <1>7, <2>1, <2>2, <2>3, PortBase
<1>9. ports'[p].queue = ports[p].queue /\ (\A q \in Port \ {p} : ports'[q] = ports[q])
  BY <1>3 DEF PortUpd, PortChange
<1>10. NodeInv'
  <2>1. ports[p].queue = <<>>
    BY <1>1, <1>7 DEF NodeInv
  <2> QED
    BY <1>1, <1>2, <1>8, <1>9, <2>1, NodeSame DEF CallInv
<1> QED
  BY <1>8, <1>10 DEF BaseInv

LEMMA WaitInPortBase ==
  ASSUME BaseInv, LostIs, NEW p \in Port, NEW pt \in Ends, Calling(pt),
         WaitInPort(p, SemOf(p, pt), pt)
  PROVE  BaseInv'
<1>1. CallInv /\ KernelInv /\ IInv /\ StacksInv /\ PortTyped /\ TaskInv /\ NodeInv
  BY DEF BaseInv, CallInv, KernelInv
<1>2. /\ ports[p].ptstate = "PTALLOC" /\ UNCHANGED portVars
      /\ Task(curr) = Idle /\ PortStep(At(pt, p, ports[p].ptseq))
  BY <1>1, WaitInPortStep
<1>3. PortUpd(p, ports[p].ptstate, ports[p].ptssem, ports[p].ptrsem, ports[p].ptmaxcnt,
              ports[p].ptseq, ports[p].queue) /\ UNCHANGED <<ports, ptnextp, ptfree>>
  BY <1>1, <1>2, NoUpd DEF portVars
<1>4. PICK c \in Proc : c = curr
  BY <1>1, AnyStart
<1>5. PICK t : t = At(pt, p, ports[p].ptseq)
  OBVIOUS
<1>6. /\ t.at = pt /\ t.arg = p /\ t.cnt = ports[p].ptseq
      /\ t.at # "pcreate" /\ t.at \notin Clearers
  BY <1>5 DEF At, Ends, Clearers
<1>7. Task(c).at \notin PortPoints /\ Task(c).at # "pcreate"
  BY <1>2, <1>4, IdleFacts
<1>7a. Made(p)
  BY <1>1, <1>2, <1>4, <1>7, MadeUser
<1>8. CallInv' /\ (\A q \in Port \ {p} : Made(q)' <=> Made(q)) /\ Made(p)'
  <2>1. \A r \in Proc \ {c} : ~Clears(r, p)
    BY <1>1, <1>2 DEF TaskInv, ClearerInv, Clears
  <2>2. ports[p].ptseq <= MaxSeq /\ ports[p].ptseq <= ports[p].ptseq
    BY <1>1, SemOfPort DEF CallInv, SeqInv
  <2>3. ptfree' \in Nat /\ ptnextp' \in Port /\ PortStep(t)
    BY <1>1, <1>2, <1>3, <1>5 DEF PortTyped
  <2> QED
    BY <1>1, <1>2, <1>3, <1>4, <1>6, <1>7, <2>1, <2>2, <2>3, PortBase
<1>9. NodeInv'
  BY <1>1, <1>3, <1>8, NodeSame DEF CallInv
<1> QED
  BY <1>8, <1>9 DEF BaseInv

(* What a queue becomes in psend and in preceive. *)
LEMMA QueueEnds ==
  ASSUME NEW q \in Seq(Proc), NEW c \in Proc
  PROVE  /\ Append(q, c) \in Seq(Proc) /\ Len(Append(q, c)) = Len(q) + 1
         /\ q # <<>> => Tail(q) \in Seq(Proc) /\ Len(q) = Len(Tail(q)) + 1
         /\ Len(q) \in Nat
OBVIOUS

(* Either call goes on: nothing, a message more, or one less. *)
EndAt(p) ==
  \/ UNCHANGED <<sched, semaph, ports, ptfree>> /\ ~StillThere(Top(curr))
  \/ /\ Top(curr).at = "psend" /\ StillThere(Top(curr)) /\ ptfree > 0 /\ ptfree' = ptfree - 1
     /\ ports' = [ports EXCEPT ![p].queue = Append(ports[p].queue, curr)]
     /\ SignalPort(ports[p].ptrsem)
  \/ /\ Top(curr).at = "preceive" /\ StillThere(Top(curr)) /\ ports[p].queue # <<>>
     /\ ptfree' = ptfree + 1
     /\ ports' = [ports EXCEPT ![p].queue = Tail(ports[p].queue)]
     /\ SignalPort(ports[p].ptssem)

LEMMA EndCases ==
  ASSUME PsendEnd \/ PreceiveEnd, NEW p, p = Top(curr).arg, PortTyped, p \in Port
  PROVE  EndAt(p) /\ UNCHANGED <<psem, nextsem, ptnextp>>
<1>1. ports \in [Port -> PortRec]
  BY DEF PortTyped
<1>2. CASE PsendEnd
  BY <1>2, Zenon DEF PsendEnd, EndAt
<1>3. CASE PreceiveEnd
  BY <1>3, Zenon DEF PreceiveEnd, EndAt
<1> QED
  BY <1>2, <1>3

(* The queue of the port, and the nodes, after that. *)
EndQueue(p, qu) ==
  \/ qu = ports[p].queue /\ ptfree' = ptfree
  \/ Made(p) /\ Len(qu) = Len(ports[p].queue) + 1 /\ ptfree' = ptfree - 1
  \/ Made(p) /\ Len(ports[p].queue) = Len(qu) + 1 /\ ptfree' = ptfree + 1

LEMMA EndPort ==
  ASSUME BaseInv, PsendEnd \/ PreceiveEnd
  PROVE  \E p \in Port, qu \in Seq(Proc) :
           /\ PortStep(Idle) /\ Task(curr) = Top(curr) /\ Top(curr).at \in Ends
           /\ Top(curr).arg = p /\ EndAt(p) /\ EndQueue(p, qu)
           /\ PortUpd(p, ports[p].ptstate, ports[p].ptssem, ports[p].ptrsem,
                      ports[p].ptmaxcnt, ports[p].ptseq, qu)
           /\ UNCHANGED <<psem, nextsem, ptnextp>> /\ ptfree' \in Nat
<1>1. CallInv /\ KernelInv /\ IInv /\ StacksInv /\ PortTyped /\ TaskInv /\ NodeInv
  BY DEF BaseInv, CallInv, KernelInv
<1>2. /\ PortStep(Idle) /\ Task(curr) = Top(curr) /\ PortFrame(Top(curr))
      /\ Top(curr).at \in Ends
  BY <1>1, EndStep
<1>3. PICK p \in Port : p = Top(curr).arg
  BY <1>2 DEF PortFrame
<1>4. EndAt(p) /\ UNCHANGED <<psem, nextsem, ptnextp>>
  BY <1>1, <1>3, EndCases
<1>5. PICK c \in Proc : c = curr
  BY <1>1, AnyStart
<1>6. ports[p].queue \in Seq(Proc) /\ ptfree \in Nat
  BY <1>1, SemOfPort DEF PortTyped
<1>7. StillThere(Top(curr)) => Made(p)
  BY <1>1, <1>2, <1>3, <1>5 DEF StillThere, TaskInv, UserInv
<1>8. CASE UNCHANGED <<sched, semaph, ports, ptfree>>
  <2>1. PortUpd(p, ports[p].ptstate, ports[p].ptssem, ports[p].ptrsem,
                ports[p].ptmaxcnt, ports[p].ptseq, ports[p].queue)
    BY <1>1, <1>8, NoUpd
  <2>2. EndQueue(p, ports[p].queue)
    BY <1>8 DEF EndQueue
  <2> QED
    BY <1>2, <1>3, <1>4, <1>6, <1>8, <2>1, <2>2
<1>9. CASE /\ Top(curr).at = "psend" /\ StillThere(Top(curr)) /\ ptfree > 0
           /\ ptfree' = ptfree - 1
           /\ ports' = [ports EXCEPT ![p].queue = Append(ports[p].queue, curr)]
  <2>1. PICK qu \in Seq(Proc) : /\ qu = Append(ports[p].queue, curr)
                                /\ Len(qu) = Len(ports[p].queue) + 1
    BY <1>5, <1>6, QueueEnds
  <2>2. PortUpd(p, ports[p].ptstate, ports[p].ptssem, ports[p].ptrsem,
                ports[p].ptmaxcnt, ports[p].ptseq, qu)
    BY <1>1, <1>9, <2>1, QueueUpd
  <2>3. EndQueue(p, qu)
    BY <1>7, <1>9, <2>1 DEF EndQueue
  <2>4. ptfree' \in Nat
    BY <1>6, <1>9
  <2> QED
    BY <1>2, <1>3, <1>4, <2>2, <2>3, <2>4
<1>10. CASE /\ Top(curr).at = "preceive" /\ StillThere(Top(curr)) /\ ports[p].queue # <<>>
           /\ ptfree' = ptfree + 1
           /\ ports' = [ports EXCEPT ![p].queue = Tail(ports[p].queue)]
  <2>1. PICK qu \in Seq(Proc) : /\ qu = Tail(ports[p].queue)
                                /\ Len(ports[p].queue) = Len(qu) + 1
    BY <1>5, <1>6, <1>10, QueueEnds
  <2>2. PortUpd(p, ports[p].ptstate, ports[p].ptssem, ports[p].ptrsem,
                ports[p].ptmaxcnt, ports[p].ptseq, qu)
    BY <1>1, <1>10, <2>1, QueueUpd
  <2>3. EndQueue(p, qu)
    BY <1>7, <1>10, <2>1 DEF EndQueue
  <2>4. ptfree' \in Nat
    BY <1>6, <1>10
  <2> QED
    BY <1>2, <1>3, <1>4, <2>2, <2>3, <2>4
<1> QED
  BY <1>4, <1>8, <1>9, <1>10 DEF EndAt

LEMMA EndBase ==
  ASSUME BaseInv, LostIs, PsendEnd \/ PreceiveEnd
  PROVE  BaseInv'
<1>1. CallInv /\ KernelInv /\ IInv /\ StacksInv /\ PortTyped /\ TaskInv /\ NodeInv
  BY DEF BaseInv, CallInv, KernelInv
<1>2. PICK p \in Port, qu \in Seq(Proc) :
           /\ PortStep(Idle) /\ Task(curr) = Top(curr) /\ Top(curr).at \in Ends
           /\ Top(curr).arg = p /\ EndAt(p) /\ EndQueue(p, qu)
           /\ PortUpd(p, ports[p].ptstate, ports[p].ptssem, ports[p].ptrsem,
                      ports[p].ptmaxcnt, ports[p].ptseq, qu)
           /\ UNCHANGED <<psem, nextsem, ptnextp>> /\ ptfree' \in Nat
  BY EndPort
<1>3. PICK c \in Proc : c = curr
  BY <1>1, AnyStart
<1>4. PICK t : t = Idle
  OBVIOUS
<1>5. t.at \notin PortPoints /\ t.at # "pcreate" /\ t.at \notin Ends /\ t.at \notin Clearers
  BY <1>4, IdleFacts
<1>6. /\ Task(c).arg = p /\ Task(c).at # "pcreate" /\ Task(c).at \notin Clearers
  BY <1>2, <1>3 DEF Ends, Clearers
<1>7. CallInv' /\ (\A q \in Port \ {p} : Made(q)' <=> Made(q)) /\ (Made(p)' <=> Made(p))
  <2>1. \A r \in Proc \ {c} : Clears(r, p) => ports[p].ptstate = "PTLIMBO"
    BY <1>1 DEF TaskInv, ClearerInv, Clears
  <2>2. Made(p) <=> ports[p].ptstate = "PTALLOC"
    BY <1>1, <1>3, <1>6, MadeUser
  <2>3. ports[p].ptseq <= MaxSeq
    BY <1>1 DEF CallInv, SeqInv
  <2>4. ptnextp' \in Port /\ PortStep(t)
    BY <1>1, <1>2, <1>4 DEF PortTyped
  <2> QED
    BY <1>1, <1>2, <1>3, <1>5, <1>6, <2>1, <2>2, <2>3, <2>4, PortBase
<1>8. ports'[p].queue = qu /\ (\A q \in Port \ {p} : ports'[q] = ports[q])
  BY <1>2 DEF PortUpd, PortChange
<1>8a. PortTyped' /\ (\A q \in Port \ {p} : ports'[q].queue = ports[q].queue)
       /\ ptfree \in Nat /\ IsFiniteSet(Stored) /\ Cardinality(Stored) \in Nat
  <2>1. IsFiniteSet(Stored)
    BY <1>1 DEF NodeInv
  <2> QED
    BY <1>1, <1>7, <1>8, <2>1, FS_CardinalityType DEF PortTyped, CallInv
<1>9. NodeInv'
  <2>1. CASE qu = ports[p].queue /\ ptfree' = ptfree
    <3>1. ~Made(p)' => ports'[p].queue = <<>>
      BY <1>1, <1>7, <1>8, <2>1 DEF NodeInv
    <3> QED
      BY <1>1, <1>7, <1>8, <1>8a, <2>1, <3>1, NodeSame
  <2>2. CASE Made(p) /\ Len(qu) = Len(ports[p].queue) + 1 /\ ptfree' = ptfree - 1
    <3>1. IsFiniteSet(Stored') /\ Cardinality(Stored') = Cardinality(Stored) + 1
      BY <1>1, <1>8, <1>8a, <2>2, StoredMore
    <3>2. ptfree' + Cardinality(Stored') = ptfree + Cardinality(Stored)
      BY <1>8a, <2>2, <3>1
    <3> QED
      BY <1>1, <1>7, <1>8, <1>8a, <2>2, <3>1, <3>2, NodeChange
  <2>3. CASE Made(p) /\ Len(ports[p].queue) = Len(qu) + 1 /\ ptfree' = ptfree + 1
    <3>1. IsFiniteSet(Stored') /\ Cardinality(Stored') = Cardinality(Stored) - 1
      BY <1>1, <1>8, <1>8a, <2>3, StoredLess
    <3>2. ptfree' + Cardinality(Stored') = ptfree + Cardinality(Stored)
      BY <1>8a, <2>3, <3>1
    <3> QED
      BY <1>1, <1>7, <1>8, <1>8a, <2>3, <3>1, <3>2, NodeChange
  <2> QED
    BY <1>2, <2>1, <2>2, <2>3 DEF EndQueue
<1> QED
  BY <1>7, <1>9 DEF BaseInv

LEMMA PtclearPort ==
  ASSUME BaseInv, NEW p \in Port, NEW point \in Clearers, Ptclear(p, point)
  PROVE  /\ Task(curr) = Idle /\ PortStep(At(point, p, 1)) /\ Made(p) /\ ports[p].ptseq < MaxSeq
         /\ ptfree' = ptfree + Len(ports[p].queue) /\ UNCHANGED <<ptnextp, sched, semaph>>
         /\ PortUpd(p, "PTLIMBO", ports[p].ptssem, ports[p].ptrsem, ports[p].ptmaxcnt,
                    ports[p].ptseq + 1, <<>>)
<1>1. CallInv /\ KernelInv /\ IInv /\ StacksInv /\ PortTyped /\ TaskInv /\ NodeInv
  BY DEF BaseInv, CallInv, KernelInv
<1>2. /\ ptfree' = ptfree + Len(ports[p].queue) /\ UNCHANGED <<ptnextp, sched, semaph>>
      /\ ports[p].ptstate = "PTALLOC" /\ ports[p].ptseq < MaxSeq
      /\ ports' = [ports EXCEPT ![p].ptstate = "PTLIMBO", ![p].ptseq = @ + 1,
                                ![p].queue = <<>>]
  BY DEF Ptclear, semVars
<1>3. PortUpd(p, "PTLIMBO", ports[p].ptssem, ports[p].ptrsem, ports[p].ptmaxcnt,
              ports[p].ptseq + 1, <<>>)
  BY <1>1, <1>2, ClearUpd, Zenon
<1>4. Task(curr) = Idle /\ PortStep(At(point, p, 1))
  BY <1>1, PtclearStep
<1>5. PICK c \in Proc : c = curr
  BY <1>1, AnyStart
<1>6. Made(p)
  BY <1>1, <1>2, <1>4, <1>5, IdleFacts, MadeUser
<1> QED
  BY <1>2, <1>3, <1>4, <1>6

LEMMA PtclearBase ==
  ASSUME BaseInv, LostIs, NEW p \in Port, NEW point \in Clearers, Ptclear(p, point)
  PROVE  BaseInv'
<1>1. CallInv /\ KernelInv /\ IInv /\ StacksInv /\ PortTyped /\ TaskInv /\ NodeInv
  BY DEF BaseInv, CallInv, KernelInv
<1>2. /\ Task(curr) = Idle /\ PortStep(At(point, p, 1)) /\ Made(p) /\ ports[p].ptseq < MaxSeq
      /\ ptfree' = ptfree + Len(ports[p].queue) /\ UNCHANGED <<ptnextp, sched, semaph>>
      /\ PortUpd(p, "PTLIMBO", ports[p].ptssem, ports[p].ptrsem, ports[p].ptmaxcnt,
                 ports[p].ptseq + 1, <<>>)
  BY PtclearPort
<1>3. PICK c \in Proc : c = curr
  BY <1>1, AnyStart
<1>4. PICK t : t = At(point, p, 1)
  OBVIOUS
<1>5. t.at = point /\ t.arg = p /\ t.at # "pcreate" /\ t.at \notin Ends /\ t.at \in Clearers
  BY <1>4 DEF At, Ends, Clearers
<1>6. Task(c).at \notin PortPoints /\ ports[p].queue \in Seq(Proc) /\ ptfree \in Nat
  BY <1>1, <1>2, <1>3, IdleFacts, SemOfPort DEF PortTyped
<1>7. CallInv' /\ (\A q \in Port \ {p} : Made(q)' <=> Made(q)) /\ ~Made(p)'
  <2>1. \A r \in Proc \ {c} : ~Clears(r, p)
    BY <1>1, <1>2 DEF TaskInv, ClearerInv, Clears, Made
  <2>2. ports[p].ptseq + 1 <= MaxSeq /\ ports[p].ptseq + 1 > ports[p].ptseq
    BY <1>1, <1>2, SemOfPort, MaxSeqAssumption
  <2>3. ptfree' \in Nat /\ ptnextp' \in Port /\ PortStep(t)
    BY <1>1, <1>2, <1>4, <1>6 DEF PortTyped
  <2> QED
    BY <1>1, <1>2, <1>3, <1>5, <1>6, <2>1, <2>2, <2>3, PortBase
<1>8. ports'[p].queue = <<>> /\ (\A q \in Port \ {p} : ports'[q] = ports[q])
  BY <1>2 DEF PortUpd, PortChange
<1>9. NodeInv'
  <2>1. IsFiniteSet(Stored) /\ PortTyped'
    BY <1>1, <1>7 DEF NodeInv, CallInv
  <2>2. /\ IsFiniteSet(Stored')
        /\ Cardinality(Stored') = Cardinality(Stored) - Len(ports[p].queue)
    BY <1>1, <1>8, <2>1, StoredNone
  <2>3. ptfree' + Cardinality(Stored') = ptfree + Cardinality(Stored)
    <3>1. Cardinality(Stored) \in Nat /\ Len(ports[p].queue) \in Nat
      BY <1>6, <2>1, FS_CardinalityType
    <3> QED
      BY <1>2, <1>6, <2>2, <3>1
  <2> QED
    BY <1>1, <1>7, <1>8, <2>1, <2>2, <2>3, NodeChange
<1> QED
  BY <1>7, <1>9 DEF BaseInv

LEMMA PtclearSemsBase ==
  ASSUME BaseInv, LostIs, PtclearSems
  PROVE  BaseInv'
<1>1. CallInv /\ KernelInv /\ IInv /\ StacksInv /\ PortTyped /\ TaskInv /\ NodeInv
  BY DEF BaseInv, CallInv, KernelInv
<1>2. /\ Task(curr) = Top(curr) /\ PortFrame(Top(curr)) /\ Top(curr).at \in Clearers
      /\ UNCHANGED <<ports, ptnextp, ptfree>>
      /\ PortStep(At(Top(curr).at, Top(curr).arg, Top(curr).cnt + 1))
  BY <1>1, PtclearSemsStep DEF portVars
<1>3. PICK p \in Port : p = Top(curr).arg
  BY <1>2 DEF PortFrame
<1>4. PICK c \in Proc : c = curr
  BY <1>1, AnyStart
<1>5. PICK t : t = At(Top(curr).at, Top(curr).arg, Top(curr).cnt + 1)
  OBVIOUS
<1>6. t.at \in Clearers /\ t.arg = p /\ t.at # "pcreate" /\ t.at \notin Ends
  BY <1>2, <1>3, <1>5 DEF At, Ends, Clearers
<1>7. Clears(c, p) /\ ports[p].ptstate = "PTLIMBO" /\ ~Made(p)
  BY <1>1, <1>2, <1>3, <1>4 DEF Clears, TaskInv, ClearerInv, Made
<1>7a. PortUpd(p, ports[p].ptstate, ports[p].ptssem, ports[p].ptrsem, ports[p].ptmaxcnt,
               ports[p].ptseq, ports[p].queue)
  BY <1>1, <1>2, NoUpd
<1>8. CallInv' /\ (\A q \in Port \ {p} : Made(q)' <=> Made(q)) /\ ~Made(p)'
  <2>1. \A r \in Proc \ {c} : ~Clears(r, p)
    BY <1>1, <1>7 DEF TaskInv, ClearerInv
  <2>2. ports[p].ptseq <= MaxSeq
    BY <1>1 DEF CallInv, SeqInv
  <2>3. ptfree' \in Nat /\ ptnextp' \in Port /\ PortStep(t)
    BY <1>1, <1>2, <1>5 DEF PortTyped
  <2>4. Task(c).arg = p
    BY <1>7 DEF Clears
  <2> QED
    BY <1>1, <1>4, <1>6, <1>7, <1>7a, <2>1, <2>2, <2>3, <2>4, PortBase
<1>9. NodeInv'
  <2>1. ports[p].queue = <<>>
    BY <1>1, <1>7 DEF NodeInv
  <2> QED
    BY <1>1, <1>2, <1>8, <2>1, NodeSame DEF CallInv
<1> QED
  BY <1>8, <1>9 DEF BaseInv

LEMMA PtclearEndPort ==
  ASSUME BaseInv, PtclearEnd
  PROVE  \E p \in Port, st \in {"PTALLOC", "PTFREE"} :
           /\ Task(curr) = Top(curr) /\ PortStep(Idle) /\ Clears(curr, p) /\ Task(curr).cnt = 3
           /\ st = "PTALLOC" <=> Task(curr).at = "preset"
           /\ UNCHANGED <<ptnextp, ptfree, sched, semaph>>
           /\ PortUpd(p, st, ports[p].ptssem, ports[p].ptrsem, ports[p].ptmaxcnt,
                      ports[p].ptseq, ports[p].queue)
<1>1. CallInv /\ KernelInv /\ IInv /\ StacksInv /\ PortTyped /\ TaskInv /\ NodeInv
  BY DEF BaseInv, CallInv, KernelInv
<1>2. /\ Task(curr) = Top(curr) /\ PortFrame(Top(curr)) /\ Top(curr).at \in Clearers
      /\ PortStep(Idle)
  BY <1>1, PtclearEndStep
<1>3. PICK p \in Port : p = Top(curr).arg
  BY <1>2 DEF PortFrame
<1>4. PICK st \in {"PTALLOC", "PTFREE"} :
           st = IF Top(curr).at = "preset" THEN "PTALLOC" ELSE "PTFREE"
  OBVIOUS
<1>5. /\ UNCHANGED <<ptnextp, ptfree, sched, semaph>> /\ Top(curr).cnt = 3
      /\ ports' = [ports EXCEPT ![p].ptstate = st]
  <2>1. ports' = [ports EXCEPT ![Top(curr).arg].ptstate =
                     IF Top(curr).at = "preset" THEN "PTALLOC" ELSE "PTFREE"]
    BY DEF PtclearEnd
  <2> QED
    BY <1>3, <1>4, <2>1 DEF PtclearEnd, semVars
<1>6. PortUpd(p, st, ports[p].ptssem, ports[p].ptrsem, ports[p].ptmaxcnt,
              ports[p].ptseq, ports[p].queue)
  BY <1>1, <1>5, ClearEndUpd, Zenon
<1>7. Clears(curr, p)
  BY <1>2, <1>3 DEF Clears
<1>8. st = "PTALLOC" <=> Task(curr).at = "preset"
  BY <1>2, <1>4
<1>9. Task(curr) = Top(curr) /\ PortStep(Idle) /\ Task(curr).cnt = 3
      /\ UNCHANGED <<ptnextp, ptfree, sched, semaph>>
  BY <1>2, <1>5
<1> QED
  BY <1>6, <1>7, <1>8, <1>9

LEMMA PtclearEndBase ==
  ASSUME BaseInv, LostIs, PtclearEnd
  PROVE  BaseInv'
<1>1. CallInv /\ KernelInv /\ IInv /\ StacksInv /\ PortTyped /\ TaskInv /\ NodeInv
  BY DEF BaseInv, CallInv, KernelInv
<1>2. PICK p \in Port, st \in {"PTALLOC", "PTFREE"} :
           /\ PortStep(Idle) /\ Clears(curr, p)
           /\ UNCHANGED <<ptnextp, ptfree>>
           /\ PortUpd(p, st, ports[p].ptssem, ports[p].ptrsem, ports[p].ptmaxcnt,
                      ports[p].ptseq, ports[p].queue)
  BY PtclearEndPort
<1>3. PICK c \in Proc : c = curr
  BY <1>1, AnyStart
<1>4. PICK t : t = Idle
  OBVIOUS
<1>5. t.at \notin PortPoints /\ t.at # "pcreate" /\ t.at \notin Ends /\ t.at \notin Clearers
  BY <1>4, IdleFacts
<1>6. Clears(c, p) /\ ports[p].ptstate = "PTLIMBO" /\ ~Made(p)
  BY <1>1, <1>2, <1>3 DEF Clears, TaskInv, ClearerInv, Made
<1>7. CallInv' /\ (\A q \in Port \ {p} : Made(q)' <=> Made(q))
  <2>1. \A r \in Proc \ {c} : ~Clears(r, p)
    BY <1>1, <1>6 DEF TaskInv, ClearerInv
  <2>2. ports[p].ptseq <= MaxSeq
    BY <1>1 DEF CallInv, SeqInv
  <2>3. ptfree' \in Nat /\ ptnextp' \in Port /\ PortStep(t)
    BY <1>1, <1>2, <1>4 DEF PortTyped
  <2>4. Task(c).arg = p
    BY <1>6 DEF Clears
  <2> QED
    BY <1>1, <1>2, <1>3, <1>5, <1>6, <2>1, <2>2, <2>3, <2>4, PortBase
<1>8. ports'[p].queue = ports[p].queue /\ (\A q \in Port \ {p} : ports'[q] = ports[q])
  BY <1>2 DEF PortUpd, PortChange
<1>9. NodeInv'
  <2>1. ports[p].queue = <<>>
    BY <1>1, <1>6 DEF NodeInv
  <2> QED
    BY <1>1, <1>2, <1>7, <1>8, <2>1, NodeSame DEF CallInv
<1> QED
  BY <1>7, <1>9 DEF BaseInv

LEMMA TaskTop ==
  ASSUME IInv, StacksInv, NEW r \in Proc, Task(r).at \in PortPoints \ Clearers
  PROVE  Top(r) = Task(r)
<1>1. PICK k : k = kstack[r]
  OBVIOUS
<1>2. k \in Seq(Frame) /\ PortStack(k)
  BY <1>1, AnyStart DEF StacksInv, PortStacks, Stacks
<1>3. ~Ordinary(k) /\ Task(r) = k[Len(k)]
  BY <1>1, IdleFacts DEF Task, TaskOf
<1>4. Len(k) = 1
  BY <1>2, <1>3 DEF PortStack
<1>5. k # <<>> /\ Head(k) = k[1]
  BY <1>2, <1>4
<1> QED
  BY <1>1, <1>3, <1>4, <1>5 DEF Top

LEMMA NextTask ==
  ASSUME IInv, StacksInv, Next
  PROVE  Task(curr).at \notin PortPoints \ Clearers
<1>1. Top(curr).at \notin PortPoints
  <2>1. FlushLoop => Top(curr).at \in {"sreset", "sdelete"}
    BY DEF FlushLoop
  <2>2. "sreset" \notin PortPoints /\ "sdelete" \notin PortPoints
    BY DEF PortPoints
  <2> QED
    BY <2>1, <2>2, NextTop
<1>2. PICK c \in Proc : c = curr
  BY AnyStart
<1> QED
  BY <1>1, <1>2, TaskTop

LEMMA KernelBase ==
  ASSUME BaseInv, LostIs, Next, UNCHANGED portVars
  PROVE  /\ BaseInv' /\ TasksShrink
         /\ \A p \in Port : ~Creating(p) /\ ~Creating(p)' /\ (Made(p)' <=> Made(p))
<1>1. CallInv /\ KernelInv /\ IInv /\ StacksInv /\ PortTyped /\ TaskInv /\ NodeInv
  BY DEF BaseInv, CallInv, KernelInv
<1>2. /\ KernelInv' /\ StacksInv'
      /\ (SameTasks /\ NoKill) \/ (KillEnd /\ TaskStep(Top(curr).arg, Idle))
  BY <1>1, NextStep
<1>3. UNCHANGED <<ports, ptnextp, ptfree>>
  BY DEF portVars
<1>4. TasksShrink
  BY <1>2 DEF TasksShrink, SameTasks, TaskStep
<1>5. Task(curr).at # "pcreate"
  BY <1>1, NextTask DEF PortPoints, Clearers
<1>6. TaskInv' /\ \A p \in Port : ~Creating(p) /\ ~Creating(p)' /\ (Made(p)' <=> Made(p))
  BY <1>1, <1>3, <1>4, <1>5, TaskKernel
<1>7. \A p \in Port : lost'[p] \in LostRec
                      /\ (ports[p].ptstate = "PTLIMBO" =>
                            (\E r \in Proc : Clears(r, p)') \/ lost'[p].ptclear > 0)
  <2> SUFFICES ASSUME NEW p \in Port
               PROVE  lost'[p] \in LostRec
                      /\ (ports[p].ptstate = "PTLIMBO" =>
                            (\E r \in Proc : Clears(r, p)') \/ lost'[p].ptclear > 0)
    OBVIOUS
  <2>1. /\ lost[p].ptclear \in Nat
        /\ ports[p].ptstate = "PTLIMBO" => (\E r \in Proc : Clears(r, p)) \/ lost[p].ptclear > 0
    BY <1>1 DEF PortTyped, LostRec, CallInv, LimboInv
  <2>2. CASE SameTasks /\ NoKill
    <3>1. lost'[p] \in LostRec /\ lost'[p].ptclear = lost[p].ptclear
      BY <1>1, <1>3, <2>2, LostQuiet
    <3>2. \A r \in Proc : Clears(r, p)' <=> Clears(r, p)
      BY <2>2 DEF SameTasks, Clears
    <3> QED
      BY <2>1, <3>1, <3>2
  <2>3. CASE KillEnd /\ TaskStep(Top(curr).arg, Idle)
    <3>1. PICK v : v = Top(curr).arg
      OBVIOUS
    <3>2. /\ v \in Proc /\ sched'.pstate[v] = "PRFREE"
          /\ \A q \in Proc \ {v} : sched'.pstate[q] = "PRFREE" <=> sched.pstate[q] = "PRFREE"
      BY <1>1, <2>3, <3>1, KillMoves
    <3>3. /\ lost'[p] \in LostRec
          /\ lost'[p].ptclear = lost[p].ptclear + (IF v \in Clearing(p) THEN 1 ELSE 0)
      BY <1>1, <1>3, <3>2, LostKill
    <3>4. Clearing(p) = {r \in Proc : Clears(r, p)}
      BY <1>1, ClearingIs
    <3>5. \A r \in Proc \ {v} : Clears(r, p)' <=> Clears(r, p)
      BY <2>3, <3>1 DEF TaskStep, Clears
    <3>6. CASE Clears(v, p)
      BY <2>1, <3>2, <3>3, <3>4, <3>6
    <3>7. CASE ~Clears(v, p)
      BY <2>1, <3>3, <3>4, <3>5, <3>7
    <3> QED
      BY <3>6, <3>7
  <2> QED
    BY <1>2, <2>2, <2>3
<1>8. PortTyped'
  <2>1. lost' = [p \in Port |-> lost'[p]]
    BY DEF LostIs
  <2>2. lost' \in [Port -> LostRec]
    BY <1>7, <2>1
  <2> QED
    BY <1>1, <1>3, <2>2 DEF PortTyped
<1>9. SeqInv' /\ LimboInv'
  BY <1>1, <1>3, <1>7 DEF CallInv, SeqInv, LimboInv
<1>10. NodeInv'
  <2>1. Stored' = Stored
    BY <1>1, <1>3, <1>8, StoredSame
  <2> QED
    BY <1>1, <1>3, <1>6, <2>1 DEF NodeInv
<1> QED
  BY <1>2, <1>4, <1>6, <1>8, <1>9, <1>10 DEF BaseInv, CallInv

LEMMA BaseInit ==
  ASSUME InitP PROVE BaseInv
<1>1. KernelInv
  BY InitInv, InitMore DEF InitP, KernelInv
<1>1a. IInv
  BY <1>1 DEF KernelInv
<1>2. \A r \in Proc : kstack[r] = <<>>
  BY DEF InitP, Init, SchedInit
<1>3. StacksInv
  BY <1>2, EmptyStack DEF StacksInv, PortStacks
<1>4. \A r \in Proc : Task(r) = Idle
  BY <1>2, EmptyStack DEF Task
<1>5. /\ ports = [i \in Port |-> [ptstate |-> "PTFREE", ptssem |-> 0, ptrsem |-> 0,
                                   ptmaxcnt |-> 0, ptseq |-> 0, queue |-> <<>>]]
      /\ ptnextp = NPORTS - 1 /\ ptfree = MAXMSGS
      /\ lost = [i \in Port |-> [psend |-> 0, preceive |-> 0, ptclear |-> 0]]
  BY DEF InitP
<1>6. PortTyped
  <2>1. 0 \in Sem /\ NPORTS - 1 \in Port
    BY NSEMAssumption, NPORTSAssumption DEF Sem, Port
  <2>2. <<>> \in Seq(Proc) /\ 0 \in Nat /\ 0 \in Counts \cup {0}
    OBVIOUS
  <2>3. ports \in [Port -> PortRec]
    BY <1>5, <2>1, <2>2 DEF PortRec
  <2>4. lost \in [Port -> LostRec]
    BY <1>5 DEF LostRec
  <2> QED
    BY <1>5, <2>1, <2>3, <2>4, MAXMSGSAssumption DEF PortTyped
<1>7. \A p \in Port : /\ ports[p].ptstate = "PTFREE" /\ ports[p].ptseq = 0
                      /\ ports[p].queue = <<>>
  BY <1>5
<1>8. TaskInv
  BY <1>4, IdleFacts DEF TaskInv, CreatorInv, UserInv, ClearerInv, Clears
<1>9. SeqInv /\ LimboInv
  BY <1>7, MaxSeqAssumption DEF SeqInv, LimboInv
<1>10. NodeInv
  <2>1. Stored = {}
    BY <1>7 DEF Stored
  <2>2. IsFiniteSet(Stored) /\ Cardinality(Stored) = 0
    BY <2>1, FS_EmptySet
  <2> QED
    BY <1>5, <1>7, <2>2, MAXMSGSAssumption DEF NodeInv
<1> QED
  BY <1>1, <1>3, <1>6, <1>8, <1>9, <1>10 DEF BaseInv, CallInv

(* What every step that is no step of the kernel is. *)
LEMMA PortCalls ==
  ASSUME PortCall
  PROVE  \/ \E n \in Counts : Pcreate(n)
         \/ PcreateEnd
         \/ \E p \in Port, pt \in Ends : Calling(pt) /\ WaitInPort(p, SemOf(p, pt), pt)
         \/ \E p \in Port, pt \in Clearers : Ptclear(p, pt)
         \/ PsendEnd \/ PreceiveEnd \/ PtclearSems \/ PtclearEnd
<1>1. ASSUME NEW p \in Port, Psend(p)
      PROVE  \E pt \in Ends : Calling(pt) /\ WaitInPort(p, SemOf(p, pt), pt)
  <2>1. "psend" \in Ends /\ Calling("psend") /\ WaitInPort(p, SemOf(p, "psend"), "psend")
    BY <1>1 DEF Psend, Ends, SemOf
  <2> QED
    BY <2>1
<1>2. ASSUME NEW p \in Port, Preceive(p)
      PROVE  \E pt \in Ends : Calling(pt) /\ WaitInPort(p, SemOf(p, pt), pt)
  <2>1. "preceive" \in Ends /\ Calling("preceive")
        /\ WaitInPort(p, SemOf(p, "preceive"), "preceive")
    BY <1>2 DEF Preceive, Ends, SemOf
  <2> QED
    BY <2>1
<1>3. "preset" \in Clearers /\ "pdelete" \in Clearers
  BY DEF Clearers
<1> QED
  BY <1>1, <1>2, <1>3 DEF PortCall

LEMMA BaseNext ==
  ASSUME BaseInv, NextP
  PROVE  BaseInv'
<1>1. LostIs
  BY DEF NextP, LostIs
<1>2. CASE PortCall
  BY <1>1, <1>2, PortCalls, PcreateBase, PcreateEndBase, WaitInPortBase, PtclearBase, EndBase,
     PtclearSemsBase, PtclearEndBase
<1>3. CASE Next /\ UNCHANGED portVars
  BY <1>1, <1>3, KernelBase
<1> QED
  BY <1>2, <1>3 DEF NextP

LEMMA BaseStutter ==
  ASSUME BaseInv, UNCHANGED varsP
  PROVE  BaseInv'
<1>1. UNCHANGED <<vars, portVars, lost>>
  BY DEF varsP
<1>2. UNCHANGED <<ports, ptnextp, ptfree, lost>>
  BY <1>1 DEF portVars
<1>3. UNCHANGED <<sched, kstack, semaph, psem, nextsem, semVars, clkVars, msgVars, procVars>>
  BY <1>1 DEF vars, semVars
<1>4. KernelInv' /\ IInv
  BY <1>1, KernelNext DEF BaseInv, CallInv, KernelInv
<1>5. StacksInv'
  BY <1>3 DEF BaseInv, CallInv, StacksInv, PortStacks
<1>6. TaskInv' /\ SeqInv' /\ LimboInv'
  BY <1>2, <1>3 DEF BaseInv, CallInv, TaskInv, CreatorInv, UserInv, ClearerInv, SeqInv, LimboInv,
     Task, Clears, Made, Creating, Creates, curr
<1>7. PortTyped' /\ NodeInv'
  BY <1>2, <1>3 DEF BaseInv, CallInv, PortTyped, NodeInv, Stored, Made, Creating, Creates, Task
<1> QED
  BY <1>4, <1>5, <1>6, <1>7 DEF BaseInv, CallInv

(* The kernel's invariant and that of the ports hold together.              *)
THEOREM PortInvariance == SpecP => []BaseInv
<1>1. InitP => BaseInv
  BY BaseInit
<1>2. BaseInv /\ [NextP]_varsP => BaseInv'
  BY BaseNext, BaseStutter
<1> QED
  BY <1>1, <1>2, PTL DEF SpecP

(* A port in limbo has a process that is still about to end ptclear.c for   *)
(* it, unless kill() took that process along.                               *)
THEOREM LimboLasts == SpecP => []LimboEnds
<1>1. BaseInv => LimboEnds
  <2> SUFFICES ASSUME BaseInv, NEW p \in Port, ports[p].ptstate = "PTLIMBO"
               PROVE  Clearing(p) # {} \/ lost[p].ptclear > 0
    BY DEF LimboEnds
  <2>1. Clearing(p) = {r \in Proc : Clears(r, p)}
    BY ClearingIs DEF BaseInv, CallInv, KernelInv
  <2> QED
    BY <2>1 DEF BaseInv, CallInv, LimboInv
<1> QED
  BY <1>1, PortInvariance, PTL

(* Every variable of the kernel and the ports has its type.  In particular  *)
(* ptfree neither falls below zero nor rises above MAXMSGS: a node of a     *)
(* message is in one port or on the free list, whoever was killed, and      *)
(* however many ports were reset or deleted meanwhile (ptclear.c).          *)
THEOREM PortTypes == SpecP => [](TypeOK /\ PortTypeOK)
<1>1. BaseInv => TypeOK
  BY InvTypes, InvKernelTypes DEF BaseInv, CallInv, KernelInv, TypeOK
<1>2. BaseInv => PortTypeOK
  <2> SUFFICES ASSUME BaseInv PROVE PortTypeOK
    OBVIOUS
  <2>1. PortTyped /\ NodeInv /\ SeqInv
    BY DEF BaseInv, CallInv
  <2>2. ports = [p \in Port |-> ports[p]]
    BY <2>1 DEF PortTyped
  <2>3. ptfree \in 0..MAXMSGS
    <3>1. Cardinality(Stored) \in Nat
      BY <2>1, FS_CardinalityType DEF NodeInv
    <3> QED
      BY <2>1, <3>1, MAXMSGSAssumption DEF NodeInv, PortTyped
  <2>4. \A p \in Port : ports[p].ptseq \in 0..MaxSeq
    BY <2>1, SemOfPort, MaxSeqAssumption DEF SeqInv
  <2>5. PICK R : R = [ptstate : {"PTFREE", "PTLIMBO", "PTALLOC"},
                      ptssem : Sem \cup {SYSERR}, ptrsem : Sem \cup {SYSERR},
                      ptmaxcnt : Counts \cup {0}, ptseq : 0..MaxSeq,
                      queue : Seq(Proc)]
    OBVIOUS
  <2>6. \A p \in Port : ports[p] \in R
    BY <2>1, <2>4, <2>5 DEF PortTyped, PortRec
  <2>7. ports \in [Port -> R]
    BY <2>2, <2>6
  <2> QED
    BY <2>1, <2>3, <2>5, <2>7 DEF PortTypeOK, PortTyped, LostRec
<1> QED
  BY <1>1, <1>2, PortInvariance, PTL

(* What the kernel promises still holds where psend and preceive block and  *)
(* are woken inside wait() and signal(), and where preset and pdelete call  *)
(* sreset and sdelete from within their own calls.                          *)
THEOREM KernelUnderPorts ==
  SpecP => [](NullAlwaysRunnable /\ ReadyListSorted /\ HighestPriorityRuns /\ ListsMatchStates
              /\ SemCountsWaiters /\ ReceiverHasMessage /\ SleepQueueCurrent)
<1>1. BaseInv => /\ NullAlwaysRunnable /\ ReadyListSorted /\ HighestPriorityRuns
                 /\ ListsMatchStates /\ SemCountsWaiters
  BY InvNull, InvSorted, InvHighest, InvLists, InvCounts DEF BaseInv, CallInv, KernelInv
<1>2. BaseInv => ReceiverHasMessage /\ SleepQueueCurrent
  BY InvReceiver, InvSleep DEF BaseInv, CallInv, KernelInv
<1> QED
  BY <1>1, <1>2, PortInvariance, PTL

(***************************************************************************)
(* What the kernel's own steps do to the semaphores.                       *)
(***************************************************************************)

(* The loop under way after a step is the one before it, or one that the    *)
(* application has called.                                                  *)
SameLoop ==
  /\ Top(curr)'.at = Top(curr).at /\ Top(curr)'.arg = Top(curr).arg
  /\ curr' = curr /\ (Top(curr).at = "sreset" => Top(curr)' = Top(curr))

LoopSub == SemLoops \subseteq Loops /\ "user" \notin SemLoops /\ "stopclk" \notin SemLoops

LEMMA LoopSubset == LoopSub
BY DEF LoopSub, SemLoops, Loops

(* The top of a stack of which the one below is the old stack. *)
LEMMA PushTop ==
  ASSUME NEW k \in Seq(Frame), NEW fs \in Seq(Frame), fs # <<>>
  PROVE  fs \o k # <<>> /\ (fs \o k)[1] = fs[1] /\ 1 \in DOMAIN fs
OBVIOUS

LEMMA LoopStays ==
  ASSUME IInv, NEW c \in Proc, c = curr', kstack'[c] = kstack[c], Top(curr)'.at \in SemLoops
  PROVE  SameLoop
<1>1. Top(curr)' = TopOf(kstack', c) /\ Top(curr) = TopOf(kstack, curr)
  BY TopIsTopOf
<1>2. TopOf(kstack, c).at \in SemLoops /\ Top(curr)' = TopOf(kstack, c)
  BY <1>1 DEF TopOf
<1>3. TopOf(kstack, c).at \in Loops /\ TopOf(kstack, c).at # "user"
  BY <1>2, LoopSubset DEF LoopSub
<1>4. kstack \in Stacks /\ OnlyLoopAt(kstack, curr)
  BY AnyStart
<1>5. kstack[c] # <<>> /\ TopOf(kstack, c) = kstack[c][1] /\ 1 \in DOMAIN kstack[c]
  BY <1>3, <1>4, TopIsFirst
<1>6. c = curr
  BY <1>3, <1>4, <1>5 DEF OnlyLoopAt
<1> QED
  BY <1>1, <1>2, <1>6 DEF SameLoop

LEMMA NextLoops ==
  ASSUME KernelInv, IInv', Next, Top(curr)'.at \in SemLoops
  PROVE  SameLoop \/ SemCalls(Top(curr)'.arg)
<1>1. IInv /\ GInv /\ defclk \in 0..MaxDefer
  BY DEF KernelInv, TInv
<1>2. PICK c : c = curr'
  OBVIOUS
<1>3. c \in Proc /\ kstack' \in Stacks /\ kstack \in Stacks /\ curr \in Proc
  BY <1>1, <1>2, CurrNext, AnyStart DEF IInv, KInv, Stacks
<1>4. Top(curr)' = TopOf(kstack', c) /\ Top(curr) = TopOf(kstack, curr)
  BY <1>2, TopIsTopOf
<1>5. Top(curr)'.at \in Loops /\ Top(curr)'.at # "user"
  BY LoopSubset DEF LoopSub
<1>6. ~NoLoops(kstack')
  BY <1>3, <1>4, <1>5, NoLoopsTop
<1>7. CASE kstack'[c] = kstack[c]
  BY <1>1, <1>2, <1>3, <1>7, LoopStays
<1>8. CASE Return /\ Top(curr).at # "user"
  BY <1>1, <1>6, <1>8, ReturnOne
<1>9. ASSUME NEW fs \in Seq(Frame), \A i \in DOMAIN fs : AppFrame(fs[i]), Call(fs),
             Top(curr).at \in {"user", "stopclk"}, kstack'[c] # kstack[c]
      PROVE  SemCalls(Top(curr)'.arg)
  <2>1. kstack' = [kstack EXCEPT ![curr] = fs \o kstack[curr]]
    BY <1>9 DEF Call
  <2>2. c = curr /\ kstack'[c] = fs \o kstack[curr]
    BY <1>3, <1>9, <2>1 DEF Stacks
  <2>3. kstack[curr] \in Seq(Frame)
    BY <1>3 DEF Stacks
  <2>4. fs # <<>>
    <3>1. fs = <<>> => fs \o kstack[curr] = kstack[curr]
      BY <2>3
    <3> QED
      BY <1>9, <2>2, <3>1
  <2>5. fs \o kstack[curr] # <<>> /\ (fs \o kstack[curr])[1] = fs[1] /\ 1 \in DOMAIN fs
    BY <2>3, <2>4, PushTop
  <2>6. Top(curr)' = fs[1]
    BY <1>3, <1>4, <1>5, <2>2, <2>5, TopIsFirst
  <2> QED
    BY <1>9, <2>5, <2>6 DEF AppFrame
<1>10. ASSUME NEW f \in Frame, f.at = "signaln", f.arg = Top(curr).arg, Goto(f),
              Top(curr).at = "signaln", kstack'[c] # kstack[c]
       PROVE  SameLoop
  <2>1. c = curr
    BY <1>3, <1>10 DEF Goto, Stacks
  <2>2. TopOf(kstack', curr) = f
    BY <1>1, <1>10, GotoOne
  <2> QED
    BY <1>2, <1>4, <1>10, <2>1, <2>2 DEF SameLoop
<1>11. CASE KernelStack
  BY <1>7, <1>8, <1>9, <1>10, <1>11 DEF KernelStack
<1>12. CASE Taken
  <2>1. PICK p \in Proc : kstack' = [kstack EXCEPT ![p] = <<>>]
    BY <1>12 DEF Taken
  <2>2. c # p
    <3>1. kstack'[p] = <<>>
      BY <1>3, <2>1 DEF Stacks
    <3> QED
      BY <1>4, <1>5, <3>1 DEF TopOf, At
  <2> QED
    BY <1>3, <1>7, <2>1, <2>2 DEF Stacks
<1>13. CASE KillEnd
  BY <1>8, <1>13 DEF KillEnd
<1> QED
  BY <1>1, <1>11, <1>12, <1>13, KernelSteps

(* The processes on the queue of a semaphore. *)
QueueOf(s) == ToSet(semaph[s].queue)

LEMMA TailSub ==
  ASSUME NEW q \in Seq(Proc), q # <<>>
  PROVE  Tail(q) \in Seq(Proc) /\ ToSet(Tail(q)) \subseteq ToSet(q)
<1>1. Tail(q) \in Seq(Proc) /\ Len(Tail(q)) = Len(q) - 1 /\ Len(q) \in Nat
      /\ \A i \in 1..(Len(q) - 1) : Tail(q)[i] = q[i + 1]
  OBVIOUS
<1>2. ASSUME NEW i \in DOMAIN Tail(q) PROVE Tail(q)[i] \in ToSet(q)
  <2>1. i \in 1..(Len(q) - 1)
    BY <1>1
  <2>2. i + 1 \in DOMAIN q /\ Tail(q)[i] = q[i + 1]
    BY <1>1, <2>1
  <2> QED
    BY <2>2 DEF ToSet
<1> QED
  BY <1>1, <1>2 DEF ToSet

LEMMA AppendSub ==
  ASSUME NEW q \in Seq(Proc), NEW c \in Proc
  PROVE  Append(q, c) \in Seq(Proc) /\ ToSet(Append(q, c)) \subseteq ToSet(q) \cup {c}
<1>1. Append(q, c) \in Seq(Proc) /\ Len(Append(q, c)) = Len(q) + 1 /\ Len(q) \in Nat
      /\ \A i \in 1..Len(q) : Append(q, c)[i] = q[i]
      /\ Append(q, c)[Len(q) + 1] = c /\ DOMAIN Append(q, c) = 1..(Len(q) + 1)
  OBVIOUS
<1>2. ASSUME NEW i \in DOMAIN Append(q, c) PROVE Append(q, c)[i] \in ToSet(q) \cup {c}
  <2>1. CASE i \in 1..Len(q)
    BY <1>1, <2>1 DEF ToSet
  <2>2. CASE i = Len(q) + 1
    BY <1>1, <2>2
  <2> QED
    BY <1>1, <2>1, <2>2
<1> QED
  BY <1>1, <1>2 DEF ToSet

(* `semcnt++', and the head of the queue released. *)
Signalled(s) == \E q : /\ SemUpd(semaph, semaph', s, semaph[s].sstate, semaph[s].semcnt + 1, q)
                       /\ ToSet(q) \subseteq QueueOf(s)

LEMMA SignalUpd ==
  ASSUME IInv, NEW s \in Sem, isUsed(s), CountMatches(semaph[s]),
         \/ /\ semaph[s].semcnt < 0
            /\ semaph' = [semaph EXCEPT ![s].semcnt = @ + 1, ![s].queue = Tail(@)]
         \/ semaph' = [semaph EXCEPT ![s].semcnt = @ + 1]
  PROVE  Signalled(s)
<1>1. /\ semaph \in [Sem -> SemRec] /\ semaph[s].semcnt \in Int
      /\ semaph[s].queue \in Seq(Proc)
  BY AnyStart, SemFacts
<1>2. CASE /\ semaph[s].semcnt < 0
           /\ semaph' = [semaph EXCEPT ![s].semcnt = @ + 1, ![s].queue = Tail(@)]
  <2>1. Len(semaph[s].queue) # 0
    BY <1>1, <1>2 DEF CountMatches, isUsed
  <2>2. semaph[s].queue # <<>>
    BY <2>1
  <2>3. PICK q, n : q = Tail(semaph[s].queue) /\ n = semaph[s].semcnt + 1
    OBVIOUS
  <2>4. semaph' = [semaph EXCEPT ![s].semcnt = n, ![s].queue = q]
    BY <1>1, <1>2, <2>3
  <2>5. q \in Seq(Proc) /\ ToSet(q) \subseteq QueueOf(s) /\ n \in Int
    BY <1>1, <2>2, <2>3, TailSub DEF QueueOf
  <2>6. SemUpd(semaph, semaph', s, semaph[s].sstate, n, q)
    BY <1>1, <2>4, <2>5, SetCountQueue
  <2> QED
    BY <2>3, <2>5, <2>6 DEF Signalled
<1>3. CASE semaph' = [semaph EXCEPT ![s].semcnt = @ + 1]
  <2>1. PICK n : n = semaph[s].semcnt + 1
    OBVIOUS
  <2>2. semaph' = [semaph EXCEPT ![s].semcnt = n] /\ n \in Int
    BY <1>1, <1>3, <2>1
  <2>3. SemUpd(semaph, semaph', s, semaph[s].sstate, n, semaph[s].queue)
    BY <1>1, <2>2, SetCount
  <2> QED
    BY <2>1, <2>3 DEF Signalled, QueueOf
<1> QED
  BY <1>2, <1>3

(* wait.c *)
Waited(s) == \E q : /\ SemUpd(semaph, semaph', s, semaph[s].sstate, semaph[s].semcnt - 1, q)
                    /\ ToSet(q) \subseteq QueueOf(s) \cup {curr}

LEMMA WaitUpd ==
  ASSUME IInv, NEW s \in Sem, WaitOn(s)
  PROVE  Waited(s)
<1>1. /\ semaph \in [Sem -> SemRec] /\ semaph[s].semcnt \in Int
      /\ semaph[s].queue \in Seq(Proc) /\ curr \in Proc
  BY AnyStart, SemFacts
<1>2. PICK n, c : n = semaph[s].semcnt - 1 /\ c = curr
  OBVIOUS
<1>3. n \in Int /\ c \in Proc
  BY <1>1, <1>2
<1>4. CASE semaph' = [semaph EXCEPT ![s].semcnt = @ - 1, ![s].queue = Append(@, curr)]
  <2>1. PICK q : q = Append(semaph[s].queue, c)
    OBVIOUS
  <2>2. q \in Seq(Proc) /\ ToSet(q) \subseteq QueueOf(s) \cup {c}
    BY <1>1, <1>3, <2>1, AppendSub DEF QueueOf
  <2>3. semaph' = [semaph EXCEPT ![s].semcnt = n, ![s].queue = q]
    BY <1>1, <1>2, <1>4, <2>1
  <2>4. SemUpd(semaph, semaph', s, semaph[s].sstate, n, q)
    BY <1>1, <1>3, <2>2, <2>3, SetCountQueue
  <2> QED
    BY <1>2, <2>2, <2>4 DEF Waited
<1>5. CASE semaph' = [semaph EXCEPT ![s].semcnt = @ - 1]
  <2>1. semaph' = [semaph EXCEPT ![s].semcnt = n]
    BY <1>1, <1>2, <1>5
  <2>2. SemUpd(semaph, semaph', s, semaph[s].sstate, n, semaph[s].queue)
    BY <1>1, <1>3, <2>1, SetCount
  <2> QED
    BY <1>2, <2>2 DEF Waited, QueueOf
<1> QED
  BY <1>4, <1>5 DEF WaitOn

(* screate *)
LEMMA ScreateUpd ==
  ASSUME IInv, NEW s \in Sem, ~isUsed(s), NEW n \in Int,
         semaph' = [semaph EXCEPT ![s].sstate = "SUSED", ![s].semcnt = n]
  PROVE  SemUpd(semaph, semaph', s, "SUSED", n, semaph[s].queue)
<1>1. semaph \in [Sem -> SemRec] /\ "SUSED" \in {"SFREE", "SUSED"}
  BY AnyStart, SemFacts
<1> QED
  BY <1>1, SetStateCount

(***************************************************************************)
(* A step of the kernel changes one semaphore at most: one that the        *)
(* application calls for, one that was free, or the one of the loop that   *)
(* is under way.                                                           *)
(***************************************************************************)
Grown(s, st, n) ==
  \E q : /\ SemUpd(semaph, semaph', s, st, n, q)
         /\ ToSet(q) \subseteq QueueOf(s) \cup {r \in {curr} : InUser}

(* One round of the loop of sreset empties the queue, the last stores the   *)
(* count.                                                                   *)
ResetRound ==
  LET s == Top(curr).arg
  IN  \/ kstack' = kstack /\ curr' = curr
      \/ /\ semaph'[s].semcnt = Top(curr).cnt /\ semaph'[s].queue = <<>>

LoopTouch(s) == /\ Top(curr).at \in SemLoops /\ Top(curr).arg = s
                /\ Grown(s, semaph[s].sstate, semaph'[s].semcnt)
                /\ Top(curr).at = "sreset" => ResetRound

SemTouch(s) ==
  \/ SemCalls(s) /\ Grown(s, semaph'[s].sstate, semaph'[s].semcnt)
  \/ ~isUsed(s) /\ Grown(s, semaph'[s].sstate, semaph'[s].semcnt)
  \/ LoopTouch(s)

LEMMA GrownUpd ==
  ASSUME NEW s \in Sem, NEW st, NEW n, NEW q, SemUpd(semaph, semaph', s, st, n, q),
         ToSet(q) \subseteq QueueOf(s) \cup {r \in {curr} : InUser}
  PROVE  Grown(s, st, n) /\ semaph'[s].sstate = st /\ semaph'[s].semcnt = n
BY DEF Grown, SemUpd

LEMMA ReadyCurr ==
  ASSUME IInv, NEW p, sched' = Ready(sched, p)
  PROVE  curr' = curr
<1>1. PICK s : s = sched
  OBVIOUS
<1>2. s \in SchedRec
  BY <1>1, AnyStart DEF Core
<1>3. Ready(s, p).currpid = s.currpid
  BY <1>2 DEF Ready, SchedRec
<1> QED
  BY <1>1, <1>3 DEF curr

LEMMA FlushTouch ==
  ASSUME IInv, FlushLoop
  PROVE  \/ semaph' = semaph /\ Top(curr).at # "sreset"
         \/ Top(curr).arg \in Sem /\ LoopTouch(Top(curr).arg)
<1>1. SemTyped(semaph, psem, nextsem)
  BY AnyStart
<1>2. /\ Top(curr).at \in {"sreset", "sdelete"} /\ Top(curr).at # "user"
      /\ Top(curr).at \in SemLoops
  BY DEF FlushLoop, SemLoops
<1>3. PICK s, c : s = Top(curr).arg /\ c = Top(curr).cnt
  OBVIOUS
<1>4. s \in Sem /\ c \in Int
  BY <1>2, <1>3, InCall DEF Frame
<1>5. semaph \in [Sem -> SemRec] /\ semaph[s].queue \in Seq(Proc)
  BY <1>1, <1>4, SemFacts
<1>6. CASE /\ semaph[s].queue # <<>> /\ semaph' = [semaph EXCEPT ![s].queue = Tail(@)]
           /\ sched' = Ready(sched, Head(semaph[s].queue)) /\ kstack' = kstack
  <2>1. PICK q : q = Tail(semaph[s].queue)
    OBVIOUS
  <2>2. semaph' = [semaph EXCEPT ![s].queue = q] /\ q \in Seq(Proc)
        /\ ToSet(q) \subseteq QueueOf(s)
    BY <1>5, <1>6, <2>1, TailSub DEF QueueOf
  <2>3. SemUpd(semaph, semaph', s, semaph[s].sstate, semaph[s].semcnt, q)
    BY <1>4, <1>5, <2>2, SetQueue
  <2>4. Grown(s, semaph[s].sstate, semaph'[s].semcnt)
    BY <1>4, <2>2, <2>3, GrownUpd
  <2>5. curr' = curr
    BY <1>6, ReadyCurr
  <2>6. ResetRound
    BY <1>6, <2>5, Zenon DEF ResetRound
  <2> QED
    BY <1>2, <1>3, <1>4, <2>4, <2>6 DEF SemTouch, LoopTouch
<1>7. CASE /\ semaph[s].queue = <<>> /\ Top(curr).at = "sreset"
           /\ semaph' = [semaph EXCEPT ![s].semcnt = c]
  <2>1. SemUpd(semaph, semaph', s, semaph[s].sstate, c, semaph[s].queue)
    BY <1>4, <1>5, <1>7, SetCount
  <2>2. Grown(s, semaph[s].sstate, semaph'[s].semcnt)
    BY <1>4, <2>1, GrownUpd DEF QueueOf
  <2>3. ResetRound
    BY <1>3, <1>7, <2>1 DEF ResetRound, SemUpd
  <2> QED
    BY <1>2, <1>3, <1>4, <2>2, <2>3 DEF SemTouch, LoopTouch
<1> QED
  BY <1>3, <1>6, <1>7 DEF FlushLoop

LEMMA SemSteps ==
  ASSUME IInv, SemCall
  PROVE  semaph' = semaph \/ \E s \in Sem : SemTouch(s)
<1>1. SemTyped(semaph, psem, nextsem)
  BY AnyStart
<1>2. ASSUME NEW s \in Sem, Wait(s) PROVE SemTouch(s)
  <2>1. InUser /\ WaitOn(s)
    BY <1>2 DEF Wait, Calling
  <2>2. PICK q, st, n : /\ SemUpd(semaph, semaph', s, st, n, q)
                        /\ ToSet(q) \subseteq QueueOf(s) \cup {curr}
    BY <2>1, WaitUpd DEF Waited
  <2>3. ToSet(q) \subseteq QueueOf(s) \cup {r \in {curr} : InUser}
    BY <2>1, <2>2
  <2>4. Grown(s, semaph'[s].sstate, semaph'[s].semcnt)
    BY <2>2, <2>3, GrownUpd
  <2> QED
    BY <1>2, <2>4 DEF SemTouch, SemCalls
<1>3. ASSUME NEW s \in Sem, Signal(s) PROVE SemTouch(s)
  <2>1. CountMatches(semaph[s]) /\ isUsed(s)
    BY <1>3, AnyStart, UserTop DEF Signal, Calling, Emptying
  <2>2. \/ /\ semaph[s].semcnt < 0
           /\ semaph' = [semaph EXCEPT ![s].semcnt = @ + 1, ![s].queue = Tail(@)]
        \/ semaph' = [semaph EXCEPT ![s].semcnt = @ + 1]
    BY <1>3 DEF Signal, SignalOnce
  <2>3. PICK q, st, n : SemUpd(semaph, semaph', s, st, n, q) /\ ToSet(q) \subseteq QueueOf(s)
    BY <2>1, <2>2, SignalUpd DEF Signalled
  <2>4. Grown(s, semaph'[s].sstate, semaph'[s].semcnt)
    BY <2>3, GrownUpd
  <2> QED
    BY <1>3, <2>4 DEF SemTouch, SemCalls
<1>4. ASSUME NEW s \in Sem, Sdelete(s) PROVE SemTouch(s)
  <2>1. semaph' = [semaph EXCEPT ![s].sstate = "SFREE"] /\ "SFREE" \in {"SFREE", "SUSED"}
    BY <1>4 DEF Sdelete
  <2>2. SemUpd(semaph, semaph', s, "SFREE", semaph[s].semcnt, semaph[s].queue)
    BY <1>1, <2>1, SetState, SemFacts
  <2>3. Grown(s, semaph'[s].sstate, semaph'[s].semcnt)
    BY <2>2, GrownUpd DEF QueueOf
  <2> QED
    BY <1>4, <2>3 DEF SemTouch, SemCalls
<1>5. ASSUME NEW s \in Sem, NEW n \in 0..MaxCount, Signaln(s, n) \/ Sreset(s, n)
      PROVE  semaph' = semaph
  BY <1>5 DEF Signaln, Sreset, semVars
<1>6. ASSUME NEW n \in 0..MaxCount, Screate(n) PROVE \E s \in Sem : SemTouch(s)
  <2>1. PICK i \in 0..(NSEM - 1) : NextFree(i) /\ TakeSem(i, n)
    BY <1>6 DEF Screate
  <2>2. PICK s : s = ProbeSem(i)
    OBVIOUS
  <2>3. s \in Sem
    <3>1. nextsem \in Int
      BY <1>1, NSEMAssumption DEF SemTyped, Sem
    <3>2. (nextsem - i) % NSEM \in 0..(NSEM - 1)
      BY <3>1, NSEMAssumption, ModBound
    <3> QED
      BY <2>2, <3>2 DEF ProbeSem, Sem
  <2>4. ~isUsed(s) /\ semaph' = [semaph EXCEPT ![s].sstate = "SUSED", ![s].semcnt = n]
    BY <2>1, <2>2 DEF NextFree, TakeSem
  <2>5. n \in Int
    BY MaxCountAssumption
  <2>6. SemUpd(semaph, semaph', s, "SUSED", n, semaph[s].queue)
    BY <2>3, <2>4, <2>5, ScreateUpd
  <2>7. Grown(s, semaph'[s].sstate, semaph'[s].semcnt)
    BY <2>3, <2>6, GrownUpd DEF QueueOf
  <2> QED
    BY <2>3, <2>4, <2>7 DEF SemTouch
<1>7. CASE SignalnLoop
  <2>1. Top(curr).at = "signaln" /\ Top(curr).at # "user" /\ Top(curr).at # "sreset"
        /\ Top(curr).at \in SemLoops
    BY <1>7 DEF SignalnLoop, SemLoops
  <2>2. PICK s : s = Top(curr).arg
    OBVIOUS
  <2>3. s \in Sem
    BY <2>1, <2>2, InCall DEF Frame
  <2>4. CountMatches(semaph[s]) /\ isUsed(s)
    BY <2>1, <2>2, <2>3, AnyStart DEF Emptying, IInv, QInv
  <2>5. \/ semaph' = semaph
        \/ /\ semaph[s].semcnt < 0
           /\ semaph' = [semaph EXCEPT ![s].semcnt = @ + 1, ![s].queue = Tail(@)]
        \/ semaph' = [semaph EXCEPT ![s].semcnt = @ + 1]
    BY <1>7, <2>2 DEF SignalnLoop, SignalOnce
  <2>6. semaph' = semaph \/ Signalled(s)
    BY <2>3, <2>4, <2>5, SignalUpd
  <2>7. CASE Signalled(s)
    <3>1. PICK q, n : SemUpd(semaph, semaph', s, semaph[s].sstate, n, q)
                      /\ ToSet(q) \subseteq QueueOf(s)
      BY <2>7 DEF Signalled
    <3>2. Grown(s, semaph[s].sstate, semaph'[s].semcnt)
      BY <2>3, <3>1, GrownUpd
    <3> QED
      BY <2>1, <2>2, <2>3, <3>2 DEF SemTouch, LoopTouch
  <2> QED
    BY <2>6, <2>7
<1>8. CASE FlushLoop
  BY <1>8, FlushTouch DEF SemTouch
<1> QED
  BY <1>2, <1>3, <1>4, <1>5, <1>6, <1>7, <1>8 DEF SemCall

LEMMA NextSems ==
  ASSUME IInv, Next
  PROVE  KillEnd \/ semaph' = semaph \/ \E s \in Sem : SemTouch(s)
<1>1. CASE ProcCall
  BY <1>1 DEF ProcCall, Create, NullCreate, NullResume, Setnok, Kill, semVars
<1>2. CASE SemCall
  BY <1>2, SemSteps
<1>3. CASE ~ProcCall /\ ~SemCall
  BY <1>3 DEF Next, Untimed, SchedCall, MsgCall, ClockCall, SleepCall, RecvtimCall,
              Tick, semVars
<1> QED
  BY <1>1, <1>2, <1>3

LEMMA NextReset ==
  ASSUME IInv, Next, Top(curr).at = "sreset"
  PROVE  Top(curr).arg \in Sem /\ LoopTouch(Top(curr).arg)
<1>1. FlushLoop
  BY NextTop
<1> QED
  BY <1>1, FlushTouch

(***************************************************************************)
(* The semaphores of the ports, for an application that keeps its hands    *)
(* off them.                                                               *)
(***************************************************************************)

(* Process r will still delete this semaphore of port p, or has kept it. *)
Keeps(r, p, pt) == Clears(r, p) /\ (Task(r).at = "pdelete" => Task(r).cnt <= Stage(pt))

(* Process r has asked for the semaphore's new count. *)
Renews(r, p, pt) == Clears(r, p) /\ Task(r).at = "preset" /\ Task(r).cnt > Stage(pt)

(* The port has the semaphore for its own. *)
Owns(p, pt) ==
  /\ SemOf(p, pt) # SYSERR
  /\ Made(p) \/ (pt = "psend" /\ Creating(p)) \/ \E r \in Proc : Keeps(r, p, pt)

(* The semaphore is as new. *)
IsNew(p, pt) ==
  /\ SemOf(p, pt) # SYSERR
  /\ (pt = "psend" /\ Creating(p)) \/ \E r \in Proc : Renews(r, p, pt)

(* No step is a call, by the application itself, of wait, signal, signaln,  *)
(* sreset or sdelete on a semaphore that a port has for its own.  Semaphore *)
(* numbers are small integers, and the code does not prevent such a call.   *)
Apart == \A p \in Port, pt \in Ends : Owns(p, pt) => ~SemCalls(SemOf(p, pt))

Resetting(s) == Top(curr).at = "sreset" /\ Top(curr).arg = s
FreshSem(s, n) == semaph[s].semcnt = n /\ semaph[s].queue = <<>>
Fresh(p, pt) == FreshSem(SemOf(p, pt), StartCount(p, pt))

(* What the count would be, were nobody waiting or on the way. *)
Expected(p, pt) == IF pt = "psend" THEN ports[p].ptmaxcnt - Len(ports[p].queue)
                   ELSE Len(ports[p].queue)
Gone(p, pt) == IF pt = "psend" THEN lost[p].psend ELSE lost[p].preceive

(* Nobody in psend or preceive is on the queue of another semaphore. *)
OnlyHere(s, w) == \A y \in Sem \ {s} : QueueOf(y) \cap w = {}

Counted(p, pt) ==
  IF SemOf(p, pt) = SYSERR
  THEN Within(p, pt) = {} /\ (pt = "psend" => ports[p].queue = <<>>)
  ELSE /\ semaph[SemOf(p, pt)].semcnt =
             Expected(p, pt) - Cardinality(Within(p, pt)) - Gone(p, pt)
       /\ QueueOf(SemOf(p, pt)) \subseteq Within(p, pt)
       /\ OnlyHere(SemOf(p, pt), Within(p, pt))

UsedAt(p)  == \A pt \in Ends : Owns(p, pt) => isUsed(SemOf(p, pt))
NewAt(p)   == \A pt \in Ends : IsNew(p, pt) => Fresh(p, pt) \/ Resetting(SemOf(p, pt))
CountAt(p) == Made(p) => \A pt \in Ends : Counted(p, pt)
LostAt(p)  == ~Made(p) => lost[p].psend = 0 /\ lost[p].preceive = 0
SemsAt(p)  == UsedAt(p) /\ NewAt(p) /\ CountAt(p) /\ LostAt(p)

(* No two ports, and no two ends of one, share a semaphore. *)
SharedNone == \A p, q \in Port, a, b \in Ends :
                Owns(p, a) /\ Owns(q, b) /\ SemOf(p, a) = SemOf(q, b) => p = q /\ a = b

(* A loop of the kernel is at work on a semaphore no port has, or preset    *)
(* is in its call of sreset.                                                *)
LoopInv ==
  Top(curr).at \in SemLoops =>
    \/ \A p \in Port, pt \in Ends : Owns(p, pt) => SemOf(p, pt) # Top(curr).arg
    \/ \E p \in Port, pt \in Ends :
         /\ Top(curr).at = "sreset" /\ Top(curr).arg = SemOf(p, pt) /\ SemOf(p, pt) # SYSERR
         /\ Top(curr).cnt = StartCount(p, pt)
         /\ Task(curr).at = "preset" /\ Task(curr).arg = p /\ Task(curr).cnt = Stage(pt) + 1

SemsInv == SharedNone /\ LoopInv /\ \A p \in Port : SemsAt(p)

LEMMA EndsFacts ==
  /\ "psend" \in Ends /\ "preceive" \in Ends /\ Ends \subseteq PortPoints
  /\ \A pt \in Ends : pt = "psend" \/ pt = "preceive"
  /\ \A pt \in Ends : pt \notin Clearers /\ pt # "pcreate"
  /\ "preset" \in Clearers /\ "pdelete" \in Clearers /\ "preset" # "pdelete"
  /\ Stage("psend") = 1 /\ Stage("preceive") = 2 /\ "pcreate" \notin Clearers
BY DEF Ends, Clearers, PortPoints, Stage

LEMMA NewIsOwned ==
  ASSUME NEW p, NEW pt, IsNew(p, pt)
  PROVE  Owns(p, pt)
<1>1. \A r \in Proc : Renews(r, p, pt) => Keeps(r, p, pt)
  BY EndsFacts DEF Renews, Keeps
<1> QED
  BY <1>1 DEF IsNew, Owns

(* The port is left alone, and so is what processes do with it. *)
SameAt(r, p) == /\ Creates(r, p)' <=> Creates(r, p)
                /\ Clears(r, p)' <=> Clears(r, p)
                /\ Clears(r, p) => Task(r)' = Task(r)
                /\ \A pt \in Ends, n \in {ports[p].ptseq} :
                     Task(r)' = At(pt, p, n) <=> Task(r) = At(pt, p, n)
Alike(p) ==
  /\ ports'[p] = ports[p] /\ (Made(p)' <=> Made(p))
  /\ \A r \in Proc : SameAt(r, p)
  /\ lost'[p].psend = lost[p].psend /\ lost'[p].preceive = lost[p].preceive

LEMMA AlikeFacts ==
  ASSUME PortTyped, NEW p \in Port, Alike(p), NEW pt \in Ends
  PROVE  /\ SemOf(p, pt)' = SemOf(p, pt) /\ StartCount(p, pt)' = StartCount(p, pt)
         /\ Expected(p, pt)' = Expected(p, pt) /\ Gone(p, pt)' = Gone(p, pt)
         /\ Within(p, pt)' = Within(p, pt)
         /\ Owns(p, pt)' <=> Owns(p, pt)
         /\ IsNew(p, pt)' <=> IsNew(p, pt)
<1>1. ports'[p] = ports[p] /\ ports[p].ptseq \in Nat
  BY SemOfPort DEF Alike
<1>2. SemOf(p, pt)' = SemOf(p, pt) /\ StartCount(p, pt)' = StartCount(p, pt)
      /\ Expected(p, pt)' = Expected(p, pt)
  BY <1>1 DEF SemOf, StartCount, Expected
<1>3. Gone(p, pt)' = Gone(p, pt)
  BY DEF Gone, Alike
<1>4. Within(p, pt)' = Within(p, pt)
  BY <1>1 DEF Within, Alike, SameAt
<1>5. Creating(p)' <=> Creating(p)
  BY DEF Creating, Alike, SameAt
<1>6. \A r \in Proc : (Keeps(r, p, pt)' <=> Keeps(r, p, pt))
                      /\ (Renews(r, p, pt)' <=> Renews(r, p, pt))
  BY DEF Keeps, Renews, Alike, SameAt
<1>7. Made(p)' <=> Made(p)
  BY DEF Alike
<1>8. Owns(p, pt)' <=> Owns(p, pt)
  BY <1>2, <1>5, <1>6, <1>7 DEF Owns
<1>9. IsNew(p, pt)' <=> IsNew(p, pt)
  BY <1>2, <1>5, <1>6 DEF IsNew
<1> QED
  BY <1>2, <1>3, <1>4, <1>8, <1>9

(* What such a port needs of a step. *)
KeptSem(s, p, pt) ==
  /\ isUsed(s)'
  /\ Made(p) => semaph'[s].semcnt = semaph[s].semcnt /\ QueueOf(s)' \subseteq QueueOf(s)
  /\ IsNew(p, pt) => FreshSem(s, StartCount(p, pt))' \/ Resetting(s)'
KeptSems(p) == \A pt \in Ends, s \in Sem : Owns(p, pt) /\ s = SemOf(p, pt) => KeptSem(s, p, pt)
NoneNew(p) == \A pt \in Ends, y \in Sem : QueueOf(y)' \cap Within(p, pt) \subseteq QueueOf(y)

LEMMA KeepAt ==
  ASSUME PortTyped, NEW p \in Port, SemsAt(p), Alike(p), KeptSems(p), NoneNew(p)
  PROVE  SemsAt(p)'
<1>1. ASSUME NEW pt \in Ends, Owns(p, pt)
      PROVE  \E s \in Sem : s = SemOf(p, pt) /\ SemOf(p, pt)' = s /\ KeptSem(s, p, pt)
  <2>1. SemOf(p, pt) \in Sem
    BY <1>1, SemOfFacts DEF Owns
  <2>2. SemOf(p, pt)' = SemOf(p, pt)
    BY AlikeFacts
  <2> QED
    BY <1>1, <2>1, <2>2 DEF KeptSems
<1>2. UsedAt(p)'
  <2>1. ASSUME NEW pt \in Ends, Owns(p, pt)' PROVE isUsed(SemOf(p, pt))'
    <3>1. Owns(p, pt)
      BY <2>1, AlikeFacts
    <3>2. PICK s \in Sem : SemOf(p, pt)' = s /\ KeptSem(s, p, pt)
      BY <1>1, <3>1
    <3> QED
      BY <3>2 DEF KeptSem, isUsed
  <2> QED
    BY <2>1 DEF UsedAt
<1>3. NewAt(p)'
  <2>1. ASSUME NEW pt \in Ends, IsNew(p, pt)'
        PROVE  Fresh(p, pt)' \/ Resetting(SemOf(p, pt))'
    <3>1. IsNew(p, pt) /\ Owns(p, pt)
      BY <2>1, AlikeFacts, NewIsOwned
    <3>2. PICK s \in Sem : SemOf(p, pt)' = s /\ KeptSem(s, p, pt)
      BY <1>1, <3>1
    <3>3. FreshSem(s, StartCount(p, pt))' \/ Resetting(s)'
      BY <3>1, <3>2 DEF KeptSem
    <3> QED
      BY <3>2, <3>3 DEF Fresh, FreshSem, Resetting
  <2> QED
    BY <2>1 DEF NewAt
<1>4. ASSUME NEW pt \in Ends, Made(p)' PROVE Counted(p, pt)'
  <2>1. Made(p) /\ Counted(p, pt)
    BY <1>4 DEF SemsAt, CountAt, Alike
  <2>2. PICK s, w : s = SemOf(p, pt) /\ w = Within(p, pt)
    OBVIOUS
  <2>3. SemOf(p, pt)' = s /\ Within(p, pt)' = w /\ Expected(p, pt)' = Expected(p, pt)
        /\ Gone(p, pt)' = Gone(p, pt) /\ ports'[p] = ports[p]
    BY <2>2, AlikeFacts DEF Alike
  <2>4. CASE s = SYSERR
    BY <2>1, <2>2, <2>3, <2>4 DEF Counted
  <2>5. CASE s # SYSERR
    <3>1. Owns(p, pt)
      BY <2>1, <2>2, <2>5 DEF Owns
    <3>2. s \in Sem /\ KeptSem(s, p, pt)
      BY <1>1, <2>2, <3>1
    <3>3. semaph'[s].semcnt = semaph[s].semcnt /\ QueueOf(s)' \subseteq QueueOf(s)
      BY <2>1, <3>2 DEF KeptSem
    <3>4. /\ semaph[s].semcnt = Expected(p, pt) - Cardinality(w) - Gone(p, pt)
          /\ QueueOf(s) \subseteq w /\ OnlyHere(s, w)
      BY <2>1, <2>2, <2>5 DEF Counted
    <3>5. OnlyHere(s, w)'
      <4>1. ASSUME NEW y \in Sem \ {s} PROVE QueueOf(y)' \cap w = {}
        <5>1. QueueOf(y)' \cap w \subseteq QueueOf(y)
          BY <2>2 DEF NoneNew
        <5> QED
          BY <3>4, <5>1 DEF OnlyHere
      <4> QED
        BY <4>1 DEF OnlyHere
    <3> QED
      BY <2>3, <2>5, <3>3, <3>4, <3>5 DEF Counted
  <2> QED
    BY <2>4, <2>5
<1>5. CountAt(p)'
  BY <1>4 DEF CountAt
<1>6. LostAt(p)'
  BY DEF SemsAt, LostAt, Alike
<1> QED
  BY <1>2, <1>3, <1>5, <1>6 DEF SemsAt

LEMMA SharedFewer ==
  ASSUME SharedNone,
         \A p \in Port, pt \in Ends : Owns(p, pt)' => Owns(p, pt) /\ SemOf(p, pt)' = SemOf(p, pt)
  PROVE  SharedNone'
BY DEF SharedNone

LEMMA NoLoopInv ==
  ASSUME kstack' \in Stacks, NoLoops(kstack'), IInv'
  PROVE  LoopInv'
<1>1. curr' \in Proc
  BY CurrNext
<1>2. Top(curr)'.at \notin Loops
  BY <1>1, NoLoopsTop, TopIsTopOf
<1> QED
  BY <1>2, LoopSubset DEF LoopInv, LoopSub

(* The semaphore in a loop, where it is one of a port. *)
LEMMA LoopOwned ==
  ASSUME BaseInv, SemsInv, NEW p \in Port, NEW pt \in Ends, Owns(p, pt),
         Top(curr).at \in SemLoops, Top(curr).arg = SemOf(p, pt)
  PROVE  /\ Top(curr).at = "sreset" /\ Top(curr).cnt = StartCount(p, pt)
         /\ Clears(curr, p) /\ ~Made(p)
<1>1. PICK q \in Port, b \in Ends :
         /\ Top(curr).at = "sreset" /\ Top(curr).arg = SemOf(q, b) /\ SemOf(q, b) # SYSERR
         /\ Top(curr).cnt = StartCount(q, b)
         /\ Task(curr).at = "preset" /\ Task(curr).arg = q
  BY DEF SemsInv, LoopInv
<1>2. curr \in Proc /\ CallInv
  BY AnyStart DEF BaseInv, CallInv, KernelInv
<1>3. Clears(curr, q) /\ Keeps(curr, q, b)
  BY <1>1, EndsFacts DEF Clears, Keeps
<1>4. Owns(q, b)
  BY <1>1, <1>2, <1>3 DEF Owns
<1>5. p = q /\ pt = b
  BY <1>1, <1>4 DEF SemsInv, SharedNone
<1>6. ports[p].ptstate = "PTLIMBO"
  BY <1>2, <1>3, <1>5 DEF CallInv, TaskInv, ClearerInv, Clears
<1> QED
  BY <1>1, <1>3, <1>5, <1>6 DEF Made

LEMMA AlikeKernel ==
  ASSUME PortTyped, LostIs, SameTasks, NoKill, ports' = ports, NEW p \in Port
  PROVE  Alike(p)
<1>1. \A r \in Proc : SameAt(r, p)
  BY DEF SameTasks, SameAt, Creates, Clears
<1>2. Made(p)' <=> Made(p)
  BY <1>1 DEF Made, Creating, SameAt
<1>3. lost'[p].psend = lost[p].psend /\ lost'[p].preceive = lost[p].preceive
  BY LostQuiet
<1> QED
  BY <1>1, <1>2, <1>3 DEF Alike

(* What a step of the kernel leaves of a semaphore it is not at work on. *)
LEMMA Untouched ==
  ASSUME IInv, Next, ~KillEnd, NEW s \in Sem, isUsed(s), ~SemCalls(s),
         ~(Top(curr).at \in SemLoops /\ Top(curr).arg = s)
  PROVE  semaph'[s] = semaph[s]
<1>1. ASSUME NEW x \in Sem, SemTouch(x) PROVE semaph'[s] = semaph[s]
  <2>1. x # s
    BY <1>1 DEF SemTouch, LoopTouch
  <2>2. PICK st, n, q : SemUpd(semaph, semaph', x, st, n, q)
    BY <1>1 DEF SemTouch, LoopTouch, Grown
  <2> QED
    BY <2>1, <2>2 DEF SemUpd
<1> QED
  BY <1>1, NextSems

LEMMA KernelNoneNew ==
  ASSUME IInv, Next, ~KillEnd, NEW p \in Port
  PROVE  NoneNew(p)
<1>1. ASSUME NEW pt \in Ends, NEW y \in Sem
      PROVE  QueueOf(y)' \cap Within(p, pt) \subseteq QueueOf(y)
  <2>1. CASE semaph' = semaph
    BY <2>1 DEF QueueOf
  <2>2. ASSUME NEW x \in Sem, SemTouch(x)
        PROVE  QueueOf(y)' \cap Within(p, pt) \subseteq QueueOf(y)
    <3>1. PICK st, n, q : /\ SemUpd(semaph, semaph', x, st, n, q)
                          /\ ToSet(q) \subseteq QueueOf(x) \cup {r \in {curr} : InUser}
      BY <2>2 DEF SemTouch, LoopTouch, Grown
    <3>2. CASE y # x
      BY <3>1, <3>2 DEF SemUpd, QueueOf
    <3>3. CASE y = x
      <4>1. QueueOf(y)' \subseteq QueueOf(y) \cup {r \in {curr} : InUser}
        BY <3>1, <3>3 DEF SemUpd, QueueOf
      <4>2. InUser => curr \notin Within(p, pt)
        <5>1. InUser => Task(curr) = Idle
          BY UserTask
        <5>2. At(pt, p, ports[p].ptseq).at = pt /\ Idle.at # pt
          BY IdleFacts DEF At
        <5> QED
          BY <5>1, <5>2 DEF Within
      <4> QED
        BY <4>1, <4>2
    <3> QED
      BY <3>2, <3>3
  <2> QED
    BY <2>1, <2>2, NextSems
<1> QED
  BY <1>1 DEF NoneNew

LEMMA KernelKept ==
  ASSUME BaseInv, SemsInv, Next, ~KillEnd, Apart, NEW p \in Port, Alike(p)
  PROVE  KeptSems(p)
<1>1. ASSUME NEW pt \in Ends, NEW s \in Sem, Owns(p, pt), s = SemOf(p, pt)
      PROVE  KeptSem(s, p, pt)
  <2>1. IInv /\ PortTyped /\ SemsAt(p)
    BY DEF BaseInv, CallInv, KernelInv, SemsInv
  <2>2. isUsed(s) /\ ~SemCalls(s)
    BY <1>1, <2>1 DEF SemsAt, UsedAt, Apart
  <2>3. StartCount(p, pt)' = StartCount(p, pt)
    BY <2>1, AlikeFacts
  <2>4. CASE ~(Top(curr).at \in SemLoops /\ Top(curr).arg = s)
    <3>1. semaph'[s] = semaph[s]
      BY <2>1, <2>2, <2>4, Untouched
    <3>2. IsNew(p, pt) => FreshSem(s, StartCount(p, pt))
      BY <1>1, <2>1, <2>4 DEF SemsAt, NewAt, Fresh, Resetting, SemLoops
    <3>3. FreshSem(s, StartCount(p, pt)) => FreshSem(s, StartCount(p, pt))'
      BY <2>3, <3>1 DEF FreshSem
    <3> QED
      BY <2>2, <3>1, <3>2, <3>3 DEF KeptSem, isUsed, QueueOf
  <2>5. CASE Top(curr).at \in SemLoops /\ Top(curr).arg = s
    <3>1. /\ Top(curr).at = "sreset" /\ Top(curr).cnt = StartCount(p, pt) /\ ~Made(p)
      BY <1>1, <2>5, LoopOwned
    <3>2. LoopTouch(s)
      BY <2>1, <2>5, <3>1, NextReset
    <3>3. isUsed(s)'
      BY <2>2, <3>2 DEF LoopTouch, Grown, SemUpd, isUsed
    <3>4. ResetRound
      BY <3>1, <3>2 DEF LoopTouch
    <3>5. CASE kstack' = kstack /\ curr' = curr
      <4>1. Top(curr)' = Top(curr)
        BY <3>5, TopIsTopOf
      <4>2. Resetting(s)'
        BY <2>5, <3>1, <4>1 DEF Resetting
      <4> QED
        BY <3>1, <3>3, <4>2 DEF KeptSem
    <3>6. CASE semaph'[s].semcnt = Top(curr).cnt /\ semaph'[s].queue = <<>>
      <4>1. FreshSem(s, StartCount(p, pt))'
        BY <2>3, <3>1, <3>6 DEF FreshSem
      <4> QED
        BY <3>1, <3>3, <4>1 DEF KeptSem
    <3> QED
      BY <2>5, <3>4, <3>5, <3>6 DEF ResetRound
  <2> QED
    BY <2>4, <2>5
<1> QED
  BY <1>1 DEF KeptSems

LEMMA KernelLoop ==
  ASSUME BaseInv, SemsInv, Next, SameTasks, Apart, IInv', \A p \in Port : Alike(p)
  PROVE  LoopInv'
<1>1. SUFFICES ASSUME Top(curr)'.at \in SemLoops PROVE LoopInv'
  BY DEF LoopInv
<1>2. KernelInv /\ PortTyped /\ curr \in Proc
  BY AnyStart DEF BaseInv, CallInv, KernelInv
<1>3. \A p \in Port, pt \in Ends : /\ Owns(p, pt)' <=> Owns(p, pt)
                                   /\ SemOf(p, pt)' = SemOf(p, pt)
                                   /\ StartCount(p, pt)' = StartCount(p, pt)
  BY <1>2, AlikeFacts
<1>4. CASE SemCalls(Top(curr)'.arg)
  <2>1. ASSUME NEW p \in Port, NEW pt \in Ends, Owns(p, pt)'
        PROVE  SemOf(p, pt)' # Top(curr)'.arg
    BY <1>3, <1>4, <2>1 DEF Apart
  <2> QED
    BY <2>1 DEF LoopInv
<1>5. CASE SameLoop
  <2>1. Top(curr).at \in SemLoops
    BY <1>1, <1>5 DEF SameLoop
  <2>2. CASE \A p \in Port, pt \in Ends : Owns(p, pt) => SemOf(p, pt) # Top(curr).arg
    <3>1. \A p \in Port, pt \in Ends : Owns(p, pt)' => SemOf(p, pt)' # Top(curr)'.arg
      BY <1>3, <1>5, <2>2 DEF SameLoop
    <3> QED
      BY <3>1 DEF LoopInv
  <2>3. CASE \E p \in Port, pt \in Ends :
         /\ Top(curr).at = "sreset" /\ Top(curr).arg = SemOf(p, pt) /\ SemOf(p, pt) # SYSERR
         /\ Top(curr).cnt = StartCount(p, pt)
         /\ Task(curr).at = "preset" /\ Task(curr).arg = p /\ Task(curr).cnt = Stage(pt) + 1
    <3>1. PICK p \in Port, pt \in Ends :
         /\ Top(curr).at = "sreset" /\ Top(curr).arg = SemOf(p, pt) /\ SemOf(p, pt) # SYSERR
         /\ Top(curr).cnt = StartCount(p, pt)
         /\ Task(curr).at = "preset" /\ Task(curr).arg = p /\ Task(curr).cnt = Stage(pt) + 1
      BY <2>3
    <3>2. Top(curr)' = Top(curr) /\ curr' = curr
      BY <1>5, <3>1 DEF SameLoop
    <3>3. PICK c : c = curr
      OBVIOUS
    <3>4. Task(c)' = Task(c)
      BY <1>2, <3>3 DEF SameTasks
    <3>5. Task(curr)' = Task(curr)
      BY <3>2, <3>3, <3>4 DEF Task
    <3> QED
      BY <1>3, <3>1, <3>2, <3>5 DEF LoopInv
  <2> QED
    BY <2>1, <2>2, <2>3 DEF SemsInv, LoopInv
<1> QED
  BY <1>1, <1>2, <1>4, <1>5, NextLoops

LEMMA KernelSems ==
  ASSUME BaseInv, SemsInv, LostIs, Next, ~KillEnd, UNCHANGED portVars, Apart
  PROVE  SemsInv'
<1>1. KernelInv /\ IInv /\ PortTyped /\ StacksInv
  BY DEF BaseInv, CallInv, KernelInv
<1>2. SameTasks /\ NoKill /\ IInv'
  BY <1>1, NextStep DEF KernelInv
<1>3. \A p \in Port : Alike(p)
  BY <1>1, <1>2, AlikeKernel DEF portVars
<1>4. ASSUME NEW p \in Port PROVE SemsAt(p)'
  <2>1. SemsAt(p) /\ Alike(p)
    BY <1>3 DEF SemsInv
  <2>2. KeptSems(p)
    BY <2>1, KernelKept
  <2>3. NoneNew(p)
    BY <1>1, KernelNoneNew
  <2> QED
    BY <1>1, <2>1, <2>2, <2>3, KeepAt
<1>5. SharedNone'
  <2>1. \A p \in Port, pt \in Ends : Owns(p, pt)' => Owns(p, pt) /\ SemOf(p, pt)' = SemOf(p, pt)
    BY <1>1, <1>3, AlikeFacts
  <2> QED
    BY <2>1, SharedFewer DEF SemsInv
<1>6. LoopInv'
  BY <1>2, <1>3, KernelLoop
<1> QED
  BY <1>4, <1>5, <1>6 DEF SemsInv

(***************************************************************************)
(* A process is killed.                                                    *)
(***************************************************************************)
KillSem(v) ==
  \/ sched.pstate[v] # "PRWAIT" /\ semaph' = semaph
  \/ /\ sched.pstate[v] = "PRWAIT"
     /\ \E s \in Sem : \E q :
          /\ v \in QueueOf(s) /\ ToSet(q) = QueueOf(s) \ {v}
          /\ SemUpd(semaph, semaph', s, semaph[s].sstate, semaph[s].semcnt + 1, q)

LEMMA KillSemUpd ==
  ASSUME IInv, KillEnd, NEW v \in Proc, v = Top(curr).arg
  PROVE  KillSem(v)
<1>1. /\ SemTyped(semaph, psem, nextsem) /\ QueuesMatch(semaph, psem, sched.pstate)
      /\ sched.pstate \in [Proc -> PRStates]
  BY AnyStart
<1>2. CASE /\ sched.pstate[v] = "PRWAIT"
           /\ semaph' = [semaph EXCEPT ![psem[v]].semcnt = @ + 1,
                                       ![psem[v]].queue = DequeueSem(@, v)]
  <2>1. PICK s : s = psem[v]
    OBVIOUS
  <2>2. s \in Sem /\ v \in QueueOf(s) /\ IsInjective(semaph[s].queue)
    <3>1. s \in Sem
      BY <1>1, <2>1 DEF SemTyped
    <3>2. Class(sched.pstate[v]) = "PRWAIT"
      BY <1>2 DEF Class, Runnable
    <3> QED
      BY <1>1, <2>1, <3>1, <3>2 DEF QueuesMatch, QueueOf
  <2>3. PICK q, n : q = DequeueSem(semaph[s].queue, v) /\ n = semaph[s].semcnt + 1
    OBVIOUS
  <2>4. semaph' = [semaph EXCEPT ![s].semcnt = n, ![s].queue = q]
    BY <1>1, <1>2, <2>1, <2>2, <2>3 DEF SemTyped
  <2>5. /\ semaph \in [Sem -> SemRec] /\ semaph[s].queue \in Seq(Proc)
        /\ semaph[s].semcnt \in Int
    BY <1>1, <2>2, SemFacts
  <2>6. q \in Seq(Proc) /\ ToSet(q) = QueueOf(s) \ {v}
    BY <2>2, <2>3, <2>5, DequeueSemFacts DEF QueueOf
  <2>7. SemUpd(semaph, semaph', s, semaph[s].sstate, n, q)
    <3>1. n \in Int
      BY <2>3, <2>5
    <3> QED
      BY <2>2, <2>4, <2>5, <2>6, <3>1, SetCountQueue
  <2> QED
    BY <1>2, <2>2, <2>3, <2>6, <2>7 DEF KillSem
<1>3. CASE sched.pstate[v] # "PRWAIT" /\ semaph' = semaph
  BY <1>3 DEF KillSem
<1> QED
  BY <1>2, <1>3 DEF KillEnd

(* Any semaphore, while v is killed. *)
LEMMA KillKeeps ==
  ASSUME IInv, NEW v \in Proc, KillSem(v), NEW s \in Sem
  PROVE  /\ isUsed(s)' <=> isUsed(s)
         /\ QueueOf(s)' \subseteq QueueOf(s)
         /\ v \notin QueueOf(s) => semaph'[s] = semaph[s]
         /\ v \in QueueOf(s) /\ sched.pstate[v] = "PRWAIT" =>
              semaph'[s].semcnt = semaph[s].semcnt + 1 /\ QueueOf(s)' = QueueOf(s) \ {v}
<1>1. CASE semaph' = semaph /\ sched.pstate[v] # "PRWAIT"
  BY <1>1 DEF isUsed, QueueOf
<1>2. ASSUME NEW x \in Sem, NEW q, v \in QueueOf(x),
             SemUpd(semaph, semaph', x, semaph[x].sstate, semaph[x].semcnt + 1, q),
             ToSet(q) = QueueOf(x) \ {v}
      PROVE  /\ isUsed(s)' <=> isUsed(s)
             /\ QueueOf(s)' \subseteq QueueOf(s)
             /\ v \notin QueueOf(s) => semaph'[s] = semaph[s]
             /\ v \in QueueOf(s) =>
                  semaph'[s].semcnt = semaph[s].semcnt + 1 /\ QueueOf(s)' = QueueOf(s) \ {v}
  <2>1. QueuesMatch(semaph, psem, sched.pstate)
    BY AnyStart
  <2>2. v \in QueueOf(s) => s = x
    BY <1>2, <2>1 DEF QueuesMatch, QueueOf
  <2>3. CASE s = x
    BY <1>2, <2>3 DEF SemUpd, isUsed, QueueOf
  <2>4. CASE s # x
    BY <1>2, <2>2, <2>4 DEF SemUpd, isUsed, QueueOf
  <2> QED
    BY <2>3, <2>4
<1> QED
  BY <1>1, <1>2 DEF KillSem

LEMMA WithinStep ==
  ASSUME NEW v \in Proc, TaskStep(v, Idle), NEW p \in Port, NEW pt \in Ends, ports'[p] = ports[p]
  PROVE  Within(p, pt)' = Within(p, pt) \ {v}
<1>1. ports'[p].ptseq = ports[p].ptseq
  OBVIOUS
<1>2. Idle # At(pt, p, ports[p].ptseq)
  BY IdleFacts DEF At
<1> QED
  BY <1>1, <1>2 DEF Within, TaskStep

(* What such a step takes along. *)
LEMMA GoneKill ==
  ASSUME BaseInv, LostIs, ports' = ports, NEW v \in Proc, sched'.pstate[v] = "PRFREE",
         \A q \in Proc \ {v} : sched'.pstate[q] = "PRFREE" <=> sched.pstate[q] = "PRFREE",
         NEW p \in Port, NEW pt \in Ends
  PROVE  Gone(p, pt)' = Gone(p, pt) + (IF v \in Within(p, pt) /\ sched.pstate[v] # "PRWAIT"
                                       THEN 1 ELSE 0)
<1>1. PortTyped /\ StacksInv /\ IInv
  BY DEF BaseInv, CallInv, KernelInv
<1>2. v \in Granted(p, pt) <=> v \in Within(p, pt) /\ sched.pstate[v] # "PRWAIT"
  BY <1>1, InsideIsWithin DEF Granted, Blocked
<1>3. /\ lost'[p].psend = lost[p].psend + (IF v \in Granted(p, "psend") THEN 1 ELSE 0)
      /\ lost'[p].preceive = lost[p].preceive + (IF v \in Granted(p, "preceive") THEN 1 ELSE 0)
  BY <1>1, LostKill
<1> QED
  BY <1>2, <1>3, EndsFacts DEF Gone

LEMMA WithinFinite ==
  ASSUME NEW p, NEW pt
  PROVE  /\ IsFiniteSet(Within(p, pt)) /\ Cardinality(Within(p, pt)) \in Nat
         /\ \A v \in Within(p, pt) : Cardinality(Within(p, pt) \ {v}) = Cardinality(Within(p, pt)) - 1
<1>1. IsFiniteSet(Proc)
  BY FS_Interval DEF Proc
<1>2. IsFiniteSet(Within(p, pt))
  BY <1>1, FS_Subset DEF Within
<1> QED
  BY <1>2, FS_CardinalityType, FS_RemoveElement

LEMMA KillCounted ==
  ASSUME BaseInv, LostIs, ports' = ports, NEW v \in Proc, KillSem(v),
         sched'.pstate[v] = "PRFREE",
         \A q \in Proc \ {v} : sched'.pstate[q] = "PRFREE" <=> sched.pstate[q] = "PRFREE",
         TaskStep(v, Idle), NEW p \in Port, NEW pt \in Ends, Counted(p, pt)
  PROVE  Counted(p, pt)'
<1>1. PortTyped /\ IInv /\ QueuesMatch(semaph, psem, sched.pstate)
  BY AnyStart DEF BaseInv, CallInv, KernelInv
<1>2. PICK s, w, e, g : /\ s = SemOf(p, pt) /\ w = Within(p, pt) /\ e = Expected(p, pt)
                        /\ g = Gone(p, pt)
  OBVIOUS
<1>3. SemOf(p, pt)' = s /\ Expected(p, pt)' = e /\ Within(p, pt)' = w \ {v}
      /\ ports'[p] = ports[p]
  BY <1>2, WithinStep DEF SemOf, Expected
<1>4. CASE s = SYSERR
  BY <1>2, <1>3, <1>4 DEF Counted
<1>5. CASE s # SYSERR
  <2>1. s \in Sem
    BY <1>1, <1>2, <1>5, SemOfFacts
  <2>2. semaph[s].semcnt = e - Cardinality(w) - g /\ QueueOf(s) \subseteq w /\ OnlyHere(s, w)
    BY <1>2, <1>5 DEF Counted
  <2>3. e \in Int /\ g \in Int /\ Cardinality(w) \in Int
    <3>1. ports[p].ptmaxcnt \in Nat /\ Len(ports[p].queue) \in Nat /\ lost[p] \in LostRec
      BY <1>1, SemOfPort DEF PortTyped
    <3> QED
      BY <1>2, <3>1, WithinFinite DEF Expected, Gone, LostRec
  <2>4. QueueOf(s)' \subseteq w \ {v}
    <3>1. QueueOf(s)' \subseteq QueueOf(s)
      BY <1>1, <2>1, KillKeeps
    <3>2. v \notin QueueOf(s)'
      <4>1. v \in QueueOf(s) => sched.pstate[v] = "PRWAIT"
        BY <1>1, <2>1 DEF QueuesMatch, QueueOf, Class
      <4>2. v \in QueueOf(s) => QueueOf(s)' = QueueOf(s) \ {v}
        BY <1>1, <2>1, <4>1, KillKeeps
      <4> QED
        BY <3>1, <4>2
    <3> QED
      BY <2>2, <3>1, <3>2
  <2>5. OnlyHere(s, w \ {v})'
    <3>1. ASSUME NEW y \in Sem \ {s} PROVE QueueOf(y)' \cap (w \ {v}) = {}
      <4>1. QueueOf(y)' \subseteq QueueOf(y)
        BY <1>1, KillKeeps
      <4> QED
        BY <2>2, <4>1 DEF OnlyHere
    <3> QED
      BY <3>1 DEF OnlyHere
  <2>6. semaph'[s].semcnt = e - Cardinality(w \ {v}) - Gone(p, pt)'
    <3>1. Gone(p, pt)' = g + (IF v \in w /\ sched.pstate[v] # "PRWAIT" THEN 1 ELSE 0)
      BY <1>2, GoneKill
    <3>2. CASE v \notin w
      <4>1. semaph'[s] = semaph[s]
        BY <1>1, <2>1, <2>2, <3>2, KillKeeps
      <4>2. PICK n : n = Cardinality(w)
        OBVIOUS
      <4>3. Cardinality(w \ {v}) = n
        <5>1. w \ {v} = w
          BY <3>2
        <5> QED
          BY <4>2, <5>1
      <4>4. Gone(p, pt)' = g
        BY <2>3, <3>1, <3>2
      <4>5. semaph'[s].semcnt = e - n - g
        BY <2>2, <4>1, <4>2
      <4> QED
        BY <4>3, <4>4, <4>5
    <3>3. CASE v \in w /\ sched.pstate[v] # "PRWAIT"
      <4>1. semaph'[s] = semaph[s]
        BY <3>3 DEF KillSem
      <4>2. Cardinality(w \ {v}) = Cardinality(w) - 1
        BY <1>2, <3>3, WithinFinite
      <4> QED
        BY <2>2, <2>3, <3>1, <3>3, <4>1, <4>2
    <3>4. CASE v \in w /\ sched.pstate[v] = "PRWAIT"
      <4>1. PICK x \in Sem : v \in QueueOf(x)
        BY <3>4 DEF KillSem
      <4>2. x = s
        BY <2>2, <3>4, <4>1 DEF OnlyHere
      <4>3. semaph'[s].semcnt = semaph[s].semcnt + 1
        BY <1>1, <2>1, <3>4, <4>1, <4>2, KillKeeps
      <4>4. Cardinality(w \ {v}) = Cardinality(w) - 1
        BY <1>2, <3>4, WithinFinite
      <4> QED
        BY <2>2, <2>3, <3>1, <3>4, <4>3, <4>4
    <3> QED
      BY <3>2, <3>3, <3>4
  <2> QED
    BY <1>3, <1>5, <2>4, <2>5, <2>6 DEF Counted
<1> QED
  BY <1>4, <1>5

LEMMA KillSems ==
  ASSUME BaseInv, SemsInv, LostIs, Next, KillEnd, UNCHANGED portVars
  PROVE  SemsInv'
<1>1. KernelInv /\ IInv /\ PortTyped /\ StacksInv /\ TaskInv
  BY DEF BaseInv, CallInv, KernelInv
<1>2. PICK v : v = Top(curr).arg
  OBVIOUS
<1>3. /\ v \in Proc /\ sched'.pstate[v] = "PRFREE"
      /\ \A q \in Proc \ {v} : sched'.pstate[q] = "PRFREE" <=> sched.pstate[q] = "PRFREE"
  BY <1>1, <1>2, KillMoves
<1>4. TaskStep(v, Idle)
  BY <1>1, <1>2, KillEndTasks
<1>5. KillSem(v)
  BY <1>1, <1>2, <1>3, KillSemUpd
<1>6. ports' = ports
  BY DEF portVars
<1>7. IInv' /\ \A p \in Port : ~Creating(p) /\ ~Creating(p)' /\ (Made(p)' <=> Made(p))
  BY KernelBase DEF BaseInv, CallInv, KernelInv
<1>8. Top(curr).at = "kill" /\ Return
  BY DEF KillEnd
<1>9. ASSUME NEW p \in Port, NEW pt \in Ends
      PROVE  /\ SemOf(p, pt)' = SemOf(p, pt) /\ StartCount(p, pt)' = StartCount(p, pt)
             /\ Owns(p, pt)' => Owns(p, pt)
             /\ IsNew(p, pt)' => IsNew(p, pt)
  <2>1. SemOf(p, pt)' = SemOf(p, pt) /\ StartCount(p, pt)' = StartCount(p, pt)
    BY <1>6 DEF SemOf, StartCount
  <2>2. \A r \in Proc : (Keeps(r, p, pt)' => Keeps(r, p, pt))
                        /\ (Renews(r, p, pt)' => Renews(r, p, pt))
    BY <1>4, IdleFacts, EndsFacts DEF TaskStep, Keeps, Renews, Clears, Clearers
  <2>3. Owns(p, pt)' => Owns(p, pt)
    BY <1>7, <2>1, <2>2 DEF Owns
  <2>4. IsNew(p, pt)' => IsNew(p, pt)
    BY <1>7, <2>1, <2>2 DEF IsNew
  <2> QED
    BY <2>1, <2>3, <2>4
<1>10. ASSUME NEW p \in Port, NEW pt \in Ends, Owns(p, pt)'
      PROVE  isUsed(SemOf(p, pt))'
  <2>1. PICK s : s = SemOf(p, pt)
    OBVIOUS
  <2>2. Owns(p, pt) /\ SemOf(p, pt)' = s
    BY <1>9, <1>10, <2>1
  <2>3. s \in Sem
    BY <1>1, <2>1, <2>2, SemOfFacts DEF Owns
  <2>4. isUsed(s)
    BY <2>1, <2>2 DEF SemsInv, SemsAt, UsedAt
  <2>5. isUsed(s)'
    BY <1>1, <1>3, <1>5, <2>3, <2>4, KillKeeps
  <2> QED
    BY <2>2, <2>5 DEF isUsed
<1>11. ASSUME NEW p \in Port, NEW pt \in Ends, IsNew(p, pt)'
       PROVE  Fresh(p, pt)'
  <2>1. PICK s, n : s = SemOf(p, pt) /\ n = StartCount(p, pt)
    OBVIOUS
  <2>2. IsNew(p, pt) /\ SemOf(p, pt)' = s /\ StartCount(p, pt)' = n
    BY <1>9, <1>11, <2>1
  <2>3. s \in Sem
    BY <1>1, <2>1, <2>2, SemOfFacts DEF IsNew
  <2>4. FreshSem(s, n)
    BY <1>8, <2>1, <2>2 DEF SemsInv, SemsAt, NewAt, Fresh, Resetting
  <2>5. v \notin QueueOf(s)
    BY <2>4 DEF FreshSem, QueueOf, ToSet
  <2>6. semaph'[s] = semaph[s]
    BY <1>1, <1>3, <1>5, <2>3, <2>5, KillKeeps
  <2> QED
    BY <2>2, <2>4, <2>6 DEF Fresh, FreshSem
<1>12. ASSUME NEW p \in Port, NEW pt \in Ends, Made(p)'
       PROVE  Counted(p, pt)'
  <2>1. Counted(p, pt)
    BY <1>7, <1>12 DEF SemsInv, SemsAt, CountAt
  <2> QED
    BY <1>3, <1>4, <1>5, <1>6, <2>1, KillCounted
<1>13. ASSUME NEW p \in Port, ~Made(p)', NEW pt \in Ends
       PROVE  Gone(p, pt)' = 0
  <2>1. ~Made(p)
    BY <1>7, <1>13
  <2>2. Gone(p, pt) = 0
    BY <2>1 DEF SemsInv, SemsAt, LostAt, Gone
  <2>3. v \notin Within(p, pt)
    <3>1. At(pt, p, ports[p].ptseq).at \in Ends /\ At(pt, p, ports[p].ptseq).arg = p
          /\ At(pt, p, ports[p].ptseq).cnt = ports[p].ptseq
      BY DEF At
    <3> QED
      BY <1>1, <2>1, <3>1 DEF Within, TaskInv, UserInv
  <2>4. Gone(p, pt)' = Gone(p, pt) + 0
    BY <1>3, <1>6, <2>3, GoneKill
  <2> QED
    BY <2>2, <2>4
<1>14. \A p \in Port : SemsAt(p)'
  <2> SUFFICES ASSUME NEW p \in Port PROVE SemsAt(p)'
    OBVIOUS
  <2>1. UsedAt(p)'
    BY <1>10 DEF UsedAt
  <2>2. NewAt(p)'
    BY <1>11 DEF NewAt
  <2>3. CountAt(p)'
    BY <1>12 DEF CountAt
  <2>4. LostAt(p)'
    BY <1>13, EndsFacts DEF LostAt, Gone
  <2> QED
    BY <2>1, <2>2, <2>3, <2>4 DEF SemsAt
<1>15. SharedNone'
  BY <1>9, SharedFewer DEF SemsInv
<1>16. LoopInv'
  <2>1. kstack' \in Stacks /\ NoLoops(kstack')
    BY <1>1, <1>8, ReturnOne
  <2> QED
    BY <1>7, <2>1, NoLoopInv
<1> QED
  BY <1>14, <1>15, <1>16 DEF SemsInv

(***************************************************************************)
(* A step of a call on a port, for the other ports.                        *)
(***************************************************************************)

(* Process c takes a step at port p, and does t from here on. *)
AtPort(c, t, p) ==
  /\ c \in Proc /\ c = curr /\ p \in Port /\ TaskStep(c, t) /\ NoKill
  /\ \A q \in Port \ {p} : ports'[q] = ports[q]
  /\ Task(c).at \in PortPoints => Task(c).arg = p
  /\ t.at \in PortPoints => t.arg = p
  /\ Top(curr).at # "sreset"

LEMMA OtherAlike ==
  ASSUME PortTyped, LostIs, NEW c, NEW t, NEW p, AtPort(c, t, p), NEW q \in Port, q # p
  PROVE  Alike(q)
<1>1. ports'[q] = ports[q] /\ c \in Proc
  BY DEF AtPort
<1>2. lost'[q].psend = lost[q].psend /\ lost'[q].preceive = lost[q].preceive
  BY <1>1, LostQuiet DEF AtPort
<1>3. ASSUME NEW r \in Proc PROVE SameAt(r, q)
  <2>1. CASE r # c
    <3>1. Task(r)' = Task(r)
      BY <2>1 DEF AtPort, TaskStep
    <3> QED
      BY <3>1 DEF SameAt, Creates, Clears
  <2>2. CASE r = c
    <3>1. Task(r)' = t
      BY <2>2 DEF AtPort, TaskStep
    <3>2. Task(r).at \in PortPoints => Task(r).arg # q
      BY <2>2 DEF AtPort
    <3>3. t.at \in PortPoints => t.arg # q
      BY DEF AtPort
    <3>4. ~Creates(r, q) /\ ~Clears(r, q)
      BY <3>2, EndsFacts DEF Creates, Clears, PortPoints, Clearers
    <3>5. ~Creates(r, q)' /\ ~Clears(r, q)'
      BY <3>1, <3>3, EndsFacts DEF Creates, Clears, PortPoints, Clearers
    <3>6. ASSUME NEW pt \in Ends, NEW n PROVE Task(r) # At(pt, q, n) /\ t # At(pt, q, n)
      BY <3>2, <3>3, EndsFacts DEF At
    <3> QED
      BY <3>1, <3>4, <3>5, <3>6 DEF SameAt
  <2> QED
    BY <2>1, <2>2
<1>4. Made(q)' <=> Made(q)
  BY <1>1, <1>3 DEF Made, Creating, SameAt
<1> QED
  BY <1>1, <1>2, <1>3, <1>4 DEF Alike

(* The step is about semaphore s only, if about any. *)
OnlySem(s) ==
  /\ \A y \in Sem : y # s => semaph'[y] = semaph[y]
  /\ s \in Sem => QueueOf(s)' \subseteq QueueOf(s) \cup {r \in {curr} : Task(r) = Idle}

LEMMA OtherSems ==
  ASSUME PortTyped, LostIs, SemsInv, NEW c, NEW t, NEW p, AtPort(c, t, p),
         NEW s, OnlySem(s), NEW q \in Port, q # p,
         \A pt \in Ends : Owns(q, pt) => SemOf(q, pt) # s
  PROVE  SemsAt(q)'
<1>1. Alike(q) /\ SemsAt(q)
  BY OtherAlike DEF SemsInv
<1>2. ASSUME NEW pt \in Ends, NEW y \in Sem, Owns(q, pt), y = SemOf(q, pt)
      PROVE  KeptSem(y, q, pt)
  <2>1. semaph'[y] = semaph[y]
    BY <1>2 DEF OnlySem
  <2>2. isUsed(y)
    BY <1>1, <1>2 DEF SemsAt, UsedAt
  <2>3. StartCount(q, pt)' = StartCount(q, pt)
    BY <1>1, AlikeFacts
  <2>4. IsNew(q, pt) => FreshSem(y, StartCount(q, pt))
    BY <1>1, <1>2 DEF SemsAt, NewAt, Fresh, Resetting, AtPort
  <2>5. FreshSem(y, StartCount(q, pt)) => FreshSem(y, StartCount(q, pt))'
    BY <2>1, <2>3 DEF FreshSem
  <2> QED
    BY <2>1, <2>2, <2>4, <2>5 DEF KeptSem, isUsed, QueueOf
<1>3. KeptSems(q)
  BY <1>2 DEF KeptSems
<1>4. ASSUME NEW pt \in Ends, NEW y \in Sem
      PROVE  QueueOf(y)' \cap Within(q, pt) \subseteq QueueOf(y)
  <2>1. CASE y # s
    BY <2>1 DEF OnlySem, QueueOf
  <2>2. CASE y = s
    <3>1. QueueOf(y)' \subseteq QueueOf(y) \cup {r \in {curr} : Task(r) = Idle}
      BY <2>2 DEF OnlySem
    <3>2. \A r \in Within(q, pt) : Task(r) # Idle
      BY IdleFacts, EndsFacts DEF Within, At
    <3> QED
      BY <3>1, <3>2
  <2> QED
    BY <2>1, <2>2
<1>5. NoneNew(q)
  BY <1>4 DEF NoneNew
<1> QED
  BY <1>1, <1>3, <1>5, KeepAt

(* The ports have no semaphore but those they had. *)
LEMMA SharedAt ==
  ASSUME PortTyped, LostIs, SemsInv, NEW c, NEW t, NEW p, AtPort(c, t, p),
         \A pt \in Ends : Owns(p, pt)' => Owns(p, pt) /\ SemOf(p, pt)' = SemOf(p, pt)
  PROVE  SharedNone'
<1>1. ASSUME NEW q \in Port, NEW pt \in Ends, Owns(q, pt)'
      PROVE  Owns(q, pt) /\ SemOf(q, pt)' = SemOf(q, pt)
  <2>1. CASE q = p
    BY <1>1, <2>1
  <2>2. CASE q # p
    BY <1>1, <2>2, OtherAlike, AlikeFacts
  <2> QED
    BY <2>1, <2>2
<1> QED
  BY <1>1, SharedFewer DEF SemsInv

(* Port p has a new one, which was free. *)
LEMMA SharedNew ==
  ASSUME PortTyped, LostIs, SemsInv, NEW c, NEW t, NEW p, AtPort(c, t, p), NEW e \in Ends,
         NEW y, y = SemOf(p, e)', Owns(p, e)' => ~isUsed(y),
         \A pt \in Ends \ {e} : Owns(p, pt)' => Owns(p, pt) /\ SemOf(p, pt)' = SemOf(p, pt)
  PROVE  SharedNone'
<1>1. ASSUME NEW q \in Port, NEW pt \in Ends, Owns(q, pt)', q # p \/ pt # e
      PROVE  /\ Owns(q, pt) /\ SemOf(q, pt)' = SemOf(q, pt)
             /\ isUsed(SemOf(q, pt))
  <2>1. Owns(q, pt) /\ SemOf(q, pt)' = SemOf(q, pt)
    <3>1. CASE q = p
      BY <1>1, <3>1
    <3>2. CASE q # p
      BY <1>1, <3>2, OtherAlike, AlikeFacts
    <3> QED
      BY <3>1, <3>2
  <2> QED
    BY <2>1 DEF SemsInv, SemsAt, UsedAt
<1>2. ASSUME NEW q \in Port, NEW r \in Port, NEW a \in Ends, NEW b \in Ends,
             Owns(q, a)', Owns(r, b)', SemOf(q, a)' = SemOf(r, b)'
      PROVE  q = r /\ a = b
  <2>1. CASE (q # p \/ a # e) /\ (r # p \/ b # e)
    BY <1>1, <1>2, <2>1 DEF SemsInv, SharedNone
  <2>2. CASE q = p /\ a = e /\ (r # p \/ b # e)
    BY <1>1, <1>2, <2>2
  <2>3. CASE r = p /\ b = e /\ (q # p \/ a # e)
    BY <1>1, <1>2, <2>3
  <2> QED
    BY <2>1, <2>2, <2>3
<1> QED
  BY <1>2 DEF SharedNone

(* What is left to show of a step at port p. *)
LEMMA PortSems ==
  ASSUME PortTyped, LostIs, SemsInv, NEW c, NEW t, NEW p, AtPort(c, t, p),
         NEW s, OnlySem(s),
         \A q \in Port, pt \in Ends : q # p /\ Owns(q, pt) => SemOf(q, pt) # s,
         SemsAt(p)', SharedNone', LoopInv'
  PROVE  SemsInv'
<1>1. ASSUME NEW q \in Port PROVE SemsAt(q)'
  <2>1. CASE q = p
    BY <2>1
  <2>2. CASE q # p
    BY <2>2, OtherSems
  <2> QED
    BY <2>1, <2>2
<1> QED
  BY <1>1 DEF SemsInv

(***************************************************************************)
(* pcreate.                                                                *)
(***************************************************************************)
NewSem(s, n) == /\ s \in Sem /\ ~isUsed(s) /\ isUsed(s)' /\ FreshSem(s, n)' /\ QueueOf(s)' = {}
                /\ \A y \in Sem : y # s => semaph'[y] = semaph[y]

LEMMA ScreateSem ==
  ASSUME IInv, Top(curr).at \notin Loops, NEW s \in Sem \cup {SYSERR}, NEW n \in Int,
         ScreateResult(s, n)
  PROVE  /\ (s = SYSERR /\ semaph' = semaph) \/ NewSem(s, n)
         /\ OnlySem(s)
<1>1. CASE s = SYSERR
  <2>1. semaph' = semaph
    BY <1>1 DEF ScreateResult
  <2> QED
    BY <1>1, <2>1 DEF OnlySem, QueueOf
<1>2. CASE s # SYSERR
  <2>1. PICK i \in 0..(NSEM - 1) : NextFree(i) /\ s = ProbeSem(i) /\ TakeSem(i, n)
    BY <1>2 DEF ScreateResult
  <2>2. s \in Sem /\ ~isUsed(s) /\ semaph' = [semaph EXCEPT ![s].sstate = "SUSED", ![s].semcnt = n]
    BY <1>2, <2>1 DEF NextFree, TakeSem
  <2>3. SemUpd(semaph, semaph', s, "SUSED", n, semaph[s].queue)
    BY <2>2, ScreateUpd
  <2>4. semaph[s].queue = <<>>
    <3>1. CountMatches(semaph[s]) /\ semaph[s].queue \in Seq(Proc)
      BY <2>2, QuietStart, SemFacts
    <3>2. Len(semaph[s].queue) = 0
      BY <2>2, <3>1 DEF CountMatches, isUsed
    <3> QED
      BY <3>1, <3>2
  <2>5. semaph'[s].sstate = "SUSED" /\ semaph'[s].semcnt = n /\ semaph'[s].queue = <<>>
        /\ \A y \in Sem : y # s => semaph'[y] = semaph[y]
    BY <2>3, <2>4 DEF SemUpd
  <2>6. QueueOf(s)' = {}
    BY <2>5 DEF QueueOf, ToSet
  <2>7. NewSem(s, n)
    BY <2>2, <2>5, <2>6 DEF NewSem, isUsed, FreshSem
  <2> QED
    BY <2>5, <2>6, <2>7 DEF OnlySem
<1> QED
  BY <1>1, <1>2

(* The step of a process that is not about one port yet. *)
LEMMA StepAtPort ==
  ASSUME StacksInv, IInv, NEW c, c = curr, NEW t, PortStep(t), NEW p \in Port,
         \A q \in Port \ {p} : ports'[q] = ports[q],
         Task(c).at \in PortPoints => Task(c).arg = p,
         t.at \in PortPoints => t.arg = p,
         Top(curr).at \in PortPoints \cup {"user"}
  PROVE  AtPort(c, t, p)
<1>1. curr \in Proc
  BY AnyStart
<1>2. Top(curr).at # "sreset"
  BY PortPointsDiffer, EndsFacts DEF PortPoints
<1>3. TaskStep(c, t) /\ NoKill
  BY DEF PortStep, TaskStep
<1> QED
  BY <1>1, <1>2, <1>3 DEF AtPort

LEMMA PcreateSems ==
  ASSUME BaseInv, SemsInv, LostIs, NEW n \in Counts, Pcreate(n)
  PROVE  SemsInv'
<1>1. KernelInv /\ IInv /\ PortTyped /\ StacksInv /\ TaskInv
  BY DEF BaseInv, CallInv, KernelInv
<1>2. PICK c : c = curr
  OBVIOUS
<1>3. PICK p \in Port, s \in Sem \cup {SYSERR} :
           /\ ports[p].ptstate = "PTFREE" /\ ports[p].ptseq < MaxSeq
           /\ ScreateResult(s, n) /\ ptnextp' \in Port /\ ptfree' = ptfree
           /\ ports' = [ports EXCEPT ![p].ptstate = "PTALLOC", ![p].ptssem = s,
                                     ![p].ptmaxcnt = n, ![p].queue = <<>>]
           /\ Task(curr) = Idle /\ PortStep(At("pcreate", p, 0))
           /\ sched' = sched
  BY <1>1, PcreateStep
<1>4. PICK t : t = At("pcreate", p, 0)
  OBVIOUS
<1>5. t.at = "pcreate" /\ t.arg = p /\ PortStep(t)
  BY <1>3, <1>4 DEF At
<1>6. PortUpd(p, "PTALLOC", s, ports[p].ptrsem, n, ports[p].ptseq, <<>>)
  BY <1>1, <1>3, CreateUpd
<1>7. InUser /\ Top(curr).at = "user" /\ Top(curr).at \notin Loops
  <2>1. InUser
    BY DEF Pcreate, Calling
  <2> QED
    BY <2>1, UserTop, InUserTop
<1>8. /\ \A q \in Port \ {p} : ports'[q] = ports[q]
      /\ ports'[p].ptssem = s /\ ports'[p].ptmaxcnt = n /\ ports'[p].ptseq = ports[p].ptseq
      /\ ports'[p].ptstate = "PTALLOC"
  BY <1>6 DEF PortUpd, PortChange
<1>9. AtPort(c, t, p)
  BY <1>1, <1>2, <1>3, <1>5, <1>7, <1>8, IdleFacts, StepAtPort
<1>10. n \in Int
  BY CountsAssumption
<1>11. ((s = SYSERR /\ semaph' = semaph) \/ NewSem(s, n)) /\ OnlySem(s)
  BY <1>1, <1>3, <1>7, <1>10, ScreateSem
<1>12. \A r \in Proc : ~Clears(r, p)
  BY <1>1, <1>3 DEF TaskInv, ClearerInv, Clears
<1>13. \A r \in Proc : ~Clears(r, p)'
  BY <1>5, <1>9, <1>12, EndsFacts DEF AtPort, TaskStep, Clears
<1>14. Creating(p)' /\ ~Made(p)' /\ ~Made(p)
  <2>1. Task(c)' = t /\ c \in Proc
    BY <1>9 DEF AtPort, TaskStep
  <2>2. Creates(c, p)'
    BY <1>5, <2>1 DEF Creates
  <2> QED
    BY <1>3, <2>1, <2>2 DEF Creating, Made
<1>15. SemOf(p, "psend")' = s /\ StartCount(p, "psend")' = n
  BY <1>8 DEF SemOf, StartCount
<1>16. ~Owns(p, "preceive")' /\ (Owns(p, "psend")' => s # SYSERR) /\ ~IsNew(p, "preceive")'
  BY <1>13, <1>14, <1>15, EndsFacts DEF Owns, Keeps, IsNew, Renews
<1>17. SemsAt(p)'
  <2>1. UsedAt(p)'
    <3>1. Owns(p, "psend")' => isUsed(SemOf(p, "psend"))'
      BY <1>11, <1>15, <1>16 DEF NewSem, isUsed
    <3> QED
      BY <1>16, <3>1, EndsFacts DEF UsedAt
  <2>2. NewAt(p)'
    <3>1. IsNew(p, "psend")' => FreshSem(s, n)'
      BY <1>11, <1>15 DEF NewSem, IsNew
    <3>2. FreshSem(s, n)' => Fresh(p, "psend")'
      BY <1>15 DEF Fresh, FreshSem
    <3> QED
      BY <1>16, <3>1, <3>2, EndsFacts DEF NewAt
  <2>3. CountAt(p)'
    BY <1>14 DEF CountAt
  <2>4. LostAt(p)'
    <3>1. lost[p].psend = 0 /\ lost[p].preceive = 0
      BY <1>14 DEF SemsInv, SemsAt, LostAt
    <3>2. lost'[p].psend = lost[p].psend /\ lost'[p].preceive = lost[p].preceive
      BY <1>1, <1>8, <1>9, LostQuiet DEF AtPort
    <3> QED
      BY <3>1, <3>2 DEF LostAt
  <2> QED
    BY <2>1, <2>2, <2>3, <2>4 DEF SemsAt
<1>18. SharedNone'
  <2>1. Owns(p, "psend")' => ~isUsed(s)
    BY <1>11, <1>16 DEF NewSem
  <2> QED
    BY <1>1, <1>9, <1>15, <1>16, <2>1, EndsFacts, SharedNew
<1>19. LoopInv'
  <2>1. PICK i \in 0..(NPORTS - 1) : Call(<<At("pcreate", ProbePort(i), 0)>>)
    BY DEF Pcreate
  <2>2. PICK x \in Port : x = ProbePort(i)
    BY <1>1, ProbePortFacts DEF PortTyped
  <2>3. kstack' \in Stacks /\ NoLoops(kstack')
    <3>1. "pcreate" \in PortPoints /\ 0 \in Nat
      BY DEF PortPoints
    <3> QED
      BY <1>1, <1>7, <2>1, <2>2, <3>1, PortCallStack
  <2>4. IInv'
    BY <1>5 DEF PortStep, KernelInv
  <2> QED
    BY <2>3, <2>4, NoLoopInv
<1>20. ASSUME NEW q \in Port, NEW pt \in Ends, q # p, Owns(q, pt) PROVE SemOf(q, pt) # s
  <2>1. isUsed(SemOf(q, pt)) /\ SemOf(q, pt) # SYSERR
    BY <1>20 DEF SemsInv, SemsAt, UsedAt, Owns
  <2> QED
    BY <1>11, <2>1 DEF NewSem
<1> QED
  BY <1>1, <1>9, <1>11, <1>17, <1>18, <1>19, <1>20, PortSems

(* Nobody is inside a call on a port that has just got its number. *)
LEMMA NobodyYet ==
  ASSUME TaskInv, PortTyped, NEW c, NEW p, AtPort(c, Idle, p), NEW pt \in Ends,
         \/ ports'[p].ptseq = ports[p].ptseq + 1
         \/ ports'[p].ptseq = ports[p].ptseq /\ ~Made(p)
  PROVE  Within(p, pt)' = {}
<1>1. p \in Port /\ ports[p].ptseq \in Nat
  BY SemOfPort DEF AtPort
<1>2. PICK n : n = ports'[p].ptseq
  OBVIOUS
<1>3. PICK f : f = At(pt, p, n)
  OBVIOUS
<1>4. f.at \in Ends /\ f.arg = p /\ f.cnt = n /\ f # Idle
  BY <1>3, IdleFacts, EndsFacts DEF At
<1>5. ASSUME NEW r \in Proc PROVE Task(r)' # f
  <2>1. CASE r = c
    BY <1>4, <2>1 DEF AtPort, TaskStep
  <2>2. CASE r # c
    <3>1. Task(r)' = Task(r)
      BY <2>2 DEF AtPort, TaskStep
    <3>2. Task(r) = f => /\ n <= ports[p].ptseq
                         /\ n = ports[p].ptseq => Made(p)
      BY <1>1, <1>4 DEF TaskInv, UserInv
    <3>3. Task(r) # f
      BY <1>1, <1>2, <3>2
    <3> QED
      BY <3>1, <3>3
  <2> QED
    BY <2>1, <2>2
<1> QED
  BY <1>2, <1>3, <1>5 DEF Within

(* The count of a semaphore that is as new, in a port that is. *)
LEMMA NewCounted ==
  ASSUME NEW p, NEW pt \in Ends, NEW s, SemOf(p, pt)' = s, NEW n, StartCount(p, pt)' = n,
         Within(p, pt)' = {}, Gone(p, pt)' = 0, ports'[p].queue = <<>>,
         ports'[p].ptmaxcnt \in Nat, s # SYSERR => FreshSem(s, n)'
  PROVE  Counted(p, pt)'
<1>1. CASE s = SYSERR
  BY <1>1 DEF Counted
<1>2. CASE s # SYSERR
  <2>1. semaph'[s].semcnt = n /\ semaph'[s].queue = <<>>
    BY <1>2 DEF FreshSem
  <2>2. QueueOf(s)' = {}
    BY <2>1 DEF QueueOf, ToSet
  <2>3. Cardinality({}) = 0
    BY FS_EmptySet
  <2>4. Expected(p, pt)' = n /\ n \in Nat
    <3>1. Len(ports'[p].queue) = 0
      OBVIOUS
    <3> QED
      BY <3>1 DEF Expected, StartCount
  <2>5. OnlyHere(s, {})'
    BY DEF OnlyHere
  <2>6. semaph'[s].semcnt = Expected(p, pt)' - Cardinality({}) - Gone(p, pt)'
    BY <2>1, <2>3, <2>4
  <2> QED
    BY <1>2, <2>2, <2>5, <2>6 DEF Counted
<1> QED
  BY <1>1, <1>2

LEMMA PcreateEndSems ==
  ASSUME BaseInv, SemsInv, LostIs, PcreateEnd
  PROVE  SemsInv'
<1>1. KernelInv /\ IInv /\ PortTyped /\ StacksInv /\ TaskInv /\ NodeInv
  BY DEF BaseInv, CallInv, KernelInv
<1>2. PICK c : c = curr
  OBVIOUS
<1>3. PICK p \in Port, s \in Sem \cup {SYSERR} :
           /\ ScreateResult(s, 0) /\ UNCHANGED <<ptnextp, ptfree, sched>>
           /\ ports' = [ports EXCEPT ![p].ptrsem = s, ![p].ptseq = @ + 1]
           /\ Task(curr) = Top(curr) /\ Top(curr).at = "pcreate" /\ Top(curr).arg = p
           /\ PortStep(Idle)
  BY <1>1, PcreateEndStep
<1>4. Top(curr).at \in PortPoints /\ Top(curr).at \notin Loops
  BY <1>3, PortPointsDiffer DEF PortPoints
<1>5. PortUpd(p, ports[p].ptstate, ports[p].ptssem, s, ports[p].ptmaxcnt,
              ports[p].ptseq + 1, ports[p].queue)
  BY <1>1, <1>3, CreateEndUpd
<1>6. /\ \A q \in Port \ {p} : ports'[q] = ports[q]
      /\ ports'[p].ptssem = ports[p].ptssem /\ ports'[p].ptrsem = s
      /\ ports'[p].ptmaxcnt = ports[p].ptmaxcnt /\ ports'[p].ptseq = ports[p].ptseq + 1
      /\ ports'[p].ptstate = ports[p].ptstate /\ ports'[p].queue = ports[p].queue
  BY <1>5 DEF PortUpd, PortChange
<1>7. AtPort(c, Idle, p)
  BY <1>1, <1>2, <1>3, <1>4, <1>6, IdleFacts, StepAtPort
<1>8. ((s = SYSERR /\ semaph' = semaph) \/ NewSem(s, 0)) /\ OnlySem(s)
  BY <1>1, <1>3, <1>4, ScreateSem
<1>9. /\ Creates(c, p) /\ c \in Proc /\ ports[p].ptstate = "PTALLOC"
      /\ \A r \in Proc : Creates(r, p) => r = c
      /\ \A r \in Proc : ~Clears(r, p)
  <2>1. Creates(c, p) /\ c \in Proc
    BY <1>2, <1>3, <1>7 DEF Creates, AtPort
  <2>2. ports[p].ptstate = "PTALLOC" /\ \A r \in Proc : Creates(r, p) => r = c
    BY <1>1, <1>2, <2>1 DEF Creates, TaskInv, CreatorInv
  <2> QED
    BY <1>1, <2>1, <2>2 DEF TaskInv, ClearerInv, Clears
<1>10. /\ Creating(p) /\ ~Made(p) /\ ~Creating(p)' /\ \A r \in Proc : ~Clears(r, p)'
  <2>1. \A r \in Proc : ~Creates(r, p)' /\ ~Clears(r, p)'
    BY <1>7, <1>9, IdleFacts, EndsFacts DEF AtPort, TaskStep, Creates, Clears, PortPoints, Clearers
  <2> QED
    BY <1>9, <2>1 DEF Creating, Made
<1>11. SemOf(p, "psend")' = SemOf(p, "psend") /\ SemOf(p, "preceive")' = s
       /\ StartCount(p, "psend")' = StartCount(p, "psend") /\ StartCount(p, "preceive")' = 0
  BY <1>6 DEF SemOf, StartCount
<1>12. Owns(p, "psend")' => Owns(p, "psend") /\ SemOf(p, "psend")' = SemOf(p, "psend")
  BY <1>10, <1>11 DEF Owns
<1>13. ASSUME SemOf(p, "psend") # SYSERR
       PROVE  \E y \in Sem : /\ y = SemOf(p, "psend") /\ y # s /\ isUsed(y)
                             /\ semaph'[y] = semaph[y] /\ FreshSem(y, StartCount(p, "psend"))
  <2>1. PICK y : y = SemOf(p, "psend")
    OBVIOUS
  <2>2. y \in Sem /\ Owns(p, "psend") /\ IsNew(p, "psend")
    BY <1>1, <1>10, <1>13, <2>1, SemOfFacts, EndsFacts DEF Owns, IsNew
  <2>3. isUsed(y)
    BY <2>1, <2>2, EndsFacts DEF SemsInv, SemsAt, UsedAt
  <2>4. Fresh(p, "psend")
    BY <1>3, <2>2, EndsFacts DEF SemsInv, SemsAt, NewAt, Resetting
  <2>5. y # s /\ semaph'[y] = semaph[y]
    BY <1>8, <2>2, <2>3, PortIsInt DEF NewSem
  <2> QED
    BY <2>1, <2>2, <2>3, <2>4, <2>5 DEF Fresh
<1>14. ASSUME NEW pt \in Ends, NEW y, y = SemOf(p, pt)', y # SYSERR,
              NEW n, n = StartCount(p, pt)'
       PROVE  isUsed(y)' /\ FreshSem(y, n)'
  <2>1. CASE pt = "psend"
    BY <1>11, <1>13, <1>14, <2>1 DEF isUsed, FreshSem
  <2>2. CASE pt = "preceive"
    BY <1>8, <1>11, <1>14, <2>2 DEF NewSem
  <2> QED
    BY <2>1, <2>2, EndsFacts
<1>15. SemsAt(p)'
  <2>1. UsedAt(p)'
    <3>1. ASSUME NEW pt \in Ends, Owns(p, pt)' PROVE isUsed(SemOf(p, pt))'
      <4>1. PICK y : y = SemOf(p, pt)'
        OBVIOUS
      <4>2. y # SYSERR
        BY <3>1, <4>1 DEF Owns
      <4>3. isUsed(y)'
        BY <1>14, <4>1, <4>2
      <4> QED
        BY <4>1, <4>3 DEF isUsed
    <3> QED
      BY <3>1 DEF UsedAt
  <2>2. NewAt(p)'
    BY <1>10 DEF NewAt, IsNew, Renews
  <2>3. CountAt(p)'
    <3>1. ASSUME NEW pt \in Ends PROVE Counted(p, pt)'
      <4>1. PICK y, n : y = SemOf(p, pt)' /\ n = StartCount(p, pt)'
        OBVIOUS
      <4>2. y # SYSERR => FreshSem(y, n)'
        BY <1>14, <4>1
      <4>3. Within(p, pt)' = {}
        BY <1>1, <1>6, <1>7, NobodyYet
      <4>4. Gone(p, pt)' = 0
        <5>1. ports[p].ptseq \in Nat
          BY <1>1, SemOfPort
        <5>2. ports'[p].ptseq # ports[p].ptseq
          BY <1>6, <5>1
        <5> QED
          BY <1>1, <1>7, <5>2, LostQuiet, EndsFacts DEF AtPort, Gone
      <4>5. ports'[p].queue = <<>> /\ ports'[p].ptmaxcnt \in Nat
        BY <1>1, <1>6, <1>10, SemOfPort DEF NodeInv
      <4> QED
        BY <4>1, <4>2, <4>3, <4>4, <4>5, NewCounted
    <3> QED
      BY <3>1 DEF CountAt
  <2>4. LostAt(p)'
    BY <1>6, <1>9, <1>10 DEF LostAt, Made
  <2> QED
    BY <2>1, <2>2, <2>3, <2>4 DEF SemsAt
<1>16. SharedNone'
  <2>1. PICK y : y = SemOf(p, "preceive")'
    OBVIOUS
  <2>2. Owns(p, "preceive")' => ~isUsed(y)
    BY <1>8, <1>11, <2>1 DEF NewSem, Owns
  <2> QED
    BY <1>1, <1>7, <1>12, <2>1, <2>2, EndsFacts, SharedNew
<1>17. LoopInv'
  <2>1. kstack' \in Stacks /\ NoLoops(kstack')
    BY <1>1, <1>4, PortReturnStack DEF PcreateEnd
  <2>2. IInv'
    BY <1>3 DEF PortStep, KernelInv
  <2> QED
    BY <2>1, <2>2, NoLoopInv
<1>18. ASSUME NEW q \in Port, NEW pt \in Ends, q # p, Owns(q, pt) PROVE SemOf(q, pt) # s
  <2>1. isUsed(SemOf(q, pt)) /\ SemOf(q, pt) # SYSERR
    BY <1>18 DEF SemsInv, SemsAt, UsedAt, Owns
  <2> QED
    BY <1>8, <2>1 DEF NewSem
<1> QED
  BY <1>1, <1>7, <1>8, <1>15, <1>16, <1>17, <1>18, PortSems

(***************************************************************************)
(* psend and preceive.                                                     *)
(***************************************************************************)
LEMMA CountTypes ==
  ASSUME PortTyped, NEW p \in Port, NEW pt \in Ends
  PROVE  /\ Expected(p, pt) \in Int /\ Gone(p, pt) \in Int
         /\ Cardinality(Within(p, pt)) \in Int
<1>1. ports[p].ptmaxcnt \in Nat /\ Len(ports[p].queue) \in Nat /\ lost[p] \in LostRec
  BY SemOfPort DEF PortTyped
<1> QED
  BY <1>1, WithinFinite DEF Expected, Gone, LostRec

(* x more processes are within, and y more places or messages there. *)
LEMMA EndCounted ==
  ASSUME NEW p \in Port, NEW pt \in Ends, PortTyped, Counted(p, pt),
         NEW s \in Sem, s = SemOf(p, pt), SemOf(p, pt)' = s, s # SYSERR,
         NEW w, Within(p, pt) = w, NEW v, Within(p, pt)' = v, Gone(p, pt)' = Gone(p, pt),
         NEW x \in Int, NEW y \in Int, Cardinality(v) = Cardinality(w) + x,
         Expected(p, pt)' = Expected(p, pt) + y,
         semaph'[s].semcnt = semaph[s].semcnt + y - x,
         QueueOf(s)' \subseteq v, \A z \in Sem \ {s} : QueueOf(z)' \cap v = {}
  PROVE  Counted(p, pt)'
<1>1. semaph[s].semcnt = Expected(p, pt) - Cardinality(w) - Gone(p, pt)
  BY DEF Counted
<1>2. Expected(p, pt) \in Int /\ Gone(p, pt) \in Int /\ Cardinality(w) \in Int
  BY CountTypes
<1>3. semaph'[s].semcnt = Expected(p, pt)' - Cardinality(v) - Gone(p, pt)'
  <2>1. PICK e, g, n : e = Expected(p, pt) /\ g = Gone(p, pt) /\ n = Cardinality(w)
    OBVIOUS
  <2>2. semaph'[s].semcnt = e - n - g + y - x
    BY <1>1, <2>1
  <2>3. Expected(p, pt)' = e + y /\ Cardinality(v) = n + x /\ Gone(p, pt)' = g
    BY <2>1
  <2>4. e \in Int /\ g \in Int /\ n \in Int
    BY <1>2, <2>1
  <2> QED
    BY <2>2, <2>3, <2>4
<1>4. OnlyHere(s, v)'
  BY DEF OnlyHere
<1> QED
  BY <1>3, <1>4 DEF Counted

(* The current process is on no queue. *)
LEMMA CurrWaitsNot ==
  ASSUME IInv, NEW c, c = curr, NEW y \in Sem
  PROVE  c \notin QueueOf(y)
<1>1. sched.pstate[c] = "PRCURR" /\ QueuesMatch(semaph, psem, sched.pstate)
  BY AnyStart
<1>2. Class("PRCURR") # "PRWAIT"
  BY DEF Class, Runnable
<1> QED
  BY <1>1, <1>2 DEF QueuesMatch, QueueOf

(* An open port. *)
LEMMA MadeOwns ==
  ASSUME NEW p, NEW pt \in Ends, Made(p)
  PROVE  Owns(p, pt) <=> SemOf(p, pt) # SYSERR
BY DEF Owns, Made

LEMMA MadeNotNew ==
  ASSUME TaskInv', NEW p, Made(p)', NEW pt
  PROVE  ~IsNew(p, pt)'
<1>1. \A r \in Proc : ~Clears(r, p)'
  BY DEF TaskInv, ClearerInv, Clears, Made
<1> QED
  BY <1>1 DEF IsNew, Renews, Made

(* The parts for an open port that stays open. *)
LEMMA StaysOpen ==
  ASSUME PortTyped, SemsInv, TaskInv', NEW p \in Port, Made(p), Made(p)',
         \A pt \in Ends : SemOf(p, pt)' = SemOf(p, pt),
         \A s \in Sem : semaph'[s].sstate = semaph[s].sstate,
         \A pt \in Ends : Counted(p, pt)'
  PROVE  SemsAt(p)' /\ \A pt \in Ends : Owns(p, pt)' => Owns(p, pt) /\ SemOf(p, pt)' = SemOf(p, pt)
<1>1. ASSUME NEW pt \in Ends, Owns(p, pt)' PROVE Owns(p, pt) /\ isUsed(SemOf(p, pt))'
  <2>1. PICK s : s = SemOf(p, pt)
    OBVIOUS
  <2>2. s # SYSERR /\ SemOf(p, pt)' = s
    BY <1>1, <2>1 DEF Owns
  <2>3. Owns(p, pt) /\ s \in Sem
    BY <2>1, <2>2, MadeOwns, SemOfFacts
  <2>4. isUsed(s)
    BY <2>1, <2>3 DEF SemsInv, SemsAt, UsedAt
  <2> QED
    BY <2>2, <2>3, <2>4 DEF isUsed
<1>2. UsedAt(p)'
  BY <1>1 DEF UsedAt
<1>3. NewAt(p)'
  BY MadeNotNew DEF NewAt
<1>4. CountAt(p)'
  BY DEF CountAt
<1>5. LostAt(p)'
  BY DEF LostAt
<1> QED
  BY <1>1, <1>2, <1>3, <1>4, <1>5 DEF SemsAt

(* A process goes into a call. *)
LEMMA WithinMore ==
  ASSUME NEW c, NEW p, NEW pt \in Ends, NEW t, t = At(pt, p, ports[p].ptseq), AtPort(c, t, p),
         Task(c) = Idle, ports'[p] = ports[p]
  PROVE  /\ c \in Proc /\ c \notin Within(p, pt) /\ Within(p, pt)' = Within(p, pt) \cup {c}
         /\ \A e \in Ends \ {pt} : Within(p, e)' = Within(p, e) /\ c \notin Within(p, e)
<1>1. \A e \in Ends : Idle # At(e, p, ports[p].ptseq)
  BY IdleFacts, EndsFacts DEF At
<1>2. \A e \in Ends \ {pt} : t # At(e, p, ports[p].ptseq)
  BY DEF At
<1>3. ports'[p].ptseq = ports[p].ptseq
  OBVIOUS
<1>4. c \in Proc /\ \A r \in Proc : Task(r)' = IF r = c THEN t ELSE Task(r)
  BY DEF AtPort, TaskStep
<1>5. ASSUME NEW e \in Ends PROVE c \notin Within(p, e)
  BY <1>1 DEF Within
<1>6. Within(p, pt)' = Within(p, pt) \cup {c}
  BY <1>3, <1>4 DEF Within
<1>7. ASSUME NEW e \in Ends \ {pt} PROVE Within(p, e)' = Within(p, e)
  BY <1>1, <1>2, <1>3, <1>4 DEF Within
<1> QED
  BY <1>4, <1>5, <1>6, <1>7

LEMMA WaitInPortSems ==
  ASSUME BaseInv, SemsInv, LostIs, NEW p \in Port, NEW pt \in Ends, Calling(pt),
         WaitInPort(p, SemOf(p, pt), pt)
  PROVE  SemsInv'
<1>1. KernelInv /\ IInv /\ PortTyped /\ StacksInv /\ TaskInv /\ CallInv
  BY DEF BaseInv, CallInv, KernelInv
<1>2. PICK c, s, t : c = curr /\ s = SemOf(p, pt) /\ t = At(pt, p, ports[p].ptseq)
  OBVIOUS
<1>3. /\ ports[p].ptstate = "PTALLOC" /\ s \in Sem /\ isUsed(s) /\ WaitOn(s)
      /\ ports' = ports /\ Task(c) = Idle /\ PortStep(t)
  BY <1>1, <1>2, WaitInPortStep DEF portVars
<1>4. InUser /\ Top(curr).at = "user"
  BY UserTop DEF Calling
<1>5. t.at = pt /\ t.arg = p
  BY <1>2 DEF At
<1>6. AtPort(c, t, p)
  BY <1>1, <1>2, <1>3, <1>4, <1>5, IdleFacts, StepAtPort
<1>7. c \in Proc /\ Made(p) /\ SYSERR \notin Sem
  BY <1>1, <1>2, <1>3, <1>6, IdleFacts, MadeUser, PortIsInt DEF AtPort, PortPoints
<1>8. TaskInv' /\ IInv'
  BY WaitInPortBase DEF BaseInv, CallInv, KernelInv
<1>9. Made(p)'
  <2>1. \A r \in Proc : ~Creates(r, p)'
    BY <1>5, <1>6, <1>7, EndsFacts DEF Made, Creating, AtPort, TaskStep, Creates
  <2> QED
    BY <1>3, <2>1 DEF Made, Creating
<1>10. PICK q : /\ SemUpd(semaph, semaph', s, semaph[s].sstate, semaph[s].semcnt - 1, q)
               /\ ToSet(q) \subseteq QueueOf(s) \cup {c}
  BY <1>1, <1>2, <1>3, WaitUpd DEF Waited
<1>11. /\ \A y \in Sem \ {s} : semaph'[y] = semaph[y]
       /\ semaph'[s].sstate = semaph[s].sstate /\ semaph'[s].semcnt = semaph[s].semcnt - 1
       /\ QueueOf(s)' \subseteq QueueOf(s) \cup {c}
  BY <1>10 DEF SemUpd, QueueOf
<1>12. OnlySem(s)
  BY <1>2, <1>3, <1>11 DEF OnlySem
<1>13. /\ c \notin Within(p, pt) /\ Within(p, pt)' = Within(p, pt) \cup {c}
       /\ \A e \in Ends \ {pt} : Within(p, e)' = Within(p, e) /\ c \notin Within(p, e)
  <2>1. t = At(pt, p, ports[p].ptseq) /\ Task(c) = Idle /\ ports'[p] = ports[p]
    BY <1>2, <1>3
  <2> QED
    BY <1>6, <2>1, WithinMore
<1>14. \A e \in Ends : /\ SemOf(p, e)' = SemOf(p, e) /\ Expected(p, e)' = Expected(p, e)
                       /\ Gone(p, e)' = Gone(p, e) /\ Counted(p, e)
  <2>1. lost'[p].psend = lost[p].psend /\ lost'[p].preceive = lost[p].preceive
    BY <1>1, <1>3, <1>6, LostQuiet DEF AtPort
  <2> QED
    BY <1>3, <1>7, <2>1 DEF SemOf, Expected, Gone, SemsInv, SemsAt, CountAt
<1>15. semaph[s].semcnt \in Int
  BY <1>1, <1>3, AnyStart, SemFacts
<1>16. Counted(p, pt)'
  <2>1. PICK x \in Int, y \in Int : x = 1 /\ y = 0
    OBVIOUS
  <2>2. PICK w : w = Within(p, pt)
    OBVIOUS
  <2>3. Counted(p, pt) /\ QueueOf(s) \subseteq w /\ \A z \in Sem \ {s} : QueueOf(z) \cap w = {}
    BY <1>2, <1>3, <1>7, <1>14, <2>2 DEF Counted, OnlyHere
  <2>4. Cardinality(w \cup {c}) = Cardinality(w) + x
    BY <1>13, <2>1, <2>2, WithinFinite, FS_AddElement
  <2>5. \A z \in Sem \ {s} : QueueOf(z)' \cap (w \cup {c}) = {}
    <3>1. ASSUME NEW z \in Sem \ {s} PROVE QueueOf(z)' \cap (w \cup {c}) = {}
      <4>1. QueueOf(z)' = QueueOf(z)
        BY <1>11 DEF QueueOf
      <4>2. c \notin QueueOf(z)
        BY <1>1, <1>2, CurrWaitsNot
      <4> QED
        BY <2>3, <4>1, <4>2
    <3> QED
      BY <3>1
  <2>6. QueueOf(s)' \subseteq w \cup {c}
    BY <1>11, <2>3
  <2>7. semaph'[s].semcnt = semaph[s].semcnt + y - x
    BY <1>11, <1>15, <2>1
  <2>8. Expected(p, pt)' = Expected(p, pt) + y
    BY <1>1, <1>14, <2>1, CountTypes
  <2>9. SemOf(p, pt)' = s /\ Gone(p, pt)' = Gone(p, pt) /\ Within(p, pt)' = w \cup {c}
        /\ s # SYSERR
    BY <1>2, <1>3, <1>7, <1>13, <1>14, <2>2
  <2>10. PICK v : v = w \cup {c}
    OBVIOUS
  <2>11. /\ Within(p, pt)' = v /\ Cardinality(v) = Cardinality(w) + x
         /\ QueueOf(s)' \subseteq v /\ \A z \in Sem \ {s} : QueueOf(z)' \cap v = {}
    BY <2>4, <2>5, <2>6, <2>9, <2>10
  <2>12. s \in Sem /\ s = SemOf(p, pt) /\ Within(p, pt) = w /\ Counted(p, pt)
    BY <1>2, <1>3, <2>2, <2>3
  <2> QED
    BY <1>1, <2>1, <2>7, <2>8, <2>9, <2>11, <2>12, EndCounted
<1>17. ASSUME NEW e \in Ends, e # pt PROVE Counted(p, e)'
  <2>1. PICK w, y : w = Within(p, e) /\ y = SemOf(p, e)
    OBVIOUS
  <2>2. Within(p, e)' = w /\ c \notin w /\ SemOf(p, e)' = y /\ Counted(p, e)
    BY <1>13, <1>14, <1>17, <2>1
  <2>3. CASE y = SYSERR
    BY <1>3, <2>1, <2>2, <2>3 DEF Counted
  <2>4. CASE y # SYSERR
    <3>1. y \in Sem /\ Owns(p, e) /\ Owns(p, pt)
      BY <1>1, <1>2, <1>3, <1>7, <2>1, <2>4, SemOfFacts, MadeOwns
    <3>2. y # s
      BY <1>2, <1>17, <2>1, <3>1 DEF SemsInv, SharedNone
    <3>3. semaph'[y] = semaph[y]
      BY <1>11, <3>1, <3>2
    <3>4. semaph[y].semcnt \in Int
      BY <1>1, <3>1, AnyStart, SemFacts
    <3>5. QueueOf(y) \subseteq w /\ \A z \in Sem \ {y} : QueueOf(z) \cap w = {}
      BY <2>1, <2>2, <2>4 DEF Counted, OnlyHere
    <3>6. QueueOf(y)' \subseteq w
      BY <3>3, <3>5 DEF QueueOf
    <3>7. ASSUME NEW z \in Sem \ {y} PROVE QueueOf(z)' \cap w = {}
      <4>1. CASE z = s
        BY <1>11, <2>2, <3>5, <4>1
      <4>2. CASE z # s
        BY <1>11, <3>5, <4>2 DEF QueueOf
      <4> QED
        BY <4>1, <4>2
    <3>8. Cardinality(w) = Cardinality(w) + 0 /\ Expected(p, e)' = Expected(p, e) + 0
      BY <1>1, <1>14, <2>1, CountTypes
    <3>9. semaph'[y].semcnt = semaph[y].semcnt + 0 - 0
      BY <3>3, <3>4
    <3>10. Gone(p, e)' = Gone(p, e)
      BY <1>14
    <3> QED
      BY <1>1, <2>1, <2>2, <2>4, <3>1, <3>6, <3>7, <3>8, <3>9, <3>10, EndCounted
  <2> QED
    BY <2>3, <2>4
<1>18. SemsAt(p)' /\ \A e \in Ends : Owns(p, e)' => Owns(p, e) /\ SemOf(p, e)' = SemOf(p, e)
  <2>1. \A y \in Sem : semaph'[y].sstate = semaph[y].sstate
    BY <1>11
  <2>2. \A e \in Ends : Counted(p, e)'
    BY <1>16, <1>17
  <2> QED
    BY <1>1, <1>7, <1>8, <1>9, <1>14, <2>1, <2>2, StaysOpen
<1>19. SharedNone'
  BY <1>1, <1>6, <1>18, SharedAt
<1>20. LoopInv'
  <2>1. Call(<<At(pt, p, ports[p].ptseq)>>) /\ ports[p].ptseq \in Nat /\ pt \in PortPoints
    BY <1>1, SemOfPort, EndsFacts DEF WaitInPort
  <2>2. kstack' \in Stacks /\ NoLoops(kstack')
    BY <1>1, <1>4, <2>1, PortCallStack
  <2> QED
    BY <1>8, <2>2, NoLoopInv
<1>21. ASSUME NEW z \in Port, NEW e \in Ends, z # p, Owns(z, e) PROVE SemOf(z, e) # s
  <2>1. Owns(p, pt)
    BY <1>2, <1>3, <1>7, MadeOwns
  <2> QED
    BY <1>2, <1>21, <2>1 DEF SemsInv, SharedNone
<1> QED
  BY <1>1, <1>6, <1>12, <1>18, <1>19, <1>20, <1>21, PortSems

(* A call that goes on: a message put or taken, the other end signalled. *)
EndMove(p, pt, o) ==
  /\ Top(curr).at = pt /\ StillThere(Top(curr)) /\ SignalPort(SemOf(p, o))
  /\ Expected(p, pt)' = Expected(p, pt) - 1 /\ Expected(p, o)' = Expected(p, o) + 1
  /\ o = "psend" => ports[p].queue # <<>>
  /\ pt # o

LEMMA EndMoves ==
  ASSUME PortTyped, NEW p \in Port, EndAt(p), curr \in Proc
  PROVE  \/ ports' = ports /\ semaph' = semaph /\ ~StillThere(Top(curr))
         \/ \E pt, o \in Ends : EndMove(p, pt, o)
<1>1. ports[p].queue \in Seq(Proc) /\ ports[p].ptmaxcnt \in Nat
  BY SemOfPort
<1>2. CASE /\ Top(curr).at = "psend" /\ StillThere(Top(curr))
           /\ ports' = [ports EXCEPT ![p].queue = Append(ports[p].queue, curr)]
           /\ SignalPort(ports[p].ptrsem)
  <2>1. PICK qu \in Seq(Proc) : /\ qu = Append(ports[p].queue, curr)
                                /\ Len(qu) = Len(ports[p].queue) + 1
    BY <1>1, QueueEnds
  <2>2. PortUpd(p, ports[p].ptstate, ports[p].ptssem, ports[p].ptrsem,
                ports[p].ptmaxcnt, ports[p].ptseq, qu)
    BY <1>2, <2>1, QueueUpd
  <2>3. ports'[p].ptmaxcnt = ports[p].ptmaxcnt /\ Len(ports'[p].queue) = Len(ports[p].queue) + 1
    BY <2>1, <2>2 DEF PortUpd, PortChange
  <2>4. PICK m, n, z : m = ports[p].ptmaxcnt /\ n = Len(ports[p].queue) /\ z = Len(ports'[p].queue)
    OBVIOUS
  <2>5. m \in Nat /\ n \in Nat /\ z = n + 1
    BY <1>1, <2>3, <2>4
  <2>6. /\ Expected(p, "psend") = m - n /\ Expected(p, "psend")' = m - z
        /\ Expected(p, "preceive") = n /\ Expected(p, "preceive")' = z
    BY <2>3, <2>4 DEF Expected
  <2>7. EndMove(p, "psend", "preceive")
    BY <1>2, <2>5, <2>6 DEF EndMove, SemOf
  <2> QED
    BY <2>7, EndsFacts
<1>3. CASE /\ Top(curr).at = "preceive" /\ StillThere(Top(curr)) /\ ports[p].queue # <<>>
           /\ ports' = [ports EXCEPT ![p].queue = Tail(ports[p].queue)]
           /\ SignalPort(ports[p].ptssem)
  <2>1. PICK qu \in Seq(Proc) : /\ qu = Tail(ports[p].queue)
                                /\ Len(ports[p].queue) = Len(qu) + 1
    BY <1>1, <1>3, QueueEnds
  <2>2. PortUpd(p, ports[p].ptstate, ports[p].ptssem, ports[p].ptrsem,
                ports[p].ptmaxcnt, ports[p].ptseq, qu)
    BY <1>3, <2>1, QueueUpd
  <2>3. ports'[p].ptmaxcnt = ports[p].ptmaxcnt /\ ports'[p].queue = qu
    BY <2>2 DEF PortUpd, PortChange
  <2>4. PICK m, n, z : m = ports[p].ptmaxcnt /\ n = Len(ports[p].queue) /\ z = Len(qu)
    OBVIOUS
  <2>5. m \in Nat /\ n \in Nat /\ z \in Nat /\ n = z + 1
    BY <1>1, <2>1, <2>4
  <2>6. /\ Expected(p, "psend") = m - n /\ Expected(p, "psend")' = m - z
        /\ Expected(p, "preceive") = n /\ Expected(p, "preceive")' = z
    BY <2>3, <2>4 DEF Expected
  <2>7. EndMove(p, "preceive", "psend")
    BY <1>3, <2>5, <2>6 DEF EndMove, SemOf
  <2> QED
    BY <2>7, EndsFacts
<1>4. CASE UNCHANGED <<sched, semaph, ports, ptfree>> /\ ~StillThere(Top(curr))
  BY <1>4
<1> QED
  BY <1>2, <1>3, <1>4 DEF EndAt

(* A process leaves a call. *)
LEMMA WithinLess ==
  ASSUME NEW c, NEW p, AtPort(c, Idle, p), ports'[p].ptseq = ports[p].ptseq
  PROVE  \A e \in Ends : Within(p, e)' = Within(p, e) \ {c}
<1>1. c \in Proc /\ \A r \in Proc : Task(r)' = IF r = c THEN Idle ELSE Task(r)
  BY DEF AtPort, TaskStep
<1>2. ASSUME NEW e \in Ends PROVE Within(p, e)' = Within(p, e) \ {c}
  <2>1. Idle # At(e, p, ports[p].ptseq)
    BY IdleFacts DEF At
  <2> QED
    BY <1>1, <2>1 DEF Within
<1> QED
  BY <1>2

(* A port, and a step that leaves everything about it alone. *)
LEMMA QuietAt ==
  ASSUME PortTyped, NEW p \in Port, SemsAt(p), Alike(p), semaph' = semaph,
         Top(curr).at # "sreset"
  PROVE  SemsAt(p)'
<1>1. ASSUME NEW pt \in Ends, NEW y \in Sem, Owns(p, pt), y = SemOf(p, pt)
      PROVE  KeptSem(y, p, pt)
  <2>1. isUsed(y)
    BY <1>1 DEF SemsAt, UsedAt
  <2>2. StartCount(p, pt)' = StartCount(p, pt)
    BY AlikeFacts
  <2>3. IsNew(p, pt) => FreshSem(y, StartCount(p, pt))
    BY <1>1 DEF SemsAt, NewAt, Fresh, Resetting
  <2>4. FreshSem(y, StartCount(p, pt)) => FreshSem(y, StartCount(p, pt))'
    BY <2>2 DEF FreshSem
  <2> QED
    BY <2>1, <2>3, <2>4 DEF KeptSem, isUsed, QueueOf
<1>2. KeptSems(p)
  BY <1>1 DEF KeptSems
<1>3. NoneNew(p)
  BY DEF NoneNew, QueueOf
<1> QED
  BY <1>2, <1>3, KeepAt

(* The port is another one by now. *)
LEMMA EndStale ==
  ASSUME BaseInv, SemsInv, LostIs, NEW c, NEW p, AtPort(c, Idle, p), Task(c) = Top(curr),
         Top(curr).at \in Ends, Top(curr).arg = p,
         ports' = ports, semaph' = semaph, ~StillThere(Top(curr))
  PROVE  SemsAt(p)' /\ SharedNone' /\ OnlySem(SYSERR)
<1>1. PortTyped /\ TaskInv /\ p \in Port /\ c \in Proc
  BY DEF BaseInv, CallInv, AtPort
<1>2. PICK k : k = Top(curr)
  OBVIOUS
<1>3. k.cnt # ports[p].ptseq
  <2>1. k.cnt = ports[p].ptseq => Made(p)
    BY <1>1, <1>2 DEF TaskInv, UserInv
  <2> QED
    BY <1>2, <2>1 DEF StillThere, Made
<1>4. lost'[p].psend = lost[p].psend /\ lost'[p].preceive = lost[p].preceive
  BY <1>1, LostQuiet DEF AtPort
<1>5. ASSUME NEW r \in Proc PROVE SameAt(r, p)
  <2>1. CASE r # c
    <3>1. Task(r)' = Task(r)
      BY <2>1 DEF AtPort, TaskStep
    <3> QED
      BY <3>1 DEF SameAt, Creates, Clears
  <2>2. CASE r = c
    <3>1. Task(r)' = Idle /\ Task(r) = k
      BY <1>2, <2>2 DEF AtPort, TaskStep
    <3>2. ASSUME NEW pt \in Ends PROVE /\ At(pt, p, ports[p].ptseq) # k
                                       /\ At(pt, p, ports[p].ptseq) # Idle
      BY <1>3, IdleFacts, EndsFacts DEF At
    <3>3. ~Creates(r, p) /\ ~Clears(r, p)
      BY <1>2, <3>1, EndsFacts DEF Creates, Clears, Clearers, Ends
    <3>4. ~Creates(r, p)' /\ ~Clears(r, p)'
      BY <3>1, IdleFacts, EndsFacts DEF Creates, Clears, Clearers
    <3> QED
      BY <3>1, <3>2, <3>3, <3>4 DEF SameAt
  <2> QED
    BY <2>1, <2>2
<1>6. Made(p)' <=> Made(p)
  BY <1>5 DEF Made, Creating, SameAt
<1>7. Alike(p) /\ SemsAt(p)
  BY <1>1, <1>4, <1>5, <1>6 DEF Alike, SemsInv
<1>8. SemsAt(p)'
  BY <1>1, <1>7, QuietAt DEF AtPort
<1>9. SharedNone'
  BY <1>1, <1>7, AlikeFacts, SharedAt
<1> QED
  BY <1>8, <1>9 DEF OnlySem, QueueOf

LEMMA EndActive ==
  ASSUME BaseInv, SemsInv, LostIs, TaskInv', NEW c, NEW p, AtPort(c, Idle, p),
         Task(c) = Top(curr), Top(curr).arg = p, NEW pt \in Ends, NEW o \in Ends,
         EndMove(p, pt, o), NEW qu,
         PortUpd(p, ports[p].ptstate, ports[p].ptssem, ports[p].ptrsem,
                 ports[p].ptmaxcnt, ports[p].ptseq, qu)
  PROVE  SemsAt(p)' /\ SharedNone' /\ OnlySem(SemOf(p, o))
<1>1. KernelInv /\ IInv /\ PortTyped /\ StacksInv /\ TaskInv /\ p \in Port /\ c \in Proc
      /\ SYSERR \notin Sem
  BY PortIsInt DEF BaseInv, CallInv, KernelInv, AtPort
<1>2. PICK k, s, y : k = Top(curr) /\ s = SemOf(p, o) /\ y = SemOf(p, pt)
  OBVIOUS
<1>3. /\ k.at = pt /\ k.arg = p /\ k.cnt = ports[p].ptseq /\ ports[p].ptstate = "PTALLOC"
      /\ SignalPort(s) /\ pt # o /\ Task(c) = k
  BY <1>2 DEF EndMove, StillThere
<1>4. k = At(pt, p, ports[p].ptseq)
  <2>1. k \in Frame
    BY <1>1, <1>2, <1>3, InCall, EndsFacts
  <2>2. k = [at |-> k.at, arg |-> k.arg, cnt |-> k.cnt]
    BY <2>1 DEF Frame
  <2> QED
    BY <1>3, <2>2 DEF At
<1>5. c \in Within(p, pt) /\ c \notin Within(p, o) /\ Made(p)
  <2>1. c \in Within(p, pt)
    BY <1>1, <1>3, <1>4 DEF Within
  <2>2. c \notin Within(p, o)
    BY <1>3, <1>4 DEF Within, At
  <2>3. Made(p)
    BY <1>1, <1>3 DEF TaskInv, UserInv
  <2> QED
    BY <2>1, <2>2, <2>3
<1>6. /\ ports'[p].ptstate = "PTALLOC" /\ ports'[p].ptssem = ports[p].ptssem
      /\ ports'[p].ptrsem = ports[p].ptrsem /\ ports'[p].ptseq = ports[p].ptseq
  BY <1>3 DEF PortUpd, PortChange
<1>7. Made(p)'
  <2>1. \A r \in Proc : ~Creates(r, p)'
    BY <1>5, IdleFacts DEF Made, Creating, AtPort, TaskStep, Creates
  <2> QED
    BY <1>6, <2>1 DEF Made, Creating
<1>8. \A e \in Ends : /\ SemOf(p, e)' = SemOf(p, e) /\ Gone(p, e)' = Gone(p, e)
                      /\ Counted(p, e) /\ Within(p, e)' = Within(p, e) \ {c}
  <2>1. lost'[p].psend = lost[p].psend /\ lost'[p].preceive = lost[p].preceive
    BY <1>1, <1>6, LostQuiet DEF AtPort
  <2>2. \A e \in Ends : Within(p, e)' = Within(p, e) \ {c}
    BY <1>6, WithinLess
  <2> QED
    BY <1>1, <1>5, <1>6, <2>1, <2>2 DEF SemOf, Gone, SemsInv, SemsAt, CountAt
<1>9. y # SYSERR /\ y \in Sem /\ Owns(p, pt)
  <2>1. y # SYSERR
    BY <1>2, <1>5, <1>8 DEF Counted
  <2> QED
    BY <1>1, <1>2, <1>5, <2>1, SemOfFacts, MadeOwns
<1>10. s # SYSERR => s \in Sem /\ Owns(p, o) /\ s # y /\ Signalled(s)
  <2>1. SUFFICES ASSUME s # SYSERR PROVE s \in Sem /\ Owns(p, o) /\ s # y /\ Signalled(s)
    OBVIOUS
  <2>2. s \in Sem /\ Owns(p, o)
    BY <1>1, <1>2, <1>5, <2>1, SemOfFacts, MadeOwns
  <2>3. isUsed(s)
    BY <1>1, <1>2, <2>2 DEF SemsInv, SemsAt, UsedAt
  <2>4. s # y
    BY <1>1, <1>2, <1>3, <1>9, <2>2 DEF SemsInv, SharedNone
  <2>5. CountMatches(semaph[s])
    <3>1. Top(curr).at \notin Loops
      BY <1>2, <1>3, PortPointsDiffer, EndsFacts
    <3> QED
      BY <1>1, <2>2, <3>1, QuietStart
  <2>6. \/ /\ semaph[s].semcnt < 0
           /\ semaph' = [semaph EXCEPT ![s].semcnt = @ + 1, ![s].queue = Tail(@)]
        \/ semaph' = [semaph EXCEPT ![s].semcnt = @ + 1]
    BY <1>3, <2>1, <2>3 DEF SignalPort, HasSem, SignalOnce
  <2>7. Signalled(s)
    BY <1>1, <2>2, <2>3, <2>5, <2>6, SignalUpd
  <2> QED
    BY <2>2, <2>4, <2>7
<1>11. s = SYSERR => semaph' = semaph
  BY <1>3 DEF SignalPort, HasSem
<1>12. /\ \A z \in Sem : z # s => semaph'[z] = semaph[z]
       /\ \A z \in Sem : semaph'[z].sstate = semaph[z].sstate /\ QueueOf(z)' \subseteq QueueOf(z)
       /\ s # SYSERR => semaph'[s].semcnt = semaph[s].semcnt + 1
  <2>1. CASE s = SYSERR
    BY <1>11, <2>1 DEF QueueOf
  <2>2. CASE s # SYSERR
    <3>1. PICK q : /\ SemUpd(semaph, semaph', s, semaph[s].sstate, semaph[s].semcnt + 1, q)
                   /\ ToSet(q) \subseteq QueueOf(s)
      BY <1>10, <2>2 DEF Signalled
    <3>2. \A z \in Sem : z # s => semaph'[z] = semaph[z]
      BY <3>1 DEF SemUpd
    <3>3. semaph'[s].sstate = semaph[s].sstate /\ semaph'[s].semcnt = semaph[s].semcnt + 1
          /\ semaph'[s].queue = q
      BY <3>1 DEF SemUpd
    <3>4. ASSUME NEW z \in Sem PROVE QueueOf(z)' \subseteq QueueOf(z)
      BY <3>1, <3>2, <3>3 DEF QueueOf
    <3> QED
      BY <3>2, <3>3, <3>4
  <2> QED
    BY <2>1, <2>2
<1>13. OnlySem(s)
  BY <1>12 DEF OnlySem
<1>14. \A e \in Ends : Expected(p, e) \in Int /\ Cardinality(Within(p, e)) \in Int
  BY <1>1, CountTypes
<1>15. \A z \in Sem : semaph[z].semcnt \in Int
  BY <1>1, AnyStart, SemFacts
<1>16. Counted(p, pt)'
  <2>1. PICK x \in Int : x = -1
    OBVIOUS
  <2>2. PICK w : w = Within(p, pt)
    OBVIOUS
  <2>3. /\ Counted(p, pt) /\ Within(p, pt)' = w \ {c} /\ SemOf(p, pt)' = y
        /\ Gone(p, pt)' = Gone(p, pt)
    BY <1>2, <1>8, <2>2
  <2>4. QueueOf(y) \subseteq w /\ \A z \in Sem \ {y} : QueueOf(z) \cap w = {}
    BY <1>2, <1>9, <2>2, <2>3 DEF Counted, OnlyHere
  <2>5. Cardinality(w \ {c}) = Cardinality(w) + x
    <3>1. Cardinality(w \ {c}) = Cardinality(w) - 1 /\ Cardinality(w) \in Int
      BY <1>5, <1>14, <2>2, WithinFinite
    <3> QED
      BY <2>1, <3>1
  <2>6. Expected(p, pt)' = Expected(p, pt) + x
    BY <1>14, <2>1 DEF EndMove
  <2>7. semaph'[y].semcnt = semaph[y].semcnt + x - x
    BY <1>9, <1>10, <1>11, <1>12, <1>15
  <2>8. QueueOf(y)' \subseteq w \ {c}
    <3>1. c \notin QueueOf(y)
      BY <1>1, <1>9, CurrWaitsNot DEF AtPort
    <3>2. QueueOf(y)' \subseteq QueueOf(y)
      BY <1>9, <1>12
    <3> QED
      BY <2>4, <3>1, <3>2
  <2>9. \A z \in Sem \ {y} : QueueOf(z)' \cap (w \ {c}) = {}
    BY <1>12, <2>4
  <2> QED
    BY <1>1, <1>2, <1>9, <2>1, <2>2, <2>3, <2>5, <2>6, <2>7, <2>8, <2>9, EndCounted
<1>17. Counted(p, o)'
  <2>1. PICK w : w = Within(p, o)
    OBVIOUS
  <2>2. /\ Counted(p, o) /\ Within(p, o)' = w /\ SemOf(p, o)' = s
        /\ Gone(p, o)' = Gone(p, o)
    <3>1. w \ {c} = w
      BY <1>5, <2>1
    <3> QED
      BY <1>2, <1>8, <2>1, <3>1
  <2>3. CASE s = SYSERR
    <3>1. w = {} /\ (o = "psend" => ports[p].queue = <<>>)
      BY <1>2, <2>1, <2>2, <2>3 DEF Counted
    <3>2. o # "psend"
      BY <3>1 DEF EndMove
    <3> QED
      BY <2>2, <2>3, <3>1, <3>2 DEF Counted
  <2>4. CASE s # SYSERR
    <3>1. s \in Sem
      BY <1>10, <2>4
    <3>2. QueueOf(s) \subseteq w /\ \A z \in Sem \ {s} : QueueOf(z) \cap w = {}
      BY <1>2, <2>1, <2>2, <2>4 DEF Counted, OnlyHere
    <3>3. Cardinality(w) = Cardinality(w) + 0
      BY <1>14, <2>1
    <3>4. Expected(p, o)' = Expected(p, o) + 1
      BY DEF EndMove
    <3>5. semaph'[s].semcnt = semaph[s].semcnt + 1 - 0
      BY <1>12, <1>15, <2>4, <3>1
    <3>6. QueueOf(s)' \subseteq w /\ \A z \in Sem \ {s} : QueueOf(z)' \cap w = {}
      BY <1>12, <3>1, <3>2
    <3> QED
      BY <1>1, <1>2, <2>1, <2>2, <2>4, <3>1, <3>3, <3>4, <3>5, <3>6, EndCounted
  <2> QED
    BY <2>3, <2>4
<1>18. SemsAt(p)' /\ \A e \in Ends : Owns(p, e)' => Owns(p, e) /\ SemOf(p, e)' = SemOf(p, e)
  <2>1. \A e \in Ends : Counted(p, e)'
    BY <1>3, <1>16, <1>17 DEF Ends
  <2> QED
    BY <1>1, <1>5, <1>7, <1>8, <1>12, <2>1, StaysOpen
<1>19. SharedNone'
  BY <1>1, <1>18, SharedAt
<1> QED
  BY <1>2, <1>13, <1>18, <1>19

LEMMA EndSems ==
  ASSUME BaseInv, SemsInv, LostIs, PsendEnd \/ PreceiveEnd
  PROVE  SemsInv'
<1>1. KernelInv /\ IInv /\ PortTyped /\ StacksInv /\ TaskInv
  BY DEF BaseInv, CallInv, KernelInv
<1>2. PICK c : c = curr
  OBVIOUS
<1>3. PICK p \in Port, qu \in Seq(Proc) :
           /\ PortStep(Idle) /\ Task(curr) = Top(curr) /\ Top(curr).at \in Ends
           /\ Top(curr).arg = p /\ EndAt(p) /\ EndQueue(p, qu)
           /\ PortUpd(p, ports[p].ptstate, ports[p].ptssem, ports[p].ptrsem,
                      ports[p].ptmaxcnt, ports[p].ptseq, qu)
           /\ UNCHANGED <<psem, nextsem, ptnextp>> /\ ptfree' \in Nat
  BY EndPort
<1>4. Top(curr).at \in PortPoints
  BY <1>3, EndsFacts
<1>5. \A q \in Port \ {p} : ports'[q] = ports[q]
  BY <1>3 DEF PortUpd, PortChange
<1>6. AtPort(c, Idle, p)
  BY <1>1, <1>2, <1>3, <1>4, <1>5, IdleFacts, StepAtPort
<1>7. TaskInv' /\ IInv'
  BY EndBase DEF BaseInv, CallInv, KernelInv
<1>8. LoopInv'
  <2>1. Return
    BY DEF PsendEnd, PreceiveEnd
  <2>2. kstack' \in Stacks /\ NoLoops(kstack')
    BY <1>1, <1>4, <2>1, PortReturnStack
  <2> QED
    BY <1>7, <2>2, NoLoopInv
<1>9. Task(c) = Top(curr) /\ curr \in Proc
  BY <1>2, <1>3, <1>6 DEF AtPort
<1>10. CASE ports' = ports /\ semaph' = semaph /\ ~StillThere(Top(curr))
  <2>1. SemsAt(p)' /\ SharedNone' /\ OnlySem(SYSERR)
    BY <1>3, <1>6, <1>9, <1>10, EndStale
  <2>2. \A q \in Port, e \in Ends : q # p /\ Owns(q, e) => SemOf(q, e) # SYSERR
    BY DEF Owns
  <2> QED
    BY <1>1, <1>6, <1>8, <2>1, <2>2, PortSems
<1>11. ASSUME NEW pt \in Ends, NEW o \in Ends, EndMove(p, pt, o) PROVE SemsInv'
  <2>1. PICK s : s = SemOf(p, o)
    OBVIOUS
  <2>2. SemsAt(p)' /\ SharedNone' /\ OnlySem(s)
    BY <1>3, <1>6, <1>7, <1>9, <1>11, <2>1, EndActive
  <2>3. Made(p)
    <3>1. StillThere(Top(curr))
      BY <1>11 DEF EndMove
    <3> QED
      BY <1>1, <1>3, <1>9, <3>1, <1>6 DEF TaskInv, UserInv, StillThere, AtPort
  <2>4. ASSUME NEW q \in Port, NEW e \in Ends, q # p, Owns(q, e) PROVE SemOf(q, e) # s
    <3>1. SemOf(q, e) # SYSERR
      BY <2>4 DEF Owns
    <3>2. s # SYSERR => Owns(p, o)
      BY <2>1, <2>3, MadeOwns
    <3> QED
      BY <2>1, <2>4, <3>1, <3>2 DEF SemsInv, SharedNone
  <2> QED
    BY <1>1, <1>6, <1>8, <2>2, <2>4, PortSems
<1>12. \/ ports' = ports /\ semaph' = semaph /\ ~StillThere(Top(curr))
       \/ \E pt, o \in Ends : EndMove(p, pt, o)
  BY <1>1, <1>3, <1>9, EndMoves
<1> QED
  BY <1>10, <1>11, <1>12

(***************************************************************************)
(* preset and pdelete.                                                     *)
(***************************************************************************)
LEMMA NoSemStep ==
  ASSUME semaph' = semaph
  PROVE  /\ OnlySem(SYSERR)
         /\ \A q \in Port, e \in Ends : Owns(q, e) => SemOf(q, e) # SYSERR
BY DEF OnlySem, QueueOf, Owns

LEMMA PtclearPortSems ==
  ASSUME BaseInv, SemsInv, LostIs, NEW p \in Port, NEW point \in Clearers, Ptclear(p, point)
  PROVE  SemsInv'
<1>1. KernelInv /\ IInv /\ PortTyped /\ StacksInv /\ TaskInv
  BY DEF BaseInv, CallInv, KernelInv
<1>2. PICK c, t : c = curr /\ t = At(point, p, 1)
  OBVIOUS
<1>3. /\ Task(c) = Idle /\ PortStep(t) /\ Made(p) /\ semaph' = semaph
      /\ PortUpd(p, "PTLIMBO", ports[p].ptssem, ports[p].ptrsem, ports[p].ptmaxcnt,
                 ports[p].ptseq + 1, <<>>)
  BY <1>2, PtclearPort
<1>4. InUser /\ Top(curr).at = "user"
  BY UserTop DEF Ptclear, Calling
<1>5. t.at = point /\ t.arg = p /\ t.cnt = 1
  BY <1>2 DEF At
<1>6. /\ \A q \in Port \ {p} : ports'[q] = ports[q]
      /\ ports'[p].ptssem = ports[p].ptssem /\ ports'[p].ptrsem = ports[p].ptrsem
      /\ ports'[p].ptseq = ports[p].ptseq + 1 /\ ports'[p].ptstate = "PTLIMBO"
  BY <1>3 DEF PortUpd, PortChange
<1>7. AtPort(c, t, p)
  BY <1>1, <1>2, <1>3, <1>4, <1>5, <1>6, IdleFacts, StepAtPort
<1>8. IInv' /\ ~Made(p)'
  BY <1>6, PtclearBase DEF BaseInv, CallInv, KernelInv, Made
<1>9. ASSUME NEW e \in Ends, Owns(p, e)'
      PROVE  Owns(p, e) /\ SemOf(p, e)' = SemOf(p, e)
  <2>1. SemOf(p, e)' = SemOf(p, e)
    BY <1>6 DEF SemOf
  <2> QED
    BY <1>3, <1>9, <2>1, MadeOwns DEF Owns
<1>10. ASSUME NEW e \in Ends PROVE ~IsNew(p, e)'
  <2>1. ASSUME NEW r \in Proc PROVE ~Creates(r, p)' /\ ~Renews(r, p, e)'
    <3>1. CASE r = c
      <4>1. Task(r)' = t
        BY <1>7, <3>1 DEF AtPort, TaskStep
      <4>2. Stage(e) \in {1, 2}
        BY EndsFacts
      <4> QED
        BY <1>5, <4>1, <4>2, EndsFacts DEF Creates, Renews
    <3>2. CASE r # c
      <4>1. Task(r)' = Task(r)
        BY <1>7, <3>2 DEF AtPort, TaskStep
      <4>2. ~Creates(r, p) /\ ~Clears(r, p)
        BY <1>1, <1>3 DEF Made, Creating, TaskInv, ClearerInv, Clears
      <4> QED
        BY <4>1, <4>2 DEF Creates, Renews, Clears
    <3> QED
      BY <3>1, <3>2
  <2> QED
    BY <2>1 DEF IsNew, Creating
<1>11. SemsAt(p)'
  <2>1. UsedAt(p)'
    <3>1. ASSUME NEW e \in Ends, Owns(p, e)' PROVE isUsed(SemOf(p, e))'
      <4>1. PICK s : s = SemOf(p, e)
        OBVIOUS
      <4>2. SemOf(p, e)' = s /\ isUsed(s)
        BY <1>9, <3>1, <4>1 DEF SemsInv, SemsAt, UsedAt
      <4> QED
        BY <1>3, <4>2 DEF isUsed
    <3> QED
      BY <3>1 DEF UsedAt
  <2>2. NewAt(p)'
    BY <1>10 DEF NewAt
  <2>3. CountAt(p)'
    BY <1>8 DEF CountAt
  <2>4. LostAt(p)'
    <3>1. ports'[p].ptseq # ports[p].ptseq
      BY <1>1, <1>6, SemOfPort
    <3> QED
      BY <1>1, <1>7, <3>1, LostQuiet DEF AtPort, LostAt
  <2> QED
    BY <2>1, <2>2, <2>3, <2>4 DEF SemsAt
<1>12. SharedNone'
  BY <1>1, <1>7, <1>9, SharedAt
<1>13. LoopInv'
  <2>1. Call(<<At(point, p, 1)>>) /\ point \in PortPoints /\ 1 \in Nat
    BY DEF Ptclear, PortPoints, Clearers
  <2>2. kstack' \in Stacks /\ NoLoops(kstack')
    BY <1>1, <1>4, <2>1, PortCallStack
  <2> QED
    BY <1>8, <2>2, NoLoopInv
<1> QED
  BY <1>1, <1>3, <1>7, <1>11, <1>12, <1>13, NoSemStep, PortSems

LEMMA PtclearEndSems ==
  ASSUME BaseInv, SemsInv, LostIs, PtclearEnd
  PROVE  SemsInv'
<1>1. KernelInv /\ IInv /\ PortTyped /\ StacksInv /\ TaskInv /\ NodeInv /\ CallInv
  BY DEF BaseInv, CallInv, KernelInv
<1>2. PICK c : c = curr
  OBVIOUS
<1>3. PICK p \in Port, st \in {"PTALLOC", "PTFREE"} :
           /\ Task(c) = Top(curr) /\ PortStep(Idle) /\ Clears(c, p) /\ Task(c).cnt = 3
           /\ st = "PTALLOC" <=> Task(c).at = "preset"
           /\ semaph' = semaph
           /\ PortUpd(p, st, ports[p].ptssem, ports[p].ptrsem, ports[p].ptmaxcnt,
                      ports[p].ptseq, ports[p].queue)
  BY <1>2, PtclearEndPort
<1>4. /\ \A q \in Port \ {p} : ports'[q] = ports[q]
      /\ ports'[p].ptssem = ports[p].ptssem /\ ports'[p].ptrsem = ports[p].ptrsem
      /\ ports'[p].ptseq = ports[p].ptseq /\ ports'[p].ptstate = st
      /\ ports'[p].ptmaxcnt = ports[p].ptmaxcnt /\ ports'[p].queue = ports[p].queue
  BY <1>3 DEF PortUpd, PortChange
<1>5. Top(curr).at \in PortPoints /\ Top(curr).at # "sreset" /\ Task(c).at \in Clearers
      /\ Task(c).arg = p
  <2>1. Task(c).at \in Clearers /\ Task(c).arg = p
    BY <1>3 DEF Clears
  <2> QED
    BY <1>3, <2>1 DEF Clearers, PortPoints
<1>6. AtPort(c, Idle, p)
  BY <1>1, <1>2, <1>3, <1>4, <1>5, IdleFacts, StepAtPort
<1>7. c \in Proc /\ ~Made(p) /\ ~Creating(p) /\ \A r \in Proc : Clears(r, p) => r = c
  <2>1. c \in Proc
    BY <1>6 DEF AtPort
  <2>2. ports[p].ptstate = "PTLIMBO" /\ \A r \in Proc : Clears(r, p) => r = c
    BY <1>1, <1>3, <1>5, <2>1 DEF TaskInv, ClearerInv
  <2>3. Task(c).at # "pcreate"
    BY <1>5, EndsFacts
  <2> QED
    BY <1>1, <1>2, <2>1, <2>2, <2>3, MadeUser DEF Made
<1>8. IInv' /\ TaskInv'
  BY PtclearEndBase DEF BaseInv, CallInv, KernelInv
<1>9. ~Creating(p)' /\ \A r \in Proc : ~Clears(r, p)'
  BY <1>6, <1>7, IdleFacts, EndsFacts DEF AtPort, TaskStep, Creating, Creates, Clears, Clearers
<1>10. Made(p)' <=> st = "PTALLOC"
  BY <1>4, <1>9 DEF Made
<1>11. \A e \in Ends : /\ SemOf(p, e)' = SemOf(p, e) /\ StartCount(p, e)' = StartCount(p, e)
                       /\ ~IsNew(p, e)'
  BY <1>4, <1>9 DEF SemOf, StartCount, IsNew, Renews
<1>12. ASSUME NEW e \in Ends, SemOf(p, e) # SYSERR, st = "PTALLOC"
       PROVE  Owns(p, e) /\ Fresh(p, e)
  <2>1. Stage(e) < 3
    BY EndsFacts
  <2>2. Renews(c, p, e)
    BY <1>3, <1>12, <2>1 DEF Renews
  <2>3. IsNew(p, e)
    BY <1>7, <1>12, <2>2 DEF IsNew
  <2>4. Fresh(p, e)
    BY <1>5, <2>3 DEF SemsInv, SemsAt, NewAt, Resetting
  <2> QED
    BY <2>3, <2>4, NewIsOwned
<1>13. ASSUME NEW e \in Ends, Owns(p, e)'
       PROVE  Owns(p, e) /\ SemOf(p, e)' = SemOf(p, e)
  <2>1. SemOf(p, e)' # SYSERR /\ Made(p)'
    BY <1>9, <1>13 DEF Owns, Keeps
  <2> QED
    BY <1>10, <1>11, <1>12, <2>1
<1>14. lost'[p].psend = 0 /\ lost'[p].preceive = 0
  <2>1. lost[p].psend = 0 /\ lost[p].preceive = 0
    BY <1>7 DEF SemsInv, SemsAt, LostAt
  <2> QED
    BY <1>1, <1>4, <1>6, <2>1, LostQuiet DEF AtPort
<1>15. SemsAt(p)'
  <2>1. UsedAt(p)'
    <3>1. ASSUME NEW e \in Ends, Owns(p, e)' PROVE isUsed(SemOf(p, e))'
      <4>1. PICK s : s = SemOf(p, e)
        OBVIOUS
      <4>2. SemOf(p, e)' = s /\ isUsed(s)
        BY <1>13, <3>1, <4>1 DEF SemsInv, SemsAt, UsedAt
      <4> QED
        BY <1>3, <4>2 DEF isUsed
    <3> QED
      BY <3>1 DEF UsedAt
  <2>2. NewAt(p)'
    BY <1>11 DEF NewAt
  <2>3. CountAt(p)'
    <3>1. ASSUME NEW e \in Ends, st = "PTALLOC" PROVE Counted(p, e)'
      <4>1. PICK s, n : s = SemOf(p, e) /\ n = StartCount(p, e)
        OBVIOUS
      <4>2. SemOf(p, e)' = s /\ StartCount(p, e)' = n
        BY <1>11, <4>1
      <4>3. s # SYSERR => FreshSem(s, n)'
        BY <1>3, <1>12, <3>1, <4>1 DEF Fresh, FreshSem
      <4>4. Within(p, e)' = {}
        BY <1>1, <1>4, <1>6, <1>7, NobodyYet
      <4>5. Gone(p, e)' = 0
        BY <1>14 DEF Gone
      <4>6. ports'[p].queue = <<>> /\ ports'[p].ptmaxcnt \in Nat
        BY <1>1, <1>4, <1>7, SemOfPort DEF NodeInv
      <4> QED
        BY <4>2, <4>3, <4>4, <4>5, <4>6, NewCounted
    <3> QED
      BY <1>10, <3>1 DEF CountAt
  <2>4. LostAt(p)'
    BY <1>14 DEF LostAt
  <2> QED
    BY <2>1, <2>2, <2>3, <2>4 DEF SemsAt
<1>16. SharedNone'
  BY <1>1, <1>6, <1>13, SharedAt
<1>17. LoopInv'
  <2>1. Return
    BY DEF PtclearEnd
  <2>2. kstack' \in Stacks /\ NoLoops(kstack')
    BY <1>1, <1>5, <2>1, PortReturnStack
  <2> QED
    BY <1>8, <2>2, NoLoopInv
<1> QED
  BY <1>1, <1>3, <1>6, <1>15, <1>16, <1>17, NoSemStep, PortSems

(***************************************************************************)
(* The resets and deletions of a port's semaphores.                        *)
(***************************************************************************)
Freed(s) == SemUpd(semaph, semaph', s, "SFREE", semaph[s].semcnt, semaph[s].queue)

ClearStep(k, s, n) ==
  \/ ~HasSem(s) /\ semaph' = semaph /\ NoLoops(kstack')
  \/ /\ s \in Sem /\ k.at = "preset" /\ semaph' = semaph
     /\ TopOf(kstack', curr) = At("sreset", s, n)
  \/ /\ s \in Sem /\ k.at = "pdelete" /\ Freed(s)
     /\ NoLoops(kstack') \/ TopOf(kstack', curr) = At("sdelete", s, 0)

LEMMA ClearSteps ==
  ASSUME IInv, NEW e \in Ends, ClearSem(e), NEW k, k = Top(curr),
         NEW s, s = SemOf(k.arg, e), NEW n, n = StartCount(k.arg, e)
  PROVE  kstack' \in Stacks /\ ClearStep(k, s, n)
<1>1. PICK g : g = At(k.at, k.arg, k.cnt + 1)
  OBVIOUS
<1>2. k.at \in Clearers /\ g \in Frame /\ g.at = k.at /\ g.at \notin Loops /\ Top(curr).at \notin Loops
  <2>1. k.at \in Clearers /\ g \in Frame
    BY <1>1 DEF ClearSem
  <2>2. k.at \notin Loops
    BY <2>1, PortPointsDiffer DEF Clearers, PortPoints
  <2> QED
    BY <1>1, <2>1, <2>2 DEF At
<1>3. ASSUME kstack' = [kstack EXCEPT ![curr] = <<g>>]
      PROVE  kstack' \in Stacks /\ NoLoops(kstack')
  <2>1. PICK fs : fs = <<g>>
    OBVIOUS
  <2>2. fs \in Seq(Frame) /\ fs # <<>> /\ fs[1] = g /\ DOMAIN fs = {1}
    BY <1>2, <2>1, OneSeq
  <2>3. kstack' = [kstack EXCEPT ![curr] = fs]
    BY <1>3, <2>1
  <2> QED
    BY <1>2, <2>2, <2>3, StackSet
<1>4. ASSUME NEW f \in Frame, kstack' = [kstack EXCEPT ![curr] = <<f, g>>]
      PROVE  kstack' \in Stacks /\ TopOf(kstack', curr) = f
  <2>1. PICK fs : fs = <<f, g>>
    OBVIOUS
  <2>2. fs \in Seq(Frame) /\ fs # <<>> /\ fs[1] = f /\ fs[2] = g /\ DOMAIN fs = {1, 2}
    BY <1>2, <2>1, TwoSeq
  <2>3. kstack' = [kstack EXCEPT ![curr] = fs]
    BY <1>4, <2>1
  <2>4. \A i \in DOMAIN fs : fs[i].at \in Loops => i = 1
    BY <1>2, <2>2
  <2> QED
    BY <1>2, <2>2, <2>3, <2>4, StackSet
<1>5. ASSUME s \in Sem, semaph' = [semaph EXCEPT ![s].sstate = "SFREE"] PROVE Freed(s)
  <2>1. semaph \in [Sem -> SemRec] /\ "SFREE" \in {"SFREE", "SUSED"}
    BY <1>5, AnyStart, SemFacts
  <2> QED
    BY <1>5, <2>1, SetState DEF Freed
<1>6. \/ /\ ~HasSem(s) /\ semaph' = semaph
         /\ kstack' = [kstack EXCEPT ![curr] = <<g>>]
      \/ /\ s \in Sem /\ k.at = "preset" /\ semaph' = semaph
         /\ At("sreset", s, n) \in Frame
         /\ kstack' = [kstack EXCEPT ![curr] = <<At("sreset", s, n), g>>]
      \/ /\ s \in Sem /\ k.at = "pdelete"
         /\ semaph' = [semaph EXCEPT ![s].sstate = "SFREE"]
         /\ kstack' = [kstack EXCEPT ![curr] = <<g>>]
      \/ /\ s \in Sem /\ k.at = "pdelete"
         /\ semaph' = [semaph EXCEPT ![s].sstate = "SFREE"]
         /\ At("sdelete", s, 0) \in Frame
         /\ kstack' = [kstack EXCEPT ![curr] = <<At("sdelete", s, 0), g>>]
  BY <1>1, Zenon DEF ClearSem
<1>7. CASE ~HasSem(s) /\ semaph' = semaph /\ kstack' = [kstack EXCEPT ![curr] = <<g>>]
  BY <1>3, <1>7 DEF ClearStep
<1>8. CASE /\ s \in Sem /\ k.at = "preset" /\ semaph' = semaph
           /\ At("sreset", s, n) \in Frame
           /\ kstack' = [kstack EXCEPT ![curr] = <<At("sreset", s, n), g>>]
  BY <1>4, <1>8 DEF ClearStep
<1>9. CASE /\ s \in Sem /\ k.at = "pdelete"
           /\ semaph' = [semaph EXCEPT ![s].sstate = "SFREE"]
           /\ kstack' = [kstack EXCEPT ![curr] = <<g>>]
  BY <1>3, <1>5, <1>9 DEF ClearStep
<1>10. CASE /\ s \in Sem /\ k.at = "pdelete"
            /\ semaph' = [semaph EXCEPT ![s].sstate = "SFREE"]
            /\ At("sdelete", s, 0) \in Frame
            /\ kstack' = [kstack EXCEPT ![curr] = <<At("sdelete", s, 0), g>>]
  <2>1. Freed(s)
    BY <1>5, <1>10
  <2>2. kstack' \in Stacks /\ TopOf(kstack', curr) = At("sdelete", s, 0)
    BY <1>4, <1>10
  <2> QED
    BY <1>10, <2>1, <2>2 DEF ClearStep
<1> QED
  BY <1>6, <1>7, <1>8, <1>9, <1>10

(* The port p that c clears, before and after c's step to t. *)
ClearsAlone(c, t, p) ==
  /\ ports' = ports /\ curr' = c /\ AtPort(c, t, p)
  /\ Task(c).at \in Clearers /\ Task(c).arg = p
  /\ t.at = Task(c).at /\ t.arg = p /\ t.cnt = Task(c).cnt + 1
  /\ ~Made(p) /\ ~Creating(p) /\ ~Creating(p)' /\ ~Made(p)'
  /\ \A r \in Proc : (Clears(r, p) <=> r = c) /\ (Clears(r, p)' <=> r = c)
  /\ Task(c)' = t

LEMMA ClearOwns ==
  ASSUME NEW c, NEW t, NEW p, ClearsAlone(c, t, p), NEW k, k = Task(c), NEW x \in Ends
  PROVE  /\ SemOf(p, x)' = SemOf(p, x) /\ StartCount(p, x)' = StartCount(p, x)
         /\ Owns(p, x) <=> SemOf(p, x) # SYSERR /\ (k.at = "pdelete" => k.cnt <= Stage(x))
         /\ Owns(p, x)' <=> SemOf(p, x) # SYSERR /\ (k.at = "pdelete" => k.cnt + 1 <= Stage(x))
         /\ IsNew(p, x) <=> SemOf(p, x) # SYSERR /\ k.at = "preset" /\ k.cnt > Stage(x)
         /\ IsNew(p, x)' <=> SemOf(p, x) # SYSERR /\ k.at = "preset" /\ k.cnt + 1 > Stage(x)
<1>1. c \in Proc
  BY DEF ClearsAlone, AtPort
<1>2. SemOf(p, x)' = SemOf(p, x) /\ StartCount(p, x)' = StartCount(p, x)
  BY DEF ClearsAlone, SemOf, StartCount
<1>3. Owns(p, x) <=> SemOf(p, x) # SYSERR /\ Keeps(c, p, x)
  BY <1>1 DEF ClearsAlone, Owns, Keeps
<1>4. Owns(p, x)' <=> SemOf(p, x) # SYSERR /\ Keeps(c, p, x)'
  BY <1>1, <1>2 DEF ClearsAlone, Owns, Keeps
<1>5. IsNew(p, x) <=> SemOf(p, x) # SYSERR /\ Renews(c, p, x)
  BY <1>1 DEF ClearsAlone, IsNew, Renews
<1>6. IsNew(p, x)' <=> SemOf(p, x) # SYSERR /\ Renews(c, p, x)'
  BY <1>1, <1>2 DEF ClearsAlone, IsNew, Renews
<1>7. /\ Keeps(c, p, x) <=> (k.at = "pdelete" => k.cnt <= Stage(x))
      /\ Renews(c, p, x) <=> k.at = "preset" /\ k.cnt > Stage(x)
  BY <1>1 DEF ClearsAlone, Keeps, Renews
<1>8. PICK w : w = Stage(x)
  OBVIOUS
<1>9. Stage(x)' = w
  BY <1>8 DEF Stage
<1>10. Clears(c, p)' /\ Task(c)' = t /\ t.at = k.at /\ t.cnt = k.cnt + 1
  BY <1>1 DEF ClearsAlone
<1>11. /\ Keeps(c, p, x)' <=> (k.at = "pdelete" => k.cnt + 1 <= w)
       /\ Renews(c, p, x)' <=> k.at = "preset" /\ k.cnt + 1 > w
  BY <1>9, <1>10 DEF Keeps, Renews
<1> QED
  BY <1>2, <1>3, <1>4, <1>5, <1>6, <1>7, <1>8, <1>11

LEMMA ClearAlone ==
  ASSUME BaseInv, LostIs, PtclearSems, NEW c, c = curr, NEW k, k = Top(curr), NEW p, p = k.arg,
         NEW t, t = At(k.at, p, k.cnt + 1)
  PROVE  ClearsAlone(c, t, p) /\ Task(c) = k /\ k.cnt \in Int /\ p \in Port /\ IInv' /\ curr' = curr
<1>1. KernelInv /\ IInv /\ PortTyped /\ StacksInv /\ TaskInv /\ CallInv
  BY DEF BaseInv, CallInv, KernelInv
<1>2. /\ Task(c) = k /\ PortFrame(k) /\ k.at \in Clearers
      /\ sched' = sched /\ ports' = ports /\ PortStep(t)
  BY <1>1, PtclearSemsStep DEF portVars
<1>3. curr' = curr /\ t.at = k.at /\ t.arg = p /\ t.cnt = k.cnt + 1
  BY <1>2 DEF curr, At
<1>4. p \in Port /\ k.cnt \in Nat /\ k.at \in PortPoints /\ k.at # "pcreate"
  BY <1>2, EndsFacts DEF PortFrame
<1>5. AtPort(c, t, p)
  BY <1>1, <1>2, <1>3, <1>4, StepAtPort
<1>6. c \in Proc /\ Task(c)' = t /\ \A r \in Proc \ {c} : Task(r)' = Task(r)
  BY <1>5 DEF AtPort, TaskStep
<1>7. \A r \in Proc : Clears(r, p) <=> r = c
  BY <1>1, <1>2, <1>4, <1>6 DEF TaskInv, ClearerInv, Clears
<1>8. \A r \in Proc : Clears(r, p)' <=> r = c
  <2>1. ASSUME NEW r \in Proc PROVE Clears(r, p)' <=> r = c
    <3>1. CASE r = c
      BY <1>2, <1>3, <1>6, <3>1 DEF Clears
    <3>2. CASE r # c
      BY <1>6, <1>7, <3>2 DEF Clears
    <3> QED
      BY <3>1, <3>2
  <2> QED
    BY <2>1
<1>9. ~Creating(p) /\ ports[p].ptstate = "PTLIMBO"
  <2>1. ports[p].ptstate = "PTLIMBO"
    BY <1>1, <1>2, <1>6 DEF TaskInv, ClearerInv
  <2> QED
    BY <1>1, <1>2, <1>4, <1>6, <2>1, MadeUser
<1>10. ~Creating(p)'
  BY <1>2, <1>3, <1>4, <1>6, <1>9 DEF Creating, Creates
<1>11. ~Made(p) /\ ~Made(p)'
  BY <1>2, <1>9 DEF Made
<1>12. IInv'
  BY <1>2 DEF PortStep, KernelInv
<1> QED
  BY <1>2, <1>3, <1>4, <1>5, <1>6, <1>7, <1>8, <1>9, <1>10, <1>11, <1>12 DEF ClearsAlone

(* The semaphore that is reset or deleted belongs to the port alone. *)
LEMMA ClearHas ==
  ASSUME BaseInv, SemsInv, NEW c, NEW t, NEW p \in Port, ClearsAlone(c, t, p), NEW k, k = Task(c),
         NEW e \in Ends, k.cnt = Stage(e), NEW s, s = SemOf(p, e), s # SYSERR
  PROVE  /\ Owns(p, e) /\ HasSem(s)
         /\ \A q \in Port, x \in Ends : Owns(q, x) /\ SemOf(q, x) = s => q = p /\ x = e
         /\ \A q \in Port, x \in Ends : Owns(q, x)' =>
              /\ Owns(q, x) /\ SemOf(q, x)' = SemOf(q, x)
              /\ k.at = "pdelete" => SemOf(q, x) # s
<1>1. Stage(e) \in {1, 2}
  BY EndsFacts
<1>2. Owns(p, e)
  BY <1>1, ClearOwns
<1>3. HasSem(s)
  BY <1>2 DEF SemsInv, SemsAt, UsedAt, HasSem
<1>4. \A q \in Port, x \in Ends : Owns(q, x) /\ SemOf(q, x) = s => q = p /\ x = e
  BY <1>2 DEF SemsInv, SharedNone
<1>5. ASSUME NEW q \in Port, NEW x \in Ends, Owns(q, x)'
      PROVE  /\ Owns(q, x) /\ SemOf(q, x)' = SemOf(q, x)
             /\ k.at = "pdelete" => SemOf(q, x) # s
  <2>1. CASE q = p
    <3>1. Stage(x) \in {1, 2}
      BY EndsFacts
    <3>2. Owns(p, x) /\ SemOf(p, x)' = SemOf(p, x)
      BY <1>1, <1>5, <2>1, <3>1, ClearOwns
    <3>3. ASSUME k.at = "pdelete" PROVE x # e
      BY <1>1, <1>5, <2>1, <3>3, ClearOwns
    <3> QED
      BY <1>4, <2>1, <3>2, <3>3
  <2>2. CASE q # p
    <3>1. SemOf(q, x)' = SemOf(q, x)
      BY DEF ClearsAlone, SemOf
    <3>2. \A r \in Proc : Task(r)' = Task(r) \/ r = c
      BY DEF ClearsAlone, AtPort, TaskStep
    <3>3. Task(c).arg = p /\ t.arg = p /\ Task(c)' = t
      BY DEF ClearsAlone
    <3>4. \A r \in Proc : /\ Keeps(r, q, x)' => Keeps(r, q, x)
                          /\ Creates(r, q)' <=> Creates(r, q)
      BY <2>2, <3>2, <3>3 DEF Keeps, Clears, Creates, Stage
    <3>5. Creating(q)' <=> Creating(q)
      BY <3>4 DEF Creating
    <3>6. Made(q)' <=> Made(q)
      BY <3>5 DEF Made, ClearsAlone
    <3>7. Owns(q, x)
      BY <1>5, <3>1, <3>4, <3>5, <3>6 DEF Owns
    <3> QED
      BY <1>4, <2>2, <3>1, <3>7
  <2> QED
    BY <2>1, <2>2
<1> QED
  BY <1>2, <1>3, <1>4, <1>5

Clearance(c, t, p, k, e, s, n) ==
  /\ ClearsAlone(c, t, p) /\ k = Task(c) /\ k = Top(curr) /\ curr' = curr
  /\ k.cnt = Stage(e) /\ s = SemOf(p, e) /\ n = StartCount(p, e) /\ ClearStep(k, s, n)

LEMMA ClearSemsAt ==
  ASSUME BaseInv, SemsInv, LostIs, NEW c, NEW t, NEW p \in Port, NEW k, NEW e \in Ends,
         NEW s, NEW n, Clearance(c, t, p, k, e, s, n)
  PROVE  SemsAt(p)'
<1>1. PortTyped /\ AtPort(c, t, p) /\ ports' = ports /\ k.at \in Clearers
  BY DEF BaseInv, CallInv, ClearsAlone, Clearance
<1>a. ClearsAlone(c, t, p) /\ k = Task(c)
  BY DEF Clearance
<1>b. ClearStep(k, s, n) /\ curr' = curr
  BY DEF Clearance
<1>c. k.cnt = Stage(e)
  BY DEF Clearance
<1>d. s = SemOf(p, e) /\ n = StartCount(p, e)
  BY DEF Clearance
<1>e. k = Top(curr)
  BY DEF Clearance
<1>2. Stage(e) \in {1, 2}
  BY EndsFacts
<1>3. ASSUME NEW x \in Ends, Owns(p, x)' PROVE isUsed(SemOf(p, x))'
  <2>1. PICK y : y = SemOf(p, x)
    OBVIOUS
  <2>2. Owns(p, x) /\ SemOf(p, x)' = y
    <3>1. Stage(x) \in {1, 2}
      BY EndsFacts
    <3> QED
      BY <1>2, <1>3, <2>1, <3>1, <1>a, <1>c, ClearOwns
  <2>3. isUsed(y) /\ y \in Sem
    BY <1>1, <2>1, <2>2, SemOfFacts DEF SemsInv, SemsAt, UsedAt, Owns
  <2>4. CASE semaph' = semaph
    BY <2>2, <2>3, <2>4 DEF isUsed
  <2>5. CASE s \in Sem /\ k.at = "pdelete" /\ Freed(s)
    <3>1. s # SYSERR
      BY <2>5, PortIsInt
    <3>2. y # s
      BY <1>3, <2>1, <2>5, <3>1, <1>a, <1>c, <1>d, ClearHas
    <3>3. semaph'[y] = semaph[y]
      BY <2>3, <2>5, <3>2 DEF Freed, SemUpd
    <3> QED
      BY <2>2, <2>3, <3>3 DEF isUsed
  <2> QED
    BY <1>b, <2>4, <2>5 DEF ClearStep
<1>4. ASSUME NEW x \in Ends, IsNew(p, x)' PROVE Fresh(p, x)' \/ Resetting(SemOf(p, x))'
  <2>1. PICK y, m : y = SemOf(p, x) /\ m = StartCount(p, x)
    OBVIOUS
  <2>2. SemOf(p, x)' = y /\ StartCount(p, x)' = m /\ y # SYSERR /\ k.at = "preset"
        /\ k.cnt + 1 > Stage(x)
    BY <1>4, <2>1, <1>a, <1>c, ClearOwns
  <2>3. k.at # "pdelete"
    BY <2>2
  <2>4. CASE x = e
    <3>1. HasSem(s)
      BY <2>1, <2>2, <2>4, <1>a, <1>c, <1>d, ClearHas
    <3>2. TopOf(kstack', curr) = At("sreset", s, n)
      BY <1>b, <2>3, <3>1 DEF ClearStep
    <3>3. Top(curr)' = At("sreset", s, n)
      BY <1>b, <3>2, TopIsTopOf
    <3>4. Top(curr)'.at = "sreset" /\ Top(curr)'.arg = y
      BY <1>d, <2>1, <2>4, <3>3 DEF At
    <3> QED
      BY <2>2, <3>4 DEF Resetting
  <2>5. CASE x # e
    <3>1. k.cnt > Stage(x)
      BY <1>2, <1>c, <2>2, <2>5, EndsFacts
    <3>2. IsNew(p, x)
      BY <2>1, <2>2, <3>1, <1>a, <1>c, ClearOwns
    <3>3. FreshSem(y, m)
      BY <1>a, <1>e, <2>1, <2>2, <3>2 DEF SemsInv, SemsAt, NewAt, Fresh, Resetting
    <3>4. semaph' = semaph
      BY <1>b, <2>3 DEF ClearStep
    <3> QED
      BY <2>2, <3>3, <3>4 DEF Fresh, FreshSem
  <2> QED
    BY <2>4, <2>5
<1>5. CountAt(p)'
  BY <1>a DEF CountAt, ClearsAlone
<1>6. LostAt(p)'
  <2>1. lost[p].psend = 0 /\ lost[p].preceive = 0
    BY <1>a DEF SemsInv, SemsAt, LostAt, ClearsAlone
  <2>2. lost'[p].psend = 0 /\ lost'[p].preceive = 0
    BY <1>1, <2>1, LostQuiet DEF AtPort
  <2> QED
    BY <2>2 DEF LostAt
<1>7. UsedAt(p)'
  BY <1>3 DEF UsedAt
<1>8. NewAt(p)'
  BY <1>4 DEF NewAt
<1> QED
  BY <1>5, <1>6, <1>7, <1>8 DEF SemsAt

LEMMA ClearLoop ==
  ASSUME BaseInv, SemsInv, NEW c, NEW t, NEW p \in Port, IInv', NEW k, NEW e \in Ends,
         NEW s, NEW n, Clearance(c, t, p, k, e, s, n), kstack' \in Stacks
  PROVE  LoopInv'
<1>a. ClearsAlone(c, t, p) /\ k = Task(c)
  BY DEF Clearance
<1>b. ClearStep(k, s, n) /\ curr' = curr
  BY DEF Clearance
<1>c. k.cnt = Stage(e)
  BY DEF Clearance
<1>d. s = SemOf(p, e) /\ n = StartCount(p, e)
  BY DEF Clearance
<1>e. SemOf(p, e)' = s /\ StartCount(p, e)' = n
  BY <1>a, <1>d, ClearOwns
<1>1. /\ curr' = c /\ Task(c)' = t /\ t.arg = p /\ t.at = k.at /\ t.cnt = k.cnt + 1
      /\ SemOf(p, e)' = s /\ StartCount(p, e)' = n
  BY <1>a, <1>e DEF ClearsAlone
<1>2. CASE NoLoops(kstack')
  BY <1>2, NoLoopInv
<1>3. CASE s \in Sem /\ k.at = "preset" /\ TopOf(kstack', curr) = At("sreset", s, n)
  <2>1. Top(curr)' = At("sreset", s, n)
    BY <1>b, <1>3, TopIsTopOf
  <2>2. Top(curr)'.at = "sreset" /\ Top(curr)'.arg = s /\ Top(curr)'.cnt = n
    BY <2>1 DEF At
  <2>3. Task(curr)' = t
    BY <1>1
  <2>4. s # SYSERR
    BY <1>3, PortIsInt
  <2>5. Stage(e)' = Stage(e)
    BY DEF Stage
  <2>6. PICK w : w = Stage(e)
    OBVIOUS
  <2>7. Task(curr)'.at = "preset" /\ Task(curr)'.arg = p /\ Task(curr)'.cnt = Stage(e)' + 1
    BY <1>c, <1>1, <1>3, <2>3, <2>5, <2>6
  <2> QED
    BY <1>1, <2>2, <2>4, <2>7 DEF LoopInv
<1>4. CASE s \in Sem /\ k.at = "pdelete" /\ TopOf(kstack', curr) = At("sdelete", s, 0)
  <2>1. Top(curr)' = At("sdelete", s, 0)
    BY <1>b, <1>4, TopIsTopOf
  <2>2. Top(curr)'.arg = s
    BY <2>1 DEF At
  <2>3. s # SYSERR
    BY <1>4, PortIsInt
  <2>4. \A q \in Port, x \in Ends : Owns(q, x)' => SemOf(q, x)' # s
    BY <1>4, <2>3, <1>a, <1>c, <1>d, ClearHas
  <2> QED
    BY <2>2, <2>4 DEF LoopInv
<1> QED
  BY <1>b, <1>2, <1>3, <1>4 DEF ClearStep

LEMMA PtclearSemsSems ==
  ASSUME BaseInv, SemsInv, LostIs, PtclearSems
  PROVE  SemsInv'
<1>1. KernelInv /\ IInv /\ PortTyped /\ StacksInv
  BY DEF BaseInv, CallInv, KernelInv
<1>2. PICK c, k : c = curr /\ k = Top(curr)
  OBVIOUS
<1>3. PICK p : p = k.arg
  OBVIOUS
<1>4. PICK t : t = At(k.at, p, k.cnt + 1)
  OBVIOUS
<1>5. /\ ClearsAlone(c, t, p) /\ Task(c) = k /\ k.cnt \in Int /\ p \in Port /\ IInv'
      /\ curr' = curr
  BY <1>2, <1>3, <1>4, ClearAlone
<1>6. PICK e \in Ends : ClearSem(e)
  BY <1>1, PtclearSemsStep
<1>7. k.cnt = Stage(e)
  BY <1>2, <1>6 DEF ClearSem
<1>8. PICK s, n : s = SemOf(p, e) /\ n = StartCount(p, e)
  OBVIOUS
<1>9. kstack' \in Stacks /\ ClearStep(k, s, n)
  BY <1>1, <1>2, <1>3, <1>6, <1>8, ClearSteps
<1>10. Clearance(c, t, p, k, e, s, n)
  BY <1>2, <1>5, <1>7, <1>8, <1>9 DEF Clearance
<1>11. SemsAt(p)'
  BY <1>5, <1>10, ClearSemsAt
<1>12. LoopInv'
  BY <1>5, <1>9, <1>10, ClearLoop
<1>13. AtPort(c, t, p)
  BY <1>5 DEF ClearsAlone
<1>14. SharedNone'
  <2>1. Stage(e) \in {1, 2} /\ \A x \in Ends : Stage(x) \in {1, 2}
    BY EndsFacts
  <2>2. \A x \in Ends : Owns(p, x)' => Owns(p, x) /\ SemOf(p, x)' = SemOf(p, x)
    BY <1>5, <1>7, <2>1, ClearOwns
  <2> QED
    BY <1>1, <1>13, <2>2, SharedAt
<1>15. CASE semaph' = semaph
  BY <1>1, <1>11, <1>12, <1>13, <1>14, <1>15, NoSemStep, PortSems
<1>16. CASE s \in Sem /\ Freed(s)
  <2>1. s # SYSERR
    BY <1>16, PortIsInt
  <2>2. \A q \in Port, x \in Ends : q # p /\ Owns(q, x) => SemOf(q, x) # s
    BY <1>5, <1>7, <1>8, <2>1, ClearHas
  <2>3. OnlySem(s)
    BY <1>16 DEF OnlySem, Freed, SemUpd, QueueOf
  <2> QED
    BY <1>1, <1>11, <1>12, <1>13, <1>14, <2>2, <2>3, PortSems
<1> QED
  BY <1>9, <1>15, <1>16 DEF ClearStep

LEMMA SemsStart ==
  ASSUME InitP PROVE SemsInv
<1>1. BaseInv
  BY BaseInit
<1>2. IInv /\ curr \in Proc
  BY <1>1, AnyStart DEF BaseInv, CallInv, KernelInv
<1>3. \A r \in Proc : kstack[r] = <<>>
  BY DEF InitP, Init, SchedInit
<1>4. \A r \in Proc : Task(r) = Idle
  BY <1>3, EmptyStack DEF Task
<1>5. \A p \in Port : /\ ports[p].ptstate = "PTFREE"
                      /\ lost[p].psend = 0 /\ lost[p].preceive = 0
  BY DEF InitP
<1>6. ASSUME NEW p \in Port
      PROVE  ~Made(p) /\ \A pt \in Ends : ~Owns(p, pt) /\ ~IsNew(p, pt)
  <2>1. ~Made(p)
    BY <1>5 DEF Made
  <2>2. ~Creating(p) /\ \A r \in Proc : ~Clears(r, p)
    BY <1>4, IdleFacts DEF Creating, Creates, Clears
  <2> QED
    BY <2>1, <2>2 DEF Owns, IsNew, Keeps, Renews
<1>7. \A p \in Port : SemsAt(p)
  BY <1>5, <1>6 DEF SemsAt, UsedAt, NewAt, CountAt, LostAt
<1>8. SharedNone
  BY <1>6 DEF SharedNone
<1>9. Top(curr).at = "user"
  BY <1>2, <1>3 DEF Top, At
<1>10. LoopInv
  BY <1>9, LoopSubset DEF LoopInv, LoopSub
<1> QED
  BY <1>7, <1>8, <1>10 DEF SemsInv

LEMMA SemsStutter ==
  ASSUME BaseInv, SemsInv, UNCHANGED varsP
  PROVE  SemsInv'
<1>1. UNCHANGED <<vars, portVars, lost>>
  BY DEF varsP
<1>2. ports' = ports /\ lost' = lost /\ sched' = sched /\ kstack' = kstack /\ semaph' = semaph
  BY <1>1 DEF vars, semVars, portVars
<1>3. PortTyped
  BY DEF BaseInv, CallInv
<1>4. \A r \in Proc : Task(r)' = Task(r)
  BY <1>2 DEF Task
<1>5. curr' = curr /\ Top(curr)' = Top(curr) /\ Task(curr)' = Task(curr)
  BY <1>2 DEF curr, Top, Task
<1>6. ASSUME NEW p \in Port PROVE Alike(p)
  <2>1. \A r \in Proc : SameAt(r, p)
    BY <1>4 DEF SameAt, Creates, Clears
  <2>2. Creating(p)' <=> Creating(p)
    BY <1>4 DEF Creating, Creates
  <2> QED
    BY <1>2, <2>1, <2>2 DEF Alike, Made
<1>7. ASSUME NEW p \in Port, NEW pt \in Ends, NEW s \in Sem, Owns(p, pt), s = SemOf(p, pt)
      PROVE  KeptSem(s, p, pt)
  <2>1. isUsed(s)'
    BY <1>2, <1>7 DEF SemsInv, SemsAt, UsedAt, isUsed
  <2>2. semaph'[s].semcnt = semaph[s].semcnt /\ QueueOf(s)' \subseteq QueueOf(s)
    BY <1>2 DEF QueueOf
  <2>3. PICK n : n = StartCount(p, pt)
    OBVIOUS
  <2>4. StartCount(p, pt)' = n
    BY <1>2, <2>3 DEF StartCount
  <2>5. ASSUME IsNew(p, pt) PROVE FreshSem(s, n) \/ Resetting(s)
    BY <1>7, <2>3, <2>5 DEF SemsInv, SemsAt, NewAt, Fresh
  <2>6. IsNew(p, pt) => FreshSem(s, n)' \/ Resetting(s)'
    BY <1>2, <1>5, <2>5 DEF FreshSem, Resetting
  <2> QED
    BY <2>1, <2>2, <2>4, <2>6 DEF KeptSem
<1>8. \A p \in Port : SemsAt(p)'
  <2> SUFFICES ASSUME NEW p \in Port PROVE SemsAt(p)'
    OBVIOUS
  <2>1. KeptSems(p)
    BY <1>7 DEF KeptSems
  <2>2. NoneNew(p)
    BY <1>2 DEF NoneNew, QueueOf
  <2>3. SemsAt(p)
    BY DEF SemsInv
  <2> QED
    BY <1>3, <1>6, <2>1, <2>2, <2>3, KeepAt
<1>9. \A p \in Port, pt \in Ends : /\ Owns(p, pt)' <=> Owns(p, pt)
                                   /\ SemOf(p, pt)' = SemOf(p, pt)
                                   /\ StartCount(p, pt)' = StartCount(p, pt)
                                   /\ Stage(pt)' = Stage(pt)
  BY <1>3, <1>6, AlikeFacts DEF Stage
<1>10. SharedNone'
  BY <1>9, SharedFewer DEF SemsInv
<1>11. LoopInv'
  <2>1. LoopInv
    BY DEF SemsInv
  <2> QED
    BY <1>5, <1>9, <2>1 DEF LoopInv
<1> QED
  BY <1>8, <1>10, <1>11 DEF SemsInv

LEMMA SemsNext ==
  ASSUME BaseInv, SemsInv, NextP, Apart
  PROVE  SemsInv'
<1>1. LostIs
  BY DEF NextP, LostIs
<1>2. CASE PortCall
  BY <1>1, <1>2, PortCalls, PcreateSems, PcreateEndSems, WaitInPortSems, PtclearPortSems, EndSems,
     PtclearSemsSems, PtclearEndSems
<1>3. CASE Next /\ UNCHANGED portVars
  BY <1>1, <1>3, KernelSems, KillSems
<1> QED
  BY <1>2, <1>3 DEF NextP

(* The counts of the ports' semaphores mean what they should as long as no  *)
(* process calls wait(), signal(), sreset() or sdelete() on a semaphore     *)
(* that is a port's.                                                        *)
THEOREM SemsInvariance == SpecP /\ [][Apart]_varsP => []SemsInv
<1>1. InitP => SemsInv
  BY SemsStart
<1>2. BaseInv /\ SemsInv /\ [NextP]_varsP /\ [Apart]_varsP => SemsInv'
  BY SemsNext, SemsStutter
<1> QED
  BY <1>1, <1>2, PortInvariance, PTL DEF SpecP

(***************************************************************************)
(* What the counts say of an open port.                                    *)
(***************************************************************************)
LEMMA InjectiveSize ==
  ASSUME NEW S, NEW q \in Seq(S), IsInjective(q)
  PROVE  IsFiniteSet(ToSet(q)) /\ Cardinality(ToSet(q)) = Len(q)
<1>1. PICK n, T : n = Len(q) /\ T = ToSet(q)
  OBVIOUS
<1>2. n \in Nat /\ DOMAIN q = 1..n
  BY <1>1
<1>3. q \in [1..n -> T] /\ \A t \in T : \E i \in 1..n : q[i] = t
  BY <1>1, <1>2 DEF ToSet
<1>4. q \in Bijection(1..n, T)
  BY <1>2, <1>3 DEF Bijection, Injection, Surjection, IsInjective
<1>5. ExistsBijection(1..n, T)
  BY <1>4 DEF ExistsBijection
<1>6. IsFiniteSet(1..n) /\ Cardinality(1..n) = n
  BY <1>2, FS_Interval
<1>7. IsFiniteSet(T) /\ Cardinality(T) = n
  BY <1>5, <1>6, FS_Bijection
<1> QED
  BY <1>1, <1>7

LEMMA OpenIsMade ==
  ASSUME BaseInv, NEW p \in Port, Open(p)
  PROVE  Made(p)
<1>1. IInv /\ StacksInv /\ CreatorInv
  BY DEF BaseInv, CallInv, KernelInv, TaskInv
<1>2. ASSUME NEW r \in Proc, Creates(r, p) PROVE FALSE
  <2>1. r = curr /\ Task(r).at = "pcreate"
    BY <1>1, <1>2 DEF CreatorInv, Creates
  <2>2. Task(r).at \in PortPoints \ Clearers
    BY <2>1, EndsFacts DEF PortPoints
  <2>3. Top(r) = Task(r)
    BY <1>1, <2>2, TaskTop
  <2> QED
    BY <2>1, <2>3 DEF Open
<1> QED
  BY <1>2 DEF Made, Creating, Open

LEMMA PlacesHold ==
  ASSUME BaseInv, SemsInv
  PROVE  PlacesKept
<1> SUFFICES ASSUME NEW p \in Port, Open(p), HasSem(ports[p].ptssem)
             PROVE  semaph[ports[p].ptssem].semcnt =
                      ports[p].ptmaxcnt - Len(ports[p].queue)
                        - Cardinality(Inside(p, "psend")) - lost[p].psend
  BY DEF PlacesKept
<1>1. SemOf(p, "psend") = ports[p].ptssem /\ ports[p].ptssem # SYSERR
  BY DEF SemOf, HasSem
<1>2. Counted(p, "psend")
  BY OpenIsMade, EndsFacts DEF SemsInv, SemsAt, CountAt
<1>3. Inside(p, "psend") = Within(p, "psend")
  BY InsideIsWithin, EndsFacts DEF BaseInv, CallInv, KernelInv
<1> QED
  BY <1>1, <1>2, <1>3 DEF Counted, Expected, Gone

(* The blocked processes are those in the semaphore's queue. *)
LEMMA BlockedIs ==
  ASSUME BaseInv, SemsInv, NEW p \in Port, NEW pt \in Ends, Made(p), NEW s, s = SemOf(p, pt),
         s # SYSERR
  PROVE  /\ s \in Sem /\ Blocked(p, pt) = QueueOf(s)
         /\ Cardinality(QueueOf(s)) = IF semaph[s].semcnt < 0 THEN -semaph[s].semcnt ELSE 0
<1>1. IInv /\ PortTyped /\ StacksInv
  BY DEF BaseInv, CallInv, KernelInv
<1>2. s \in Sem /\ Owns(p, pt)
  BY <1>1, MadeOwns, SemOfFacts
<1>3. isUsed(s) /\ Counted(p, pt)
  BY <1>2 DEF SemsInv, SemsAt, UsedAt, CountAt
<1>4. QueueOf(s) \subseteq Within(p, pt) /\ OnlyHere(s, Within(p, pt))
  BY <1>3 DEF Counted
<1>5. QueuesMatch(semaph, psem, sched.pstate) /\ (Emptying(s) \/ CountMatches(semaph[s]))
      /\ semaph[s].queue \in Seq(Proc) /\ psem \in [Proc -> Sem]
  BY <1>1, <1>2, AnyStart, SemFacts
<1>6. ~Emptying(s)
  <2>1. "sreset" \in SemLoops /\ "sdelete" \in SemLoops
    BY DEF SemLoops
  <2> QED
    BY <1>2, <2>1, LoopOwned DEF Emptying
<1>7. Inside(p, pt) = Within(p, pt)
  BY <1>1, InsideIsWithin
<1>8. \A r \in Proc : Class(sched.pstate[r]) = "PRWAIT" <=> sched.pstate[r] = "PRWAIT"
  BY DEF Class, Runnable
<1>9. Blocked(p, pt) = {r \in Within(p, pt) : sched.pstate[r] = "PRWAIT"}
  BY <1>7 DEF Blocked
<1>10. \A y \in Sem : QueueOf(y) = {r \in Proc : sched.pstate[r] = "PRWAIT" /\ psem[r] = y}
  BY <1>5, <1>8 DEF QueuesMatch, QueueOf
<1>11. Within(p, pt) \subseteq Proc
  BY DEF Within
<1>12. ASSUME NEW r \in Within(p, pt), sched.pstate[r] = "PRWAIT" PROVE r \in QueueOf(s)
  <2>1. r \in Proc /\ psem[r] \in Sem
    BY <1>5, <1>11
  <2>2. r \in QueueOf(psem[r])
    BY <1>10, <1>12, <2>1
  <2>3. psem[r] = s
    BY <1>4, <1>12, <2>1, <2>2 DEF OnlyHere
  <2> QED
    BY <2>2, <2>3
<1>13. Blocked(p, pt) = QueueOf(s)
  BY <1>2, <1>4, <1>9, <1>10, <1>12
<1>14. Cardinality(QueueOf(s)) = Len(semaph[s].queue)
  <2>1. IsInjective(semaph[s].queue)
    BY <1>2, <1>5 DEF QueuesMatch
  <2> QED
    BY <1>5, <2>1, InjectiveSize DEF QueueOf
<1> QED
  BY <1>2, <1>3, <1>5, <1>6, <1>13, <1>14 DEF CountMatches, isUsed

LEMMA GrantedFew ==
  ASSUME BaseInv, SemsInv, NEW p \in Port, NEW pt \in Ends, Made(p)
  PROVE  /\ IsFiniteSet(Granted(p, pt)) /\ Cardinality(Granted(p, pt)) \in Nat
         /\ Cardinality(Granted(p, pt)) <= Expected(p, pt)
<1>1. IInv /\ PortTyped /\ StacksInv
  BY DEF BaseInv, CallInv, KernelInv
<1>2. Counted(p, pt)
  BY DEF SemsInv, SemsAt, CountAt
<1>3. Inside(p, pt) = Within(p, pt)
  BY <1>1, InsideIsWithin
<1>4. PICK w : w = Within(p, pt)
  OBVIOUS
<1>5. IsFiniteSet(w) /\ Cardinality(w) \in Nat
  BY <1>4, WithinFinite
<1>6. PICK s : s = SemOf(p, pt)
  OBVIOUS
<1>7. CASE s = SYSERR
  <2>1. w = {} /\ (pt = "psend" => ports[p].queue = <<>>)
    BY <1>2, <1>4, <1>6, <1>7 DEF Counted
  <2>2. Granted(p, pt) = {}
    BY <1>3, <1>4, <2>1 DEF Granted
  <2>3. ports[p].ptmaxcnt \in Nat /\ Len(ports[p].queue) \in Nat
    BY <1>1, SemOfPort
  <2>4. Expected(p, pt) >= 0
    BY <2>1, <2>3 DEF Expected
  <2>5. IsFiniteSet({}) /\ Cardinality({}) = 0
    BY FS_EmptySet
  <2> QED
    BY <2>2, <2>4, <2>5
<1>8. CASE s # SYSERR
  <2>1. PICK b : b = QueueOf(s)
    OBVIOUS
  <2>2. PICK m, x, g : m = semaph[s].semcnt /\ x = Expected(p, pt) /\ g = Gone(p, pt)
    OBVIOUS
  <2>3. /\ s \in Sem /\ Blocked(p, pt) = b
        /\ Cardinality(b) = IF m < 0 THEN -m ELSE 0
    BY <1>6, <1>8, <2>1, <2>2, BlockedIs
  <2>4. m = x - Cardinality(w) - g /\ b \subseteq w
    BY <1>2, <1>4, <1>6, <1>8, <2>1, <2>2 DEF Counted
  <2>5. x \in Int /\ g \in Nat
    <3>1. lost[p] \in LostRec
      BY <1>1 DEF PortTyped
    <3>2. Gone(p, pt) \in Nat
      BY <3>1 DEF Gone, LostRec
    <3> QED
      BY <1>1, <2>2, <3>2, CountTypes
  <2>6. Granted(p, pt) = w \ b
    BY <1>3, <1>4, <2>3 DEF Granted
  <2>7. w \cap b = b
    BY <2>4
  <2>8. IsFiniteSet(w \ b) /\ Cardinality(w \ b) = Cardinality(w) - Cardinality(b)
    BY <1>5, <2>7, FS_Difference
  <2>9. Cardinality(w \ b) \in Nat
    BY <2>8, FS_CardinalityType
  <2>10. Cardinality(w \ b) <= x
    BY <1>5, <2>3, <2>4, <2>5, <2>8
  <2> QED
    BY <2>2, <2>6, <2>8, <2>9, <2>10
<1> QED
  BY <1>7, <1>8

(* All open ports can be full at the same time. *)
EnoughNodes == \E c \in Nat : Counts \subseteq 0..c /\ NPORTS * c <= MAXMSGS

LEMMA NodeLeft ==
  ASSUME EnoughNodes, BaseInv, SemsInv, NEW p \in Port, Made(p), Granted(p, "psend") # {}
  PROVE  ptfree > 0
<1>1. PortTyped /\ NodeInv
  BY DEF BaseInv, CallInv
<1>2. PICK c \in Nat : Counts \subseteq 0..c /\ NPORTS * c <= MAXMSGS
  BY DEF EnoughNodes
<1>3. \A q \in Port : /\ Len(ports[q].queue) \in Nat /\ ports[q].ptmaxcnt \in 0..c
  <2> SUFFICES ASSUME NEW q \in Port
               PROVE  Len(ports[q].queue) \in Nat /\ ports[q].ptmaxcnt \in 0..c
    OBVIOUS
  <2>1. ports[q] \in PortRec /\ Len(ports[q].queue) \in Nat
    BY <1>1, SemOfPort
  <2>2. ports[q].ptmaxcnt \in Counts \cup {0}
    BY <2>1 DEF PortRec
  <2>3. 0 \in 0..c /\ Counts \subseteq 0..c
    BY <1>2
  <2> QED
    BY <2>1, <2>2, <2>3
<1>4. ASSUME NEW q \in Port, Made(q)
      PROVE  Cardinality(Granted(q, "psend")) <= ports[q].ptmaxcnt - Len(ports[q].queue)
             /\ Cardinality(Granted(q, "psend")) \in Nat /\ IsFiniteSet(Granted(q, "psend"))
  BY <1>4, GrantedFew, EndsFacts DEF Expected
<1>5. \A q \in Port : Len(ports[q].queue) <= c
  <2> SUFFICES ASSUME NEW q \in Port PROVE Len(ports[q].queue) <= c
    OBVIOUS
  <2>1. CASE Made(q)
    BY <1>3, <1>4, <2>1
  <2>2. CASE ~Made(q)
    BY <1>1, <2>2 DEF NodeInv
  <2> QED
    BY <2>1, <2>2
<1>6. Len(ports[p].queue) < c
  <2>1. Cardinality(Granted(p, "psend")) # 0
    BY <1>4, FS_EmptySet
  <2> QED
    BY <1>3, <1>4, <2>1
<1>7. PICK n, T : n = NPORTS * c /\ T = Port \X (1..c)
  OBVIOUS
<1>8. IsFiniteSet(T) /\ Cardinality(T) = n /\ n \in Nat
  <2>1. IsFiniteSet(1..c) /\ Cardinality(1..c) = c
    BY FS_Interval
  <2>2. IsFiniteSet(Port) /\ Cardinality(Port) = NPORTS
    BY NPORTSAssumption, FS_Interval DEF Port
  <2>3. IsFiniteSet(Port \X (1..c)) /\ Cardinality(Port \X (1..c)) = NPORTS * c
    BY <2>1, <2>2, FS_Product
  <2> QED
    BY <1>7, <2>3, FS_CardinalityType
<1>9. PICK x : x = <<p, c>>
  OBVIOUS
<1>10. x \in T
  BY <1>3, <1>6, <1>7, <1>9
<1>11. Stored \subseteq T \ {x}
  <2> SUFFICES ASSUME NEW y \in Stored PROVE y \in T /\ y # x
    OBVIOUS
  <2>1. PICK q \in Port, i \in Nat : y = <<q, i>>
    BY StoredPairs
  <2>2. i \in 1..Len(ports[q].queue)
    BY <1>1, <2>1, StoredIs
  <2>3. i \in 1..c
    BY <1>3, <1>5, <2>2
  <2>4. ~(q = p /\ i = c)
    BY <1>3, <1>6, <2>2
  <2> QED
    BY <1>7, <1>9, <2>1, <2>3, <2>4
<1>12. IsFiniteSet(T \ {x}) /\ Cardinality(T \ {x}) = n - 1
  BY <1>8, <1>10, FS_RemoveElement
<1>13. Cardinality(Stored) <= n - 1 /\ Cardinality(Stored) \in Nat
  BY <1>11, <1>12, FS_Subset, FS_CardinalityType
<1>14. ptfree + Cardinality(Stored) = MAXMSGS /\ ptfree \in Nat /\ n <= MAXMSGS
  BY <1>1, <1>2, <1>7 DEF NodeInv, PortTyped
<1> QED
  BY <1>8, <1>13, <1>14, MAXMSGSAssumption

LEMMA GrantsHold ==
  ASSUME EnoughNodes, BaseInv, SemsInv
  PROVE  GrantsAreGood
<1> SUFFICES ASSUME NEW p \in Port, Open(p)
             PROVE  /\ Cardinality(Granted(p, "preceive")) <= Len(ports[p].queue)
                    /\ Len(ports[p].queue) + Cardinality(Granted(p, "psend")) <= ports[p].ptmaxcnt
                    /\ Granted(p, "psend") # {} => ptfree > 0
  BY DEF GrantsAreGood
<1>1. Made(p)
  BY OpenIsMade
<1>2. ports[p].ptmaxcnt \in Nat /\ Len(ports[p].queue) \in Nat
  BY SemOfPort DEF BaseInv, CallInv
<1>3. Expected(p, "preceive") = Len(ports[p].queue)
      /\ Expected(p, "psend") = ports[p].ptmaxcnt - Len(ports[p].queue)
  BY DEF Expected
<1>4. /\ Cardinality(Granted(p, "preceive")) <= Len(ports[p].queue)
      /\ Cardinality(Granted(p, "psend")) <= ports[p].ptmaxcnt - Len(ports[p].queue)
      /\ Cardinality(Granted(p, "psend")) \in Nat
  BY <1>1, <1>3, GrantedFew, EndsFacts
<1> QED
  BY <1>1, <1>2, <1>4, NodeLeft

(* pcount() counts the messages and the blocked senders. *)
LEMMA PcountHolds ==
  ASSUME BaseInv, SemsInv
  PROVE  PcountTells
<1> SUFFICES ASSUME NEW p \in Port, Open(p), HasSem(ports[p].ptssem), HasSem(ports[p].ptrsem)
             PROVE  Pcount(p) = Len(ports[p].queue) + Cardinality(Blocked(p, "psend"))
                                  - Cardinality(Inside(p, "preceive")) - lost[p].preceive
  BY DEF PcountTells
<1>1. Made(p) /\ PortTyped
  BY OpenIsMade DEF BaseInv, CallInv
<1>2. PICK s, r : s = ports[p].ptssem /\ r = ports[p].ptrsem
  OBVIOUS
<1>3. SemOf(p, "psend") = s /\ SemOf(p, "preceive") = r /\ s # SYSERR /\ r # SYSERR
  BY <1>2, EndsFacts DEF SemOf, HasSem
<1>4. Counted(p, "preceive") /\ Expected(p, "preceive") = Len(ports[p].queue)
      /\ Gone(p, "preceive") = lost[p].preceive
  BY <1>1, EndsFacts DEF SemsInv, SemsAt, CountAt, Expected, Gone
<1>5. Inside(p, "preceive") = Within(p, "preceive")
  BY InsideIsWithin, EndsFacts DEF BaseInv, CallInv, KernelInv
<1>6. semaph[r].semcnt = Len(ports[p].queue) - Cardinality(Inside(p, "preceive"))
                           - lost[p].preceive
  BY <1>3, <1>4, <1>5 DEF Counted
<1>7. /\ s \in Sem
      /\ Cardinality(Blocked(p, "psend")) =
           IF semaph[s].semcnt < 0 THEN -semaph[s].semcnt ELSE 0
  <2>1. "psend" \in Ends
    BY EndsFacts
  <2>2. /\ s \in Sem /\ Blocked(p, "psend") = QueueOf(s)
        /\ Cardinality(QueueOf(s)) = IF semaph[s].semcnt < 0 THEN -semaph[s].semcnt ELSE 0
    BY <1>1, <1>3, <2>1, BlockedIs
  <2> QED
    BY <2>2
<1>8. semaph[s].semcnt \in Int
  BY <1>7, AnyStart, SemFacts DEF BaseInv, CallInv, KernelInv
<1>9. Pcount(p) = semaph[r].semcnt - (IF semaph[s].semcnt < 0 THEN semaph[s].semcnt ELSE 0)
  BY <1>2 DEF Pcount
<1>10. /\ Len(ports[p].queue) \in Int /\ Cardinality(Inside(p, "preceive")) \in Int
      /\ lost[p].preceive \in Int
  <2>1. Len(ports[p].queue) \in Int
    BY <1>1, SemOfPort
  <2>2. Cardinality(Within(p, "preceive")) \in Int /\ Gone(p, "preceive") \in Int
    BY <1>1, CountTypes, EndsFacts
  <2> QED
    BY <1>4, <1>5, <2>1, <2>2
<1> QED
  BY <1>6, <1>7, <1>8, <1>9, <1>10

(***************************************************************************)
(* Applications that leave the ports' semaphores alone.                    *)
(***************************************************************************)
(* Every place of an open port is free, holds a message, has been granted  *)
(* to a sender that has yet to run, or was lost with one, through any      *)
(* sequence of psend, preceive, preset, pdelete, pcreate and kill, for     *)
(* every number of processes, ports and semaphores.                        *)
THEOREM PlacesAreKept == SpecP /\ [][Apart]_varsP => []PlacesKept
<1>1. BaseInv /\ SemsInv => PlacesKept
  BY PlacesHold
<1> QED
  BY <1>1, PortInvariance, SemsInvariance, PTL

(* With nodes for all ports, preceive.c finds the message and psend.c the   *)
(* place and the node that wait() has let it through for.                   *)
THEOREM GrantsFound ==
  ASSUME EnoughNodes
  PROVE  SpecP /\ [][Apart]_varsP => []GrantsAreGood
<1>1. BaseInv /\ SemsInv => GrantsAreGood
  BY GrantsHold
<1> QED
  BY <1>1, PortInvariance, SemsInvariance, PTL

(* pcount.c tells the messages and the blocked senders, less what is owed   *)
(* to receivers inside preceive or killed there (pcount.2).                 *)
THEOREM PcountRight == SpecP /\ [][Apart]_varsP => []PcountTells
<1>1. BaseInv /\ SemsInv => PcountTells
  BY PcountHolds
<1> QED
  BY <1>1, PortInvariance, SemsInvariance, PTL

(* The application calls none of them at all. *)
NoSemCalls == Calls \cap {"wait", "signal", "signaln", "sreset", "sdelete"} = {}

(* If only the ports use semaphores, as in run ports, both hold without a   *)
(* condition on the steps.                                                  *)
THEOREM OnlyPortsWait ==
  ASSUME NoSemCalls
  PROVE  /\ SpecP => []PlacesKept
         /\ EnoughNodes => (SpecP => []GrantsAreGood)
<1>1. Apart
  BY DEF NoSemCalls, Apart, SemCalls, Wait, Signal, Signaln, Sreset, Sdelete, Calling
<1>2. [][Apart]_varsP
  BY <1>1, PTL
<1>3. SpecP => []PlacesKept
  BY <1>2, PlacesAreKept, PTL
<1>4. ASSUME EnoughNodes PROVE SpecP => []GrantsAreGood
  <2>1. SpecP /\ [][Apart]_varsP => []GrantsAreGood
    BY <1>4, GrantsFound
  <2> QED
    BY <1>2, <2>1, PTL
<1> QED
  BY <1>3, <1>4
=============================================================================
