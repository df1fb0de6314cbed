------------------------------ MODULE ArpProofs ------------------------------
(***************************************************************************)
(* The ARP cache and its asker, for any number of senders, hosts, entries  *)
(* and tries.  What is said of the counters and of arppid is said until an *)
(* entry is written over them.                                             *)
(***************************************************************************)
EXTENDS Arp, WellFoundedInduction, TLAPS

(* Net.nmutex is held from the first look at the table to the packet. *)
Sending == {"find", "size", "size2", "next", "next2", "wrap", "state", "iad", "ead", "check",
            "ask", "recvtim", "reset", "route", "rgate", "out"}

(* Where a sender has an entry that atabnxt has passed. *)
HasEntry == {"wrap", "state", "iad", "ead", "check", "ask", "recvtim", "reset", "route", "rgate",
             "out"}

(* Where that entry bears the address the sender wants. *)
Named == {"ead", "check", "ask", "recvtim", "reset", "route", "rgate", "out"}

LockInv == \A p \in Procs : nmutex = p <=> snd[p].at \in Sending

(* A sender wants the address of its destination or of the gateway. *)
WantInv == \A p \in Procs : snd[p].at \in Sending => snd[p].want \in {snd[p].dest, Gateway}

(* The process in arppid has the mutex, and waits for arpwant. *)
AskerInv ==
    ~overrun /\ arppid # NONE =>
                     /\ nmutex = arppid
                     /\ snd[arppid].at \in {"ask", "recvtim", "reset"}
                     /\ arpwant = snd[arppid].want

(* An entry has its host's Ethernet address or none, except while a sender  *)
(* that has stored the IP address has yet to clear the other.               *)
AddressInv ==
    \A i \in Table :
        \/ arptab[i].arp_Ead \in {arptab[i].arp_Iad, ZERO}
        \/ \E p \in Procs : snd[p].at = "ead" /\ Own(p) = i

(* Until atabnxt goes back, entries that it has not reached are free, the   *)
(* one a sender is about to take is not behind it, and one that a sender    *)
(* has taken or found keeps its IP address.                                 *)
TakenInv ==
    ~(reused \/ overrun) =>
        /\ \A i \in Table : i >= atabnxt => arptab[i].arp_state = "FREE"
        /\ \A p \in Procs :
              /\ snd[p].at = "next2" => Own(p) <= atabnxt
              /\ snd[p].at \in HasEntry => Own(p) < atabnxt
              /\ snd[p].at \in Named => arptab[Own(p)].arp_Iad = snd[p].want

(* Only a sender that is about to test for it leaves atabnxt at the end. *)
NextInv == ~overrun /\ atabnxt = AR_TAB => \E p \in Procs : snd[p].at = "wrap"

ArpInv ==
    /\ ArpTypeOK
    /\ LockInv
    /\ WantInv
    /\ AskerInv
    /\ AddressInv
    /\ TakenInv
    /\ NextInv
    /\ RightHost

-----------------------------------------------------------------------------
(* Types. *)

Places == {"idle", "nmutex"} \cup Sending
Records == [at : Places, dest : Hosts \cup {Far}, want : Hosts, idx : Table, loc : 0..AR_TAB,
            tries : 0..(AR_RTRY - 1), gate : BOOLEAN]
Entries == [arp_state : {"FREE", "ALLOC", "RGATE", "RSLVD"},
            arp_Iad : Hosts \cup {NONE}, arp_Ead : Hosts \cup {ZERO}]

TypeParts ==
    /\ arptab \in [Table -> Entries]
    /\ ~overrun => atabsiz \in 0..AR_TAB /\ atabnxt \in 0..AR_TAB
    /\ arppid \in Procs \cup {NONE} /\ arpwant \in Hosts \cup {NONE}
    /\ nmutex \in Procs \cup {NONE} /\ mail \subseteq Procs
    /\ snd \in [Procs -> Records]
    /\ sent \in [dest : Hosts \cup {Far}, e_dest : Hosts \cup {ZERO}]
    /\ panicked \in BOOLEAN /\ reused \in BOOLEAN /\ overrun \in BOOLEAN

LEMMA TypeIsParts ==
  (ArpTypeOK <=> TypeParts) /\ (ArpTypeOK' <=> TypeParts')
<1>1. Places = {"idle", "nmutex", "find", "size", "size2", "next", "next2", "wrap",
                "state", "iad", "ead", "check", "ask", "recvtim", "reset", "route", "rgate", "out"}
  BY DEF Places, Sending
<1> QED
  BY <1>1 DEF ArpTypeOK, TypeParts, Records, Entries

LEMMA TableFacts ==
  /\ AR_TAB \in Nat \ {0} /\ AR_RTRY \in Nat \ {0}
  /\ 0 \in Table /\ Table \subseteq Nat /\ \A i \in Table : i < AR_TAB /\ i \in 0..AR_TAB
  /\ 0 \in 0..AR_TAB /\ 0 \in 0..(AR_RTRY - 1)
  /\ NONE \notin Procs /\ NONE \notin Hosts /\ ZERO \notin Hosts
BY ArpAssumption DEF Table, NONE, ZERO

(* The search of arpfind() stops at an entry of the host it looks for. *)
LEMMA FirstFound ==
  ASSUME NEW S, S \subseteq Nat, S # {}
  PROVE  First(S) \in S
<1>1. PICK x \in S : \A y \in S : ~ (<<y, x>> \in OpToRel(<, Nat))
  BY NatLessThanWellFounded, WFMin
<1>2. ASSUME NEW y \in S PROVE x <= y
  <2>1. x \in Nat /\ y \in Nat
    OBVIOUS
  <2>2. ~(y < x)
    BY <1>1, <2>1 DEF OpToRel
  <2> QED
    BY <2>1, <2>2
<1> QED
  BY <1>1, <1>2 DEF First

LEMMA FoundEntry ==
  ASSUME NEW h, Matches(h) # {}
  PROVE  /\ First(Matches(h)) \in Table
         /\ arptab[First(Matches(h))].arp_Iad = h
         /\ arptab[First(Matches(h))].arp_state # "FREE"
<1>1. Matches(h) \subseteq Nat
  BY TableFacts DEF Matches
<1>2. First(Matches(h)) \in Matches(h)
  BY <1>1, FirstFound
<1> QED
  BY <1>2 DEF Matches

-----------------------------------------------------------------------------
(* A step of the process that has the mutex. *)

Asks == {"ask", "recvtim", "reset"}

SenderStep(p) ==
    /\ TypeParts' /\ ~overrun'
    /\ \A q \in Procs \ {p} : snd'[q] = snd[q]
    /\ nmutex' = nmutex /\ sent' = sent /\ (reused => reused')
    /\ snd'[p].at \in Sending /\ snd'[p].want \in {snd'[p].dest, Gateway}
    /\ arppid' # NONE => arppid' = p /\ snd'[p].at \in Asks /\ arpwant' = snd'[p].want
    /\ \A i \in Table :
          \/ arptab'[i].arp_Ead \in {arptab'[i].arp_Iad, ZERO}
          \/ snd'[p].at = "ead" /\ snd'[p].idx = i
    /\ ~reused' =>
          /\ \A i \in Table : i >= atabnxt' => arptab'[i].arp_state = "FREE"
          /\ snd'[p].at = "next2" => snd'[p].idx <= atabnxt'
          /\ snd'[p].at \in HasEntry => snd'[p].idx < atabnxt'
          /\ snd'[p].at \in Named => arptab'[snd'[p].idx].arp_Iad = snd'[p].want
    /\ atabnxt' = AR_TAB => snd'[p].at = "wrap"

LEMMA SenderStepKeeps ==
  ASSUME ArpInv, ~overrun, NEW p \in Procs, snd[p].at \in Sending, SenderStep(p)
  PROVE  ArpInv'
<1>1. nmutex = p /\ \A q \in Procs \ {p} : snd'[q].at \notin Sending
  BY DEF ArpInv, LockInv, SenderStep
<1>2. ArpTypeOK'
  BY TypeIsParts DEF SenderStep
<1>3. LockInv'
  BY <1>1 DEF LockInv, SenderStep
<1>4. WantInv'
  BY <1>1 DEF WantInv, SenderStep
<1>5. AskerInv'
  BY <1>1 DEF AskerInv, SenderStep, Asks
<1>6. AddressInv'
  BY DEF AddressInv, SenderStep, Own
<1>7. TakenInv'
  <2>1. HasEntry \subseteq Sending /\ Named \subseteq Sending /\ "next2" \in Sending
    BY DEF HasEntry, Named, Sending
  <2> QED
    BY <1>1, <2>1 DEF TakenInv, SenderStep, Own
<1>8. NextInv'
  BY DEF NextInv, SenderStep
<1>9. RightHost'
  BY DEF ArpInv, RightHost, SenderStep
<1> QED
  BY <1>2, <1>3, <1>4, <1>5, <1>6, <1>7, <1>8, <1>9 DEF ArpInv

(* What holds of the process that has the mutex, whatever it does next. *)
SenderState(p) ==
    /\ TypeParts /\ ~overrun
    /\ nmutex = p
    /\ snd[p].at \in Sending /\ snd[p].want \in {snd[p].dest, Gateway}
    /\ arppid # NONE => arppid = p /\ snd[p].at \in Asks /\ arpwant = snd[p].want
    /\ \A i \in Table :
          \/ arptab[i].arp_Ead \in {arptab[i].arp_Iad, ZERO}
          \/ snd[p].at = "ead" /\ snd[p].idx = i
    /\ ~reused =>
          /\ \A i \in Table : i >= atabnxt => arptab[i].arp_state = "FREE"
          /\ snd[p].at = "next2" => snd[p].idx <= atabnxt
          /\ snd[p].at \in HasEntry => snd[p].idx < atabnxt
          /\ snd[p].at \in Named => arptab[snd[p].idx].arp_Iad = snd[p].want
    /\ atabnxt = AR_TAB => snd[p].at = "wrap"

LEMMA SenderHas ==
  ASSUME ArpInv, ~overrun, NEW p \in Procs, snd[p].at \in Sending
  PROVE  SenderState(p)
<1>1. nmutex = p
  BY DEF ArpInv, LockInv
<1>2. \A q \in Procs : snd[q].at = "ead" => q = p
  BY <1>1 DEF ArpInv, LockInv, Sending
<1>3. arppid # NONE => arppid = p
  BY <1>1 DEF ArpInv, AskerInv
<1>4. atabnxt = AR_TAB => snd[p].at = "wrap"
  BY <1>1 DEF ArpInv, NextInv, LockInv, Sending
<1> QED
  BY <1>1, <1>2, <1>3, <1>4, TypeIsParts
  DEF ArpInv, SenderState, WantInv, AskerInv, AddressInv, TakenInv, Own, Asks

-----------------------------------------------------------------------------
(* The steps, one by one. *)

(* What Goto leaves alone. *)
LEMMA GotoFacts ==
  ASSUME NEW p \in Procs, NEW at \in Places, snd \in [Procs -> Records], Goto(p, at)
  PROVE  /\ snd' \in [Procs -> Records]
         /\ \A q \in Procs \ {p} : snd'[q] = snd[q]
         /\ snd'[p].at = at /\ snd'[p].dest = snd[p].dest /\ snd'[p].want = snd[p].want
         /\ snd'[p].idx = snd[p].idx
BY DEF Goto, Records

LEMMA IndexFacts ==
  ASSUME NEW k \in Table, NEW n \in 0..AR_TAB
  PROVE  /\ k + 1 \in 0..AR_TAB /\ k < k + 1
         /\ ~(k >= n) => k < n
         /\ k < n => ~(k >= n)
         /\ ~(k + 1 < n) => \A i \in Table : i >= k + 1 => i >= n
BY TableFacts DEF Table

LEMMA FindStep ==
  ASSUME NEW p \in Procs, SenderState(p), Find(p)
  PROVE  SenderStep(p)
<1> DEFINE found == Matches(snd[p].want)
           i == First(found)
<1>1. arppid = NONE /\ snd[p].at = "find"
  BY DEF Find, At, SenderState, Asks
<1>2. CASE found # {}
  <2>1. i \in Table /\ arptab[i].arp_Iad = snd[p].want /\ arptab[i].arp_state # "FREE"
    BY <1>2, FoundEntry
  <2>2. snd' = [snd EXCEPT ![p].at = "check", ![p].idx = i]
    BY <1>2 DEF Find
  <2> HIDE DEF i
  <2>3. /\ snd' \in [Procs -> Records]
        /\ \A q \in Procs \ {p} : snd'[q] = snd[q]
        /\ snd'[p].at = "check" /\ snd'[p].dest = snd[p].dest /\ snd'[p].want = snd[p].want
        /\ snd'[p].idx = i
    <3>1. snd \in [Procs -> Records] /\ "check" \in Places
      BY DEF SenderState, TypeParts, Places, Sending
    <3> QED
      BY ZenonT(60), <2>1, <2>2, <3>1 DEF Records
  <2>4. ~reused => i < atabnxt
    <3>1. atabnxt \in 0..AR_TAB /\ (~reused => ~(i >= atabnxt))
      BY <2>1 DEF SenderState, TypeParts
    <3> QED
      BY <2>1, <3>1, IndexFacts
  <2> QED
    BY <1>1, <2>1, <2>3, <2>4
    DEF Find, SenderState, SenderStep, TypeParts, arpVars, pidVars, HasEntry, Named, Sending
<1>3. CASE found = {}
  <2>1. Goto(p, "size")
    BY <1>3 DEF Find, Goto
  <2>2. /\ snd' \in [Procs -> Records]
        /\ \A q \in Procs \ {p} : snd'[q] = snd[q]
        /\ snd'[p].at = "size" /\ snd'[p].dest = snd[p].dest /\ snd'[p].want = snd[p].want
    BY <2>1, GotoFacts DEF SenderState, TypeParts, Places, Sending
  <2> QED
    BY <1>1, <2>2
    DEF Find, SenderState, SenderStep, TypeParts, arpVars, pidVars, HasEntry, Named, Sending
<1> QED
  BY <1>2, <1>3

LEMMA ReadSizeStep ==
  ASSUME NEW p \in Procs, SenderState(p), ReadSize(p)
  PROVE  SenderStep(p)
<1>1. arppid = NONE /\ snd[p].at = "size"
  BY DEF ReadSize, At, SenderState, Asks
<1>2. /\ snd' \in [Procs -> Records]
      /\ \A q \in Procs \ {p} : snd'[q] = snd[q]
      /\ snd'[p].at = "size2" /\ snd'[p].dest = snd[p].dest /\ snd'[p].want = snd[p].want
  <2>1. snd' = [snd EXCEPT ![p].at = "size2", ![p].loc = atabsiz]
    BY DEF ReadSize
  <2>2. snd \in [Procs -> Records] /\ "size2" \in Places /\ atabsiz \in 0..AR_TAB
    BY DEF SenderState, TypeParts, Places, Sending
  <2> QED
    BY ZenonT(60), <2>1, <2>2 DEF Records
<1> QED
  BY <1>1, <1>2
  DEF ReadSize, SenderState, SenderStep, TypeParts, arpVars, pidVars, HasEntry, Named, Sending

LEMMA WriteSizeStep ==
  ASSUME NEW p \in Procs, SenderState(p), WriteSize(p)
  PROVE  SenderStep(p)
<1>1. arppid = NONE /\ snd[p].at = "size2"
  BY DEF WriteSize, At, SenderState, Asks
<1>2. /\ snd' \in [Procs -> Records]
      /\ \A q \in Procs \ {p} : snd'[q] = snd[q]
      /\ snd'[p].at = "next" /\ snd'[p].dest = snd[p].dest /\ snd'[p].want = snd[p].want
  BY GotoFacts DEF WriteSize, SenderState, TypeParts, Places, Sending
<1>3. atabsiz' \in 0..AR_TAB
  <2>1. snd[p].loc \in 0..AR_TAB /\ atabsiz \in 0..AR_TAB
    BY DEF SenderState, TypeParts, Records
  <2> QED
    BY <2>1, TableFacts DEF WriteSize
<1> QED
  BY <1>1, <1>2, <1>3
  DEF WriteSize, SenderState, SenderStep, TypeParts, pidVars, HasEntry, Named, Sending

(* The entry that atabnxt names is not taken yet. *)
LEMMA ReadNextStep ==
  ASSUME NEW p \in Procs, SenderState(p), ReadNext(p)
  PROVE  SenderStep(p)
<1>1. arppid = NONE /\ snd[p].at = "next"
  BY DEF ReadNext, At, SenderState, Asks
<1>2. atabnxt \in Table
  BY <1>1, TableFacts DEF SenderState, TypeParts, Table
<1>3. /\ snd' \in [Procs -> Records]
      /\ \A q \in Procs \ {p} : snd'[q] = snd[q]
      /\ snd'[p].at = "next2" /\ snd'[p].dest = snd[p].dest /\ snd'[p].want = snd[p].want
      /\ snd'[p].idx = atabnxt
  <2>1. snd' = [snd EXCEPT ![p].at = "next2", ![p].loc = 0, ![p].idx = atabnxt]
    BY DEF ReadNext
  <2>2. snd \in [Procs -> Records] /\ "next2" \in Places /\ 0 \in 0..AR_TAB
    BY TableFacts DEF SenderState, TypeParts, Places, Sending
  <2> QED
    BY ZenonT(60), <1>2, <2>1, <2>2 DEF Records
<1>4. atabnxt <= atabnxt
  BY <1>2, TableFacts
<1> QED
  BY <1>1, <1>3, <1>4
  DEF ReadNext, SenderState, SenderStep, TypeParts, arpVars, pidVars, HasEntry, Named, Sending

(* An increment of the input daemon is lost here; reused says so. *)
LEMMA WriteNextStep ==
  ASSUME NEW p \in Procs, SenderState(p), WriteNext(p)
  PROVE  SenderStep(p)
<1>1. arppid = NONE /\ snd[p].at = "next2"
  BY DEF WriteNext, At, SenderState, Asks
<1>2. /\ snd' \in [Procs -> Records]
      /\ \A q \in Procs \ {p} : snd'[q] = snd[q]
      /\ snd'[p].at = "wrap" /\ snd'[p].dest = snd[p].dest /\ snd'[p].want = snd[p].want
      /\ snd'[p].idx = snd[p].idx
  BY GotoFacts DEF WriteNext, SenderState, TypeParts, Places, Sending
<1>3. snd[p].idx \in Table /\ atabnxt \in 0..AR_TAB /\ atabnxt' = snd[p].idx + 1
  BY DEF SenderState, TypeParts, Records, WriteNext, Own
<1>4. atabnxt' \in 0..AR_TAB /\ snd[p].idx < atabnxt'
  BY <1>3, IndexFacts
<1>5. reused' = (reused \/ atabnxt' < atabnxt) /\ reused' \in BOOLEAN /\ arptab' = arptab
  BY <1>3 DEF WriteNext, Own, SenderState, TypeParts
<1>6. ~reused' => \A i \in Table : i >= atabnxt' => arptab'[i].arp_state = "FREE"
  <2> SUFFICES ASSUME ~reused', NEW i \in Table, i >= atabnxt' PROVE arptab[i].arp_state = "FREE"
    BY <1>5
  <2>1. i >= atabnxt /\ ~reused
    BY <1>3, <1>5, IndexFacts
  <2> QED
    BY <2>1 DEF SenderState
<1> QED
  BY <1>1, <1>2, <1>3, <1>4, <1>5, <1>6
  DEF WriteNext, SenderState, SenderStep, TypeParts, pidVars, HasEntry, Named, Sending

LEMMA WrapStep ==
  ASSUME NEW p \in Procs, SenderState(p), Wrap(p)
  PROVE  SenderStep(p)
<1>1. arppid = NONE /\ snd[p].at = "wrap"
  BY DEF Wrap, At, SenderState, Asks
<1>2. /\ snd' \in [Procs -> Records]
      /\ \A q \in Procs \ {p} : snd'[q] = snd[q]
      /\ snd'[p].at = "state" /\ snd'[p].dest = snd[p].dest /\ snd'[p].want = snd[p].want
      /\ snd'[p].idx = snd[p].idx
  BY GotoFacts DEF Wrap, SenderState, TypeParts, Places, Sending
<1>3. /\ atabnxt' \in 0..AR_TAB /\ atabnxt' # AR_TAB /\ reused' \in BOOLEAN
      /\ ~reused' => ~reused /\ atabnxt' = atabnxt
  <2>1. /\ atabnxt \in 0..AR_TAB /\ reused \in BOOLEAN
        /\ atabnxt' = IF atabnxt >= AR_TAB THEN 0 ELSE atabnxt
        /\ reused' = (reused \/ atabnxt >= AR_TAB)
    BY DEF Wrap, SenderState, TypeParts
  <2>2. CASE atabnxt >= AR_TAB
    BY <2>1, <2>2, TableFacts
  <2>3. CASE ~(atabnxt >= AR_TAB)
    <3>1. atabnxt # AR_TAB
      BY <2>3, TableFacts
    <3> QED
      BY <2>1, <2>3, <3>1
  <2> QED
    BY <2>2, <2>3
<1>4. ~reused => snd[p].idx < atabnxt
  BY <1>1 DEF SenderState, HasEntry
<1> QED
  BY <1>1, <1>2, <1>3, <1>4
  DEF Wrap, SenderState, SenderStep, TypeParts, pidVars, HasEntry, Named, Sending

(* The entry has the sender's IP address, and then no Ethernet address. *)
LEMMA FillStep ==
  ASSUME NEW p \in Procs, SenderState(p), Fill(p)
  PROVE  SenderStep(p)
<1> DEFINE k == snd[p].idx
<1>0. k \in Table /\ arptab \in [Table -> Entries] /\ snd[p].want \in Hosts
  BY DEF SenderState, TypeParts, Records
<1>1. arppid = NONE /\ snd[p].at \in {"state", "iad", "ead"}
  BY DEF Fill, At, SenderState, Asks
<1>2. /\ snd' \in [Procs -> Records]
      /\ \A q \in Procs \ {p} : snd'[q] = snd[q]
      /\ snd'[p].dest = snd[p].dest /\ snd'[p].want = snd[p].want /\ snd'[p].idx = k
  BY GotoFacts DEF Fill, SenderState, TypeParts, Places, Sending
<1>3. ~reused => k < atabnxt /\ \A i \in Table : i >= atabnxt => i # k
  <2>1. atabnxt \in 0..AR_TAB /\ (~reused => k < atabnxt)
    BY <1>1 DEF SenderState, TypeParts, HasEntry
  <2> QED
    BY <1>0, <2>1, IndexFacts
<1>4. CASE /\ At(p, "state") /\ Goto(p, "iad")
           /\ arptab' = [arptab EXCEPT ![Own(p)].arp_state = "ALLOC"]
  <2>1. snd'[p].at = "iad" /\ snd[p].at = "state"
    BY <1>4, GotoFacts DEF SenderState, TypeParts, Places, Sending, At
  <2>2. /\ arptab' \in [Table -> Entries]
        /\ \A i \in Table : /\ arptab'[i].arp_Iad = arptab[i].arp_Iad
                            /\ arptab'[i].arp_Ead = arptab[i].arp_Ead
                            /\ i # k => arptab'[i] = arptab[i]
    BY <1>0, <1>4 DEF Own, Entries
  <2>3. \A i \in Table : arptab'[i].arp_Ead \in {arptab'[i].arp_Iad, ZERO}
    <3>1. \A i \in Table : arptab[i].arp_Ead \in {arptab[i].arp_Iad, ZERO}
      BY <2>1 DEF SenderState
    <3> QED
      BY <2>2, <3>1
  <2>4. ~reused => \A i \in Table : i >= atabnxt => arptab'[i].arp_state = "FREE"
    <3>1. ~reused => \A i \in Table : i >= atabnxt => arptab[i].arp_state = "FREE"
      BY DEF SenderState
    <3> QED
      BY <1>3, <2>2, <3>1
  <2> HIDE DEF k
  <2> QED
    BY <1>1, <1>2, <1>3, <2>1, <2>2, <2>3, <2>4
    DEF Fill, SenderState, SenderStep, TypeParts, pidVars, HasEntry, Named, Sending
<1>5. CASE /\ At(p, "iad") /\ Goto(p, "ead")
           /\ arptab' = [arptab EXCEPT ![Own(p)].arp_Iad = snd[p].want]
  <2>1. snd'[p].at = "ead" /\ snd[p].at = "iad"
    BY <1>5, GotoFacts DEF SenderState, TypeParts, Places, Sending, At
  <2>2. /\ arptab' \in [Table -> Entries]
        /\ arptab'[k].arp_Iad = snd[p].want
        /\ \A i \in Table : i # k => arptab'[i] = arptab[i]
    BY <1>0, <1>5 DEF Own, Entries
  <2> QED
    BY <1>1, <1>2, <1>3, <2>1, <2>2
    DEF Fill, SenderState, SenderStep, TypeParts, pidVars, HasEntry, Named, Sending
<1>6. CASE /\ At(p, "ead") /\ Goto(p, "check")
           /\ arptab' = [arptab EXCEPT ![Own(p)].arp_Ead = ZERO]
  <2>1. snd'[p].at = "check" /\ snd[p].at = "ead"
    BY <1>6, GotoFacts DEF SenderState, TypeParts, Places, Sending, At
  <2>2. /\ arptab' \in [Table -> Entries]
        /\ arptab'[k].arp_Ead = ZERO /\ arptab'[k].arp_Iad = arptab[k].arp_Iad
        /\ \A i \in Table : i # k => arptab'[i] = arptab[i]
    BY <1>0, <1>6 DEF Own, Entries
  <2> QED
    BY <1>1, <1>2, <1>3, <2>1, <2>2
    DEF Fill, SenderState, SenderStep, TypeParts, pidVars, HasEntry, Named, Sending
<1> QED
  BY <1>4, <1>5, <1>6 DEF Fill

LEMMA CheckStep ==
  ASSUME NEW p \in Procs, SenderState(p), Check(p)
  PROVE  SenderStep(p)
<1>1. arppid = NONE /\ snd[p].at = "check"
  BY DEF Check, At, SenderState, Asks
<1> DEFINE at == IF arptab[Own(p)].arp_state = "ALLOC" THEN "ask" ELSE "route"
<1>2. at \in {"ask", "route"} /\ snd' = [snd EXCEPT ![p].at = at, ![p].tries = 0]
  BY DEF Check
<1> HIDE DEF at
<1>3. /\ snd' \in [Procs -> Records]
      /\ \A q \in Procs \ {p} : snd'[q] = snd[q]
      /\ snd'[p].at \in {"ask", "route"}
      /\ snd'[p].dest = snd[p].dest /\ snd'[p].want = snd[p].want /\ snd'[p].idx = snd[p].idx
  <2>1. snd \in [Procs -> Records] /\ at \in Places /\ 0 \in 0..(AR_RTRY - 1)
    BY <1>2, TableFacts DEF SenderState, TypeParts, Places, Sending
  <2> QED
    BY ZenonT(60), <1>2, <2>1 DEF Records
<1> QED
  BY <1>1, <1>3
  DEF Check, SenderState, SenderStep, TypeParts, arpVars, pidVars, HasEntry, Named, Sending

LEMMA AskStep ==
  ASSUME NEW p \in Procs, SenderState(p), Ask(p)
  PROVE  SenderStep(p)
<1>1. snd[p].at = "ask" /\ snd[p].want \in Hosts
  BY DEF Ask, At, SenderState, TypeParts, Records
<1>2. /\ snd' \in [Procs -> Records]
      /\ \A q \in Procs \ {p} : snd'[q] = snd[q]
      /\ snd'[p].at = "recvtim" /\ snd'[p].dest = snd[p].dest /\ snd'[p].want = snd[p].want
      /\ snd'[p].idx = snd[p].idx
  BY GotoFacts DEF Ask, SenderState, TypeParts, Places, Sending
<1> QED
  BY <1>1, <1>2
  DEF Ask, SenderState, SenderStep, TypeParts, arpVars, HasEntry, Named, Sending, Asks

LEMMA RecvtimStep ==
  ASSUME NEW p \in Procs, SenderState(p), Recvtim(p)
  PROVE  SenderStep(p)
<1>1. snd[p].at = "recvtim"
  BY DEF Recvtim, At
<1>2. /\ snd' \in [Procs -> Records]
      /\ \A q \in Procs \ {p} : snd'[q] = snd[q]
      /\ snd'[p].at \in {"ask", "reset"}
      /\ snd'[p].dest = snd[p].dest /\ snd'[p].want = snd[p].want /\ snd'[p].idx = snd[p].idx
  <2>1. CASE Goto(p, "reset")
    BY <2>1, GotoFacts DEF SenderState, TypeParts, Places, Sending
  <2>2. CASE /\ snd[p].tries + 1 < AR_RTRY
             /\ snd' = [snd EXCEPT ![p].at = "ask", ![p].tries = snd[p].tries + 1]
    <3>1. snd[p].tries + 1 \in 0..(AR_RTRY - 1)
      BY <2>2, TableFacts DEF SenderState, TypeParts, Records
    <3>2. snd \in [Procs -> Records] /\ "ask" \in Places
      BY DEF SenderState, TypeParts, Places, Sending
    <3>3. snd' = [snd EXCEPT ![p].at = "ask", ![p].tries = snd[p].tries + 1]
      BY <2>2
    <3> QED
      BY <3>1, <3>2, <3>3 DEF Records
  <2> QED
    BY <2>1, <2>2 DEF Recvtim
<1>3. mail' \subseteq Procs
  BY DEF Recvtim, SenderState, TypeParts
<1> QED
  BY <1>1, <1>2, <1>3
  DEF Recvtim, SenderState, SenderStep, TypeParts, arpVars, HasEntry, Named, Sending, Asks

LEMMA ResetStep ==
  ASSUME NEW p \in Procs, SenderState(p), Reset(p)
  PROVE  SenderStep(p)
<1>1. snd[p].at = "reset"
  BY DEF Reset, At
<1>2. /\ snd' \in [Procs -> Records]
      /\ \A q \in Procs \ {p} : snd'[q] = snd[q]
      /\ snd'[p].at = "route" /\ snd'[p].dest = snd[p].dest /\ snd'[p].want = snd[p].want
      /\ snd'[p].idx = snd[p].idx
  BY GotoFacts DEF Reset, SenderState, TypeParts, Places, Sending
<1> QED
  BY <1>1, <1>2
  DEF Reset, SenderState, SenderStep, TypeParts, arpVars, HasEntry, Named, Sending

LEMMA ResolvedStep ==
  ASSUME NEW p \in Procs, SenderState(p), Resolved(p)
  PROVE  SenderStep(p)
<1>1. arppid = NONE /\ snd[p].at = "route"
  BY DEF Resolved, At, SenderState, Asks
<1>2. /\ snd' \in [Procs -> Records]
      /\ \A q \in Procs \ {p} : snd'[q] = snd[q]
      /\ snd'[p].at \in {"out", "rgate", "route"}
      /\ snd'[p].dest = snd[p].dest /\ snd'[p].want = snd[p].want /\ snd'[p].idx = snd[p].idx
  <2>1. ASSUME NEW at \in {"out", "rgate"}, Goto(p, at) PROVE <1>2
    BY <2>1, GotoFacts DEF SenderState, TypeParts, Places, Sending
  <2>2. CASE snd' = snd
    BY <1>1, <2>2 DEF SenderState, TypeParts
  <2> QED
    BY <2>1, <2>2 DEF Resolved
<1>3. panicked' \in BOOLEAN
  BY DEF Resolved, SenderState, TypeParts
<1> QED
  BY <1>1, <1>2, <1>3
  DEF Resolved, SenderState, SenderStep, TypeParts, arpVars, pidVars, HasEntry, Named, Sending

LEMMA ViaGatewayStep ==
  ASSUME NEW p \in Procs, SenderState(p), ViaGateway(p)
  PROVE  SenderStep(p)
<1> DEFINE k == snd[p].idx
<1>1. arppid = NONE /\ snd[p].at = "rgate"
  BY DEF ViaGateway, At, SenderState, Asks
<1>2. /\ snd' \in [Procs -> Records]
      /\ \A q \in Procs \ {p} : snd'[q] = snd[q]
      /\ snd'[p].at = "find" /\ snd'[p].want = Gateway
  <2>1. snd' = [snd EXCEPT ![p].at = "find", ![p].want = Gateway, ![p].gate = TRUE]
    BY DEF ViaGateway
  <2>2. snd \in [Procs -> Records] /\ "find" \in Places /\ Gateway \in Hosts
    BY ArpAssumption DEF SenderState, TypeParts, Places, Sending
  <2> QED
    BY ZenonT(60), <2>1, <2>2 DEF Records
<1>3. k \in Table /\ arptab \in [Table -> Entries]
  BY DEF SenderState, TypeParts, Records
<1>4. ~reused => \A i \in Table : i >= atabnxt => i # k
  <2>1. atabnxt \in 0..AR_TAB /\ (~reused => k < atabnxt)
    BY <1>1 DEF SenderState, TypeParts, HasEntry
  <2> QED
    BY <1>3, <2>1, IndexFacts
<1>5. /\ arptab' \in [Table -> Entries]
      /\ \A i \in Table : /\ arptab'[i].arp_Iad = arptab[i].arp_Iad
                          /\ arptab'[i].arp_Ead = arptab[i].arp_Ead
                          /\ i # k => arptab'[i] = arptab[i]
  <2>1. arptab' = [arptab EXCEPT ![k].arp_state = "RGATE"]
    BY DEF ViaGateway, Own
  <2> HIDE DEF k
  <2> QED
    BY <1>3, <2>1 DEF Entries
<1>6. \A i \in Table : arptab'[i].arp_Ead \in {arptab'[i].arp_Iad, ZERO}
  <2>1. \A i \in Table : arptab[i].arp_Ead \in {arptab[i].arp_Iad, ZERO}
    BY <1>1 DEF SenderState
  <2> QED
    BY <1>5, <2>1
<1>7. ~reused => \A i \in Table : i >= atabnxt => arptab'[i].arp_state = "FREE"
  <2>1. ~reused => \A i \in Table : i >= atabnxt => arptab[i].arp_state = "FREE"
    BY DEF SenderState
  <2> QED
    BY <1>4, <1>5, <2>1
<1> HIDE DEF k
<1> QED
  BY <1>1, <1>2, <1>5, <1>6, <1>7
  DEF ViaGateway, SenderState, SenderStep, TypeParts, pidVars, HasEntry, Named, Sending

(* Every step of the process that has the mutex, but the last. *)
LEMMA SenderStepsKeep ==
  ASSUME ArpInv, NEW p \in Procs,
         \/ Find(p) \/ ReadSize(p) \/ WriteSize(p) \/ ReadNext(p) \/ WriteNext(p) \/ Wrap(p)
         \/ Fill(p) \/ Check(p) \/ Ask(p) \/ Recvtim(p) \/ Reset(p) \/ Resolved(p) \/ ViaGateway(p)
  PROVE  ArpInv'
<1>1. snd[p].at \in Sending
  BY DEF Find, ReadSize, WriteSize, ReadNext, WriteNext, Wrap, Fill, Check, Ask, Recvtim, Reset,
         Resolved, ViaGateway, At, Sending
<1>2. ~overrun
  BY DEF Find, ReadSize, WriteSize, ReadNext, WriteNext, Wrap, Fill, Check, Ask, Recvtim, Reset,
         Resolved, ViaGateway, At
<1>3. SenderState(p)
  BY <1>1, <1>2, SenderHas
<1>4. SenderStep(p)
  BY <1>3, FindStep, ReadSizeStep, WriteSizeStep, ReadNextStep, WriteNextStep, WrapStep, FillStep,
     CheckStep, AskStep, RecvtimStep, ResetStep, ResolvedStep, ViaGatewayStep
<1> QED
  BY <1>1, <1>2, <1>4, SenderStepKeeps

-----------------------------------------------------------------------------
(* The steps that take and give back the mutex, and the input daemon's. *)

LEMMA RouteKeeps ==
  ASSUME ArpInv, NEW p \in Procs, NEW d \in Hosts \cup {Far}, Route(p, d)
  PROVE  ArpInv'
<1>1. snd[p].at = "idle" /\ TypeParts /\ ~overrun
  BY TypeIsParts DEF Route, At, ArpInv
<1>2. /\ snd' \in [Procs -> Records]
      /\ \A q \in Procs \ {p} : snd'[q] = snd[q]
      /\ snd'[p].at = "nmutex"
  <2>1. snd' = [snd EXCEPT ![p].at = "nmutex", ![p].dest = d]
    BY DEF Route
  <2>2. snd \in [Procs -> Records] /\ "nmutex" \in Places
    BY <1>1 DEF TypeParts, Places
  <2> QED
    BY ZenonT(60), <2>1, <2>2 DEF Records
<1>3. /\ \A q \in Procs : snd'[q].at \in Sending => snd'[q] = snd[q]
      /\ \A q \in Procs : snd[q].at \in Sending => snd'[q] = snd[q]
  BY <1>1, <1>2 DEF Sending
<1>4. UNCHANGED <<arptab, atabsiz, atabnxt, reused, arppid, arpwant, mail, nmutex, sent, panicked, overrun>>
  BY DEF Route, arpVars, pidVars
<1>5. ArpTypeOK'
  BY <1>1, <1>2, <1>4, TypeIsParts DEF TypeParts
<1>6. LockInv' /\ WantInv'
  BY <1>3, <1>4 DEF ArpInv, LockInv, WantInv
<1>7. AskerInv'
  <2>1. arppid # NONE => arppid \in Procs /\ snd[arppid].at \in Sending
    BY <1>1 DEF TypeParts, ArpInv, AskerInv, Sending
  <2> QED
    BY <1>3, <1>4, <2>1 DEF ArpInv, AskerInv
<1>8. AddressInv'
  BY <1>3, <1>4 DEF ArpInv, AddressInv, Own, Sending
<1>9. TakenInv'
  <2>1. HasEntry \subseteq Sending /\ Named \subseteq Sending /\ "next2" \in Sending
    BY DEF HasEntry, Named, Sending
  <2> QED
    BY <1>3, <1>4, <2>1 DEF ArpInv, TakenInv, Own
<1>10. NextInv'
  BY <1>3, <1>4 DEF ArpInv, NextInv, Sending
<1> QED
  BY <1>4, <1>5, <1>6, <1>7, <1>8, <1>9, <1>10 DEF ArpInv, RightHost

LEMMA LockKeeps ==
  ASSUME ArpInv, NEW p \in Procs, Lock(p)
  PROVE  ArpInv'
<1>1. nmutex = NONE /\ nmutex' = p /\ snd[p].at = "nmutex" /\ TypeParts /\ ~overrun
  BY TypeIsParts DEF Lock, At, ArpInv
<1> DEFINE w == IF snd[p].dest = Far THEN Gateway ELSE snd[p].dest
<1>2. w \in Hosts /\ w \in {snd[p].dest, Gateway}
  BY <1>1, ArpAssumption DEF TypeParts, Records
<1>3. snd' = [snd EXCEPT ![p].at = "find", ![p].want = w]
  BY DEF Lock
<1> HIDE DEF w
<1>4. /\ snd' \in [Procs -> Records]
      /\ \A q \in Procs \ {p} : snd'[q] = snd[q]
      /\ snd'[p].at = "find" /\ snd'[p].dest = snd[p].dest /\ snd'[p].want = w
  <2>1. snd \in [Procs -> Records] /\ "find" \in Places
    BY <1>1 DEF TypeParts, Places, Sending
  <2> QED
    BY ZenonT(60), <1>2, <1>3, <2>1 DEF Records
<1>5. \A q \in Procs : snd[q].at \notin Sending
  BY <1>1, TableFacts DEF ArpInv, LockInv
<1>6. arppid = NONE
  BY <1>1 DEF ArpInv, AskerInv
<1>7. UNCHANGED <<arptab, atabsiz, atabnxt, reused, arppid, arpwant, mail, sent, panicked, overrun>>
  BY DEF Lock, arpVars, pidVars
<1>8. ArpTypeOK'
  BY <1>1, <1>4, <1>7, TypeIsParts DEF TypeParts
<1>9. LockInv'
  BY <1>1, <1>4, <1>5 DEF LockInv, Sending
<1>10. WantInv'
  BY <1>2, <1>4, <1>5 DEF WantInv
<1>11. AskerInv'
  BY <1>6, <1>7 DEF AskerInv
<1>12. AddressInv'
  BY <1>5, <1>7 DEF ArpInv, AddressInv, Sending
<1>13. TakenInv'
  <2>1. HasEntry \subseteq Sending /\ Named \subseteq Sending /\ "next2" \in Sending
    BY DEF HasEntry, Named, Sending
  <2>2. "find" \notin HasEntry /\ "find" \notin Named
    BY DEF HasEntry, Named
  <2> QED
    BY <1>4, <1>5, <1>7, <2>1, <2>2 DEF ArpInv, TakenInv
<1>14. NextInv'
  BY <1>5, <1>7 DEF ArpInv, NextInv, Sending
<1> QED
  BY <1>7, <1>8, <1>9, <1>10, <1>11, <1>12, <1>13, <1>14 DEF ArpInv, RightHost

(* The Ethernet address of the packet is that of the entry, which bears the  *)
(* IP address that the sender wants, or none.                                 *)
LEMMA OutKeeps ==
  ASSUME ArpInv, NEW p \in Procs, Out(p)
  PROVE  ArpInv'
<1>1. snd[p].at = "out" /\ ~overrun
  BY DEF Out, At
<1>2. SenderState(p)
  BY <1>1, SenderHas DEF Sending
<1>3. /\ arppid = NONE /\ snd[p].idx \in Table /\ snd[p].dest \in Hosts \cup {Far}
      /\ arptab[snd[p].idx].arp_Ead \in Hosts \cup {ZERO}
  BY <1>1, <1>2 DEF SenderState, TypeParts, Records, Entries, Asks
<1>4. Idle \in Records /\ Idle.at = "idle"
  BY TableFacts, ArpAssumption DEF Idle, Records, Places
<1>5. snd' = [snd EXCEPT ![p] = Idle] /\ snd \in [Procs -> Records]
  BY <1>2 DEF Out, SenderState, TypeParts
<1>6. /\ snd' \in [Procs -> Records]
      /\ \A q \in Procs \ {p} : snd'[q] = snd[q]
      /\ snd'[p].at = "idle"
  BY <1>4, <1>5
<1>7. \A q \in Procs : snd'[q].at \notin Sending
  BY <1>2, <1>6 DEF SenderState, ArpInv, LockInv, Sending
<1>8. /\ UNCHANGED <<arptab, atabsiz, atabnxt, reused, arppid, arpwant, mail, panicked, overrun>>
      /\ nmutex' = NONE
      /\ sent' = [dest |-> snd[p].dest, e_dest |-> arptab[snd[p].idx].arp_Ead]
  BY DEF Out, arpVars, pidVars, Own
<1>9. ArpTypeOK'
  BY <1>2, <1>3, <1>6, <1>8, TypeIsParts DEF TypeParts, SenderState
<1>10. LockInv'
  BY <1>7, <1>8, TableFacts DEF LockInv
<1>11. WantInv' /\ AskerInv'
  BY <1>3, <1>7, <1>8 DEF WantInv, AskerInv
<1>12. AddressInv'
  BY <1>1, <1>2, <1>8 DEF AddressInv, SenderState
<1>13. TakenInv'
  <2>1. HasEntry \subseteq Sending /\ Named \subseteq Sending /\ "next2" \in Sending
    BY DEF HasEntry, Named, Sending
  <2> QED
    BY <1>7, <1>8, <2>1 DEF ArpInv, TakenInv
<1>14. NextInv'
  BY <1>1, <1>2, <1>8 DEF NextInv, SenderState
<1>15. RightHost'
  <2> SUFFICES ASSUME ~reused
               PROVE  arptab[snd[p].idx].arp_Ead \in {snd[p].dest, Gateway, ZERO}
    BY <1>8 DEF RightHost
  <2>1. arptab[snd[p].idx].arp_Iad = snd[p].want
    BY <1>1, <1>2 DEF SenderState, Named
  <2> QED
    BY <1>1, <1>2, <1>3, <2>1 DEF SenderState
<1> QED
  BY <1>9, <1>10, <1>11, <1>12, <1>13, <1>14, <1>15 DEF ArpInv

(* What an ARP packet from h does to the table: one entry may be given to h, *)
(* and that is an entry of h already or the next one.                         *)
LEMMA LearnFacts ==
  ASSUME TypeParts, ~overrun, NEW h \in Hosts, Learn(h)
  PROVE  \E i \in Table :
           /\ arptab' \in [Table -> Entries]
           /\ \A j \in Table \ {i} : arptab'[j] = arptab[j]
           /\ arptab'[i].arp_Iad = h /\ arptab'[i].arp_state = "RSLVD"
           /\ arptab'[i].arp_Ead = h \/ arptab'[i] = arptab[i]
           /\ \/ /\ arptab[i].arp_Iad = h /\ arptab[i].arp_state # "FREE"
                 /\ UNCHANGED <<atabsiz, atabnxt, reused>>
              \/ /\ i = atabnxt
                 /\ atabsiz' \in 0..AR_TAB /\ atabnxt' \in Table /\ reused' \in BOOLEAN
                 /\ reused => reused'
                 /\ ~reused' => atabnxt' = i + 1
<1> DEFINE r == [arp_state |-> "RSLVD", arp_Iad |-> h, arp_Ead |-> h]
           found == Matches(h)
           i == IF found # {} THEN First(found) ELSE atabnxt
<1>1. i \in Table
  BY DEF Learn
<1>2. CASE found # {}
  <2>1. i \in Table /\ arptab[i].arp_Iad = h /\ arptab[i].arp_state # "FREE"
    BY <1>2, FoundEntry
  <2>2. UNCHANGED <<atabsiz, atabnxt, reused>>
    BY <1>2 DEF Learn
  <2>3. \/ arptab[i].arp_state = "RSLVD" /\ arptab' = arptab
        \/ arptab' = [arptab EXCEPT ![i] = r]
    BY <1>2 DEF Learn
  <2> HIDE DEF i
  <2>4. /\ arptab' \in [Table -> Entries]
        /\ \A j \in Table \ {i} : arptab'[j] = arptab[j]
        /\ arptab'[i].arp_Iad = h /\ arptab'[i].arp_state = "RSLVD"
        /\ arptab'[i].arp_Ead = h \/ arptab'[i] = arptab[i]
    <3>1. CASE arptab[i].arp_state = "RSLVD" /\ arptab' = arptab
      BY <2>1, <3>1 DEF TypeParts
    <3>2. CASE arptab' = [arptab EXCEPT ![i] = r]
      <4>1. r \in Entries /\ r.arp_Iad = h /\ r.arp_state = "RSLVD" /\ r.arp_Ead = h
        BY DEF Entries
      <4> HIDE DEF r
      <4> QED
        BY <2>1, <3>2, <4>1 DEF TypeParts
    <3> QED
      BY <2>3, <3>1, <3>2
  <2> QED
    BY <2>1, <2>2, <2>4
<1>3. CASE found = {}
  <2>1. i = atabnxt /\ arptab' = [arptab EXCEPT ![i] = r]
    BY <1>3 DEF Learn
  <2>2. /\ atabsiz' = IF atabsiz < AR_TAB THEN atabsiz + 1 ELSE atabsiz
        /\ atabnxt' = IF atabnxt + 1 >= AR_TAB THEN 0 ELSE atabnxt + 1
        /\ reused' = (reused \/ atabnxt + 1 >= AR_TAB)
    BY <1>3 DEF Learn
  <2> HIDE DEF i
  <2>3. /\ atabsiz' \in 0..AR_TAB /\ atabnxt' \in Table /\ reused' \in BOOLEAN
        /\ reused => reused'
        /\ ~reused' => atabnxt' = i + 1
    <3>1. atabsiz \in 0..AR_TAB /\ atabnxt \in 0..AR_TAB /\ reused \in BOOLEAN
      BY DEF TypeParts
    <3>2. atabsiz' \in 0..AR_TAB /\ atabnxt' \in Table
      BY <2>2, <3>1, TableFacts DEF Table
    <3> QED
      BY <2>1, <2>2, <3>1, <3>2
  <2>4. r \in Entries /\ r.arp_Iad = h /\ r.arp_state = "RSLVD" /\ r.arp_Ead = h
    BY DEF Entries
  <2> HIDE DEF r
  <2>5. /\ arptab' \in [Table -> Entries]
        /\ \A j \in Table \ {i} : arptab'[j] = arptab[j]
        /\ arptab'[i] = r
    BY <1>1, <2>1, <2>4 DEF TypeParts
  <2> QED
    BY <1>1, <2>1, <2>3, <2>4, <2>5
<1> QED
  BY <1>2, <1>3

LEMMA ArpInKeeps ==
  ASSUME ArpInv, NEW h \in Hosts, NEW op \in {"request", "reply"}, ArpIn(h, op)
  PROVE  ArpInv'
<1>1. TypeParts /\ ~overrun /\ Learn(h)
  BY TypeIsParts DEF ArpInv, ArpIn
<1>2. PICK i \in Table :
        /\ arptab' \in [Table -> Entries]
        /\ \A j \in Table \ {i} : arptab'[j] = arptab[j]
        /\ arptab'[i].arp_Iad = h /\ arptab'[i].arp_state = "RSLVD"
        /\ arptab'[i].arp_Ead = h \/ arptab'[i] = arptab[i]
        /\ \/ /\ arptab[i].arp_Iad = h /\ arptab[i].arp_state # "FREE"
              /\ UNCHANGED <<atabsiz, atabnxt, reused>>
           \/ /\ i = atabnxt
              /\ atabsiz' \in 0..AR_TAB /\ atabnxt' \in Table /\ reused' \in BOOLEAN
              /\ reused => reused'
              /\ ~reused' => atabnxt' = i + 1
  BY <1>1, LearnFacts
<1>3. /\ UNCHANGED <<arpwant, nmutex, snd, sent, panicked, overrun>>
      /\ \/ arppid' = NONE /\ arppid # NONE /\ mail' = mail \cup {arppid}
         \/ UNCHANGED <<arppid, mail>>
  BY DEF ArpIn, Answer, Wakes
<1>4. ArpTypeOK'
  <2>1. /\ arppid' \in Procs \cup {NONE} /\ mail' \subseteq Procs
        /\ atabsiz' \in 0..AR_TAB /\ atabnxt' \in 0..AR_TAB /\ reused' \in BOOLEAN
    BY <1>1, <1>2, <1>3, TableFacts DEF TypeParts
  <2> QED
    BY <1>1, <1>2, <1>3, <2>1, TypeIsParts DEF TypeParts
<1>5. LockInv' /\ WantInv'
  BY <1>3 DEF ArpInv, LockInv, WantInv
<1>6. AskerInv'
  BY <1>3 DEF ArpInv, AskerInv
<1>7. AddressInv'
  <2> SUFFICES ASSUME NEW j \in Table
               PROVE  \/ arptab'[j].arp_Ead \in {arptab'[j].arp_Iad, ZERO}
                      \/ \E p \in Procs : snd[p].at = "ead" /\ snd[p].idx = j
    BY <1>3 DEF AddressInv, Own
  <2>1. \/ arptab[j].arp_Ead \in {arptab[j].arp_Iad, ZERO}
        \/ \E p \in Procs : snd[p].at = "ead" /\ snd[p].idx = j
    BY DEF ArpInv, AddressInv, Own
  <2> QED
    BY <1>2, <2>1
<1>8. TakenInv'
  <2> SUFFICES ASSUME ~reused'
               PROVE  /\ \A j \in Table : j >= atabnxt' => arptab'[j].arp_state = "FREE"
                      /\ \A p \in Procs :
                           /\ snd[p].at = "next2" => snd[p].idx <= atabnxt'
                           /\ snd[p].at \in HasEntry => snd[p].idx < atabnxt'
                           /\ snd[p].at \in Named => arptab'[snd[p].idx].arp_Iad = snd[p].want
    BY <1>3 DEF TakenInv, Own
  <2>1. ~reused
    BY <1>2
  <2>2. /\ \A j \in Table : j >= atabnxt => arptab[j].arp_state = "FREE"
        /\ \A p \in Procs :
             /\ snd[p].at = "next2" => snd[p].idx <= atabnxt
             /\ snd[p].at \in HasEntry => snd[p].idx < atabnxt
             /\ snd[p].at \in Named => arptab[snd[p].idx].arp_Iad = snd[p].want
    BY <1>1, <2>1 DEF ArpInv, TakenInv, Own
  <2>3. atabnxt \in Nat /\ \A p \in Procs : snd[p].idx \in Table
    BY <1>1, TableFacts DEF TypeParts, Records
  <2>4. i \in Nat /\ \A j \in Table : j \in Nat
    BY TableFacts
  <2>5. Named \subseteq HasEntry
    BY DEF Named, HasEntry
  <2>6. CASE arptab[i].arp_Iad = h /\ arptab[i].arp_state # "FREE" /\ atabnxt' = atabnxt
    <3>1. ~(i >= atabnxt)
      BY <2>2, <2>6
    <3>2. \A j \in Table : j >= atabnxt => j # i
      BY <2>4, <3>1
    <3>3. ASSUME NEW p \in Procs, snd[p].at \in Named
          PROVE  arptab'[snd[p].idx].arp_Iad = snd[p].want
      BY <1>2, <2>2, <2>3, <2>6, <3>3
    <3> QED
      BY <1>2, <2>2, <2>6, <3>2, <3>3
  <2>7. CASE i = atabnxt /\ atabnxt' = i + 1
    <3>1. \A j \in Table : j >= i + 1 => arptab'[j].arp_state = "FREE"
      BY <1>2, <2>2, <2>4, <2>7
    <3>2. ASSUME NEW p \in Procs
          PROVE  /\ snd[p].at = "next2" => snd[p].idx <= i + 1
                 /\ snd[p].at \in HasEntry => snd[p].idx < i + 1
      <4>1. snd[p].idx \in Nat
        BY <2>3, <2>4
      <4>2. /\ snd[p].at = "next2" => snd[p].idx <= i
            /\ snd[p].at \in HasEntry => snd[p].idx < i
        BY <2>2, <2>7
      <4> QED
        BY <2>4, <4>1, <4>2
    <3>3. ASSUME NEW p \in Procs, snd[p].at \in Named
          PROVE  arptab'[snd[p].idx].arp_Iad = snd[p].want
      <4>1. snd[p].idx < i /\ snd[p].idx \in Table
        BY <2>2, <2>3, <2>5, <2>7, <3>3
      <4>2. snd[p].idx # i
        BY <2>4, <4>1
      <4> QED
        BY <1>2, <2>2, <3>3, <4>1, <4>2
    <3> QED
      BY <2>7, <3>1, <3>2, <3>3
  <2> QED
    BY <1>2, <2>6, <2>7
<1>9. NextInv'
  BY <1>2, <1>3, TableFacts DEF ArpInv, NextInv
<1>10. RightHost'
  BY <1>2, <1>3 DEF ArpInv, RightHost
<1> QED
  BY <1>4, <1>5, <1>6, <1>7, <1>8, <1>9, <1>10 DEF ArpInv

(* What is left of the invariant when the counters and arppid are gone. *)
LEMMA OverrunKeeps ==
  ASSUME ArpInv, NEW h \in Hosts, NEW op \in {"request", "reply"}, Overrun(h, op)
  PROVE  ArpInv'
<1>1. overrun' /\ overrun' \in BOOLEAN /\ UNCHANGED <<arptab, reused, nmutex, snd, sent, panicked>>
  BY DEF Overrun
<1>2. TypeParts
  BY TypeIsParts DEF ArpInv
<1>3. PICK pid \in Procs \cup {NONE}, want \in Hosts \cup {NONE} : Answer(h, op, pid, want)
  BY DEF Overrun
<1>4. arpwant' \in Hosts \cup {NONE} /\ arppid' \in Procs \cup {NONE} /\ mail' \subseteq Procs
  BY <1>2, <1>3 DEF Answer, Wakes, TypeParts
<1>5. ArpTypeOK'
  BY <1>1, <1>2, <1>4, TypeIsParts DEF TypeParts
<1>6. LockInv' /\ WantInv' /\ AddressInv' /\ RightHost'
  BY <1>1 DEF ArpInv, LockInv, WantInv, AddressInv, RightHost, Own
<1>7. AskerInv' /\ TakenInv' /\ NextInv'
  BY <1>1 DEF AskerInv, TakenInv, NextInv
<1> QED
  BY <1>5, <1>6, <1>7 DEF ArpInv

-----------------------------------------------------------------------------
(* The theorems. *)

LEMMA InitInv ==
  ASSUME Init
  PROVE  ArpInv
<1>1. Idle \in Records /\ Idle.at = "idle"
  BY TableFacts, ArpAssumption DEF Idle, Records, Places
<1>2. \A p \in Procs : snd[p] = Idle /\ snd[p].at \notin Sending
  BY <1>1 DEF Init, Sending
<1>3. /\ arptab \in [Table -> Entries]
      /\ \A i \in Table : arptab[i].arp_state = "FREE" /\ arptab[i].arp_Ead = ZERO
  BY DEF Init, Entries
<1>4. ArpTypeOK
  BY <1>1, <1>3, TableFacts, TypeIsParts, ArpAssumption DEF Init, TypeParts
<1>5. LockInv /\ WantInv /\ AskerInv
  BY <1>2, TableFacts DEF Init, LockInv, WantInv, AskerInv
<1>6. AddressInv
  BY <1>3 DEF AddressInv
<1>7. TakenInv
  <2>1. HasEntry \subseteq Sending /\ Named \subseteq Sending /\ "next2" \in Sending
    BY DEF HasEntry, Named, Sending
  <2> QED
    BY <1>2, <1>3, <2>1 DEF TakenInv
<1>8. NextInv
  BY TableFacts DEF Init, NextInv
<1>9. RightHost
  BY DEF Init, RightHost
<1> QED
  BY <1>4, <1>5, <1>6, <1>7, <1>8, <1>9 DEF ArpInv

LEMMA NextKeeps ==
  ASSUME ArpInv, [Next]_vars
  PROVE  ArpInv'
<1>1. ASSUME NEW p \in Procs, Steps(p) PROVE ArpInv'
  BY <1>1, LockKeeps, SenderStepsKeep, OutKeeps DEF Steps
<1>2. ASSUME NEW p \in Procs, NEW d \in Hosts \cup {Far}, Route(p, d) PROVE ArpInv'
  BY <1>2, RouteKeeps
<1>3. ASSUME NEW h \in Hosts, NEW op \in {"request", "reply"}, ArpIn(h, op) PROVE ArpInv'
  BY <1>3, ArpInKeeps
<1>4. ASSUME NEW h \in Hosts, NEW op \in {"request", "reply"}, Overrun(h, op) PROVE ArpInv'
  BY <1>4, OverrunKeeps
<1>5. CASE UNCHANGED vars
  BY <1>5 DEF vars, arpVars, pidVars, ArpInv, ArpTypeOK, LockInv, WantInv, AskerInv, AddressInv,
              TakenInv, NextInv, RightHost, Own
<1> QED
  BY <1>1, <1>2, <1>3, <1>4, <1>5 DEF Next

(* The invariant of arpfind(), getpath(), route() and arp_in(): who has the  *)
(* mutex and what the entries that are in use hold, always; who is waited    *)
(* for and what the counters say, until an entry is written over them.       *)
THEOREM ArpInvariance == Spec => []ArpInv
BY InitInv, NextKeeps, PTL DEF Spec

(* No host is sent another's packets until an entry is given out again, for  *)
(* any number of senders and hosts and any size of table: arpfind() and      *)
(* arp_in() change the table between any two of a sender's accesses.         *)
THEOREM ArpRightHost == Spec => []RightHost
<1>1. ArpInv => RightHost
  BY DEF ArpInv
<1> QED
  BY <1>1, ArpInvariance, PTL

(* Until it is written over, Arp.arppid only ever names the process that is *)
(* in the loop of getpath().                                                 *)
THEOREM ArpAsker == Spec => []AskerInGetpath
<1>1. ArpInv => AskerInGetpath
  BY DEF ArpInv, AskerInv, AskerInGetpath
<1> QED
  BY <1>1, ArpInvariance, PTL

(* An entry is written past the table only while a sender in arpfind() has   *)
(* incremented atabnxt and not yet tested it, however many senders there     *)
(* are, and whatever increments of atabnxt have been lost.                   *)
THEOREM ArpOverrun == Spec => OverrunInWindow
<1>1. ASSUME ArpInv, Next, overrun' # overrun PROVE \E p \in Procs : snd[p].at = "wrap"
  <2>1. ASSUME NEW h \in Hosts, NEW op \in {"request", "reply"}, Overrun(h, op)
        PROVE  \E p \in Procs : snd[p].at = "wrap"
    BY <1>1, <2>1 DEF Overrun, ArpInv, NextInv
  <2>2. ASSUME NEW p \in Procs, Steps(p) PROVE overrun' = overrun
    BY <2>2 DEF Steps, Lock, Find, ReadSize, WriteSize, ReadNext, WriteNext, Wrap, Fill, Check,
                Ask, Recvtim, Reset, Resolved, ViaGateway, Out
  <2>3. ASSUME NEW p \in Procs, NEW d \in Hosts \cup {Far}, Route(p, d) PROVE overrun' = overrun
    BY <2>3 DEF Route
  <2>4. ASSUME NEW h \in Hosts, NEW op \in {"request", "reply"}, ArpIn(h, op)
        PROVE  overrun' = overrun
    BY <2>4 DEF ArpIn
  <2> QED
    BY <1>1, <2>1, <2>2, <2>3, <2>4 DEF Next
<1>2. ArpInv /\ [Next]_vars => [overrun' # overrun => \E p \in Procs : snd[p].at = "wrap"]_vars
  BY <1>1
<1> QED
  BY <1>2, ArpInvariance, PTL DEF Spec, OverrunInWindow

(* arp_in() sends a message only to a process in the loop of getpath(), and   *)
(* only after it has entered the address that this process waits for; but    *)
(* for the packet that is written over arppid.                                *)
THEOREM ArpWoken == Spec => WokenForCause
<1> DEFINE Cause ==
      \A p \in mail' \ mail :
         ~overrun' =>
            /\ snd[p].at \in {"ask", "recvtim", "reset"}
            /\ \E i \in Table : /\ arptab'[i].arp_Iad = snd[p].want
                                /\ arptab'[i].arp_state = "RSLVD"
<1>1. ASSUME ArpInv, Next PROVE Cause
  <2>1. ASSUME NEW h \in Hosts, NEW op \in {"request", "reply"}, ArpIn(h, op) PROVE Cause
    <3>1. TypeParts /\ ~overrun /\ Learn(h)
      BY <1>1, <2>1, TypeIsParts DEF ArpInv, ArpIn
    <3>2. \E i \in Table : arptab'[i].arp_Iad = h /\ arptab'[i].arp_state = "RSLVD"
      <4> HIDE DEF Cause
      <4> QED
        BY <3>1, LearnFacts
    <3>3. ASSUME NEW p \in mail' \ mail
          PROVE  /\ snd[p].at \in {"ask", "recvtim", "reset"}
                 /\ snd[p].want = h
      <4>1. Wakes(h, arppid, arpwant) /\ p = arppid
        BY <2>1, <3>3 DEF ArpIn, Answer
      <4> QED
        BY <1>1, <3>1, <4>1 DEF Wakes, ArpInv, AskerInv
    <3> QED
      BY <3>2, <3>3
  <2>2. ASSUME NEW p \in Procs, Steps(p) PROVE mail' \subseteq mail
    BY <2>2 DEF Steps, Lock, Find, ReadSize, WriteSize, ReadNext, WriteNext, Wrap, Fill, Check,
                Ask, Recvtim, Reset, Resolved, ViaGateway, Out, pidVars
  <2>3. ASSUME NEW p \in Procs, NEW d \in Hosts \cup {Far}, Route(p, d) PROVE mail' \subseteq mail
    BY <2>3 DEF Route, pidVars
  <2>4. CASE mail' \subseteq mail
    BY <2>4
  <2>5. ASSUME NEW h \in Hosts, NEW op \in {"request", "reply"}, Overrun(h, op) PROVE Cause
    BY <2>5 DEF Overrun
  <2> QED
    BY <1>1, <2>1, <2>2, <2>3, <2>4, <2>5 DEF Next
<1>2. ArpInv /\ [Next]_vars => [Cause]_vars
  BY <1>1
<1> QED
  BY <1>2, ArpInvariance, PTL DEF Spec, WokenForCause
=============================================================================
