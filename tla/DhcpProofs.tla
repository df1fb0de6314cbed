----------------------------- MODULE DhcpProofs -----------------------------
(***************************************************************************)
(* What the DHCP client does to the host's address is right for any number *)
(* of servers, leases, retries and waiting datagrams.                      *)
(***************************************************************************)
EXTENDS Dhcp, TLAPS

(* The client has asked the server of an ACK for the address in it. *)
AckAsked(m) ==
    m.type = "ACK" => \E r \in asked : r.type = "REQUEST" /\ r.ip = m.ip /\ r.server = m.server

(* So it is for the ACK in the buffer, where it may stay for any number of  *)
(* rounds, and for those that wait.                                         *)
AcksAsked ==
    /\ AckAsked(client.buff)
    /\ \A i \in 1..Len(inq) : AckAsked(inq[i])

DhcpInv ==
    /\ DhcpTypeOK
    /\ AcksAsked
    /\ RequestsPaired
    /\ AddressFromAck
    /\ StartupTold

-----------------------------------------------------------------------------
(* The types of the datagrams. *)

Datagrams == Requests \cup Replies \cup {Junk}

LEMMA DatagramFields ==
  ASSUME NEW m \in Datagrams
  PROVE  /\ m.ip \in Addrs
         /\ m.server \in Servers \cup {NoServer}
         /\ m.lease \in 0..(TimeMod - 1)
<1>1. CASE m \in Requests
  BY <1>1, DhcpAssumption DEF Requests
<1>2. CASE m \in Replies
  BY <1>2, DhcpAssumption DEF Replies, Addrs
<1>3. CASE m = Junk
  BY <1>3, DhcpAssumption DEF Junk, Addrs
<1> QED
  BY <1>1, <1>2, <1>3 DEF Datagrams

(* Offers and acknowledgements come from a server, for its own address. *)
LEMMA OwnAddress ==
  ASSUME NEW m \in Datagrams, m.type \in {"OFFER", "ACK"}
  PROVE  m.ip = m.server
BY DEF Datagrams, Requests, Replies, Junk

LEMMA SevenEighths ==
  ASSUME NEW l \in 0..(TimeMod - 1)
  PROVE  l - (l \div 8) \in 0..(TimeMod - 1)
BY DhcpAssumption

LEMMA Unsigned ==
  ASSUME NEW t \in Int
  PROVE  t % TimeMod \in 0..(TimeMod - 1)
BY DhcpAssumption

-----------------------------------------------------------------------------
(* What the steps of the client are made of keeps the client's type. *)

Clients ==
    [state : {"INIT", "SELECTING", "REQUESTING", "BOUND", "REBINDING"},
     reading : {"discover", "request", "idle", "dead"},
     tries : 0..DHCP_CLIENT_RETRIES,
     buff : Datagrams,
     ip_local : Addrs,
     ip_server : Servers \cup {NoServer},
     time_rebind : 0..(TimeMod - 1)]

LEMMA ParseType ==
  ASSUME NEW d \in Clients
  PROVE  /\ Parse(d) \in Clients
         /\ Parse(d).buff = d.buff
         /\ d.buff.type \in {"OFFER", "ACK"} =>
              Parse(d).ip_local = d.buff.ip /\ Parse(d).ip_server = d.buff.server
<1> DEFINE b == d.buff
           t == IF b.lease > 0 THEN b.lease - (b.lease \div 8) ELSE d.time_rebind
<1>1. /\ b \in Datagrams
      /\ b.ip \in Addrs /\ b.server \in Servers \cup {NoServer} /\ b.lease \in 0..(TimeMod - 1)
  BY DatagramFields DEF Clients
<1>2. t \in 0..(TimeMod - 1)
  BY <1>1, SevenEighths DEF Clients
<1>3. Parse(d) = IF b.type \in {"OFFER", "ACK", "NAK"}
                 THEN [d EXCEPT !.ip_local = b.ip, !.ip_server = b.server, !.time_rebind = t]
                 ELSE d
  BY DEF Parse
<1> HIDE DEF b, t
<1>4. [d EXCEPT !.ip_local = b.ip, !.ip_server = b.server, !.time_rebind = t] \in Clients
  BY <1>1, <1>2 DEF Clients
<1>5. CASE b.type \in {"OFFER", "ACK", "NAK"}
  BY <1>1, <1>2, <1>3, <1>4, <1>5 DEF b, Clients
<1> QED
  BY <1>3, <1>5 DEF b

LEMMA SendingType ==
  ASSUME NEW d \in Clients, NEW t \in {"DISCOVER", "REQUEST"},
         NEW w \in {"discover", "request"}
  PROVE  /\ Sending(d, t, w, 1) \in Clients
         /\ Sending(d, t, w, 1).buff \in Requests
         /\ Sending(d, t, w, 1).buff = Request(t, d)
         /\ Sending(d, t, w, 1).reading = w
<1>1. Request(t, d) \in Requests
  BY DEF Request, Requests, Clients
<1>2. 1 \in 0..DHCP_CLIENT_RETRIES
  BY DhcpAssumption
<1> DEFINE r == Request(t, d)
<1>3. Sending(d, t, w, 1) = [d EXCEPT !.buff = r, !.reading = w, !.tries = 1]
  BY DEF Sending
<1> HIDE DEF r
<1> QED
  BY <1>1, <1>2, <1>3 DEF Clients, Datagrams, r

LEMMA CountdownType ==
  ASSUME NEW d \in Clients
  PROVE  /\ Countdown(d) \in Clients
         /\ Countdown(d).buff = d.buff
         /\ Countdown(d).reading = "idle"
<1>1. (d.time_rebind - DG_DELAY_TIME) % TimeMod \in 0..(TimeMod - 1)
  BY Unsigned, DhcpAssumption DEF Clients
<1> DEFINE t == (d.time_rebind - DG_DELAY_TIME) % TimeMod
           s == IF t = 0 THEN "REBINDING" ELSE "BOUND"
<1>2. Countdown(d) = [d EXCEPT !.time_rebind = t, !.reading = "idle", !.state = s]
  BY DEF Countdown
<1>3. s \in {"REBINDING", "BOUND"}
  OBVIOUS
<1> HIDE DEF t, s
<1> QED
  BY <1>1, <1>2, <1>3 DEF Clients, t

-----------------------------------------------------------------------------
(* What the client may do between two reads, d being the client with what   *)
(* it has read.                                                              *)

Nets == [myaddr : Addrs, mavalid : BOOLEAN]
Mails == Events \cup {"none"}

(* The state that a case of the switch starts from. *)
CaseInv(d) ==
    /\ d \in Clients /\ d.reading # "dead"
    /\ AckAsked(d.buff)
    /\ asked \subseteq Requests /\ RequestsPaired
    /\ Net \in Nets /\ AddressFromAck
    /\ mail \in Mails
    /\ mail = "LEASE_ACQUIRED" => Net.mavalid

ClientStep(d) ==
    /\ client' \in Clients
    /\ client'.buff = d.buff \/ client'.buff \in Requests
    /\ asked \subseteq asked' /\ asked' \subseteq Requests /\ RequestsPaired'
    /\ Net' \in Nets /\ AddressFromAck' /\ (Net.mavalid => Net'.mavalid)
    /\ mail' \in Mails
    /\ client'.reading = "dead" => mail' # "none"
    /\ mail' = "LEASE_ACQUIRED" => Net'.mavalid

LEMMA CaseInitStep ==
  ASSUME NEW d, CaseInv(d), CaseInit(d)
  PROVE  ClientStep(d)
<1> DEFINE e == [d EXCEPT !.state = "SELECTING"]
<1>1. e \in Clients
  BY DEF CaseInv, Clients
<1>2. /\ client' = Sending(e, "DISCOVER", "discover", 1)
      /\ asked' = asked \cup {client'.buff} /\ Net' = Net /\ mail' = mail
  BY DEF CaseInit
<1> HIDE DEF e
<1>3. /\ client' \in Clients /\ client'.buff \in Requests
      /\ client'.buff = Request("DISCOVER", e) /\ client'.reading = "discover"
  BY <1>1, <1>2, SendingType
<1>4. client'.buff.type = "DISCOVER"
  BY <1>3 DEF Request
<1>5. asked' \subseteq Requests /\ asked \subseteq asked' /\ RequestsPaired'
  BY <1>2, <1>3, <1>4 DEF CaseInv, RequestsPaired
<1>6. AddressFromAck'
  BY <1>2, <1>5 DEF CaseInv, AddressFromAck
<1> QED
  BY <1>2, <1>3, <1>5, <1>6 DEF ClientStep, CaseInv

(* The REQUEST is for the address and the server of one and the same offer. *)
LEMMA CaseSelectingStep ==
  ASSUME NEW d, CaseInv(d), CaseSelecting(d)
  PROVE  ClientStep(d)
<1> DEFINE p == Parse(d)
           e == [p EXCEPT !.state = "REQUESTING"]
<1>1. p \in Clients /\ p.buff = d.buff
  BY ParseType DEF CaseInv
<1>2. CASE /\ MsgType(d) = "OFFER"
           /\ client' = Sending(e, "REQUEST", "request", 1)
           /\ asked' = asked \cup {client'.buff}
           /\ mail' = mail /\ Net' = Net
  <2>1. d.buff.type = "OFFER" /\ d.buff \in Datagrams
    BY <1>2 DEF MsgType, CaseInv, Clients
  <2>2. p.ip_local = p.ip_server
    BY <2>1, ParseType, OwnAddress DEF CaseInv
  <2> HIDE DEF p
  <2>3. e \in Clients /\ e.ip_local = p.ip_local /\ e.ip_server = p.ip_server
    BY <1>1 DEF Clients
  <2> HIDE DEF e
  <2>4. /\ client' \in Clients /\ client'.buff \in Requests
        /\ client'.buff = Request("REQUEST", e) /\ client'.reading = "request"
    BY <1>2, <2>3, SendingType
  <2>5. client'.buff.ip = client'.buff.server
    BY <2>2, <2>3, <2>4 DEF Request
  <2>6. asked' \subseteq Requests /\ asked \subseteq asked' /\ RequestsPaired'
    BY <1>2, <2>4, <2>5 DEF CaseInv, RequestsPaired
  <2>7. AddressFromAck'
    BY <1>2, <2>6 DEF CaseInv, AddressFromAck
  <2> QED
    BY <1>2, <2>4, <2>6, <2>7 DEF ClientStep, CaseInv
<1>3. CASE /\ client' = Dead(p) /\ SendStartup("ERROR")
           /\ asked' = asked /\ Net' = Net
  <2> HIDE DEF p
  <2>1. client' \in Clients /\ client'.buff = d.buff /\ client'.reading = "dead"
    BY <1>1, <1>3 DEF Dead, Clients
  <2>2. /\ mail' \in Mails /\ mail' # "none"
        /\ mail' = "LEASE_ACQUIRED" => mail = "LEASE_ACQUIRED"
    BY <1>3 DEF SendStartup, Mails, Events, CaseInv
  <2> QED
    BY <1>3, <2>1, <2>2 DEF ClientStep, CaseInv, RequestsPaired, AddressFromAck
<1> QED
  BY <1>2, <1>3 DEF CaseSelecting

(* An ACK configures the interface with an address that was asked for. *)
LEMMA CaseRequestingStep ==
  ASSUME NEW d, CaseInv(d), CaseRequesting(d)
  PROVE  ClientStep(d)
<1> DEFINE p == Parse(d)
<1>1. p \in Clients /\ p.buff = d.buff
  BY ParseType DEF CaseInv
<1>2. asked' = asked /\ asked' \subseteq Requests /\ RequestsPaired'
  BY DEF CaseRequesting, CaseInv, RequestsPaired
<1>3. CASE /\ MsgType(d) = "ACK"
           /\ Net' = [myaddr |-> p.ip_local, mavalid |-> TRUE]
           /\ SendStartup("LEASE_ACQUIRED")
           /\ client' = Countdown(p)
  <2>1. d.buff.type = "ACK"
    BY <1>3 DEF MsgType
  <2>2. p.ip_local = d.buff.ip
    BY <2>1, ParseType DEF CaseInv
  <2>3. \E r \in asked : r.type = "REQUEST" /\ r.ip = d.buff.ip
    BY <2>1 DEF CaseInv, AckAsked
  <2> HIDE DEF p
  <2>4. client' \in Clients /\ client'.buff = d.buff /\ client'.reading = "idle"
    BY <1>1, <1>3, CountdownType
  <2>5. Net' \in Nets /\ Net'.mavalid /\ Net'.myaddr = d.buff.ip
    BY <1>1, <1>3, <2>2 DEF Nets, Clients
  <2>6. AddressFromAck'
    BY <1>2, <2>3, <2>5 DEF AddressFromAck
  <2>7. mail' \in Mails
    BY <1>3 DEF SendStartup, Mails, Events, CaseInv
  <2> QED
    BY <1>2, <2>4, <2>5, <2>6, <2>7 DEF ClientStep
<1>4. CASE /\ client' \in {[p EXCEPT !.reading = "idle"], [Abort(p) EXCEPT !.reading = "idle"]}
           /\ Net' = Net /\ mail' = mail
  <2> HIDE DEF p
  <2>1. Abort(p) \in Clients /\ Abort(p).buff = d.buff
    BY <1>1 DEF Abort, Clients
  <2>2. client' \in Clients /\ client'.buff = d.buff /\ client'.reading = "idle"
    BY <1>1, <1>4, <2>1 DEF Clients
  <2>3. AddressFromAck'
    BY <1>2, <1>4 DEF CaseInv, AddressFromAck
  <2> QED
    BY <1>2, <1>4, <2>2, <2>3 DEF ClientStep, CaseInv
<1> QED
  BY <1>3, <1>4 DEF CaseRequesting

LEMMA CaseBoundStep ==
  ASSUME NEW d, CaseInv(d), CaseBound(d)
  PROVE  ClientStep(d)
BY CountdownType DEF CaseBound, CaseInv, ClientStep, RequestsPaired, AddressFromAck

LEMMA LoopStep ==
  ASSUME NEW d, CaseInv(d), Loop(d)
  PROVE  ClientStep(d)
BY CaseInitStep, CaseRequestingStep, CaseBoundStep DEF Loop

-----------------------------------------------------------------------------
(* A case of the switch, reached with an answer or without, keeps all of the *)
(* invariant that is not about the queue.                                    *)

StateInv ==
    /\ client \in Clients
    /\ asked \subseteq Requests /\ RequestsPaired
    /\ Net \in Nets /\ AddressFromAck
    /\ mail \in Mails /\ started \in Events \cup {"waiting"}
    /\ StartupTold

QueueInv ==
    /\ inq \in Seq(Replies \cup {Junk}) /\ Len(inq) <= NETQLEN
    /\ \A i \in 1..Len(inq) : AckAsked(inq[i])

LEMMA InvParts ==
  /\ DhcpInv <=> StateInv /\ AckAsked(client.buff) /\ QueueInv
  /\ DhcpInv' <=> StateInv' /\ AckAsked(client.buff)' /\ QueueInv'
BY DEF DhcpInv, DhcpTypeOK, AcksAsked, StateInv, QueueInv, Clients, Datagrams, Nets, Mails

LEMMA AskedGrows ==
  ASSUME NEW m, AckAsked(m), asked \subseteq asked'
  PROVE  m.type = "ACK" =>
           \E r \in asked' : r.type = "REQUEST" /\ r.ip = m.ip /\ r.server = m.server
BY DEF AckAsked

LEMMA ClientStepKeeps ==
  ASSUME StateInv, QueueInv, NEW d, AckAsked(d.buff), ClientStep(d), started' = started,
         inq' \in Seq(Replies \cup {Junk}), Len(inq') <= NETQLEN,
         \A i \in 1..Len(inq') : AckAsked(inq'[i])
  PROVE  DhcpInv'
<1>1. AckAsked(client.buff)'
  <2>1. CASE client'.buff = d.buff
    BY <2>1, AskedGrows DEF ClientStep, AckAsked
  <2>2. CASE client'.buff \in Requests
    BY <2>2 DEF AckAsked, Requests
  <2> QED
    BY <2>1, <2>2 DEF ClientStep
<1>2. QueueInv'
  <2>1. \A i \in 1..Len(inq') : AckAsked(inq[i])'
    BY AskedGrows DEF ClientStep, AckAsked
  <2> QED
    BY <2>1 DEF QueueInv
<1>3. StartupTold'
  BY DEF StateInv, ClientStep, StartupTold
<1>4. StateInv'
  BY <1>3 DEF StateInv, ClientStep
<1> QED
  BY <1>1, <1>2, <1>4, InvParts

-----------------------------------------------------------------------------
(* The actions. *)

LEMMA ReadDatagramKeeps ==
  ASSUME DhcpInv, ReadDatagram
  PROVE  DhcpInv'
<1> DEFINE d == [client EXCEPT !.buff = Head(inq), !.tries = 0]
<1>1. StateInv /\ QueueInv
  BY InvParts
<1>2. Head(inq) \in Datagrams /\ Head(inq) = inq[1] /\ 1 \in 1..Len(inq)
  BY <1>1 DEF ReadDatagram, QueueInv, Datagrams
<1>3. d \in Clients /\ d.buff = inq[1] /\ d.reading = client.reading
  <2>1. 0 \in 0..DHCP_CLIENT_RETRIES
    BY DhcpAssumption
  <2> QED
    BY <1>1, <1>2, <2>1 DEF StateInv, Clients
<1>4. CaseSelecting(d) \/ CaseRequesting(d) \/ Loop(d)
  BY DEF ReadDatagram
<1>5. client.reading # "dead" /\ inq' = Tail(inq) /\ started' = started
  BY DEF ReadDatagram
<1> HIDE DEF d
<1>6. AckAsked(d.buff)
  BY <1>1, <1>2, <1>3 DEF QueueInv
<1>7. CaseInv(d)
  BY <1>1, <1>3, <1>5, <1>6 DEF StateInv, CaseInv, StartupTold
<1>8. ClientStep(d)
  BY <1>4, <1>7, CaseSelectingStep, CaseRequestingStep, LoopStep
<1>9. /\ inq' \in Seq(Replies \cup {Junk}) /\ Len(inq') = Len(inq) - 1
      /\ \A i \in 1..Len(inq') : inq'[i] = inq[i + 1] /\ i + 1 \in 1..Len(inq)
  BY <1>1, <1>5 DEF QueueInv, ReadDatagram
<1>10. Len(inq') <= NETQLEN /\ \A i \in 1..Len(inq') : AckAsked(inq'[i])
  BY <1>1, <1>9, DhcpAssumption DEF QueueInv
<1> QED
  BY <1>1, <1>5, <1>6, <1>8, <1>9, <1>10, ClientStepKeeps

(* The buffer keeps what it held, be it an ACK of long ago. *)
LEMMA IdleTimeoutKeeps ==
  ASSUME DhcpInv, IdleTimeout
  PROVE  DhcpInv'
<1>1. StateInv /\ QueueInv /\ AckAsked(client.buff)
  BY InvParts
<1>2. CaseInv(client)
  BY <1>1 DEF IdleTimeout, StateInv, CaseInv, StartupTold
<1>3. ClientStep(client)
  BY <1>2, LoopStep DEF IdleTimeout
<1> QED
  BY <1>1, <1>3, ClientStepKeeps DEF IdleTimeout, QueueInv

LEMMA ResendKeeps ==
  ASSUME DhcpInv, Resend
  PROVE  DhcpInv'
<1>1. StateInv /\ QueueInv /\ AckAsked(client.buff)
  BY InvParts
<1>2. client.tries + 1 \in 0..DHCP_CLIENT_RETRIES
  BY <1>1, DhcpAssumption DEF Resend, StateInv, Clients
<1>3. client' \in Clients /\ client'.buff = client.buff /\ client'.reading = client.reading
  BY <1>1, <1>2 DEF Resend, StateInv, Clients
<1>4. ClientStep(client)
  BY <1>1, <1>3 DEF Resend, ClientStep, StateInv, RequestsPaired, AddressFromAck, StartupTold
<1> QED
  BY <1>1, <1>4, ClientStepKeeps DEF Resend, QueueInv

LEMMA GiveUpKeeps ==
  ASSUME DhcpInv, GiveUp
  PROVE  DhcpInv'
<1>1. StateInv /\ QueueInv /\ AckAsked(client.buff)
  BY InvParts
<1> DEFINE e == [client EXCEPT !.tries = 0]
<1>2. e \in Clients /\ e.buff = client.buff
  BY <1>1, DhcpAssumption DEF StateInv, Clients
<1>3. CASE client' = Dead(Abort(e)) /\ SendStartup("TIMEOUT")
  <2> HIDE DEF e
  <2>1. Abort(e) \in Clients /\ Abort(e).buff = client.buff
    BY <1>2 DEF Abort, Clients
  <2>2. client' \in Clients /\ client'.buff = client.buff
    BY <1>3, <2>1 DEF Dead, Clients
  <2>3. mail' \in Mails /\ mail' # "none" /\ (mail' = "LEASE_ACQUIRED" => mail = "LEASE_ACQUIRED")
    BY <1>1, <1>3 DEF SendStartup, StateInv, Mails, Events
  <2>4. ClientStep(client)
    BY <1>1, <2>2, <2>3 DEF GiveUp, ClientStep, StateInv, RequestsPaired, AddressFromAck, StartupTold
  <2> QED
    BY <1>1, <2>4, ClientStepKeeps DEF GiveUp, QueueInv
<1>4. CASE client' = [Abort(client) EXCEPT !.reading = "idle", !.tries = 0] /\ mail' = mail
  <2>1. Abort(client) \in Clients /\ Abort(client).buff = client.buff
    BY <1>1 DEF Abort, Clients, StateInv
  <2>2. 0 \in 0..DHCP_CLIENT_RETRIES
    BY DhcpAssumption
  <2>3. client' \in Clients /\ client'.buff = client.buff /\ client'.reading = "idle"
    BY <1>4, <2>1, <2>2 DEF Clients
  <2>4. ClientStep(client)
    BY <1>1, <1>4, <2>3
    DEF GiveUp, ClientStep, StateInv, RequestsPaired, AddressFromAck, StartupTold
  <2> QED
    BY <1>1, <2>4, ClientStepKeeps DEF GiveUp, QueueInv
<1> QED
  BY <1>3, <1>4 DEF GiveUp

LEMMA StartupKeeps ==
  ASSUME DhcpInv, Startup
  PROVE  DhcpInv'
BY DEF Startup, DhcpInv, DhcpTypeOK, AcksAsked, AckAsked, RequestsPaired, AddressFromAck,
       StartupTold, Events

(* A server only acknowledges what it was asked for. *)
LEMMA DeliverKeeps ==
  ASSUME DhcpInv, Deliver
  PROVE  DhcpInv'
<1>1. PICK m \in Replies \cup {Junk} : Answers(m) /\ inq' = Append(inq, m)
  BY DEF Deliver
<1>2. AckAsked(m)
  BY <1>1 DEF Answers, AckAsked, Junk
<1>3. StateInv /\ QueueInv /\ AckAsked(client.buff)
  BY InvParts
<1>4. /\ inq' \in Seq(Replies \cup {Junk}) /\ Len(inq') = Len(inq) + 1
      /\ inq'[Len(inq')] = m /\ \A i \in 1..Len(inq) : inq'[i] = inq[i]
  BY <1>1, <1>3 DEF QueueInv
<1>5. \A i \in 1..Len(inq') : AckAsked(inq'[i])
  BY <1>2, <1>3, <1>4 DEF QueueInv
<1>6. Len(inq') <= NETQLEN
  BY <1>3, <1>4, DhcpAssumption DEF Deliver, QueueInv
<1>7. QueueInv'
  BY <1>4, <1>5, <1>6 DEF QueueInv, AckAsked, Deliver
<1>8. StateInv' /\ AckAsked(client.buff)'
  BY <1>3 DEF Deliver, StateInv, AckAsked, RequestsPaired, AddressFromAck, StartupTold
<1> QED
  BY <1>7, <1>8, InvParts

LEMMA InitInv ==
  ASSUME Init
  PROVE  DhcpInv
<1>1. client.buff \in Requests /\ client.buff.type = "DISCOVER"
  BY DEF Init, Requests, Addrs
<1>2. client \in Clients
  BY <1>1, DhcpAssumption DEF Init, Clients, Datagrams, Addrs
<1>3. StateInv
  BY <1>1, <1>2 DEF Init, StateInv, RequestsPaired, AddressFromAck, StartupTold, Nets, Mails,
                    Events, Addrs
<1>4. QueueInv
  BY DhcpAssumption DEF Init, QueueInv
<1> QED
  BY <1>1, <1>3, <1>4, InvParts DEF AckAsked

(* The invariant of the client, its queue, the network's memory and the      *)
(* starting process is kept by every step of dhcp_client.c and of the        *)
(* network.                                                                   *)
THEOREM DhcpInvariance == Spec => []DhcpInv
<1>1. Init => DhcpInv
  BY InitInv
<1>2. DhcpInv /\ [Next]_vars => DhcpInv'
  <2> SUFFICES ASSUME DhcpInv, [Next]_vars PROVE DhcpInv'
    OBVIOUS
  <2>1. CASE UNCHANGED vars
    BY <2>1 DEF vars, DhcpInv, DhcpTypeOK, AcksAsked, AckAsked, RequestsPaired, AddressFromAck,
                StartupTold
  <2> QED
    BY <2>1, ReadDatagramKeeps, IdleTimeoutKeeps, ResendKeeps, GiveUpKeeps, StartupKeeps,
       DeliverKeeps DEF Next
<1> QED
  BY <1>1, <1>2, PTL DEF Spec

(* The variables of the DHCP client have their types; time_rebind stays      *)
(* within the range of its type and the queue within its length.             *)
THEOREM DhcpTypes == Spec => []DhcpTypeOK
<1>1. DhcpInv => DhcpTypeOK
  BY DEF DhcpInv
<1> QED
  BY <1>1, DhcpInvariance, PTL

(* The interface only ever gets an address that the client requested, for    *)
(* any number of servers, however late, often or out of order their answers  *)
(* come: Net.myaddr is set from whatever dhcp_client_parse() saved last.     *)
THEOREM DhcpAddress == Spec => []AddressFromAck
<1>1. DhcpInv => AddressFromAck
  BY DEF DhcpInv
<1> QED
  BY <1>1, DhcpInvariance, PTL

(* A REQUEST names the server that offered the address in it, although each  *)
(* datagram overwrites both.                                                 *)
THEOREM DhcpPaired == Spec => []RequestsPaired
<1>1. DhcpInv => RequestsPaired
  BY DEF DhcpInv
<1> QED
  BY <1>1, DhcpInvariance, PTL

(* dhcp_client_start() is told how the client ended, and is only told of a   *)
(* lease that was acquired.                                                  *)
THEOREM DhcpTold == Spec => []StartupTold
<1>1. DhcpInv => StartupTold
  BY DEF DhcpInv
<1> QED
  BY <1>1, DhcpInvariance, PTL
=============================================================================
