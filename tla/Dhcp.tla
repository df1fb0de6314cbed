-------------------------------- MODULE Dhcp --------------------------------
(***************************************************************************)
(* The DHCP client (net/dhcp_client.c): the process dhcp_Client, the       *)
(* process that starts it and waits for its verdict (dhcp_client_start),   *)
(* and a network that may lose, delay, repeat and reorder what servers     *)
(* answer.                                                                 *)
(*                                                                         *)
(* The client blocks only in read() on its datagram device, which is in    *)
(* timeout mode, so each of its actions is what it does from one read to   *)
(* the next; the record client is its global "state" together with the     *)
(* place of that read.                                                     *)
(***************************************************************************)
EXTENDS Integers, Sequences

CONSTANTS
    Servers,              \* DHCP servers; each leases an address of its own,
                          \* which goes by the name of the server
    Leases,               \* lease times, in seconds
    DHCP_CLIENT_RETRIES,  \* times a request is sent
    DG_DELAY_TIME,        \* seconds until a read times out
    NETQLEN,              \* datagrams that wait for a reader
    TimeMod               \* the range of the unsigned time_rebind

ASSUME DhcpAssumption ==
    /\ DHCP_CLIENT_RETRIES \in Nat \ {0}
    /\ DG_DELAY_TIME \in Nat \ {0}
    /\ NETQLEN \in Nat \ {0}
    /\ TimeMod \in Nat \ {0}
    /\ Leases \subseteq 1..(TimeMod - 1)

VARIABLES
    client,   \* the client process and its variables
    inq,      \* datagrams that wait at the client's device
    asked,    \* every request the client has sent (the network's memory)
    Net,      \* this host's address, and whether it is valid
    mail,     \* the message of the starting process
    started   \* what the starting process has received

vars == <<client, inq, asked, Net, mail, started>>

NoAddr == "0.0.0.0"
NoServer == "no server"
DHCP_REQUEST_IP == "192.168.1.106"     \* what dhcpInit() asks for
Addrs == Servers \cup {NoAddr, DHCP_REQUEST_IP}
Events == {"LEASE_ACQUIRED", "TIMEOUT", "ERROR"}

Request(t, d) == [type |-> t, ip |-> d.ip_local, server |-> d.ip_server, lease |-> 0]
Requests == [type : {"DISCOVER", "REQUEST"}, ip : Addrs,
             server : Servers \cup {NoServer}, lease : {0}]
Replies ==
    {[type |-> t, ip |-> s, server |-> s, lease |-> l] :
        t \in {"OFFER", "ACK"}, s \in Servers, l \in Leases}
    \cup {[type |-> "NAK", ip |-> NoAddr, server |-> s, lease |-> 0] : s \in Servers}

(* A datagram that dhcp_client_in() refuses: not a reply, or not ours. *)
Junk == [type |-> "JUNK", ip |-> NoAddr, server |-> NoServer, lease |-> 0]

DhcpTypeOK ==
    /\ client \in [state : {"INIT", "SELECTING", "REQUESTING", "BOUND", "REBINDING"},
                   reading : {"discover", "request", "idle", "dead"},
                   tries : 0..DHCP_CLIENT_RETRIES,
                   buff : Requests \cup Replies \cup {Junk},
                   ip_local : Addrs,
                   ip_server : Servers \cup {NoServer},
                   time_rebind : 0..(TimeMod - 1)]
    /\ inq \in Seq(Replies \cup {Junk}) /\ Len(inq) <= NETQLEN
    /\ asked \subseteq Requests
    /\ Net \in [myaddr : Addrs, mavalid : BOOLEAN]
    /\ mail \in Events \cup {"none"}
    /\ started \in Events \cup {"waiting"}

-----------------------------------------------------------------------------
(* Mutant: an ACK is not parsed. *)
ParseOffersOnly(d) ==
    LET b == d.buff IN
    IF b.type = "OFFER"
    THEN [d EXCEPT !.ip_local = b.ip, !.ip_server = b.server,
                   !.time_rebind = b.lease - (b.lease \div 8)]
    ELSE d

(* dhcp_client_parse(): what a datagram that is ours leaves in the state,   *)
(* whatever its type; the time to rebind is seven eighths of the lease.     *)
Parse(d) ==
    LET b == d.buff IN
    IF b.type \in {"OFFER", "ACK", "NAK"}
    THEN [d EXCEPT !.ip_local = b.ip, !.ip_server = b.server,
                   !.time_rebind = IF b.lease > 0 THEN b.lease - (b.lease \div 8) ELSE @]
    ELSE d

(* dhcp_client_in(): the type of the datagram in the buffer. *)
MsgType(d) == IF d.buff.type \in {"OFFER", "ACK", "NAK"} THEN d.buff.type ELSE "SYSERR"

(* One round of the loop in dhcp_client_send(): the request is built in the  *)
(* buffer that the answer will be read into.                                 *)
Sending(d, t, where, n) ==
    [d EXCEPT !.buff = Request(t, d), !.reading = where, !.tries = n]

(* dhcp_client_abort() *)
Abort(d) == [d EXCEPT !.state = "INIT"]

(* dhcpSleep(): unsigned arithmetic, so "<= 0" is "= 0". *)
Countdown(d) ==
    LET t == (d.time_rebind - DG_DELAY_TIME) % TimeMod IN
    [d EXCEPT !.time_rebind = t, !.reading = "idle",
              !.state = IF t = 0 THEN "REBINDING" ELSE "BOUND"]

Dead(d) == [d EXCEPT !.reading = "dead"]

(* send() leaves a message that is already there. *)
SendStartup(evt) == mail' = IF mail = "none" THEN evt ELSE mail

Init ==
    /\ client = [state |-> "SELECTING", reading |-> "discover", tries |-> 1,
                 buff |-> [type |-> "DISCOVER", ip |-> DHCP_REQUEST_IP, server |-> NoServer, lease |-> 0],
                 ip_local |-> DHCP_REQUEST_IP, ip_server |-> NoServer, time_rebind |-> 0]
    /\ inq = <<>>
    /\ asked = {client.buff}
    /\ Net = [myaddr |-> NoAddr, mavalid |-> FALSE]
    /\ mail = "none"
    /\ started = "waiting"

-----------------------------------------------------------------------------
(* The cases of the client's switch.  Each ends in the next read().         *)

(* DHCP_STATE_INIT: a new DISCOVER. *)
CaseInit(d) ==
    /\ client' = Sending([d EXCEPT !.state = "SELECTING"], "DISCOVER", "discover", 1)
    /\ asked' = asked \cup {client'.buff}
    /\ UNCHANGED <<Net, mail>>

(* DHCP_STATE_SELECTING: anything but an offer ends the process. *)
CaseSelecting(d) ==
    LET p == Parse(d) IN
    /\ \/ /\ MsgType(d) = "OFFER"
          /\ client' = Sending([p EXCEPT !.state = "REQUESTING"], "REQUEST", "request", 1)
          /\ asked' = asked \cup {client'.buff}
          /\ UNCHANGED mail
       \/ /\ MsgType(d) # "OFFER"
          /\ client' = Dead(p)
          /\ SendStartup("ERROR")
          /\ UNCHANGED asked
    /\ UNCHANGED Net

(* DHCP_STATE_REQUESTING and DHCP_STATE_REBINDING, with the buffer as it is: *)
(* a further offer is ignored, an ACK configures the interface, anything     *)
(* else starts from scratch.                                                 *)
CaseRequesting(d) ==
    LET p == Parse(d) IN
    /\ \/ /\ MsgType(d) = "OFFER"
          /\ client' = [p EXCEPT !.reading = "idle"]
          /\ UNCHANGED <<Net, mail>>
       \/ /\ MsgType(d) = "ACK"
          /\ Net' = [myaddr |-> p.ip_local, mavalid |-> TRUE]
          /\ SendStartup("LEASE_ACQUIRED")
          /\ client' = Countdown(p)
       \/ /\ MsgType(d) \notin {"OFFER", "ACK"}
          /\ client' = [Abort(p) EXCEPT !.reading = "idle"]
          /\ UNCHANGED <<Net, mail>>
    /\ UNCHANGED asked

(* DHCP_STATE_BOUND *)
CaseBound(d) ==
    /\ client' = Countdown(d)
    /\ UNCHANGED <<asked, Net, mail>>

(* The top of the loop, after the read at its end. *)
Loop(d) ==
    \/ d.state = "INIT" /\ CaseInit(d)
    \/ d.state \in {"REQUESTING", "REBINDING"} /\ CaseRequesting(d)
    \/ d.state = "BOUND" /\ CaseBound(d)

-----------------------------------------------------------------------------
(* read() returns a datagram. *)
ReadDatagram ==
    /\ client.reading # "dead"
    /\ inq # <<>>
    /\ inq' = Tail(inq)
    /\ LET d == [client EXCEPT !.buff = Head(inq), !.tries = 0] IN
       \/ d.reading = "discover" /\ CaseSelecting(d)
       \/ d.reading = "request" /\ CaseRequesting(d)
       \/ d.reading = "idle" /\ Loop(d)
    /\ UNCHANGED started

(* read() times out at the end of the loop; the buffer keeps what it held. *)
IdleTimeout ==
    /\ client.reading = "idle"
    /\ inq = <<>>
    /\ Loop(client)
    /\ UNCHANGED <<inq, started>>

(* read() times out in dhcp_client_send(), and the request is sent again. *)
Resend ==
    /\ client.reading \in {"discover", "request"}
    /\ inq = <<>>
    /\ client.tries < DHCP_CLIENT_RETRIES
    /\ client' = [client EXCEPT !.tries = @ + 1]
    /\ UNCHANGED <<inq, asked, Net, mail, started>>

(* Mutant: no word to the starting process. *)
GiveUpSilent ==
    /\ client.reading \in {"discover", "request"}
    /\ inq = <<>>
    /\ client.tries = DHCP_CLIENT_RETRIES
    /\ client' = IF client.reading = "discover"
                 THEN Dead(Abort([client EXCEPT !.tries = 0]))
                 ELSE [Abort(client) EXCEPT !.reading = "idle", !.tries = 0]
    /\ UNCHANGED <<inq, asked, Net, mail, started>>

(* The last retry has timed out: without an offer the process ends, without  *)
(* an answer to its REQUEST it goes back to INIT.                            *)
GiveUp ==
    /\ client.reading \in {"discover", "request"}
    /\ inq = <<>>
    /\ client.tries = DHCP_CLIENT_RETRIES
    /\ \/ /\ client.reading = "discover"
          /\ client' = Dead(Abort([client EXCEPT !.tries = 0]))
          /\ SendStartup("TIMEOUT")
       \/ /\ client.reading = "request"
          /\ client' = [Abort(client) EXCEPT !.reading = "idle", !.tries = 0]
          /\ UNCHANGED mail
    /\ UNCHANGED <<inq, asked, Net, started>>

(* The process in dhcp_client_start() receives the message it waits for. *)
Startup ==
    /\ started = "waiting"
    /\ mail # "none"
    /\ started' = mail
    /\ mail' = "none"
    /\ UNCHANGED <<client, inq, asked, Net>>

(* A server answers a request that was once sent to it, or somebody else's   *)
(* datagram arrives; ip_in() drops what the queue has no room for.           *)
Answers(m) ==
    \/ m.type = "OFFER" /\ \E r \in asked : r.type = "DISCOVER"
    \/ m.type = "ACK" /\ \E r \in asked : /\ r.type = "REQUEST"
                                          /\ r.ip = m.ip /\ r.server = m.server
    \/ m.type = "NAK" /\ \E r \in asked : r.type = "REQUEST" /\ r.server = m.server
    \/ m = Junk

Deliver ==
    /\ Len(inq) < NETQLEN
    /\ client.reading # "dead"
    /\ \E m \in Replies \cup {Junk} : Answers(m) /\ inq' = Append(inq, m)
    /\ UNCHANGED <<client, asked, Net, mail, started>>

Next == ReadDatagram \/ IdleTimeout \/ Resend \/ GiveUp \/ Startup \/ Deliver

Spec == Init /\ [][Next]_vars

-----------------------------------------------------------------------------
(* The properties. *)

(* The host only ever uses an address that this client had requested of the *)
(* server that acknowledged it, however late or often offers and answers     *)
(* come: dhcp_client_parse saves whatever address a datagram proposes, and   *)
(* the interface is configured from there.                                   *)
AddressFromAck ==
    Net.mavalid => \E r \in asked : r.type = "REQUEST" /\ r.ip = Net.myaddr

(* A REQUEST asks a server for the address that this server has offered,    *)
(* never for one that came with another's offer or with a NAK: both fields   *)
(* are overwritten by every datagram between an offer and its request.       *)
RequestsPaired ==
    \A r \in asked : r.type = "REQUEST" => r.ip = r.server

(* The starting process is never left without a verdict by a client that    *)
(* has ended, and a verdict that a lease was acquired is true.               *)
StartupTold ==
    /\ client.reading = "dead" => mail # "none" \/ started # "waiting"
    /\ "LEASE_ACQUIRED" \in {mail, started} => Net.mavalid

(* The countdown to rebinding (dhcpSleep), which is unsigned and compared   *)
(* with "<= 0", ends at zero and not at the far end of its range.  That is  *)
(* so for leases of which seven eighths are a multiple of DG_DELAY_TIME,    *)
(* the ones the run has; any other lease makes it wrap.                     *)
TimerNoWrap ==
    client.state = "BOUND" => \E l \in Leases : client.time_rebind <= l

(* A lease is only renewed by an answer that has just been read: "T2        *)
(* expires/Broadcast DHCPREQUEST", "DHCPACK/Record lease" in the diagram of  *)
(* dhcp_client.c.                                                            *)
RenewedByServer ==
    [][client.state = "REBINDING" /\ client'.state = "BOUND" => inq' # inq]_vars

(* "discard anything which is not an offer" (dhcp_client.c:184): the client *)
(* does not end because of a datagram that it has just read.                *)
StrayDiscarded == [][client.reading # "dead" /\ client'.reading = "dead" => inq' = inq]_vars
=============================================================================
