----------------------------- MODULE RemoteFile -----------------------------
(***************************************************************************)
(* The remote file system of rf/: the pseudo-devices for open files        *)
(* (rfopen.c, rfclose.c, rfread.c, rfwrite.c, rfseek.c, rfio.c, rfalloc.c), *)
(* the operations on names (rfcntl.c), and the request/reply exchange with *)
(* the file server (rfmkpac.c, rfsend.c), in which a request is sent up to *)
(* RMAXTRY times and the first datagram that arrives is taken as the answer.*)
(*                                                                         *)
(* Requests and replies may be lost, reordered and late, and a request     *)
(* that is sent again may be carried out again.  One                       *)
(* position of a file stands for RDATLEN bytes, the most that one request  *)
(* carries; longer writes are several requests.                            *)
(***************************************************************************)
EXTENDS Integers, Sequences, FiniteSets

CONSTANTS
    Procs,     \* user processes
    Names,     \* names of files at the server
    Nrf,       \* pseudo-devices for open files
    RMAXTRY,   \* times a request is sent
    NETQLEN,   \* datagrams that the queue of Rf.device holds
    MaxPos,    \* bound: length of a file and of a write
    Uses,      \* sets of calls and of names; this run keeps to one of them
    Late       \* may messages outlive the call that they belong to?

ASSUME RfAssumption ==
    /\ {Nrf, RMAXTRY, NETQLEN, MaxPos} \subseteq Nat \ {0}
    /\ Late \in BOOLEAN
    /\ Names # {}
    /\ "none" \notin Procs

Slots == 1..Nrf
NONE == "none"

VARIABLES
    rftab,    \* Rf.rftab: state, name and position, and who has rf_mutex
    Rf,       \* Rf.device, the process that has Rf.rmutex, and the packet
    proc,     \* proc[p], what process p does and the device it has open
    inq,      \* datagrams queued at Rf.device
    req, rep, \* requests and replies in the network
    files,    \* the server's files
    use       \* the member of Uses that is taken

vars == <<rftab, Rf, proc, inq, req, rep, files, use>>

Data  == UNION {[1..n -> Procs] : n \in 0..MaxPos}
Ops   == {"open", "close", "read", "write", "unlink", "rename", "access"}

(* struct fpacket, which means something while its semaphore is held; data *)
(* is the new name, what is written or what was read, or NONE.             *)
Packets == [f_op : Ops \cup {"ERROR"}, f_name : Names, f_pos : 0..MaxPos,
            data : Procs \cup Names \cup {NONE}]
NoPacket == [f_op |-> "access", f_name |-> CHOOSE n \in Names : TRUE, f_pos |-> 0, data |-> NONE]

Idle == [at |-> "idle", op |-> "close", slot |-> 0, name |-> NoPacket.f_name, arg |-> NONE,
         left |-> 0, trys |-> 0]

RfTypeOK ==
    /\ rftab \in [Slots -> [state : {"RFREE", "RUSED"}, name : Names, pos : 0..MaxPos,
                            mutex : Procs \cup {NONE}]]
    /\ Rf \in [device : {"RCLOSED", "open"}, rmutex : Procs \cup {NONE}, packet : Packets]
    /\ proc \in [Procs -> [at : {"idle", "fmutex", "rmutex", "send", "read", "reply", "failed"},
                           op : Ops, slot : 0..Nrf, name : Names,
                           arg : Procs \cup Names \cup {NONE}, left : 0..MaxPos,
                           trys : 0..(RMAXTRY - 1)]]
    /\ inq \in Seq(Packets) /\ Len(inq) <= NETQLEN
    /\ req \subseteq Packets /\ rep \subseteq Packets
    /\ files \in [Names -> [there : BOOLEAN, data : Data]]
    /\ use \in Uses

(* rfinit() *)
Init ==
    /\ rftab = [i \in Slots |-> [state |-> "RFREE", name |-> NoPacket.f_name, pos |-> 0,
                                 mutex |-> NONE]]
    /\ Rf = [device |-> "RCLOSED", rmutex |-> NONE, packet |-> NoPacket]
    /\ proc = [p \in Procs |-> Idle]
    /\ inq = <<>> /\ req = {} /\ rep = {}
    /\ files = [n \in Names |-> [there |-> FALSE, data |-> <<>>]]
    /\ use \in Uses

-----------------------------------------------------------------------------
(* Calls, up to the first semaphore.  A process uses the device it opened. *)

FirstFree == CHOOSE i \in Slots : /\ rftab[i].state = "RFREE"
                                 /\ \A j \in 1..(i - 1) : rftab[j].state # "RFREE"

(* rfalloc(), and what rfopen() fills in with interrupts still disabled. *)
Rfalloc(n) ==
    /\ \E i \in Slots : rftab[i].state = "RFREE"
    /\ rftab' = [rftab EXCEPT ![FirstFree].state = "RUSED", ![FirstFree].name = n,
                              ![FirstFree].pos = 0]

Rfopen(p, n) ==
    /\ proc[p].at = "idle" /\ proc[p].slot = 0
    /\ Rfalloc(n)
    /\ proc' = [proc EXCEPT ![p] = [Idle EXCEPT !.at = "fmutex", !.op = "open", !.slot = FirstFree,
                                                !.name = n]]
    /\ UNCHANGED <<Rf, inq, req, rep, files, use>>

(* p starts an operation on its device. *)
Start(p, op, arg, left) ==
    /\ proc[p].at = "idle" /\ proc[p].slot # 0
    /\ proc' = [proc EXCEPT ![p].at = "fmutex", ![p].op = op, ![p].arg = arg, ![p].left = left]
    /\ UNCHANGED <<rftab, Rf, inq, req, rep, files, use>>

(* n is 0 when rfread() is asked for a negative length.  rfwrite() with one *)
(* and rfopen() with a name or mode it refuses return at once.               *)
Rfread(p, n)  == Start(p, "read", NONE, n)
Rfwrite(p, n) == Start(p, "write", p, n) /\ rftab[proc[p].slot].pos + n <= MaxPos
Rfclose(p)    == Start(p, "close", NONE, 1) /\ rftab[proc[p].slot].state = "RUSED"

(* rfseek() is done under rf_mutex, which nobody keeps over a call. *)
Rfseek(p, pos) ==
    /\ proc[p].at = "idle" /\ proc[p].slot # 0
    /\ rftab[proc[p].slot].mutex = NONE
    /\ rftab' = [rftab EXCEPT ![proc[p].slot].pos = pos]
    /\ UNCHANGED <<Rf, proc, inq, req, rep, files, use>>

(* rfcntl(): names need no open file, and no rf_mutex. *)
Rfcntl(p, op, n, arg) ==
    /\ proc[p].at = "idle"
    /\ proc' = [proc EXCEPT ![p].at = "rmutex", ![p].op = op, ![p].name = n, ![p].arg = arg,
                            ![p].left = 1]
    /\ UNCHANGED <<rftab, Rf, inq, req, rep, files, use>>

(* rfcntl(RFCLEAR) throws away what has arrived, also for somebody else. *)
Rfclear(p) ==
    /\ proc[p].at = "idle" /\ Rf.device = "open" /\ inq # <<>>
    /\ inq' = <<>>
    /\ UNCHANGED <<rftab, Rf, proc, req, rep, files, use>>

-----------------------------------------------------------------------------
(* The end of a call. *)

OnFile(p) == proc[p].op \in {"open", "close", "read", "write"}

(* The position of the file that p works on. *)
Pos(p) == rftab[proc[p].slot].pos

(* p leaves rfmkpac() and rfio() or rfclose(), and gives back both          *)
(* semaphores; pos is the file's position now.  A failed open has yet to    *)
(* free the entry; a write goes on with its next part.                      *)
Leave(p, ok, pos) ==
    LET d == proc[p]
        state == IF d.op = "close" THEN "RFREE" ELSE rftab[d.slot].state
    IN  /\ rftab' = IF OnFile(p)
                    THEN [rftab EXCEPT ![d.slot].mutex = NONE, ![d.slot].state = state,
                                       ![d.slot].pos = pos]
                    ELSE rftab
        /\ proc' = [proc EXCEPT ![p] =
             CASE d.op = "open" /\ ~ok -> [d EXCEPT !.at = "failed", !.trys = 0]
               [] d.op = "write" /\ ok /\ d.left > 1 ->
                    [d EXCEPT !.at = "fmutex", !.left = @ - 1, !.trys = 0]
               [] OTHER -> [Idle EXCEPT !.slot = IF d.op = "close" THEN 0 ELSE d.slot]]

(* rfopen() frees the entry of an open that failed. *)
OpenFailed(p) ==
    /\ proc[p].at = "failed"
    /\ rftab' = [rftab EXCEPT ![proc[p].slot].state = "RFREE"]
    /\ proc' = [proc EXCEPT ![p] = Idle]
    /\ UNCHANGED <<Rf, inq, req, rep, files, use>>

-----------------------------------------------------------------------------
(* rfio(), rfmkpac() and rfsend(). *)

Negative(p) == proc[p].op = "read" /\ proc[p].left = 0

(* rfio() refuses a negative length once it has rf_mutex. *)
BadLength(p) ==
    /\ proc[p].at = "fmutex" /\ rftab[proc[p].slot].mutex = NONE /\ Negative(p)
    /\ proc' = [proc EXCEPT ![p] = [Idle EXCEPT !.slot = proc[p].slot]]
    /\ UNCHANGED <<rftab, Rf, inq, req, rep, files, use>>

(* wait(rf_mutex) in rfio() and rfclose(), and rfio()'s look at the state. *)
FileLock(p) ==
    LET i == proc[p].slot
    IN  /\ proc[p].at = "fmutex" /\ rftab[i].mutex = NONE /\ ~Negative(p)
        /\ IF proc[p].op # "close" /\ rftab[i].state = "RFREE"
           THEN Leave(p, FALSE, Pos(p))
           ELSE /\ rftab' = [rftab EXCEPT ![i].mutex = p]
                /\ proc' = [proc EXCEPT ![p].at = "rmutex"]
        /\ UNCHANGED <<Rf, inq, req, rep, files, use>>

(* The packet that p makes; rfclose() passes a position of its own. *)
Rfmkpac(p) ==
    LET onpos == proc[p].op \in {"open", "read", "write"}
    IN  [f_op |-> proc[p].op, f_name |-> IF OnFile(p) THEN rftab[proc[p].slot].name ELSE proc[p].name,
         f_pos |-> IF onpos THEN rftab[proc[p].slot].pos ELSE 0, data |-> proc[p].arg]

(* Mutant: what is queued from earlier calls is not cleared. *)
PacketLockUncleared(p) ==
    /\ proc[p].at = "rmutex" /\ Rf.rmutex = NONE
    /\ Rf' = [device |-> "open", rmutex |-> p, packet |-> Rfmkpac(p)]
    /\ proc' = [proc EXCEPT ![p].at = "send"]
    /\ IF Late THEN UNCHANGED <<req, rep>> ELSE req' = {} /\ rep' = {}
    /\ UNCHANGED <<rftab, inq, files, use>>

(* wait(Rf.rmutex), the packet, and rfsend() up to its loop: the device is  *)
(* opened the first time, and what is queued there is thrown away.  Unless  *)
(* messages are late, none from an earlier call is left in the network.     *)
PacketLock(p) ==
    /\ proc[p].at = "rmutex" /\ Rf.rmutex = NONE
    /\ Rf' = [device |-> "open", rmutex |-> p, packet |-> Rfmkpac(p)]
    /\ proc' = [proc EXCEPT ![p].at = "send"]
    /\ inq' = <<>>
    /\ IF Late THEN UNCHANGED <<req, rep>> ELSE req' = {} /\ rep' = {}
    /\ UNCHANGED <<rftab, files, use>>

(* A new name, or an access mode, that does not fit into a packet: the packet *)
(* is half made when rfmkpac() finds out.                                     *)
TooLong(p) ==
    /\ proc[p].at = "rmutex" /\ Rf.rmutex = NONE /\ proc[p].op \in {"rename", "access"}
    /\ Leave(p, FALSE, 0)
    /\ Rf' = [Rf EXCEPT !.packet = NoPacket]
    /\ UNCHANGED <<inq, req, rep, files, use>>

(* open(INTERNET) fails and Rf.device stays RCLOSED, or write() fails. *)
SendFails(p) ==
    /\ \/ proc[p].at = "rmutex" /\ Rf.rmutex = NONE /\ Rf.device = "RCLOSED"
       \/ proc[p].at = "send"
    /\ Leave(p, FALSE, Pos(p))
    /\ Rf' = [Rf EXCEPT !.rmutex = NONE, !.packet = NoPacket]
    /\ UNCHANGED <<inq, req, rep, files, use>>

Send(p) ==
    /\ proc[p].at = "send"
    /\ req' = req \cup {Rf.packet}
    /\ proc' = [proc EXCEPT ![p].at = "read"]
    /\ UNCHANGED <<rftab, Rf, inq, rep, files, use>>

(* read() returns the first datagram, into the same packet. *)
Read(p) ==
    /\ proc[p].at = "read" /\ inq # <<>>
    /\ Rf' = [Rf EXCEPT !.packet = Head(inq)]
    /\ inq' = Tail(inq)
    /\ proc' = [proc EXCEPT ![p].at = "reply"]
    /\ UNCHANGED <<rftab, req, rep, files, use>>

(* Mutant: the tries are not counted. *)
TimeoutForever(p) ==
    /\ proc[p].at = "read" /\ inq = <<>>
    /\ proc' = [proc EXCEPT ![p].at = "send"]
    /\ UNCHANGED <<rftab, Rf, inq, req, rep, files, use>>

(* read() times out: once more, or an error. *)
Timeout(p) ==
    /\ proc[p].at = "read" /\ inq = <<>>
    /\ \/ /\ proc[p].trys < RMAXTRY - 1
          /\ proc' = [proc EXCEPT ![p].trys = @ + 1, ![p].at = "send"]
          /\ UNCHANGED <<rftab, Rf>>
       \/ /\ proc[p].trys = RMAXTRY - 1
          /\ Leave(p, FALSE, Pos(p))
          /\ Rf' = [Rf EXCEPT !.rmutex = NONE, !.packet = NoPacket]
    /\ UNCHANGED <<inq, req, rep, files, use>>

(* The rest of rfmkpac(): a read and a write take the position from the     *)
(* reply, whatever it is a reply to.                                        *)
Reply(p) ==
    /\ proc[p].at = "reply"
    /\ Rf' = [Rf EXCEPT !.rmutex = NONE, !.packet = NoPacket]
    /\ LET ok == Rf.packet.f_op # "ERROR"
       IN  Leave(p, ok, IF ok /\ proc[p].op \in {"read", "write"} THEN Rf.packet.f_pos ELSE Pos(p))
    /\ UNCHANGED <<inq, req, rep, files, use>>

-----------------------------------------------------------------------------
(* The file server and the network (external). *)

(* Data d with v at the 0-based position pos. *)
Put(d, pos, v) ==
    [i \in 1..(IF pos + 1 > Len(d) THEN pos + 1 ELSE Len(d)) |->
        IF i = pos + 1 \/ i > Len(d) THEN v ELSE d[i]]

(* What the server does with m: its files then, and its answer. *)
Does(m) ==
    LET f == files[m.f_name]
        NoFile == [there |-> FALSE, data |-> <<>>]
        Answer(fs, r) == [files |-> fs, reply |-> r]
    IN  CASE m.f_op = "open" -> Answer([files EXCEPT ![m.f_name].there = TRUE], m)
          [] m.f_op # "open" /\ ~f.there -> Answer(files, [m EXCEPT !.f_op = "ERROR"])
          [] m.f_op = "read" /\ f.there ->
               Answer(files, IF m.f_pos < Len(f.data)
                             THEN [m EXCEPT !.f_pos = @ + 1, !.data = f.data[m.f_pos + 1]]
                             ELSE m)
          [] m.f_op = "write" /\ f.there ->
               Answer([files EXCEPT ![m.f_name].data = Put(@, m.f_pos, m.data)],
                      [m EXCEPT !.f_pos = @ + 1])
          [] m.f_op = "unlink" /\ f.there -> Answer([files EXCEPT ![m.f_name] = NoFile], m)
          [] m.f_op = "rename" /\ f.there ->
               Answer([files EXCEPT ![m.data] = f, ![m.f_name] = NoFile], m)
          [] OTHER -> Answer(files, m)

(* A request that is never taken is lost, and so is a reply that is never   *)
(* delivered.  The server may refuse to open a file.                        *)
Serve ==
    \E m \in req, refused \in BOOLEAN :
        LET a == IF refused THEN [files |-> files, reply |-> [m EXCEPT !.f_op = "ERROR"]] ELSE Does(m)
        IN  /\ refused => m.f_op = "open"
            /\ files' = a.files
            /\ rep' = rep \cup {a.reply}
            /\ req' = req \ {m}
            /\ UNCHANGED <<rftab, Rf, proc, inq, use>>

Deliver ==
    /\ Rf.device = "open" /\ Len(inq) < NETQLEN
    /\ \E r \in rep : inq' = Append(inq, r) /\ rep' = rep \ {r}
    /\ UNCHANGED <<rftab, Rf, proc, req, files, use>>

Network == Serve \/ Deliver

-----------------------------------------------------------------------------
Calls(p) ==
    \/ \E n \in Names \cap use : "open" \in use /\ Rfopen(p, n)
    \/ "open" \in use /\ Rfclose(p)
    \/ "read" \in use /\ Rfread(p, 1)
    \/ "negative" \in use /\ Rfread(p, 0)
    \/ \E n \in 1..MaxPos : "write" \in use /\ Rfwrite(p, n)
    \/ \E pos \in 0..MaxPos : "seek" \in use /\ Rfseek(p, pos)
    \/ \E op \in use \cap {"access", "unlink"}, n \in Names \cap use : Rfcntl(p, op, n, NONE)
    \/ \E n, to \in Names \cap use : "rename" \in use /\ n # to /\ Rfcntl(p, "rename", n, to)
    \/ "clear" \in use /\ Rfclear(p)

(* The steps of a call that was made. *)
Steps(p) ==
    \/ FileLock(p) \/ BadLength(p) \/ PacketLock(p) \/ TooLong(p) \/ Send(p) \/ SendFails(p)
    \/ Read(p) \/ Timeout(p) \/ Reply(p) \/ OpenFailed(p)

Next == Network \/ \E p \in Procs : Calls(p) \/ Steps(p)

Spec == Init /\ [][Next]_vars

(* Processes that can go on do so, and semaphores serve their queues in     *)
(* order.  Neither the server nor the network need do anything.             *)
Fairness ==
    \A p \in Procs : /\ WF_vars(Steps(p))
                     /\ SF_vars(FileLock(p)) /\ SF_vars(PacketLock(p))

FairSpec == Spec /\ Fairness

-----------------------------------------------------------------------------
(* Properties. *)

(* The answer that a call is about to use is to its own request, and still  *)
(* true: a read gets what the file has at the position it asked for, what a *)
(* write wrote is there, and each moves its position by what was done.      *)
AnswersCurrent ==
    \A p \in Procs :
        proc[p].at = "reply" /\ Rf.packet.f_op # "ERROR" =>
            LET m == Rf.packet
                ask == Rfmkpac(p)
                has(pos) == pos < Len(files[m.f_name].data)
            IN  /\ m.f_op = ask.f_op /\ m.f_name = ask.f_name
                /\ m.f_op = "read" =>
                      IF has(ask.f_pos)
                      THEN m.data = files[m.f_name].data[ask.f_pos + 1] /\ m.f_pos = ask.f_pos + 1
                      ELSE m.f_pos = ask.f_pos
                /\ m.f_op = "write" =>
                      /\ has(ask.f_pos) /\ files[m.f_name].data[ask.f_pos + 1] = p
                      /\ m.f_pos = ask.f_pos + 1

(* An open file is its opener's: no two processes have the same device, and *)
(* the entry keeps the name that was opened, while other opens fail and     *)
(* free their entries, and files are closed.                                *)
OwnDevice ==
    \A p, q \in Procs :
        proc[p].slot # 0 =>
            /\ rftab[proc[p].slot].state = "RUSED"
            /\ proc[q].slot = proc[p].slot => p = q

(* Every call returns, with or without a server: semaphores are given back  *)
(* on every path.                                                           *)
CallsReturn == \A p \in Procs : (proc[p].at # "idle") ~> (proc[p].at = "idle")
=============================================================================
