-------------------------------- MODULE Tty --------------------------------
(***************************************************************************)
(* The terminal driver of the console: the lower half, ttyiin.c and        *)
(* ttyoin.c, which the USART's interrupts call, and the upper half,        *)
(* ttyputc.c, ttywrite.c, ttygetc.c, ttyread.c and ttycntl.c, which        *)
(* processes call.  The halves share two rings of characters, the counts   *)
(* of what they hold, and one semaphore for each.                          *)
(*                                                                         *)
(* The upper half runs with interrupts disabled, so a step reaches from    *)
(* one point where the process can lose the processor to the next: a       *)
(* wait() that blocks, or the resched() in sreset() and in send().         *)
(***************************************************************************)
EXTENDS Integers, Sequences, FiniteSets

CONSTANTS
    IBUFLEN, OBUFLEN, EBUFLEN,  \* sizes of the input, output and echo rings
    OBMINSP,        \* places that are given back together
    Writers,        \* processes that write (one process reads)
    OutChars,       \* characters that may be written
    MaxText,        \* bound on the characters of one ttywrite()
    Keys,           \* characters that may be typed
    Uses,           \* each a set of calls that the processes make and of
                    \* characters that are typed and written
    Wants,          \* the counts that ttyread() is called with
    MaxIcnt         \* nothing is typed beyond this icnt

ASSUME SizesAssumption ==
    /\ IBUFLEN \in Nat \ {0, 1} /\ OBUFLEN \in Nat \ {0} /\ EBUFLEN \in Nat \ {0}
    /\ OBMINSP \in 1..(OBUFLEN - 1)
    /\ MaxText \in 1..OBUFLEN
    /\ MaxIcnt \in Nat

ASSUME WritersAssumption == IsFiniteSet(Writers)
ASSUME WantsAssumption == Wants \subseteq Nat

VARIABLES
    use,     \* the member of Uses that this line is put to
    in,      \* the fields of struct tty for input, and its modes
    out,     \* the fields for output and for the echo, and the UDRIE bit
    isem,    \* counts the characters a reader may take
    osem,    \* counts the places a writer may fill
    reader,  \* the process that reads
    writer   \* writer[w], a process that writes

vars == <<use, in, out, isem, osem, reader, writer>>

NEWLINE == "NEWLINE"
RETURN  == "RETURN"
EOFC    == "EOFC"
Chars   == Keys \cup OutChars \cup {NEWLINE, RETURN}
Texts   == UNION {[1..n -> OutChars \cap use] : n \in 1..MaxText}
EndsLine(c) == c \in {NEWLINE, RETURN}
Visible == {"x", "y"}      \* the rest are control characters

Most(S)  == CHOOSE n \in S : \A m \in S : m <= n
Least(S) == CHOOSE n \in S : \A m \in S : n <= m
Larger(m, n)  == IF m >= n THEN m ELSE n
Smaller(m, n) == IF m <= n THEN m ELSE n

TtyTypeOK ==
    /\ use \in Uses
    /\ in \in [ihead : 0..(IBUFLEN - 1), itail : 0..(IBUFLEN - 1),
               ibuff : [0..(IBUFLEN - 1) -> Chars],
               icnt : 0..(MaxIcnt + IBUFLEN), icursor : 0..(IBUFLEN - 1),
               imode : {"IMRAW", "IMCBREAK", "IMCOOKED"},
               iecho : BOOLEAN, ecrlf : BOOLEAN, iintr : BOOLEAN, late : 0..1]
    /\ out \in [ohead : 0..(OBUFLEN - 1), otail : 0..(OBUFLEN - 1),
                obuff : [0..(OBUFLEN - 1) -> Chars],
                ocnt : Nat, odsend : 0..(OBMINSP - 1),
                echo : 0..(EBUFLEN - 1), oheld : BOOLEAN, udrie : BOOLEAN]
    /\ isem \in [semcnt : Int, sq : Seq({"reader"})]
    /\ osem \in [semcnt : Int, sq : Seq(Writers)]
    /\ reader \in [at : {"idle", "getc", "nextc", "peeked", "later"},
                   want : Nat, any : BOOLEAN, waited : BOOLEAN]
    /\ writer \in [Writers -> [at : {"idle", "putc", "copied", "write"},
                               rest : Seq(Chars), waited : BOOLEAN]]

-----------------------------------------------------------------------------
(* The semaphore's operations as the driver uses them. *)

(* Taking one count after another, n in all, and then, if block, waiting. *)
TakeCounts(s, n, block, p) ==
    IF block THEN [semcnt |-> s.semcnt - n - 1, sq |-> Append(s.sq, p)]
             ELSE [s EXCEPT !.semcnt = @ - n]

(* signaln(): each count goes to the first that waits. *)
Signaln(s, n) ==
    [semcnt |-> s.semcnt + n,
     sq |-> SubSeq(s.sq, Smaller(n, Len(s.sq)) + 1, Len(s.sq))]

(* sreset(): all that wait go on, and the count is a new one. *)
Sreset(s, n) == IF n < 0 THEN s ELSE [semcnt |-> n, sq |-> <<>>]

(* p was released from the queue by a signal or by a reset. *)
Granted(p, s) == \A i \in DOMAIN s.sq : s.sq[i] # p

-----------------------------------------------------------------------------
(* Rings.  Filled: the ring after the characters of q are stored from head  *)
(* on; Held: the n characters from tail on.                                 *)
Filled(ring, size, head, q) ==
    [i \in 0..(size - 1) |->
        LET hits == {j \in 1..Len(q) : (head + j - 1) % size = i}
        IN  IF hits = {} THEN ring[i] ELSE q[Most(hits)]]

Held(ring, size, tail, n) == [j \in 1..n |-> ring[(tail + j - 1) % size]]

Finished == Held(in.ibuff, IBUFLEN, in.itail, in.icnt)
Pending  == Held(out.obuff, OBUFLEN, out.otail, out.ocnt)

(* ttyinit() for the console. *)
Init ==
    /\ use \in Uses
    /\ in = [ihead |-> 0, itail |-> 0, ibuff |-> [i \in 0..(IBUFLEN - 1) |-> NEWLINE],
             icnt |-> 0, icursor |-> 0, imode |-> "IMCOOKED",
             iecho |-> TRUE, ecrlf |-> TRUE, iintr |-> FALSE, late |-> 0]
    /\ out = [ohead |-> 0, otail |-> 0, obuff |-> [i \in 0..(OBUFLEN - 1) |-> NEWLINE],
              ocnt |-> 0, odsend |-> 0, echo |-> 0, oheld |-> FALSE, udrie |-> FALSE]
    /\ isem = [semcnt |-> 0, sq |-> <<>>]
    /\ osem = [semcnt |-> OBUFLEN, sq |-> <<>>]
    /\ reader = [at |-> "idle", want |-> 0, any |-> FALSE, waited |-> FALSE]
    /\ writer = [w \in Writers |-> [at |-> "idle", rest |-> <<>>, waited |-> FALSE]]

-----------------------------------------------------------------------------
(* Output, upper half. *)

(* Mutants: the head stays where it was; the interrupt is not enabled. *)
StoredHeadStays(o, q) ==
    [o EXCEPT !.obuff = Filled(@, OBUFLEN, o.ohead, q),
              !.ocnt = @ + Len(q),
              !.udrie = @ \/ q # <<>>]
StoredUnarmed(o, q) ==
    [o EXCEPT !.obuff = Filled(@, OBUFLEN, o.ohead, q),
              !.ohead = (@ + Len(q)) % OBUFLEN,
              !.ocnt = @ + Len(q)]

(* ttyputc() for each character of q, once there is place for it. *)
Stored(o, q) ==
    [o EXCEPT !.obuff = Filled(@, OBUFLEN, o.ohead, q),
              !.ohead = (@ + Len(q)) % OBUFLEN,
              !.ocnt = @ + Len(q),
              !.udrie = @ \/ q # <<>>]

(* w goes on with the first n characters it has still to put: as many as    *)
(* there are counts for, and then it waits.                                 *)
PutSome(w, o, at, rest, n, granted) ==
    LET g     == IF granted THEN 1 ELSE 0
        k     == Smaller(n, g + Larger(osem.semcnt, 0))
        block == k < n
        left  == SubSeq(rest, k + 1, Len(rest))
    IN  /\ out' = Stored(o, SubSeq(rest, 1, k))
        /\ osem' = TakeCounts(osem, k - Smaller(g, k), block, w)
        /\ writer' = [writer EXCEPT ![w] =
                        [at |-> IF left = <<>> THEN "idle" ELSE at,
                         rest |-> left, waited |-> block]]
        /\ UNCHANGED <<use, in, isem, reader>>

(* What stands in the ring for the characters of a text: ocrlf puts a       *)
(* RETURN before each NEWLINE, so the character t[i] comes to stand at      *)
(* Place(t, i), and a place where none does has a RETURN.                   *)
OneCrlf(c) == IF c = NEWLINE THEN <<RETURN, NEWLINE>> ELSE <<c>>
Place(t, i) == i + Cardinality({j \in 1..i : t[j] = NEWLINE})
Crlf(t) ==
    [k \in 1..Place(t, Len(t)) |->
        IF \E i \in DOMAIN t : Place(t, i) = k
        THEN t[CHOOSE i \in DOMAIN t : Place(t, i) = k] ELSE RETURN]

(* ttyputc() is called; a NEWLINE is two calls. *)
Putc(w, c) ==
    /\ writer[w].at = "idle"
    /\ PutSome(w, out, "putc", OneCrlf(c), 1, FALSE)

(* writcopy() stops where no more than one place is left. *)
Copied(t) ==
    Most({n \in 0..Len(t) :
            n = 0 \/ OBUFLEN - out.ocnt - Len(Crlf(SubSeq(t, 1, n - 1))) > 1})

(* ttywrite() up to sreset() in writcopy(), where another process may run   *)
(* before the interrupt is enabled.                                         *)
Write(w, t) ==
    LET n == Copied(t)
        q == Crlf(SubSeq(t, 1, n))
    IN  /\ writer[w].at = "idle"
        /\ out' = [Stored(out, q) EXCEPT !.udrie = out.udrie]
        /\ osem' = Sreset(osem, OBUFLEN - out'.ocnt)
        /\ writer' = [writer EXCEPT ![w] =
                        [at |-> "copied", rest |-> Crlf(SubSeq(t, n + 1, Len(t))),
                         waited |-> FALSE]]
        /\ UNCHANGED <<use, in, isem, reader>>

(* The rest of ttywrite(): what did not fit goes through ttyputc(). *)
WriteRest(w) ==
    /\ writer[w].at = "copied"
    /\ PutSome(w, [out EXCEPT !.udrie = TRUE], "write", writer[w].rest,
               Len(writer[w].rest), FALSE)

(* A writer that waited for a place goes on; so does one between the two    *)
(* characters of a NEWLINE.                                                 *)
PutOn(w) ==
    /\ writer[w].at \in {"putc", "write"}
    /\ writer[w].waited => Granted(w, osem)
    /\ PutSome(w, out, writer[w].at, writer[w].rest,
               IF writer[w].at = "putc" THEN 1 ELSE Len(writer[w].rest),
               writer[w].waited)

-----------------------------------------------------------------------------
(* Output, lower half. *)

(* Mutant: only one of the places put off is given back. *)
SendOneLess(o) ==
    /\ out' = [o EXCEPT !.otail = (@ + 1) % OBUFLEN, !.ocnt = @ - 1,
                        !.odsend = IF o.ocnt > OBMINSP THEN @ ELSE (@ + 1) % OBMINSP]
    /\ osem' = IF o.ocnt > OBMINSP \/ o.odsend + 1 = OBMINSP THEN Signaln(osem, 1) ELSE osem

(* ttyoin() sends a character: a place is given back at once while the ring *)
(* is well filled; later OBMINSP places are given back together.            *)
SendChar(o) ==
    /\ out' = [o EXCEPT !.otail = (@ + 1) % OBUFLEN, !.ocnt = @ - 1,
                        !.odsend = IF o.ocnt > OBMINSP THEN @ ELSE (@ + 1) % OBMINSP]
    /\ osem' = CASE o.ocnt > OBMINSP          -> Signaln(osem, 1)
                 [] o.ocnt <= OBMINSP /\ o.odsend + 1 = OBMINSP -> Signaln(osem, OBMINSP)
                 [] OTHER                     -> osem

(* ttyoin(), while the interrupt is enabled: echo first, then flow control. *)
ttyoin ==
    /\ out.udrie
    /\ \/ /\ out.echo > 0
          /\ out' = [out EXCEPT !.echo = @ - 1]
          /\ UNCHANGED osem
       \/ /\ out.echo = 0 /\ ~out.oheld /\ out.ocnt > 0
          /\ SendChar(out)
       \/ /\ out.echo = 0 /\ (out.oheld \/ out.ocnt = 0)
          /\ out' = [out EXCEPT !.udrie = FALSE]
          /\ UNCHANGED osem
    /\ UNCHANGED <<use, in, isem, reader, writer>>

-----------------------------------------------------------------------------
(* Input, lower half. *)

(* eputc() n times; nothing stops ehead from passing etail. *)
Eputc(o, n) == [o EXCEPT !.echo = (@ + n) % EBUFLEN, !.udrie = @ \/ n > 0]

(* echoch(): how many characters the echo of c has. *)
EchoLen(c) == IF EndsLine(c) THEN (IF in.ecrlf THEN 2 ELSE 0)
              ELSE IF c \in Visible THEN 1 ELSE 2
Echoch(c) == IF in.iecho THEN Eputc(out, EchoLen(c)) ELSE out

(* One place is left for the end of the line. *)
LineFull == in.icnt + in.icursor >= IBUFLEN - 1

(* The character is kept, in the queue or in the line that is typed. *)
Keep(c) == [in EXCEPT !.ibuff[in.ihead] = c, !.ihead = (@ + 1) % IBUFLEN]

Refuse == UNCHANGED <<in, isem>> /\ out' = Eputc(out, 1)    \* rings the bell

Raw(c) ==
    /\ in.imode = "IMRAW"
    /\ \/ in.icnt >= IBUFLEN /\ UNCHANGED <<in, out, isem>>
       \/ /\ in.icnt < IBUFLEN
          /\ in' = [Keep(c) EXCEPT !.icnt = @ + 1]
          /\ isem' = Signaln(isem, 1)
          /\ UNCHANGED out

(* The interrupt character: send() may give the processor away before the   *)
(* character is echoed.  At most one such echo is late at a time (a bound).   *)
Intr(c) ==
    /\ c = "INTRCH" /\ in.iintr /\ in.late = 0
    /\ in' = [in EXCEPT !.late = 1]
    /\ UNCHANGED <<out, isem>>

Flow(c) ==
    /\ \/ c = "STRTCH" /\ out' = [out EXCEPT !.oheld = FALSE, !.udrie = TRUE]
       \/ c = "STOPCH" /\ out' = [out EXCEPT !.oheld = TRUE]
    /\ UNCHANGED <<in, isem>>

Cbreak(c) ==
    /\ in.imode = "IMCBREAK"
    /\ \/ in.icnt >= IBUFLEN /\ Refuse
       \/ /\ in.icnt < IBUFLEN
          /\ in' = [Keep(c) EXCEPT !.icnt = @ + 1]
          /\ out' = Echoch(c)
          /\ isem' = Signaln(isem, 1)

Kill ==
    /\ in' = [in EXCEPT !.ihead = (@ - in.icursor) % IBUFLEN, !.icursor = 0]
    /\ out' = Eputc(out, 2)
    /\ UNCHANGED isem

(* Mutant: there need be nothing to erase. *)
EraseAny ==
    /\ in' = [in EXCEPT !.ihead = (@ - 1) % IBUFLEN, !.icursor = Larger(@ - 1, 0)]
    /\ out' = [out EXCEPT !.udrie = TRUE]
    /\ UNCHANGED isem

(* erase1(): a visible character is wiped out with three characters, the    *)
(* two of a control character with six.                                     *)
Erase ==
    IF in.icursor = 0 THEN UNCHANGED <<in, out, isem>>
    ELSE LET h == (in.ihead - 1) % IBUFLEN
         IN  /\ in' = [in EXCEPT !.ihead = h, !.icursor = @ - 1]
             /\ out' = IF in.iecho
                       THEN Eputc(out, IF in.ibuff[h] \in Visible THEN 3 ELSE 6)
                       ELSE [out EXCEPT !.udrie = TRUE]
             /\ UNCHANGED isem

(* Mutant: the character that ends the line is not counted. *)
EndLineUncounted(c) ==
    /\ in' = [Keep(c) EXCEPT !.icnt = @ + in.icursor + 1, !.icursor = 0]
    /\ out' = Echoch(c)
    /\ isem' = Signaln(isem, in.icursor)

(* The end of a line is stored whether or not there is place for it. *)
EndLine(c) ==
    /\ in' = [Keep(c) EXCEPT !.icnt = @ + in.icursor + 1, !.icursor = 0]
    /\ out' = IF in.iecho
              THEN Eputc(out, EchoLen(c) + IF c = EOFC THEN EchoLen(NEWLINE) ELSE 0)
              ELSE out
    /\ isem' = Signaln(isem, in.icursor + 1)

Cooked(c) ==
    /\ in.imode = "IMCOOKED"
    /\ \/ c = "KILLCH" /\ Kill
       \/ c = "DEL" /\ Erase
       \/ (EndsLine(c) \/ c = EOFC) /\ EndLine(c)
       \/ /\ c \notin {"KILLCH", "DEL", EOFC} /\ ~EndsLine(c)
          /\ \/ LineFull /\ Refuse
             \/ /\ ~LineFull
                /\ in' = [Keep(c) EXCEPT !.icursor = @ + 1]
                /\ out' = Echoch(c)
                /\ UNCHANGED isem

(* ttyiin(): a character arrives. *)
ttyiin(key) ==
    LET c == IF key = RETURN THEN NEWLINE ELSE key      \* icrlf
    IN  /\ in.icnt <= MaxIcnt
        /\ \/ Raw(key)
           \/ in.imode # "IMRAW" /\ Intr(c)
           \/ in.imode # "IMRAW" /\ Flow(c)
           \/ /\ c \notin {"STRTCH", "STOPCH"} /\ ~(c = "INTRCH" /\ in.iintr)
              /\ (Cbreak(c) \/ Cooked(c))
        /\ UNCHANGED <<use, osem, reader, writer>>

LateEcho ==
    /\ in.late = 1
    /\ in' = [in EXCEPT !.late = 0]
    /\ out' = Eputc(out, 1)
    /\ UNCHANGED <<use, isem, osem, reader, writer>>

-----------------------------------------------------------------------------
(* Input, upper half. *)

Idle == [at |-> "idle", want |-> 0, any |-> FALSE, waited |-> FALSE]

TakenFrom(n) == [in EXCEPT !.itail = (@ + n) % IBUFLEN, !.icnt = @ - n]

(* The reader may go on: it was released, or had not to wait. *)
MayGoOn == reader.waited => Granted("reader", isem)

(* wait(isem) of a call that then does body(grant taken). *)
WaitInput(at, want, any) ==
    /\ isem' = TakeCounts(isem, 0, TRUE, "reader")
    /\ reader' = [at |-> at, want |-> want, any |-> any, waited |-> TRUE]
    /\ UNCHANGED in

(* ttygetc(), and TCNEXTC of ttycntl(), which only looks at the character   *)
(* and gives the count back after interrupts are enabled again.             *)
CallFor(at) ==
    /\ reader.at = "idle"
    /\ \/ isem.semcnt < 1 /\ WaitInput(at, 0, FALSE)
       \/ /\ isem.semcnt >= 1
          /\ isem' = TakeCounts(isem, 1, FALSE, "reader")
          /\ in' = IF at = "getc" THEN TakenFrom(1) ELSE in
          /\ reader' = IF at = "getc" THEN Idle ELSE [Idle EXCEPT !.at = "peeked"]
    /\ UNCHANGED <<use, out, osem, writer>>

GetOn ==
    /\ reader.at \in {"getc", "nextc"} /\ MayGoOn
    /\ in' = IF reader.at = "getc" THEN TakenFrom(1) ELSE in
    /\ reader' = IF reader.at = "getc" THEN Idle ELSE [Idle EXCEPT !.at = "peeked"]
    /\ UNCHANGED <<use, isem, out, osem, writer>>

NextcSignal ==
    /\ reader.at = "peeked"
    /\ isem' = Signaln(isem, 1)
    /\ reader' = Idle
    /\ UNCHANGED <<use, in, out, osem, writer>>

(* How many of q's first n characters a read takes: it stops before an EOF, *)
(* and after the end of a line, which is looked for from the character      *)
(* `from' on.                                                               *)
Line(q, n, from) ==
    Least({k \in 1..n : \/ k = n
                        \/ q[k + 1] = EOFC
                        \/ (k >= from /\ EndsLine(q[k]))})

(* n characters are taken without wait(); the count is set to what is left. *)
ReadNow(n) ==
    /\ in' = TakenFrom(n)
    /\ isem' = Sreset(isem, in.icnt - n)

(* ttyread() up to sreset(): what the buffer has.  The first character is   *)
(* not compared with NEWLINE.                                               *)
Read(want) ==
    LET avail == in.icnt
        count == IF want = 0 THEN avail ELSE want
        donow == Smaller(count, avail)
        n     == IF Finished[1] = EOFC THEN 1 ELSE Line(Finished, donow, 2)
        done  == \/ n = count \/ Finished[1] = EOFC
                 \/ n < donow \/ (n >= 2 /\ EndsLine(Finished[n]))
    IN  /\ reader.at = "idle" /\ count > 0
        /\ \/ /\ avail > 0
              /\ ReadNow(n)
              /\ reader' = IF done THEN Idle
                           ELSE [at |-> "later", want |-> count - n, any |-> TRUE, waited |-> FALSE]
           \/ avail = 0 /\ WaitInput("later", count, FALSE)
        /\ UNCHANGED <<use, out, osem, writer>>

(* The loop in ttyread() that waits for each character; n counts can be had *)
(* without blocking.                                                        *)
ReadOn ==
    LET g == IF reader.waited THEN 1 ELSE 0
        n == Smaller(reader.want, g + Larger(isem.semcnt, 0))
        k == Line(Finished, n, 1)
        left == reader.want - k
    IN  /\ reader.at = "later" /\ MayGoOn
        /\ \/ /\ n = 0                                     \* nothing since sreset()
              /\ WaitInput("later", reader.want, reader.any)
           \/ /\ n > 0 /\ Finished[1] = EOFC
              /\ IF reader.any
                 THEN in' = in /\ isem' = Signaln(isem, g)
                 ELSE in' = TakenFrom(1) /\ isem' = TakeCounts(isem, 1 - g, FALSE, "reader")
              /\ reader' = Idle
           \/ /\ n > 0 /\ Finished[1] # EOFC
              /\ in' = TakenFrom(k)
              /\ LET block == k = n /\ left > 0 /\ ~EndsLine(Finished[k])
                 IN  /\ isem' = TakeCounts(isem, k - g, block, "reader")
                     /\ reader' = IF block
                                  THEN [at |-> "later", want |-> left, any |-> TRUE, waited |-> TRUE]
                                  ELSE Idle
        /\ UNCHANGED <<use, out, osem, writer>>

Functions == {"TCMODER", "TCMODEC", "TCMODEK", "TCECHO", "TCNOECHO",
              "TCCRLF", "TCNOCRLF", "TCINT", "TCNOINT"}

(* ttycntl(): modes and options. *)
Cntl(func) ==
    /\ in' = CASE func = "TCMODER"  -> [in EXCEPT !.imode = "IMRAW"]
               [] func = "TCMODEC"  -> [in EXCEPT !.imode = "IMCOOKED"]
               [] func = "TCMODEK"  -> [in EXCEPT !.imode = "IMCBREAK"]
               [] func = "TCECHO"   -> [in EXCEPT !.iecho = TRUE]
               [] func = "TCNOECHO" -> [in EXCEPT !.iecho = FALSE]
               [] func = "TCCRLF"   -> [in EXCEPT !.ecrlf = TRUE]
               [] func = "TCNOCRLF" -> [in EXCEPT !.ecrlf = FALSE]
               [] func = "TCINT"    -> [in EXCEPT !.iintr = TRUE]
               [] func = "TCNOINT"  -> [in EXCEPT !.iintr = FALSE]
    /\ reader.at = "idle"
    /\ UNCHANGED <<use, out, isem, osem, reader, writer>>

-----------------------------------------------------------------------------
Typing == \E key \in Keys \cap use : ttyiin(key)
WriterOn(w) == WriteRest(w) \/ PutOn(w)

Writing(w) ==
    \/ "write" \in use /\ \E t \in Texts : Write(w, t)
    \/ "putc" \in use /\ \E c \in OutChars \cap use : Putc(w, c)
    \/ WriterOn(w)

Reading ==
    \/ "getc" \in use /\ CallFor("getc")
    \/ "TCNEXTC" \in use /\ CallFor("nextc")
    \/ "read" \in use /\ \E want \in Wants : Read(want)
    \/ GetOn \/ NextcSignal \/ ReadOn

Next ==
    \/ \E w \in Writers : Writing(w)
    \/ ttyoin
    \/ Typing
    \/ LateEcho
    \/ Reading
    \/ \E func \in Functions \cap use : Cntl(func)

Spec == Init /\ [][Next]_vars

(* The transmitter empties, and a process that is released gets to run. *)
Fairness ==
    /\ WF_vars(ttyoin)
    /\ WF_vars(LateEcho)
    /\ \A w \in Writers : WF_vars(WriterOn(w))

FairSpec == Spec /\ Fairness

-----------------------------------------------------------------------------
(* Properties. *)

OutGrants == {w \in Writers : writer[w].waited /\ Granted(w, osem)}
InGrants  == IF reader.at = "peeked" \/ (reader.waited /\ Granted("reader", isem)) THEN 1 ELSE 0

(* No output is left lying: while there is echo, or output that is not held *)
(* back, the transmitter's interrupt is enabled, unless a ttywrite() that   *)
(* has copied its text is about to enable it.                               *)
OutputArmed ==
    out.echo > 0 \/ (out.ocnt > 0 /\ ~out.oheld) =>
        out.udrie \/ \E w \in Writers : writer[w].at = "copied"

(* Every place of the output ring is accounted for: it is counted by osem,  *)
(* granted to a writer that has not gone on yet, filled, or among those     *)
(* that ttyoin() gives back later.  A ttywrite() resets the semaphore       *)
(* without a look at the last and at the grants, so some places may be      *)
(* accounted for twice, no more of them than said here.                     *)
SpaceInStep ==
    LET places == Larger(osem.semcnt, 0) + Cardinality(OutGrants) + out.ocnt + out.odsend
    IN  /\ OBUFLEN <= places
        /\ places <= OBUFLEN + (OBMINSP - 1) + Larger(Cardinality(Writers) - 1, 0)

(* Every character that a reader may take is counted once, and the ring's   *)
(* pointers are as far apart as the counts say.                             *)
InputInStep ==
    /\ in.icnt = Larger(isem.semcnt, 0) + InGrants
    /\ (in.ihead - in.itail) % IBUFLEN = (in.icnt + in.icursor) % IBUFLEN

(* ttywrite() assumes room for what it copies, ttyputc() "wait[s] for space *)
(* in queue" (ttyputc.c:24).                                                *)
OutputFits == out.ocnt <= OBUFLEN

(* "count of characters in the input buffer" (tty.4:93, what TCICHARS tells, *)
(* and tty.h:38): there are never more than the buffer has places.          *)
InputFits == in.icnt <= IBUFLEN

Fits(i) == i.icnt + i.icursor <= IBUFLEN

(* Line editing and flow control never touch what a reader can already take:*)
(* finished characters stay, in order, until a reader takes them from the   *)
(* front, and a step that takes any adds none.                              *)
FinishedInputKept ==
    [][Fits(in) /\ Fits(in)' =>
         LET q == Finished
             r == Finished'
         IN  \/ Len(r) >= Len(q) /\ SubSeq(r, 1, Len(q)) = q
             \/ in'.ihead = in.ihead /\ r = SubSeq(q, Len(q) - Len(r) + 1, Len(q))]_vars

(* Characters leave in the order in which they were stored, as long as the  *)
(* ring holds what ocnt says.                                               *)
OutputKept ==
    [][out.ocnt <= OBUFLEN /\ out'.ocnt <= OBUFLEN =>
         LET q == Pending
             r == Pending'
         IN  \/ q # <<>> /\ r = Tail(q)
             \/ Len(r) >= Len(q) /\ SubSeq(r, 1, Len(q)) = q]_vars

(* A writer is not kept for ever: unless somebody types without end, or     *)
(* output is held for good, each call returns.                              *)
WriterReturns ==
    (<>[][~Typing]_vars /\ []<>~out.oheld) =>
        \A w \in Writers : writer[w].at # "idle" ~> writer[w].at = "idle"

(* "Reads up to one line into the user's buffer, stopping on an END-OF-FILE *)
(* or NEWLINE character" (tty.4): what a read takes in one go has no end of *)
(* a line but its last.                                                     *)
ReadStopsAtLine ==
    [][in'.icnt < in.icnt => \A i \in 1..(in.icnt - in'.icnt - 1) : ~EndsLine(Finished[i])]_vars
=============================================================================
