# avr-Xinu: a verification project in TLA+

avr-Xinu V7 is a small operating system for AVR microcontrollers: one CPU,
processes with priorities and preemption, counting semaphores, one-word
messages, a real-time clock with a sleep queue, and on top of these ports,
buffer pools, a tty driver, a network stack and a shell. This directory holds
TLA+ modules that model its kernel, ports, memory manager, buffer pools, tty
driver, network input and output, ARP, DHCP client and remote files, TLC
configurations that check them on small instances, and TLAPS proofs. Paths below are relative to `src/avr-Xinu/`;
`sys/` stands for `src/sys/sys/`, `board/` for `platform/stk500/`.

## Inventory

| Component | State | Operations | Correct when |
|---|---|---|---|
| scheduler (`sys/resched.c`, `ready.c`, `suspend.c`, `resume.c`, `chprio.c`) | `proctab[].pstate`, `.pprio`, `currpid`, the ready list, `preempt` | resched, ready, suspend, resume, chprio | the highest-priority eligible process runs; equals share; lists and states agree |
| lists (`sys/insert.c`, `insertd.c`, `queue.c`, `getitem.c`, `newqueue.c`) | the table `q[]` | insert, insertd, enqueue, dequeue, getfirst, getlast | order by key, delta sums, nothing lost or doubled |
| semaphores (`sys/wait.c`, `signal.c`, `signaln.c`, `sreset.c`, `sdelete.c`, `screate.c`) | `semaph[]`, `proctab[].psem`, `nextsem` | the same names | count and queue agree; first come, first served |
| messages (`sys/send.c`, `sendf.c`, `receive.c`, `recvclr.c`, `recvtim.c`) | `proctab[].pmsg`, `.phasmsg` | the same names | a receiver that is woken has a message, or its time is up |
| clock (`board/clkint.c`, `sys/sleep.c`, `sleep10.c`, `unsleep.c`, `wakeup.c`, `ssclock.c`) | the sleep queue, `slnempty`, `sltop`, `defclk`, `clkdiff` | the interrupt, sleep, stopclk, strtclk | nobody wakes early, everybody wakes; the handler's copies are current |
| process creation (`board/create.c`, `board/initialize.c`, `sys/kill.c`, `setnok.c`) | `numproc`, `nextproc`, `pnxtkin` | create, kill, setnok, nulluser | a killed process leaves every list; numproc counts |
| memory (`sys/getmem.c`, `freemem.c`, `getstk.c`, `malloc.c`, `src/sys/h/mem.h`) | the free list | getmem, freemem, getstk, freestk, malloc, free | blocks are disjoint and merged |
| buffer pools (`sys/mkpool.c`, `getbuf.c`, `freebuf.c`) | chains, a semaphore each | mkpool, getbuf, freebuf | a buffer has one owner |
| ports (`sys/p*.c`) | `ports[]`, the node list | pcreate, psend, preceive, pdelete, preset | a bounded FIFO that survives reset and deletion |
| tty (`src/sys/tty/`) | three ring buffers, two semaphores | read, write, getc, putc, control, the two interrupts | characters in order, semaphores in step with the buffers |
| network (`src/sys/net/netin.c`, `netout.c`, `ip_in.c`, `icmp_in.c`, `route.c`) | the pool of network buffers, `Net.netqs[]`, `Net.nmutex` | the input daemon, the output process | input never stops, packets go out, no buffer has two owners |
| datagram devices (`net/dg*.c`) | `dgtab[]`, a port each | open, close, clear, read, timed read, write | a timed read returns |
| ARP (`net/arpfind.c`, `getpath.c`, `arp_in.c`) | `Arp.arptab[]`, `arppid`, `arpwant` | find or make an entry, ask, learn | an entry answers with the address of its host |
| DHCP client (`net/dhcp_client.c`) | `state`, `Net.myaddr` | the client's loop, start-up | an address comes from an acknowledgement |
| remote files (`src/sys/rf/`) | `Rf.rftab[]`, two levels of mutex, one packet | open, close, read, write, seek, control | an answer belongs to its request; calls return |
| name space, RARP and name services, radio, shell, libraries | tables and packets | | see "Not modelled" |

How they interact. Every system call disables interrupts, so it is atomic except
where it calls `resched()`: then another process runs, and the rest of the call
is executed whenever the caller gets the CPU back. Semaphores, messages and the
clock all end in `ready()` and `resched()`; `send` and `kill` take processes off
the sleep queue; `kill` takes them off the semaphore queues and sends a message;
the clock interrupt may reschedule inside any code that has interrupts enabled.
What is hard, then, is not parallelism but what has changed when a call goes on
after `resched()` (`kill.c:42`, `receive.c:27`), the loops that make several
processes ready before one `resched()`, the copies the interrupt handler uses
(`sltop`, `slnempty`), deferred ticks, and sharing of the CPU. The drivers and the
network add interrupts that work on the same buffers as processes (tty), tables
that are changed with interrupts enabled (ARP), a pool that everybody takes
from while holding something (network buffers), and messages that are lost, repeated
or late (DHCP, remote files). PROJECT.json lists these hazards at their lines.

## Modules

`XinuLists` - lists as sequences. A list that is ordered by key (ready list,
sleep queue) is a sequence of `[pid, key]` from head to tail, a semaphore queue a
sequence of process ids. `Insert`, `InsertD`, `Dequeue`, `DequeueD` (what
`unsleep` does) and `MakeUp` (what `strtclk` does) are the list operations; the
running sum of the deltas is a recursive function.

`Scheduler` - the record `sched` holds `currpid`, `pstate`, `pprio`, `rdy` and
`preempt`, so that a call can be written as the composition of the kernel
functions it calls: `Resched(Ready(sched, p))`. The variable `kstack[p]` is what
process `p` has still to do inside the kernel, a sequence of frames; a frame
names the point where the code goes on. It is empty in user code. An action of
the application requires `Calling(c)`: the current process is not the null
process, is in user code, and `c` is among the calls the instance allows
(`Calls`). A call that returns `SYSERR` changes nothing and is not a step.

`Semaphore`, `Clock`, `Message` - one action per call, plus one for each point
where a call goes on after a `resched()` or in a loop. `Message` extends `Clock`
because `recvtim` uses the sleep queue and `send` calls `unsleep`. The loops of
`signaln`, `sreset`, `sdelete` and `wakeup` take one step per process they
release; since the frame stays on the current process's stack and interrupts are
off, nothing else can run in between. `stopclk` is the one call that works with
interrupts enabled, so its read and its write of `defclk` are two steps.
A tick of the model is one interrupt in ten: the handler's prescaler returns early
from the others.

`Kernel` - the composition, with `create`, `kill`, `setnok` and the null
process's start-up (`nulluser` creates and resumes the first process and then
idles). `kill` is two actions, `Kill` up to `send(pnxtkin, pid)` and `KillEnd`:
the next of kin may run in between. The module states the properties.

`KernelTime` - the kernel with a history variable for what its own state cannot
say: how long a sleeper has still to sleep (`due`).

`KernelMC` - the kernel for TLC, which cannot exhaust all calls in one behaviour. It instantiates `Kernel` once for
each group of calls that act on each other (`Priorities`, `Heirs`, `Semaphores`); a behaviour (`use`) takes the steps of one of the instances,
or of `Kernel` itself with the calls of the configuration. What needs two groups at once, such as a
semaphore deleted by a next of kin, is left to the theorems, which are about all calls in any order.

`Ports` - extends `Kernel` with `ports[]`, `ptnextp` and the number of nodes on
`ptfree`. A call of `psend` or `preceive` is two actions, before and after
`wait()`; the frame in between keeps the port and the `ptseq` the call has read.
`preset` and `pdelete` (by way of `_ptclear`) are one action that puts the port in
limbo, one for each of the two `sreset` or `sdelete` calls, whose own loops are
those of `Semaphore`, and one for the new state. `pcreate` is two actions, one per
call of `screate`, with nothing in between. The messages of a port are a
sequence; a message stands for its sender. `pdelete` leaves the head and tail
pointers of the port as they are where the model empties the sequence: nothing
reads them before `pcreate` clears them.

`Memory` - `memlist` as a sequence of blocks `[addr, mlen]` and `blocks`, what the
callers hold. `getmem`, `getstk`, `malloc`, `free`, `freestk` and `freemem`, with
rounding, limits and neighbour tests in 16 bits. No call reschedules, so each is
one step.

`Heap` - what the memory manager promises, over a set of free addresses: an
allocation takes a contiguous region of whole units out of it, from anywhere, and
a release puts one back. `Memory!ImplementsHeap` states the refinement.

`BufferPool` - one pool: `chain`, the semaphore `bpsem`, what each process holds, and
where each process is inside `getbuf` (`wait`, then `take`) or `freebuf` (`linked`, then
`signal`). `Freebuf` is the same call made with interrupts disabled. `Pass` is a
buffer handed on, `Kill` what `kill()` does to a process anywhere in this.

`Pool` - what a pool promises: `Get` takes any free buffer in one step, `Put` gives a
set back. `BufferPool!ImplementsPool` states the refinement (a buffer is free when it is
in the chain).

`Datagram` - extends `BufferPool` with `netin`, `netout`, the driver and the users of
datagram devices. A buffer belongs to a process, to `"ports"` while it is queued, to
`"ether"` while it is transmitted, to `"nobody"` when it is lost. `netin` outranks
everybody, so `ip_in` and its like are one step each, except `freebuf` and `getbuf`. `route` and
`getpath` appear as what they do with buffers: the packet waits for `Net.nmutex` and may
need up to `AR_RTRY` buffers more. Ports are reduced to a queue and the limbo state;
`Ports` has them in full. The repository has no Ethernet driver;
it is external.

`Arp` - the cache. `arpfind` runs with interrupts enabled, so each read or write of
`atabsiz`, `atabnxt` and of the entry's fields is a step of its own for a sender;
`netin`, which nobody interrupts, does `arp_in` in one. The history variable `reused` says
that an index may have been given out a second time: the table came round, or an increment of
`atabnxt` was lost because `netin` ran between its read and its write. `Overrun` is `arp_in`
when a sender has made `atabnxt` equal to `AR_TAB` and has not come to its test: the entry goes
over the counters, `arppid` and `arpwant`, which lie behind the table. What happens from
there on depends on the bytes of the packet, and the model ends (`overrun`), as it does with `panic()`.

`Tty` - one line. `ttyiin` and `ttyoin` are one step each (interrupts off), the upper half
is cut at `wait` and `sreset`, where the processor may be lost. The rings for input and
output hold characters, the echo ring only its pointers. The semaphores
are records with a count and a queue; a process that was released and has not
run yet is `Granted`.

`Dhcp` - `client` is the client process with `state` (the record) and the packet buffer; `Case...`
are the cases of the loop, composed as the code falls through them. Servers answer any
request that was ever sent, any number of times and at any time, which covers
loss, repetition and delay.

`RemoteFile` - `proc[p]` is where a process is in its call, `rftab` and `Rf` as in the code. The
server works on a request as often as the network delivers it. `Late` says whether
a message may arrive after its call has ended. A call that is refused after it has taken a mutex is a step
(`BadLength` in `rfio`, `TooLong` in `rfmkpac`, `SendFails` in `rfsend`); one that is refused before, `rfopen`
with a bad name or mode and `rfwrite` with a negative length, changes nothing and is none. `rfsend`'s
`control()` of the device it has just opened only sets a mode and cannot fail (`net/dgcntl.c:25`).

The clients' `Uses` constant is a set of sets: a behaviour chooses one and keeps
to its calls and inputs. It splits one large state space into parts that TLC can
exhaust; together they contain every call.

`KernelProofs` (with those about the lists, the scheduler and `KernelTime`), `PortsProofs`, `MemoryProofs`,
`DatagramProofs` (with those about the buffer pool), `RemoteFileProofs`, `ArpProofs`, `DhcpProofs`, `TtyProofs` - the theorems.

Abstractions. Priorities, delays and messages come from the small sets `Prios`,
`Delays` and `Msgs`. A call's failure by lack of stack memory is no step, like
other errors. Devices are not closed by `kill` in the model because
`isbaddev()` is the constant `BADDEV` in this configuration, and `xdone()` only
prints. Bounds: `MaxCount` on semaphore counts, `MaxDefer` on nested stopclk,
`MaxDiff` on deferred ticks, `MaxHasmsg` on `phasmsg`, `MaxOverkill` on how far
`numproc` may fall below zero, `MaxSeq` on `ptseq`. They are guards on the actions
that would go beyond them. `Kin` is the set of processes that setnok may name,
`Counts` the capacities of ports, `Sizes` the sizes asked of the memory manager;
`NPORTS`, `MAXMSGS`, `HeapStart` and `HeapLen` are the system's own constants. A port's
`dispose()` function belongs to the application and does nothing in the model; the
callers of the memory manager give back what they got and nothing else; a failed
call of the memory manager is not a step.

## Runs

The kernel runs have four table entries (one of them the null process, three user
processes), because most hazards need one process inside a call and two others that
act on it and on each other.

| Run | Instance | Checks | Shows |
|---|---|---|---|
| `kernel` | one of three groups: create, resume, suspend, chprio, kill, setnok with priorities 19, 20 (the first process) and 21; the same with receive and without chprio, priorities 19 and 20, the first process being the next of kin; all calls on two semaphores, counts to 2, with create, resume and kill | TypeOK, ListsMatchStates, ReadyListSorted, HighestPriorityRuns, NullAlwaysRunnable, ReceiverHasMessage, SemCountsWaiters, SemFifo | scheduling; a next of kin that runs inside kill; the release loops, and reuse of deleted entries |
| `time` | sleep10, recvtim, send, sendf, recvclr, stopclk and strtclk; delays 1, 2, two deferred ticks | DeltasAddUp, SleepQueueCurrent, NoEarlyWakeup | delta arithmetic under every order of insertion and removal, and under deferral |
| `live` | sleep10, recvtim with positive delays, send, kill; equal priorities, slices of two ticks | EqualsShareCPU, SleepersWake | round robin, and nobody sleeps for ever |
| `ports` | all port calls, kill, screate; one port of one place, two semaphores, two priorities | PlacesKept, GrantsAreGood, LimboEnds | a port under reset, deletion and reuse while processes are blocked in it or die, and when `screate` fails inside `pcreate` |
| `memory` | sizes 1, 8 and 11 in a heap of seven units | FreeListSound, HeapPartitioned, ImplementsHeap | exact fit, splitting, joining on neither, one or both sides; heap blocks, stacks and malloc together |
| `tty` | rings of three, OBMINSP 2, two writers, one reader, texts of two characters, every special key | OutputArmed, SpaceInStep, InputInStep, FinishedInputKept, OutputKept, WriterReturns | both halves of the driver against each other |
| `dhcp` | two servers, two lease times, three tries | AddressFromAck, StartupTold | the client against late, repeated and mixed answers |
| `net` | five buffers, one device, queues of one, one ARP request per packet | ChainCovers, OneOwner, TimedReadReturns, ImplementsPool, InputGoesOn, PacketsGoOut | the pool under everyone who takes from it |
| `rf` | two processes, two devices, two names, two tries | AnswersCurrent, CallsReturn | the request protocol under loss and repetition |
| `arp` | two senders, a host, a gateway, a foreign host, a table of three, two tries | RightHost, AskerInGetpath, WokenForCause, OverrunInWindow, SendEnds | the cache without a lock |
| `arprace` | as `arp` | ResolvedHasAddress, violated | see Findings |
| `arpover` | as `arp` | IndexInTable, violated | see Findings |

Why the bounds are enough. The port run lets a port be created and then twice reset, or reset and deleted,
or deleted and created again (each adds one to `ptseq`, and `MaxSeq` is 3), with its capacity reached and a sender and a receiver
blocked; GrantsAreGood needs capacities that add up to at most `MAXMSGS`, otherwise `psend`
panics for want of a node. Seven units and three block sizes are enough for a free
list of three blocks with a freed block between any two of them. A ring of
three with `OBMINSP` 2 wraps, fills, empties and has both ways of signalling. Five network
buffers are one for `netin`, one for each queue of one, one for the sender's packet and
one for its ARP request: with four the hold-and-wait of `getpath.c:34` makes
InputGoesOn or PacketsGoOut fail, as it may in the code when `NETBUFS` is smaller than what the queues and
the senders can hold. An ARP table of three has room for the three hosts, and comes
round when two senders and the daemon enter the same host twice.

Exceptions that the properties make. HighestPriorityRuns excepts the loops that make
processes ready with `RESCHNO` (`Releasing`), SemCountsWaiters the one semaphore that
`sreset` or `sdelete` is emptying. SleepQueueCurrent is stated for the moments at which the
interrupt can strike. DeltasAddUp and NoEarlyWakeup say nothing of a process that went to
sleep while the clock was stopped, PlacesKept and LimboEnds nothing of what a killed
process had in its hands (see Findings). AskerInGetpath, WokenForCause and
SendEnds end where an entry is written past the table. InputGoesOn and PacketsGoOut end where a buffer is
lost to a port in limbo. SpaceInStep lets `sreset` create as many places too many as there
are writers to release; FinishedInputKept and OutputKept hold while a ring is not
overfilled. RightHost excepts an index that the counter has given out twice (see `reused`); the two
senders and three hosts of the run cannot get from there to a wrong answer, but the theorem
`ArpRightHost` is about every instance, and needs the exception.

Deadlock is not checked where the system may really stop: in `time` (a process stops the
clock for ever), `dhcp` (the client kills itself), `net` (all buffers are lost) and `arp` (panic, or an overrun). The runs
of findings do not check it either.

Checked on the same instances, and left out of the configurations because they say
less: the type invariants `PortTypeOK`, `TtyTypeOK`, `DhcpTypeOK`, `DgTypeOK`, `RfTypeOK` and
`ArpTypeOK`; `RequestsPaired` (`Dhcp.cfg`), `PcountTells` (`Ports.cfg`), `FreeTwiceRefused`
(`Memory.cfg`), `QueuedOnce` (`Datagram.cfg`), `OwnDevice` (`RemoteFile.cfg`), `TimerNoWrap` (`Dhcp.cfg`, for
leases of which 7/8 are a multiple of `DG_DELAY_TIME`).

Fairness. In `live`: what the kernel does with interrupts disabled it finishes (`WF` on the
steps of the current process inside the kernel); the null process does its two
start-up steps; the clock interrupt is latched by the hardware while interrupts are
off and strikes at last (`SF` on `Tick`). Nothing is assumed of application processes:
one that never makes a call is allowed, and the time slice has to deal with it. `live`
leaves `chprio` out: an equal that changes its own priority back and forth can stay in
front of others for ever. In `tty`, the transmit interrupt strikes while it is enabled
and a process that was released goes on; nothing is assumed of typing. In `net`, `arp` and
`rf`, a process inside a call goes on when it can, the driver finishes its transmissions,
a semaphore is first come, first served (so it is strongly fair to those who wait),
and time limits run out; nothing is assumed of the network or of a server.

### Findings

Two runs each have one property, a sentence of the repository's own, that TLC finds violated; PROJECT.json
quotes the sentence. The other rows are no runs; TLC finds a counterexample to each when a
configuration is changed as the last column says.

| Where | What the code does | What a comment or manual says | How to see it |
|---|---|---|---|
| `net/arpfind.c:37` | a new entry is marked and named before its Ethernet address and device are cleared; `netin` may resolve it in between, and the entry stays resolved with address zero and device -1: later packets go to no device | "Entry has been resolved to Eth. addr." (`src/sys/h/arp.h:46`) | run `arprace`, `ResolvedHasAddress` |
| `net/arpfind.c:33` | between the increment of `atabnxt` and the wrap `netin` may take `AR_TAB` for an index; the entry goes over `atabsiz`, `atabnxt`, `arpsem`, `arppid` and `arpwant` (`arp.h:48`) | "find or insert entry in ARP cache and return its index" (line 14) | run `arpover`, `IndexInTable` |
| `sys/ssclock.c:42` | a sleep that begins while the clock is stopped is charged for earlier ticks | "Sleep guarantees a lower bound on delay" (`man/man2/sleep.2:42`) | `KernelTime.cfg` with `due` set to `n` also when `defclk > 0`, and `NoEarlyWakeup` |
| `sys/recvtim.c:29` | `recvtim(0)` goes in front of the sleep queue and uses up a tick; repeated, it keeps others asleep | "delay for a specified time and then resume" (`man/man2/sleep.2:24`) | `KernelLive.cfg` with `Delays` {0, 1} and `SleepersWake` |
| `sys/kill.c:42` | the next of kin may kill the process a second time, `numproc` is decremented twice | "number of live user processes" (`board/initialize.c:80`) | `KernelMC.cfg` with `NumprocCountsLive` |
| `sys/psend.c:38` | a sender that was let through and is killed before it runs keeps a place of the port | "disappear without affecting the port" (`man/man2/kill.2:31`) | `Ports.cfg` with `NoPlaceLost` |
| `tty/ttywrite.c:66` | `sreset` releases writers that then store into a full ring | "wait for space in queue" (`tty/ttyputc.c:24`) | `Tty.cfg` with `OutputFits` |
| `tty/ttyiin.c:126` | line ends are stored without a test for space, `icnt` exceeds `IBUFLEN` | "a count of characters in the input buffer" (`man/man4/tty.4:93`) | `Tty.cfg` with `InputFits` |
| `tty/ttyread.c:56` | the first character of a read is not compared with NEWLINE, so a read may take two lines | "stopping on an END-OF-FILE or NEWLINE character" (`man/man4/tty.4:51`) | `Tty.cfg` with `Wants` {2} and `ReadStopsAtLine` |
| `net/dhcp_client.c:185` | anything but an offer kills the client | "discard anything which is not an offer" (line 184) | `Dhcp.cfg` with `StrayDiscarded` |
| `net/dhcp_client.c:235` | at T2 the state becomes REBINDING but no request is sent; the next datagram is judged, and on a timeout the old packet again | "T2 expires/Broadcast DHCPREQUEST" (the diagram at lines 109-111) | `Dhcp.cfg` with `RenewedByServer` |
| `net/ip_in.c:47` | for a port in limbo `pcount` and `psend` fail, and nobody frees the packet | "drop instead of blocking on psend" (line 40) | `Datagram.cfg` with `NoBufferLost` |
| `net/getpath.c:44` | a late ARP reply leaves a message that a timed read takes for a datagram, and blocks | "timeout all reads" (`src/sys/h/dgram.h:36`) | `Datagram.cfg` with `LateArp = TRUE`, `Uses = {{"udp", "read", "write"}}` and `TimedReadReturns` |
| `rf/rfsend.c:38` | without sequence numbers a late reply answers the next request of a remote file | nothing | `RemoteFile.cfg` with `Late = TRUE` and `AnswersCurrent` |

Seen while modelling, and not stated as a property: a process that is killed while it
clears a port leaves the port in limbo (`sys/ptclear.c:32`); `pcreate` accepts the count 0, which
`man/man2/pcreate.2` says it refuses, and ignores the result of `screate`; `mkpool` does the same
(`sys/mkpool.c:49`); `getmem` rounds sizes above 65532 to 0 (`sys/getmem.c:23`) and then succeeds;
`malloc` does not look for `getmem`'s failure (`sys/malloc.c:30`); `freemem` compares only the first
address with the heap's end (`sys/freemem.c:18`); `sendf` counts overwritten messages in 16 bits
(`sys/sendf.c:26`); `unsleep`, called by an application, leaves a process on no list
(`sys/unsleep.c:34`); `stopclk` increments `defclk` with interrupts enabled (`sys/ssclock.c:22`), which is safe
in its one caller, an interrupt handler; `time_rebind` is unsigned and wraps for leases
that are not a multiple of the step (`net/dhcp_client.c:555`); an offer in REQUESTING whose ACK is lost
leaves the client without a further request (`net/dhcp_client.c:207`); output that is held
stays held in raw mode (`tty/ttyiin.c:59`); more echo than the ring holds overwrites echo
(`tty/ttyiin.c:220`); two readers of one tty take each other's counts (`tty/ttyread.c:75`); a repeated
unlink or rename is answered with an error although it was done (`rf/rfsend.c:33`); `rfclose` looks
at the state before it has the mutex (`rf/rfclose.c:18`); `dgclose` leaves packets in the queue for
its next user (`net/dgclose.c:25`).

## Proofs

TLAPS checks the following for every `NPROC >= 2`, `NSEM >= 1`, `QUANTUM >= 1`, every set
of priorities in `1..MAXINT`, and all calls in any order; the assumptions are the
named ASSUMEs of the modules that declare the constants.

* `ListsAgree`: `Spec => []ListsMatchStates`
* `HighestRuns`: `Spec => []HighestPriorityRuns`
* `ReadySorted`: `Spec => []ReadyListSorted`
* `CountsAgree`: `Spec => []SemCountsWaiters`
* `NullRunnable`: `Spec => []NullAlwaysRunnable`
* `FirstCome`: `Spec => SemFifo`
* `ReceiverHas`: `Spec => []ReceiverHasMessage`
* `SleepCurrent`: `Spec => []SleepQueueCurrent`
* `KernelTypes`: `Spec => []TypeOK`

The first five follow from `Invariance`, `Spec => [](IInv /\ DInv)`. None of the properties is
inductive alone. `IInv` is a conjunction of five parts:

* `SInv` - the scheduler: types, sortedness, the ready list as the exact set of ready
  processes, one current process, the null process with the lowest priority and
  never blocked. A step that makes a process ready must know that it is on no list,
  which needs the other parts.
* `KInv` - the kernel stacks: a frame of a release loop is only ever on top of the
  current process's stack, which is why a loop cannot be interrupted and why its
  argument names an existing semaphore.
* `QInv` - semaphores: counts and queues agree, a free entry has an empty queue except
  while `sdelete` empties it, a process on a queue is in PRWAIT with that `psem`.
* `CInv` - the sleep queue is the set of processes in PRSLEEP and PRTRECV.
* `PInv` - start-up: what `nulluser` relies on.

The others need more, and follow from `KernelInvariance`, `Spec => []KernelInv`, where `KernelInv` adds
(SemFifo, an action property, needs only `IInv` and a lemma per action on what it does to the queues):

* `GInv` - what a kernel stack may hold: a frame of `receive` or `kill` is on top, and `stopclk` has
  read a `defclk` below its bound.
* `MInv` - a process inside `receive` waits, is being removed or has a message; this is
  ReceiverHasMessage for every state of the process.
* `NInv` - `numproc` is at most the number of user processes that are not in the middle of a `kill`, which
  bounds it by the size of the table; the null process never kills.
* `TInv` - ticks are held back only while the clock is stopped.
* `HInv` - `slnempty` and `sltop` tell the head of the sleep queue and no delta is negative;
  inside `wakeup` only the head may be overdue.

For sleeping (`KernelTime`, at the end of `KernelProofs`), for every set of delays:

* `SleepsLongEnough`: `SpecT => NoEarlyWakeup`
* `SumsAreDue`: `SpecT => []DeltasAddUp`, if 0 is not among the delays

`LowInv` says that the deltas up to a sleeper's entry add up to at least the time it has still to
sleep plus the ticks held back. It is preserved by every call, with no further hypothesis, and
gives the first theorem. The second needs equality (`EqInv`), and there the delay 0 has to be
excluded: `recvtim(0)` goes in front of the queue and uses up a tick that the others would have
counted (see Findings), so that they sleep longer. The sums are a recursive function; that
insertion, removal, a tick and `MakeUp` leave the sums of the other entries is shown in `KernelProofs` by
looking at a least index for which it fails (`WFMin` of the library), which the provers can instantiate
where they cannot the induction rule.

The argument in layers: the first part of `KernelProofs` says what insertion and removal do to the set of
processes, to injectivity, to order and to the sums of deltas; the second what `Ready`, `Unready`, `Block`
and `Resched` do to a scheduler record, in terms of a predicate `Core` (sorted, exact lists) and `Highest`;
the rest has one lemma per action that `IInv` is preserved, the lemmas for groups of
calls, the theorems that rest on it, and then the same for the further parts of `KernelInv`.

For the buffer pool and the network (`DatagramProofs`), for every number of
buffers, processes, queues and queue lengths:

* `PoolCovered`, `PoolOneOwner`, `PoolRefined`: `BpSpec => []ChainCovers`, `[]OneOwner`, `ImplementsPool`,
  with every process free to get, free, pass on and be killed at any point
* `NetTypes`, `NetChainCovers`, `NetOneOwner`, `NetImplementsPool`: the same for `Datagram`, and `DgTypeOK`
* `NetTimedReads`: `Spec => []TimedReadReturns` if `LateArp` is false

`BpInv` is `BpTypeOK /\ ChainCovers /\ OneOwner`. ChainCovers is nearly inductive: the chain is as
long as the positive count plus the processes that have taken a count and not yet
their buffer; the proof moves one process from one set to the other in each step, and
needs that the queue holds exactly the waiting processes, each once. It is what makes
`Head(chain)` in `GetbufTake` a buffer, and with OneOwner (no buffer twice in the chain, or in the
chain and in use) the step a `Get` of the abstract pool. For the network, each action is shown
to be a step of `BpNext` or to leave the pool alone, given that the process that acts
holds what it passes on; this takes an invariant `Owned` of who holds buffers at which
place. TimedReadReturns needs to be strengthened by `TimedInv`: a process that is told of a datagram is the one
recorded in its queue's entry or has the message already, the entry never names a
process that does not read, and a message is there only together with a datagram.

For the memory manager (`MemoryProofs`), for every heap and every set of sizes from 1 to `MaxU - 8`
(`SmallSizes`):

* `MemoryFreeList`, `MemoryPartition`: `SpecM => []FreeListSound`, `[]HeapPartitioned`
* `MemoryRefinesHeap`: `SpecM => ImplementsHeap`

The hypothesis is needed: for a size above 65532, or 65530 asked of `malloc`, `roundmb` wraps around to a small
number, the call succeeds, and the caller holds less than it asked for (`sys/getmem.c:23`); with a heap of at most 64K
no larger size can be granted anyway. The invariant is not stated of blocks but of bytes: each byte of the
heap is in exactly one of the free blocks and the held ones (`Partition`), and the free list is sorted with a gap
between neighbours (`GoodList`). Each call is then one of two things, whatever case of the code it takes:
`Taken`, a held region gets bytes that the list had, or `Returned`. Most of the work is `freemem`: that the number of free
blocks below the address is the place at which the code stops (`BeforeSplits`), and that what it joins, on neither, one or
both sides, is a good list again with just the bytes of the region added (`FreememJoins`).

For the ports (`PortsProofs`), for every number of ports, of nodes and of processes, all capacities and
every set of calls that the application makes besides (also calls on the semaphores of ports):

* `PortTypes`: `SpecP => []PortTypeOK`
* `LimboLasts`: `SpecP => []LimboEnds`
* `KernelUnderPorts`: the properties of the kernel, SemCountsWaiters among them, hold with processes inside the
  calls on ports as well
* `PlacesAreKept`, `PcountRight`: `SpecP /\ [][Apart]_varsP => []PlacesKept`, `[]PcountTells`
* `GrantsFound`: `SpecP /\ [][Apart]_varsP => []GrantsAreGood` if `EnoughNodes`
* `OnlyPortsWait`: if `NoSemCalls`, both hold in every behaviour of `SpecP`

`Apart` says that no step is a call of wait, signal, signaln, sreset or sdelete, by the application itself, on a
semaphore that a port owns. The code does not prevent one, a semaphore's number being a small
integer, and a single `signal` on it refutes both properties. `NoSemCalls`, which the calls of run `ports`
satisfy, is the case without any such call. `EnoughNodes` is that all ports can be full at once
(a bound c on the capacities with `NPORTS * c <= MAXMSGS`); otherwise `psend` panics for want of a node (`sys/psend.c:44`), as
it is written to.

`PortInvariance` proves the invariant they rest on, `BaseInv`, which has besides `KernelInv` the types of the
ports and the following.

* `StacksInv` - a kernel stack consists of the frames a call on a port may push, in that order. It is
  what lets a lemma of the kernel be used for a step that starts or ends inside `psend`, `preceive`, `_ptclear` or `pcreate`.
* `TaskInv` - what a process inside a call still knows of its port: while a `pcreate` is unfinished its process runs and the
  entry is allocated with its old sequence number (`CreatorInv`); a sender or receiver has a number no later than the port's, and if it is the
  port's the port is finished and open (`UserInv`); whoever is in `_ptclear` has the port in limbo, and has it alone (`ClearerInv`).
* `SeqInv` and `LimboInv` - `ptseq` is within its bound, and an entry in limbo has a process that clears it, or one killed at it.
* `NodeInv` - the messages in all ports and the free nodes are `MAXMSGS` together, and only an open port holds messages.

`SemsInvariance` proves what is about the ports' semaphores, `SemsInv`.

* `SharedNone`, `UsedAt` - the semaphores of ports are in use, and no two ports, nor the two ends of one, share one.
* `NewAt`, `LoopInv` - while a port is created or reset, a semaphore that has been renewed already has its first
  count and an empty queue, or the loop of `sreset` is at work on it; no other loop of the kernel works on a port's semaphore.
* `CountAt` - for an open port the sender's count is the capacity less the messages, the senders inside `psend` and the
  places lost with those killed there, and the receiver's likewise; its queue has only such senders, who are on no
  other queue.
* `LostAt` - nothing counts as lost in a port that is not open: a reset or deletion starts anew.

PlacesKept is the third of these for the sender's semaphore. The rest is needed because a step of a call on another
port, or on the application's own semaphores, may release or kill a process that is inside `psend`.
GrantsAreGood follows because the blocked are the members of the queue, as many as the count is below zero
(`SemCountsWaiters`): so the granted are as many as the messages or the places at most.

For the remote file system (`RemoteFileProofs`), for any number of processes, names, devices and tries, and all files:

* `RemoteOwnDevice`: `Spec => []OwnDevice`, late messages or not
* `RemoteAnswersCurrent`: `Spec => []AnswersCurrent` if `Late` is false

`RfInv` has for the process that has `Rf.rmutex` (there is at most one) that every request under way is the one it
asked, and that every reply in the network, in the queue or in the packet is true of the server's files now (`UnderWay`).
A request may be carried out again between a reply and its use: the answer stays true because doing a write twice leaves
what it wrote (`WriteDone`), and because nobody else's request is under way. With `Late` the second is false, and
so is the property (see Findings).

For the DHCP client (`DhcpProofs`), for all sets of servers and leases, any number of tries and of datagrams
that wait:

* `DhcpAddress`, `DhcpPaired`, `DhcpTold`: `Spec => []AddressFromAck`, `[]RequestsPaired`, `[]StartupTold`; `DhcpTypes`

What is missing from the properties to be inductive is `AcksAsked`: an ACK that waits or is in the
client's buffer, where it stays for any number of rounds, answers a request that was sent, since
servers only answer what they were asked.

For ARP (`ArpProofs`), for any number of senders and hosts, any table and any number of tries:

* `ArpRightHost`, `ArpAsker`: `Spec => []RightHost`, `[]AskerInGetpath`; `ArpWoken`, `ArpOverrun`: `Spec => WokenForCause`,
  `OverrunInWindow`

`ArpInv` has `LockInv` (`Net.nmutex` is held exactly from `arpfind` to the packet), `WantInv` (a sender wants the address
of its destination or of the gateway), `AskerInv` (until an overrun, `arppid` is the process that holds the mutex and waits for `arpwant`),
`NextInv` (`atabnxt` is `AR_TAB` only while a sender is about to test it, so that everybody else
leaves the search with an index of the table),
`AddressInv` (an entry has its host's address or none, but for the entry whose old address a sender is
about to clear) and `TakenInv` (until an index is reused, an entry that a sender has taken keeps its
host, and those beyond `atabnxt` are free).

For the tty driver (`TtyProofs`), for all sizes of the rings with `OBMINSP` below `OBUFLEN`, any number of writers and
all texts and keys:

* `TtyArmed`, `TtySpace`, `TtyInput`: `Spec => []OutputArmed`, `[]SpaceInStep`, `[]InputInStep`; `TtyTypes`
* `TtyOutputKept`, `TtyFinishedKept`: `Spec => OutputKept`, `Spec => FinishedInputKept`

SpaceInStep and InputInStep count a released writer or reader differently from a waiting one, so a
signal changes two of their terms at once. The invariant `TtyInv` counts everyone who has called `wait` alike (`SpaceInv`,
`CountInv`): a signal then moves a count and leaves the sum, and the properties follow because a
queue has as many members as its count is below zero, each once (`QueueOK`, `GrantsCounted`). `ttywrite`'s `sreset` is the one
step that changes the sum: by at most the writers it releases, of which the caller is none, and by the
signals put off. `OutRing` and `InRing` say where the head of a ring is, modulo its size. With them and what
each step is shown to do to the ring (`OutMoves`, `InMoves`), the two action properties come down to the fact
that positions less than the size apart are different places.

Only model-checked: the liveness properties (EqualsShareCPU, SleepersWake, WriterReturns, InputGoesOn, PacketsGoOut,
SendEnds, CallsReturn), which need fairness and ENABLED.

## Not modelled

Of the modelled parts: the link fields of `q[]`; memory, stacks and streams in `create` and
`kill`; the time of day; `unsleep` as a call of its own; packet layouts, checksums and
address parsing; a second reader of a tty, and kill inside the tty driver.

Of the components: the device switch (a table of function pointers without state),
RARP and the name services (packet layouts around the handshake that `Arp` has), the name space
(string rewriting), the radio driver (registers of one chip), the shell and the C and
time libraries (text and calendar arithmetic).

Most of the repository's 58,000 lines are none of these. They are third-party boot
loaders (three copies of one file, 2,000 lines each), the owl_pico network stack and its sample
programs, 1-Wire and TWI libraries under `APIs/`, and board directories that repeat the
`stk500` files with other register names. A model of a copy says nothing that the
model of the original does not, and library code that runs to completion within
one process has no state that a model checker could add to. So the share of all lines that
the project maps stays small, although it covers the kernel and the larger part
of the drivers' and the network's control.

## Plan

1. Done: the core - `XinuLists`, `Scheduler`, `Semaphore`, `Clock`, `Message`, `Kernel`;
   `Ports`, `Memory` and `Heap`; `BufferPool` and `Pool`; `Datagram`; `Tty`, `Arp`, `Dhcp`, `RemoteFile`.
2. Done: theorems for every safety property that a run checks and finds true, the two
   refinements (`ImplementsPool`, `ImplementsHeap`) included, under the hypotheses named above.
3. `QTable`: the doubly linked table `q[]`, shown to implement `XinuLists`.
4. The frame queue between the radio's interrupt and its process; RARP.
