# A TLA+ development of the multi-core PAC DSP simulator

The program (`src/mpac_mproc`) simulates a chip with four PAC DSP cores. It is a
set of processes on one host: an SoC simulator, one instruction-set simulator
(ISS) per core, a debugger server and a process for custom functions, joined by
POSIX shared memory, FIFOs and TCP sockets. This directory models the protocols
between those processes and between the SystemC threads inside them, checks them
with TLC and proves their main safety properties with TLAPS.

`PROJECT.json` lists the components, every run with its properties, the source
lines each definition stands for, the hazards and the theorems. All paths below
are relative to `src/mpac_mproc`.

## 1. Inventory

| component | source | state | operations | talks to |
|---|---|---|---|---|
| ISS-SoC mailbox | `pac-iss/sc-pac-ex2.cpp`, `sc-pac-monitor.cpp`, `sc-pac-memif.cpp`, `pac-soc/pac-core-bus.cpp`, `pac-soc-pthread.cpp`, `lib/include/pac-socshm-prot.h` | per core four slots (`flag`, `cmd`, `addr`, `buf`), `ls_flag`, `memif_req_count`, the share-mode FIFO | post a request, barrier, ring, scan, release, respond; debugger and profiling operations | shared memory `soc-shm`, SystemC events, FIFO |
| core simulation loop | `pac-iss/pac-dsp.cpp`, `pac-iss.cpp` | pipeline slots, `eStopFlag`, `step_num`, `be_stoped` | one cycle, one step, stop at a breakpoint | starts the stages by events, calls `memif` |
| fetch and L1 instruction cache | `pac-iss/sc-pac-if-direct.cpp` (or `-way`) | tags, lines, instruction buffer | fetch, invalidate, write | mailbox slot 3 |
| execution units | `pac-iss/sc-pac-ex1.cpp`, `ex2`, `ex3`, `pac-exec.cpp` | register files, write logs | one handler per instruction | mailbox slots 0 to 2 |
| debugger stub | `pac-iss/pac-iss-debug.cpp` | ISS run/stop flag, breakpoints, watchpoints | one handler per command | command FIFOs, `iss-shm` |
| debugger server | `pac-fe/interface.cpp`, `pac-gdb-server.cpp` | client slots, core masks | one handler per client command | TCP, command FIFOs, `iss-shm` |
| core bus | `pac-soc/pac-core-bus.cpp`, `pac-bus.h` | finish bit masks, contention counters | dispatch of 30 commands to the buses | TLM sockets |
| memories and caches | `pac-soc/pac-m1-bus.h`, `pac-m2-bus.h`, `pac-d2-bus.h`, `pac-l2-*-bus.h`, `m1.cpp`, `m2.cpp`, `ddr-memory.cpp` | lines, tags, dirty bits, device registers | read, write, flush, DMA registers | TLM sockets |
| DMA, DMU, BIU | `pac-soc/pac-dma-bus.h`, `pac-dmu-bus.h`, `pac-biu-bus.h` | channels, busy bits | program, run, finish | TLM sockets |
| core-to-core communication | `pac-soc/c2cc-wrap.h`, `pac-c2cc-bus.h`, library `test/local_test/noctools/src/stdcomm.c` | TX and RX registers per core, arbiter counters | register access, one transmit thread per core | TLM sockets |
| custom function unit | `pac-cfu/` | a start word per unit | register, poll, run, clear | shared memory `cfu-shm` |
| semihosting, profiling | `pac-iss/pac-semihost.cpp`, `pac-profiling.cpp` | host files, queues of ranges | open/read/write..., start/stop | `iss-shm`, mailbox |
| client, test driver | `client/`, `pac-run-test/` | none of their own | command line | TCP |

What is hard in it, and what correctness means there:

* **The mailbox.** Two processes share buffers without a lock; the ISS spins on
  `ls_flag` and the SoC releases it with one store and marks slot 0 with another
  one; inside the ISS a barrier counts threads and a monitor thread is woken by an
  event that is lost when nobody waits. Correct: a request is executed exactly
  once and before its thread goes on, the two processes never use a slot at once,
  and no thread waits forever.
* **C2CC.** Retried sends, a backoff that is to let others in, timeouts and cancels, and a
  thread order SystemC does not fix, under programs that poll registers one at a
  time. Correct: no message is lost, mixed, repeated or overtaken; contending
  senders take turns, and a receiver that is free and waited for gets a message.
* **Debugger channel.** Commands travel on a FIFO, the stop request in a shared
  word, reports of breakpoints on the same FIFO as the replies, with the same byte.
  Correct: a command is answered by the core that has executed it, a report is read
  once, and what ends a run of several cores for one of them ends it for all.
* **Caches.** Tag and line are updated by hand at line and index boundaries, the D2
  bus waits for the memory in the middle of a request, and the DMA flushes the cache
  from outside. Correct: a read, a flush and a transfer see what was written last.
* **CFU.** A start word polled by both sides, in memory all cores share. Correct: a
  call runs once, on its own arguments, and returns after that.

`hazards` in `PROJECT.json` lists these, line by line, each with the properties
that would catch it going wrong or a note that says why none does.

## 2. The modules

```
LockstepMemory          what the memory promises the threads of a core
   ^ implements
SocMailbox              the mailbox protocol      -- SocMailboxProofs
   SocMailboxRefinement refinement mapping        -- SocMailboxRefinementProofs
MessageChannel          what a pair of cores may rely on
   ^ implements
C2CC                    wraps, bus, library       -- C2CCProofs
L1ICache                fetch and L1 cache        -- L1ICacheProofs
GdbSession              debugger server and cores -- GdbSessionProofs
CfuCalls                cores and function units  -- CfuCallsProofs
D2Cache                 data cache, DMA, memory   -- D2CacheProofs
MCSocMailbox, MCSocMailboxRefinement, MCC2CC, MCL1ICache,
MCGdbSession, MCCfuCalls, MCD2Cache               instances for TLC
```

### SocMailbox

One core: its ISS process and the `Core_Bus::pac_soc_run` thread that serves it.
The cores have separate mailboxes and their buses do not wait for one another (the
wait for the other cores exists in the profiling build only), so one core is the
whole protocol.

| model | code |
|---|---|
| `flag`, `ls_flag` | the words of `soc_shm_prot` both processes read and write |
| `fifo`, `pth` | share mode: the reply FIFO and `soc_pthread` |
| `count`, `mon` | `memif_req_count`, the monitor thread |
| `pc[s]` | thread of slot `s`: not yet run in this cycle, in `wait(monitor_resp_event)`, woken, done |
| `dsp`, `op`, `back`, `left` | where the `pac_dsp` thread is; the loop of direct operations it is in |
| `soc`, `inst` | polling, scanning slot `inst`, between the two final stores |
| `open`, `served`, `late`, `tainted` | history variables |

Inside a process SystemC threads are coroutines: one action is the stretch of code
from one `wait()` to the next, cut where the SoC can see or change a shared word.
A thread that spins (`MonitorReleases`, `DirectReturns`) keeps the others of its
process from running, which is what the guards `mon # "spin"` and the single `dsp`
state say. `MonitorRings` runs after all threads of its batch: the scheduler of
SystemC 2.2 runs all runnable processes of an evaluation before those they
notify. `FetchStarts` waits for the EX2 threads in a running cycle because the
fetch thread reaches its stage two delta cycles later.

A step of the debugger executes the stages one after the other (`BeginStep` to
`StepOver`); past a branch it fetches the five packets of the branch slots. Direct
operations are the debugger's accesses (`DebugOp`) and the profiling loops around a
cycle (`ProfilingOp`), which post in slot 0, ring the SoC themselves and return on
RESPONSE or, for most of them in share mode, on a byte of the FIFO.

Properties: `ScanExcludesIss`, `ServedOnce`, `NeverTwice`, `RingsWhenAllIn`,
`NoWakeUpLost`, `EveryStepNearer`, `EveryCommandEnds`; each is stated with the code it
is about in the module. `NoWakeUpLost` says that whoever waits has somebody left to wake
it; `EveryStepNearer` that every step of the ISS and of `pac_soc_run` brings the command
nearer to its end, by a measure that follows the code's own nesting: stretches of
`pac_dsp`, turns of its loop, waits of the stages, slots of the scan. The two are the
safety halves of `EveryCommandEnds`. The first three hold in direct mode as long as no
direct operation is posted between the two stores that end a scan (`Undisturbed`); that
they fail otherwise is the first finding below.

### LockstepMemory and SocMailboxRefinement

The abstract specification: accesses are collected, the round is closed, every
access in it is executed once, the round is opened, results are handed out. The
mapping takes `soc = "scan"` for a closed round and `open`/`served` for the state of
an access. Slot 0 is `Lossy`: its request may be answered without being executed
when it is posted before the RESPONSE of the scan before has landed (the EX2 thread
of slot 0 ignores that flag, and waits for `ls_flag`, but the history
cannot tell). `QuietSpec` leaves out the steps that taint the mailbox.

### C2CC

One action of `C2CC_Wrap::c2cc_wrap_tx_thread` per path through it (`TxIdle`,
`TxCountsDown`, `TxTimesOut`, `TxStandsBack`, `TxFindsBusy`, `TxDelivers`), executed
by every core once per clock edge in any order (`turn`); one action per register
access of `sc_send_msg` and `sc_receive_word`. Between two edges a core makes at most
one access (`used`): the core bus serves one round per edge, and the access reaches
the wrap in a later delta cycle, after the threads of the edge. A write to any
register ends a cancelled send (`Write`), as in the code. A message keeps two of
its four words, enough to see a mixture. `spoilt` collects the messages that the
program itself overwrote before they were sent, that timed out or that were
cancelled; the properties except them, and nothing else.

`TakesTurns` is for programs that send to one receiver each and load no timer. For a
sender with two receivers it is false by design of the code: the penalty count belongs to
the sender, not to the pair, so a sender that another receiver has just served stands
back here too while the counter of its rival has run out. A timeout or a cancel ends
a turn without a delivery.

Taking turns is not fairness. With three senders to one receiver, two of them can
alternate: when the backoff of one runs out the other's message is still being read, and
whichever of the two is served first at the next free edge leaves the third where it was.
The rounds of wraps that SystemC chooses decide, and nothing in the code limits how often
this happens. In the instance of `c2cc` there are behaviours in which core 3 waits, its
TX_STATUS at 3, before the first message is accepted, and is still waiting after cores 1,
2 and 1 again have got theirs in; with a second message core 2 gets in once more, and
so on. No property says that a given sender gets in; what
holds for any number of senders and messages is `SomeoneGetsIn`: a free receiver that is
waited for gets a message.

Nor does any property say that `sc_send_msg` returns from its loop on TX_STATUS. It does not
after a timeout, which leaves TX_STATUS at 1 or 3, and it does not as long as two rivals pass
the sender over. `BusyMeansUnsent` says what the loop waits for: a message that has
not arrived, which either the wrap still tries to send (TX_SEND_TRIG) or the timer has given
up (TX_CANCEL still set), the second being the loop that never ends, since the program only
reads. It never waits for a message that was delivered, cancelled or overwritten.

`MessageChannel` is what a program may rely on, without registers, penalties or clocks: a
sender has at most one message on its way, which arrives once and whole at a receiver that
has read the one before, or is given up by its sender or overwritten by its program.
`ImplementsChannel` maps `C2CC` to it with timers and cancels included: a delivery is the
one step of `TxDelivers`, and what the mapping must not show is a message that is
delivered after it was given up, or twice.

### L1ICache

The instruction fetch of one core in the direct-mapped build, below the mailbox: an
address is a line (`struct icache_addr`: tag and index) and an offset.

| model | code |
|---|---|
| `cache` | `icache_mem`: per index the valid entry, with its tag and what lies in the line |
| `ibuf` | `core_insnbuf0`: the 256 bytes from `addr` on, in one line and, unless the offset is 0, the next |
| `mem` | how often each line has been written; what lies in a line is the line it was read from and this count |
| `FetchBuffered` | `icache_read`: the 72 bytes of a packet lie in the buffer |
| `FetchHits` | `l1_icache_read`: all 256 bytes hit |
| `FetchMisses`, `FetchMissesSecond` | the first byte of the first line, or of the second line, misses; both lines are loaded, since 256 bytes always reach the next line (`t = 1`) |
| `Flush` | `icache_write`, from initialisation and reset |
| `fetched`, `stale` | history: what the last fetch executed; what was written since the last flush |

A fetch is one action. It waits once, for the SoC, between the miss and the stores
into the cache; until it goes on nothing else of the process touches cache or buffer
(`SocMailbox` has the waiting itself). A flushed buffer lies at address 0; programs lie
at the load address of `ini/sim-soc.ini` (0x30000000), so it is modelled as no buffer.

`OnlyLastLineMixedUp` is what the code guarantees whatever the program: the pair of
lines a miss loads has two different tags only where the index wraps. `FetchesItsLine`
holds for programs that stay out of the last index (a theorem) and fails for
others (the finding `icache_wrap`). `FreshSinceFlush` says that nothing survives a
flush in buffer or cache; without a flush, written lines may stay as they were, as in
the code.

### GdbSession

One client, its thread in the debugger server, and the command loops of the cores.

| model | code |
|---|---|
| `flag` | `iss_shm_prot.flag`: ISS_RUN, or anything else |
| `cmdq`, `rspq` | the two FIFOs of a core; `"reply"` and `"report"` are the same byte to the server |
| `iss` | where `pac_iss_run` is: about to look at the flag, in the blocking `read`, between the reply and SET_ISS_RUN, in the rest of the loop |
| `eStopFlag`, `be_stoped`, `active_core_stop`, `step_num`, `sim_end`, `pre_breakpc` | the variables of `pac_dsp` of these names |
| `srv`, `cmd`, `mask`, `todo`, `asked`, `core_id` | the server thread: the command, its loop over the cores, the core it waits for, the core that ended the run |
| `have_reported` | `core_stop[i].have_reported` of the client |
| `astray`, `lost` | history: cores whose bytes have crossed, cores that overwrote a stop request |

`Post` and `TakeReply` are the two halves of `iss_cmd_request`; the flag is written
just before the first, by its callers. `Collect`, `Post`/`TakeReply` with `"other"`,
and `PendingRead` are the three parts of `pac_soc_run_cmd` behind its `select`;
`Interrupt` and `HangUp` are the two ways in which the client's socket ends that
`select`. A turn of the ISS loop is one action (`StepDone` to `Spins`), by what it
finds. The client acts between the server's commands only, as `cmd.cpp` does: it
waits for every answer, but for the STOP of an interrupted run.

Three crossings put a core *astray*, that is, leave a byte in its FIFO that nobody
waits for: a STOP of the client that meets a report of the core (`Report`, `Post`), a
report that comes after the 1 ms of the pending read (`PendingRead`), and core 0 when
the client hangs up on a run (`HangUp`). `AnsweredMeansDone`, `NothingLeft`,
`HaltTogether`, `CulpritKnown` and `ShownHasExited` say that no other order of events does;
`DataAnswered` says it without the exception and fails (`gdb_crossed`).

### CfuCalls

The start words and buffers of `cfu-shm`, the cores that write them
(`sc-pac-memif.cpp`) and the loop of `pac-cfu-main.cpp`, which reads a start word
once (`Scan`), runs the function (`Run`) and clears the word (`Clear`) in three steps
between which cores write. `CfuStart` is the `shm_create` with O_TRUNC, at a time the
scripts leave open. `crossed` collects the calls that were not alone in their unit; a
unit whose function is not registered is `Stuck`.

### D2Cache

`D2_Bus` of the build without profiling, the memories behind it as one memory of
lines, and the DMA.

| model | code |
|---|---|
| `writeback` | `d2_dcache_type` of the ini file |
| `cache` | `d2_dcache_mem`: invalid, dirty, tag and bytes, per index |
| `queue` | `d2_bus_RequestPEQ`, its head in the hands of `D2_Bus_Request_Thread` |
| `pc`, `opline`, `posted` | which `wait` that thread is in, for which line, and whether the memory has served it |
| `dma` | a transfer: on its way, copied, idle |
| `latest` | history: the last byte written to each address |
| `crossed`, `since` | history: lines under way while a flush or a copy passed, lines written since the transfer started |

A request is cut where the thread waits: eviction (`Evict`, `WroteBack`), fill (`Miss`,
`FillFrom`, `Filled`), write-through (`WriteByte`, `WroteThrough`), uncached access
(`Uncached`, `UncachedDone`). A memory access copies from or to the cache line
through a pointer, so it takes what the line holds when the memory serves it. A flush
(`Flush`, `FlushedMem`) is one step: `b_transport` takes no time. It comes with the
start of a DMA transfer (`Transfers`), also of a chained one while a request waits, and with
direct accesses of the debugger. `lock` and `unlock` take their argument by value and
hold nothing.

Lines in `LastLine` end where their memory ends: `addr + len < base + size` is false
for them, so they are neither filled nor written back. The properties except them and
the lines that were crossed, and nothing else.

## 3. Runs

| run | instance | question |
|---|---|---|
| `mailbox` | 3 EX2 threads (the code's number), one profiling entry, both kinds of direct operation | is every request served once, is no wake-up lost, do the steps of a command run out, does every command end? |
| `mailbox_share` | 2 EX2 threads, FIFO of 2, core 0, no flush | does the reply thread answer in every interleaving, is every answer on its way to where it is looked for? |
| `mailbox_refinement` | as `mailbox` | does the protocol implement the rounds, fairly? |
| `c2cc` | 4 cores (the code's number), three of them send to the fourth, one of them two messages, the others one; fairness | loss, mixture, order, turns under contention; do the backoffs ever shut a free receiver? |
| `c2cc_cancel` | one core sends to two receivers, one to one; timer value 3, TX_CANCEL, 2 messages each | is it a message channel: with several receivers, timeouts, cancels and overwritten messages? What does a sender that finds TX_STATUS busy wait for? |
| `gdb` | 2 cores, SEMIHOST on, 3 commands of the client out of data access, run, step, stop and stop reason | is every byte read by the one it is for, do the cores halt together, does the server ever wait for a core that does not come, does every command and every run end? |
| `cfu` | 2 cores, 2 units, a registered and an unregistered function, 3 start words | is a call served once on its arguments, does it end? |
| `d2cache` | 2 cores, 2 tags, 2 sets, 2 bytes a line, one last line, both cache types, 3 accesses | do reads, flushes and transfers see the latest bytes, is every access answered? |
| `icache` | 3 lines of 4 bytes, 3 tags, every address of code, two lines written up to twice | which fetches may execute a wrong line; does anything outlive a flush? |

Bounds. `N = 3` is the number of EX2 threads in the code; `MaxProf = 1` makes the
profiling loop run zero times and once, and since an operation of a loop only meets
the one before it, more turns add no new meeting. `FifoMax` is 1 or 2: the pipe of the
code holds 64 KiB, and the model's writer blocks on a full pipe, which with 2 bytes
is reached. `c2cc` has the four cores of the code, so that a sender can have two rivals and be
passed over by them in turns; the sender with two messages meets its own backoff while the
others wait, and overwrites a message that is still to be sent. In `c2cc_cancel` three cores
are enough for one sender to have two receivers and a rival at one of them, and both
send twice. `SomeoneGetsIn` does not rest on senders running out of
messages, which `MaxMsg` makes them do: a free receiver that is waited for gets a message within
one backoff, whatever else the senders send.
The timer value 3 lets a send time out after retries, be cancelled before, and run out at
the end of a backoff of `DSPNUM` clocks; programs may also load no timer. Three cache
lines give a first, a middle and a last index, three tags a line in front of the wrap and one behind it, and 4 bytes with fetches of 2
every position of a fetch in a line and over its end. In `gdb` two cores are enough for one
to end a run and the other to be stopped, to report at the same time or to have ended
before; three commands are a run, its interruption or its end, and one command that
meets what they left; the INIT that opens a session counts, and a client that hangs
up comes back with a new one. In `cfu` two units show that one which is stuck does not
hold up the other, and three start words let a call meet another one in its unit,
before and after the CFU has started. In `d2cache` two tags in one set evict one
another, the second byte of a line shows a write that a fill or a write-back has
undone, and three accesses are a write, the miss that evicts it or the start of a
transfer that flushes it, and a read; chained transfers and flushes are not counted.
The theorems hold for every value of these constants.

Fairness. `FairSpec` of the mailbox gives weak fairness to the ISS process, the SoC
process and the reply thread, each as a whole: the host schedules all of them
and none of them blocks but in the waits that are modelled. Whether a command
is ever given is left open. `FairSpec` of C2CC lets the clock run, every transmit
thread run when it is its turn, and gives strong fairness to the register accesses
of a core: an access waits in the core's mailbox slot until a round serves it, so
it is disabled while threads of an edge run but not forgotten. Receivers are
assumed to call `sc_receive` again and again; without that a sender waits forever and
should. `FairSpec` of GdbSession gives weak fairness to the server's thread and to the loop
of each core, which the host schedules; the client may leave a session as it is, and a
program need not stop by itself. `FairSpec` of CfuCalls lets the CFU process and a core that
spins run. `FairSpec` of D2Cache lets the D2 thread and the memories run, as the SystemC
kernel does with every process that was notified; transfers and direct accesses may
come or not.

`CHECK_DEADLOCK FALSE` is set where the system may really stop: in `gdb` when the client has
used its commands and the cores wait in their FIFOs, in `cfu` when both cores are dead
or have used their start words.

### Findings

Each is a run whose property states what the repository says of the program
and which TLC refutes:

* `mailbox_race`: `pac_soc_run` clears `ls_flag` (line 325) before it sets
  RESPONSE (327). A debugger or profiling operation posted in between is overwritten
  and returns unexecuted, with the data of the operation before.
* `icache_wrap`: when the last line of the cache hits and the line behind it misses, the
  last line is filed again under the tag of that line, and a later fetch of the other
  line with this index executes the wrong instructions.

* `gdb_crossed`: a client's STOP that meets the report of a breakpoint or of the end of
  a program leaves one byte in the reply FIFO. Every later command is answered one byte
  early; the server then sends the client a memory buffer that the core has not filled.

Seen in the models and not given a run of its own:

* Share mode: a flush operation spins on RESPONSE, which the reply thread may replace by
  RESPONSE_OK first (`sc-pac-memif.cpp:34`, `EveryCommandEnds` with `BothOps`); an ordinary
  round leaves a byte in the FIFO that answers the next debugger operation
  (`pac-core-bus.cpp:327`); and the reply thread looks at the slots of core 0 for
  every core, so a debugger operation of another core hangs (`CoreId = 1`).
* C2CC: TX_STATUS reads 0 while a message waits in the backoff, so the library overwrites
  it (`c2cc-wrap.h:150`, `stdcomm.c:24`); a timeout leaves TX_STATUS at 1 or 3, and the next
  `sc_send_msg` loops forever (`c2cc-wrap.h:127`, the second case of `BusyMeansUnsent`); of three
  senders one may wait for as long as the two others go on sending (`c2cc-wrap.h:203`); the timer
  also counts while a wrap stands back, so it may end a send that was never tried.
* Debugger: a host call that meets STOP_OTHER_CORE is noted and not reported, and the next
  run passes it unserved (`pac-dsp.cpp:242`, `:362`); a core in front of SET_ISS_RUN
  overwrites the stop flag, and the command behind it waits until the program stops by
  itself (`pac-iss-debug.cpp:574`, the exception `lost`), or for ever if the program ends,
  which leaves the flag at ISS_RUN; an interrupted run is never answered itself (`interface.cpp:353`).
* CFU: a function that is not registered is never refused, since `func_id > 0xff` cannot be
  true behind the mask (`sc-pac-memif.cpp:340`, `:346`): its core spins forever.
  `cfu_err_list_clear` counts `i` instead of `addr` and leaves the memory (`:306`).
* Data cache: a flush that crosses a fill empties the line, which is then marked valid, and
  one that crosses a write-back makes the memory take zeros (`pac-d2-bus.h:1354`); the last
  line of every memory is lost (`:286` and the like). If the locks did lock, the flush
  at the start of a transfer would spin inside the uncached write that started it.

Read in the code beside the models: the profiling queries send no reply, so the
server waits for ever (`pac-iss-debug.cpp:407`, `:445`); the client waits for an answer to
GET_ID that the server does not send (`interface.cpp:81`, `:665`); the answer of
`gdb_ice_stop_reason` may pair the reason of one core with the number of another
(`client/cmd.cpp:485`); `M2_Bus_Request_Thread` does not answer an address outside its sections
(`pac-m2-bus.h:284`); the end of a system DMA clears the bit of the channel started last
(`pac-biu-bus.h:250`); DMALLST is loaded without stepping on (`pac-m1-bus.h:472`).

## 4. Theorems

All proofs are checked by TLAPS to the last leaf; they assume only the named
assumptions of the modules (`N`, `DSPNUM` positive and so on).

**SocMailboxProofs.** `TypeCorrect`, and the inductive invariant `IInv`, which has three
parts. `Control` relates the phase of `pac_dsp` to what the threads, the counter and the
monitor may be doing: in a running cycle, until the fetch thread has run, the counter
is the number of EX2 threads that have, so the fetch thread completes the barrier.
`Ownership` says whose request a slot holds. `Handshake` says how far the SoC is with
each request (`Progress`): a waiting thread's slot is served exactly when the scan has
passed it. None of the safety properties is inductive without these: to know that a
resumed thread was served one needs that the scan found its REQUEST, so that it was
posted before the bell, so that the barrier was complete. `Exclusion`,
`ServedExactlyOnce`, `NoSecondService` and `NoRequestMissed` follow.
`NoLostWakeUp` has a hypothesis, `Answering`: direct mode, or share mode on core 0 without
flush operations. In the other modes an operation really hangs (section 3), so it is as
weak as the code allows. Its invariant `DirectInv` follows the answer from the bell to
the flag and, in share mode, through the reply thread into the FIFO. `StepsRunOut` has no
hypothesis: it needs `Control`, by which the monitor always releases somebody, and `Ringing`,
by which a scan takes back the bell that started it. Together the two leave to
`EveryCommandEnds` fairness and, in share mode, the steps of the reply thread, which the
measure does not count: a waiting thread has somebody left to move, and moves run out.

**SocMailboxRefinementProofs.** `MailboxIsMemory`: in direct mode `QuietSpec` implements
`LockstepMemory`. Every action maps to one action of the memory or to a stutter, with
the inductive invariant as the hypothesis of the step.

**C2CCProofs.** `TypeCorrect`, `ReceivedInOrder`, `NoMessageLost` and `MessagesWhole` for any
number of cores, any pattern of destinations, timeouts and cancels. The invariant adds
to the properties that messages are numbered as they are triggered (`Numbered`), that
what a receiver holds or has read has left its sender (`HeldLeft`, `GotLeft`), that a
program reads full registers only (`ReadsFull`), that a set TX_CANCEL belongs to an
ended send (`CancelIdle`), and that words in registers on either side are those of
the message they belong to (`Words`). `TurnsTaken` states `TakesTurns` for programs that send
to one receiver each (`OneReceiverEach`) and load no timer, any number of senders:
its invariant `TurnInv` says that a sender served a moment ago still has its full penalty
(`FreshBackoff`) and that whoever was passed over has less of it left than the one that
passed (`WaitersFirst`). `BusyIsTrue` needs no more than the invariant: a message arrives only in
the step that ends its send (`ArrivesOnce`), so one that a timer gave up never does.
`CoresShareAChannel` is the refinement of `MessageChannel`, for all
programs, timers and cancels: each action maps to one step of the channel or to a stutter.

**L1ICacheProofs.** `TypeCorrect`, `LastLineOnly` and `NothingKeptBack` for every size of
cache, line and packet, every program and every pattern of writes; `FetchesRight` under
the assumption `NoWrap` about the program. They rest on a summary of what a fetch may do
to cache and buffer (`FetchDoes`): every new entry is what the SoC has just answered, filed
under its own tag unless the fetch began in the last index, and every new buffer holds
what cache or SoC had for its two lines. The invariants are the properties carried over
to cache and buffer: `Filed` and `Buffered` outside the last index, `FiledWell` and
`BufferedWell` without that exception for a program that does not wrap, `AllFresh` for
the flush.

**GdbSessionProofs.** `TypeCorrect`, `AnswersMatch`, `FifosEmpty`, `CoresHalt`, `CulpritMarked`
and `ShownExited`, for any number of cores and commands. The invariant gives the channel
of a core that is not astray one of five shapes (`OnItsWay`, `Executed`, `IsSwept`,
`IsLoose`, `AtRest`): its command is in the FIFO, its answer is, it is
told to stop because another core ended the run, it is left running or about to be, or
nothing is under way. Which shape goes with which step of the server is what the
properties rest on: the byte in `rspq` is the answer because a core in the shape
`OnItsWay` has written nothing since the command was posted, the report of a run that
ended under a stop request excepted. `AnswerComes` adds `Heeds`: the stop flag of a core
stays up as long as a command is in its FIFO, unless the core is in `lost`, having
overwritten it with SET_ISS_RUN. It is the safety half of `CommandEnds`: the server's `read`
never waits for a core that has nothing to do.

**CfuCallsProofs.** `TypeCorrect` and `CallsServed`, for any number of cores, units and
functions. The invariant follows a call that is alone in its unit through the loop: not seen
yet, running, run with its results in the buffer. `CallsComeUp` bounds the wait of every
call of a registered function, crossed or not, by three steps of the CFU for each unit:
its measure `StepsLeft` goes round the units and down at every step.

**D2CacheProofs.** `TypeCorrect`, `FlushComplete`, `LatestRead` and `LatestCopied`, for every
size of cache, line and address space and any number of cores. The invariant has
three parts. `Shape` relates what the thread waits for to the request it serves and
the entry it has prepared. `Coherent` says for every kept line where its latest bytes
are: in the entry if the cache holds the line dirty or is writing it out, in the memory
otherwise, and in both if the cache holds it clean. `SourceKept` says that the source of
a transfer that is under way and was not written since has its latest bytes in
memory. `AnswersComeUp` bounds the wait of the head of the queue by seven steps of the
thread and the memories: a flush or a transfer that crosses a request may spoil its
bytes and never restarts it.

Only model-checked: everything about liveness (`EveryCommandEnds`, `SomeoneGetsIn`,
`ServesRoundsFairly`, `CommandEnds`, `RunEnds`, `CallEnds`, `AccessEnds`), which is
beyond TLAPS; what is proved of them are the safety halves (`NoLostWakeUp` and `StepsRunOut`,
`AnswerComes`, `CallsComeUp`, `AnswersComeUp`), which leave fairness to say that steps
are taken. Sends have no such bound: a receiver or two rivals may keep them waiting. Every invariant and every action property of the passing runs is proved.

## 5. Not modelled

* **The vendored libraries.** SystemC and TLM are most of the repository's lines. Their
  scheduling rules (threads are coroutines, a batch runs before those it notifies,
  `b_transport` takes no time) are built into the guards of the actions. For the same
  reason the modules stand for a small share of all lines in `src`.
* **The instruction set** (`sc-pac-ex1.cpp`, `ex2`, `ex3`, `pac-exec.cpp`, the decoder in
  `sc-pac-if-*.cpp`). Thousands of lines, each handler a function of its operands in 32 or
  40 bit arithmetic. A model of it would be as long as the code and say the same; what the
  stages do to shared state, their memory accesses and their stops, is in SocMailbox
  and GdbSession.
* **The profiling build** (`PAC_SOC_PROFILE`): delay counters, contention accounting and the
  finish bit masks by which the buses hold one another up. It is another program
  in the same files.
* **The set-associative caches and the L2 instruction cache.** Other configurations of
  what L1ICache models, and a second level that holds program text only.
* **DMA modes** other than the plain copy, padding and shapes, several channels at once, the
  system DMA, DMU and BIU routing, and the address maps: D2Cache has one transfer at a time
  between any two lines. The register contents would be most of such a model.
* **A second client of the debugger server.** The threads share slots without a lock and a run
  executes the commands of other clients' sockets; nothing in the code orders
  them, so the model would have no property to hold.
* **Breakpoint lists and patched instructions, watchpoints, semihosting's file I/O, start-up
  order of the processes, parsing and printing.** Sequential code or operating system calls.
