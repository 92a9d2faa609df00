# TLA+ development of the flexPTP demo firmware (NUCLEO-H745ZI-Q)

The firmware runs on a dual-core STM32H745. The CM4 core runs the Ethernet
driver, a TCP/IP stack (EtherLib or lwIP), flexPTP and a command line; the CM7
core owns the serial port. Everything the CM4 prints, and every key typed, goes
through a pipe in shared memory. This directory holds TLA+ modules of the
firmware's own code under `src/`, the TLC configurations that check them on small
instances, and proofs that TLAPS checks for every value of the constants.

## 1. Inventory

| Part | Source | State | Operations | Interacts with |
|---|---|---|---|---|
| Blocking FIFO | `CM7/Modules/blocking_io/blocking_fifo.c` (the CM4 has the same file) | ring `mem`, `readIdx`, `writeIdx`, binary semaphores `readSem`, `writeSem` | `bfifo_create/push/read/pop/wait_avail/get_used/get_free` | called by tasks and from interrupt handlers |
| Inter-core pipe | `Common/ICC/*`, `CM4/Src/standard_output/standard_output.c` (`icc_write`), `icc_recv_cb` in `CM7/Src/main.c` and `CM4/Src/cliutils/cli.c` | two `ICCQueue` rings in shared memory; three hardware semaphores (HSEM) with enable, status and lock bits; `sInitialized` | `iccq_push/avail/top/pop`, `icc_notify`, `icc_open_pipe`, the HSEM interrupt | senders: tasks of the CM4; the UART interrupt of the CM7 |
| Serial output thread | `CM7/Src/standard_output/serial_io.c` | a FIFO, `lineBuf`, an event flag, the DMA | `serial_io_write`, `serial_io_thread`, `serial_io_tx_cplt` | FIFO consumer; filled by start-up task and HSEM interrupt |
| Console output path | both `standard_output.c` | static `lineBuf`, `last_char` | `MSG`, `MSGchar`, `MSGraw`, `insert_carriage_return` | pipe, serial FIFO |
| CLI input and line editor | `cli.c:263-448` | line, escape state, history stack | `get_line`, `put_onto_cmd_hist_stk` | consumer of the CLI's FIFO |
| CLI command registry | `cli.c:25-261,465-555`, `cmds.c` | `spCliCmds`, `sCliCmdCnt`, `sCmdsTidy`, `modifyMtx` | register, remove, look up, help | start-up task, CLI task, flexPTP task |
| Boot handshake | `icc_cm4.c:11-30`, `icc_cm7.c:13-22`, both `main.c` | wake-up semaphore, WFE | wait, wake, start-up tasks | both cores |
| MAC: transmission | `mac_drv.c:388-523`, `eth_drv_etherlib.c:166-198` | descriptor ring, `nextTxDescIdx`, `txCntSent`, `txCntAcked` | `ETHHW_Transmit`, `ETHHW_ProcessTx`, `ETHHW_ISR` | DMA, interrupt, time stamp callbacks |
| MAC: reception | `mac_drv.c:335-386`, `eth_drv_*.c` | descriptor ring, context descriptors | `ETHHW_ProcessRx`, `ETHHW_ReadCallback` | DMA, stack |
| MAC: PTP clock | `mac_drv.c:627-820`, `flexptp_options.h:49-58` | time, addend and update registers | `ETHHW_InitPTPTime`, `ETHHW_UpdatePTPTime`, `ETHHW_SetPTPAddend` | flexPTP |
| Link monitor, PHY | `eth_drv_*.c`, `phy_common.c`, `mac_drv.c:527-618` | `linkState`, `linkStatus`, MDIO registers | `fetch_link_properties`, `phy_get_link_status`, `ETHHW_SetLinkProperties`, `ETHHW_ReadPHYRegister` | phy thread, stack thread, cable |
| lwIP port | `CM4/Modules/lwip_port/OS/sys_arch.c` | mailboxes, semaphores, mutexes | `sys_mbox_*`, `sys_sem_*`, `sys_arch_protect` | lwIP threads (built with `ETH_STACK=LWIP` only) |
| RTOS wrapper | `cmsis_os2.c` | none of its own | `osSemaphore*`, `osMutex*`, `osEventFlags*` | vendor code; its effect is part of the models of its callers |
| Network start-up, commands, C stubs | `ethernet_*.c`, `cmds.c`, `syscall.c`, `sysmem.c` | none of interest | straight-line initialisation, printing | |
| flexPTP, EtherLib, lwIP, FreeRTOS, HAL, embfmt | git submodules | not in this tree | | |

What is hard here: two cores run in parallel on shared indices; tasks of one
priority preempt each other; interrupt handlers push into the structures the
tasks are reading; and nothing but two binary semaphores and one hardware
semaphore keeps them apart. Everything of that kind is listed, at its line, under
`hazards` in `PROJECT.json`, with the properties that would catch it.

What makes each part correct:

* FIFO: no byte lost, doubled, altered or reordered while it is not filled; no
  lost wake-up; no pusher locked out; pop releases what read handed over.
* Pipe: the same for the ring; no lost notification, however senders and the
  draining handler overlap.
* Serial thread: the DMA's buffer is not touched while it transmits; no stale
  flag; whatever is pushed gets onto the wire.
* Line editor: line, terminal and history agree, the index stays in the history;
  registry: the table has room for what is entered and keeps each command and each
  name once, look-ups see whole entries, `modifyMtx` is always given back (three of
  these hold with exceptions only: section 2).
* MAC rings: each frame handed up once with its own time stamp, each time stamp
  callback made once.
* PTP clock: each jump made once and by its value, the addend is the one set last.
* Link monitor: the MAC has the mode of the link, the stack hears of every change.

## 2. Modules

| Module | Models | Notes |
|---|---|---|
| `BlockingFifo` | `blocking_fifo.c` with its callers | one action per access to shared fields |
| `AbstractFifo` | the promise of both rings: a channel of bytes | the abstract specification |
| `FifoRefinement` | `BlockingFifo` implements `AbstractFifo` | refinement mapping |
| `IccPipe` | one direction of the inter-core pipe | senders, ring, HSEM, draining handler |
| `IccRefinement` | `IccPipe` with one sender implements `AbstractFifo` | refinement mapping |
| `SerialOutput` | `serial_io.c` on top of `BlockingFifo` | thread, DMA, event flag |
| `EthTx` | transmitting half of the MAC driver | task, DMA, interrupt handler, time stamp callbacks |
| `EthRx` | receiving half, under either stack | DMA, interrupt handler, `ETHHW_ProcessRx` |
| `LinkMonitor` | the link monitor of both builds | phy thread, stack's thread, MDIO registers, PHY and cable |
| `PtpClock` | what flexPTP steers the clock with | caller, registers, hardware |
| `CliLine` | the line editor of the CLI | keys, line, terminal, history |
| `CliRegistry`, `MCCliRegistry` | the command table of the CLI | registering tasks, CLI task; the second adds symmetry |
| `FifoProofs`, `IccPipeProofs`, `CliRegistryProofs`, `LinkMonitorProofs`, `PtpClockProofs`, `CliLineProofs`, `EthTxProofs`, `EthRxProofs` | theorems | extend the modules they are about |

Composition: `SerialOutput` extends `FifoRefinement` and with it `BlockingFifo`, whose
variables it shares, and implements both `BlockingFifo` and the abstract channel;
`FifoRefinement`, `IccRefinement` and `EthTx` each map their ring to the one
abstract channel. A definition commented "Fault:" is a plausible mistake in the
definition after it; it is no part of the specification and stands there to show,
put in its place, that the properties notice.

### BlockingFifo

`mem`, `readIdx`, `writeIdx`, `readSem`, `writeSem` are the fields of `BFifo`. The
pusher's program counter `ppc` walks through `bfifo_push`, the consumer's `cpc`
through `bfifo_wait_avail`, `bfifo_read` and `bfifo_pop` and then `ConsumerLoop`,
the caller's loop. A task can be preempted between any two accesses to shared
fields, so each of them is a step; `bfifo_get_used` is two: the comparison
(`PushCompare`, `Compare`) and the subtraction in the step after it.

* The interrupt handler (`IsrPush`) pushes a byte in one step: it is not
  interrupted by the tasks of its core. Its `osSemaphoreAcquire` fails in an
  interrupt (`cmsis_os2.c:1966`), and its result is ignored by the code.
* Who pushes: on the CM7 the start-up task (`MSG`, before `icc_open_pipe`), then
  only the HSEM interrupt; on the CM4 only the HSEM interrupt. Hence `isrOn`,
  which starts in either state, and `OpenPipe`.
* `Rereads` tells the two builds apart: at `-O0` (Debug)
  `bfifo_monotonic_write_index` loads `writeIdx` twice, at `-Og` (Release) once.
* `PopWaits`: the CLI calls `bfifo_pop` with `osWaitForever`, the serial thread
  with 0. Neither looks at the result of the semaphore.
* A byte is its number in the stream of accepted bytes; what `bfifo_push` does not
  accept is dropped by all callers and is no byte of the stream. The two `memcpy`s
  of a push or read are one step: the bytes copied are not touched by the other
  side as long as sizes are right, and once a size is wrong the order properties
  are claimed no more (`overrun`) or found violated: with `Rereads` set to `TRUE`
  in `SerialOutput.cfg` a torn size makes the thread read bytes never pushed.
* `uint32_t` arithmetic is kept: `USub` wraps modulo `Modulus`, the scaled-down
  2^32.

* A push of the last free byte makes the indices equal (line 53 allows it), and a
  full FIFO then says it is empty, though `blocking_fifo.h:46` calls the result of
  `bfifo_get_used` the "number of used bytes". `overrun` remembers it.

The module has no run of its own: `SerialOutput` runs it as it is used on the CM7, and
the theorems about types and semaphores cover the CLI's use (`PopWaits`, `Rereads`).
`bfifo_destroy` and `bfifo_push_all` have no caller and are left out.

### IccPipe

`elements`, `writeIdx`, `readIdx` are an `ICCQueue`; `locked`, `raw`, `ier` one
HSEM. A sender is a task or handler of the sending core: `Write` starts
`icc_write` (CM4) or `serial_io_rx_callback` (CM7), then for each character
`PushCheck`, `PushCopy`, `PushLoad`, `PushStore` (the load and store of `writeIdx`
are apart because senders preempt each other), at last `NotifyTake` and
`NotifyRelease`. The receiver is the HSEM interrupt handler: `Irq` (the HAL masks
the notification and clears the status), the drain loop of `icc_recv_cb`, and
`Activate`. On the CM4 `icc_recv_cb` does nothing before the CLI has started
(`Gated`, `ready`); `missed` remembers how much had been accepted at the last
interrupt so turned away.

From the HSEM's reference: taking a semaphore that the same core has taken
succeeds; freeing a taken one sets the status bit of the other core; freeing a free
one does nothing; status bits are kept while the notification is masked. The cores
see each other's stores in program order (nothing in `src/` enables the data cache).

### SerialOutput

Extends `FifoRefinement`; its consumer is the thread, `buf` its `lineBuf`. `Transmit`
starts the DMA: the HAL refuses an empty transmission and the thread does not
notice. `TxComplete` is the DMA's end with the callback: the event flag set from an
interrupt goes through the timer task's queue, which this firmware uses for nothing
else and which holds at most this one command; that way is part of the step.
`FlagWait` is `osEventFlagsWait`, which clears the flag, and the thread's loop.

### EthTx

`slot` is the descriptor ring with its extensions, `nextIdx`, `sent` and `acked`
are the fields of `ETHHW_State`. The task goes through `ETHHW_Transmit`:
`WaitReleased` (the busy wait), `EraseStamp` (one of the `Parts` of the stamp at a time),
`EraseMode` and `EraseFlags` (the `memset`, which writes upwards, so that DES0 and DES1 are
gone before TTSS in DES3), `Fill`, `HandOver`, `Kick`. A stamp is the number of its frame,
`time`, and how many of its words are cleared, `cut`.
The handler is `IsrEnter` to `IsrExit`, with one step per descriptor of the search
in `ETHHW_ProcessTx` (`Scan`) and one per callback (`Deliver`). The DMA is external:
it sends frames in order, writes back OWN, TTSS and time stamp in one store, and
raises TI afterwards.

* Bits of DMACSR are cleared by writing ones, and every `SET_BIT` reads the
  register and writes all it read: each of them empties `dmacsr`.
* One task transmits at a time; the callers hold their stack's lock, which is
  outside this tree.
* Callbacks are called with the descriptor's own argument and what is in its stamp;
  `wiped` remembers stamps erased unread. Counters are 16 bits, scaled down to
  `CounterMod`, and compared as they are, as the code does.
* Two observations no property forbids: `found` (`descsWithTimestamp`) is not reset
  between searches, so the loop makes surplus rounds at the last index; and
  when the counter wraps, stamps pending together are delivered in another order.
  `OwnedUntouched` and `StampsRight` say that neither does harm.

### EthRx

`slot` is the ring; a stamped packet is followed by a context descriptor with the
stamp, which the DMA may write later (`DmaContext`). `ETHHW_ProcessRx` is `Start`
(the DMA's current descriptor), `Walk` (backwards to the oldest), `Look`, `Upcall`
(`Accepted`, `Refused`: the stack has no memory, or, under lwIP, `Dropped`: its input
function fails, the copy is freed and the frame reported as processed), `Restore` and `RestoreCtx`.
Under lwIP it runs in the handler, under EtherLib in a thread that the handler
notifies; `Init` picks one of `Stacks`.

* The stamp is taken from the next descriptor without a look at its owner or kind
  (`StampOf`); a context descriptor taken for a packet has for TSA a bit of the
  seconds (`SeenTsa`, either value). `strayed` remembers both, `refused` a refused
  frame, and the properties claim nothing, or no order, after them: what then goes wrong is
  shown by `EthRxEarly` and `EthRxRefused`.
* A frame without stamp leaves `ctx_bd` at NULL; the driver's second
  `ETHHW_RestoreRXDesc` then writes to address 0, nothing of this state.
* `Spare` bounds the load: one descriptor stays with the DMA. `EthRxFull` drops it.

### CliRegistry

`table`, `cnt`, `tidy`, `owner` are `spCliCmds`, `sCliCmdCnt`, `sCmdsTidy` and
`modifyMtx`; `line` is the static copy in `tokenize_cli_line`, which registering
tasks and the CLI share; `hnd` is a task's array of handles, each with the command it
was returned for. Registration is `Register` (the check for room, before the
mutex), `RegAcquire`, `RegFill`, `RegRelease`, `RegReturn` (the handle, after the
mutex). A removal is of the array: `Remove` begins it, and per handle there are
`RmAcquire`, `RmShift` once per entry and `RmRelease`, or `RmInvalid`. The CLI task is
`Type`, then `LookUp`, `Scan`, `Call`, `Done` or `Help`, `TidyUp`, `PrintHelp`, none of
which takes the mutex.

* A command is its number in the order of calls, its tokens one name; `memcpy`
  moves `pHint`, a pointer into the old slot, as it is (`hint`).
* Two tasks past the check for room together (`crowded`) can write behind the table:
  `Overflow`, after which nothing is modelled (`overrun`). `WithinTable` says that
  this is the only way there; configuration `CliOverflow` goes it.
* A name registered again: the clean-up waits for the mutex its own task has
  (`"again"`, `Stuck`) for good, with both entries in the table (`CliDuplicate`).
  `NamesOnce` has no other exception, and `MutexRight` then keeps everybody out.
* An array of handles: each removal shifts what the next handles point at, so the second
  one removes another command (`CliArray`), or is an index out of range, whose removal
  leaves with the mutex (`CliLeak`, `leaked`). `TableExact` holds for whatever is
  removed. A handle is also wrong if another task enters a command between release and
  return (`overtaken`).
* Look-ups: tokens get mixed up in the static buffer (`MixedUp`), and a removal moves
  entries under the index (`quiet`); `CliLookup` shows the first. The help prints an
  entry without hint, also later, if a registration overlaps `tidy_format_commands`
  and its FALSE is overwritten (`raced`).
* Left out: the padding of the help, entries without a hint delimiter, number of
  arguments, commands of several tokens of which one is a prefix of the other, and
  the -1 of a refused registration in an array of handles.

### LinkMonitor

`status` is `linkStatus` of `phy_common.c`, `link` is `linkState`, `mac` the speed and
duplex bits of MACCR, `told` what the stack has heard; `mb`, `addr`, `data` are the MDIO
registers. A thread goes through `fetch_link_properties`: `Fetch`, then for SCSR and for
BSR `MdioCheck`, `MdioIssue`, `MdioTake` and `StoreMode` or `StoreUp`, at last `Compare`,
`SetMac` and `Tell`. Under lwIP one thread runs it, the phy thread handing it to the
stack's; under EtherLib the phy thread and, by `llTrigLinkChg`, the stack's thread do, and
nothing keeps them apart. `Init` picks one of `Stacks`. PHY and cable are external.

* A read that finds the interface busy returns without a value, and the callers do not
  look: `regVal` is then anything the register could hold. A thread may also take the
  word of the other's register (`MdioTake`): decoded for the wrong register it can be any.
* BSR remembers that the link was lost until it is read (`low`, IEEE 802.3). This is why
  a loss shorter than the polling interval is seen, and why the MAC, set on a rising edge
  only, gets the new mode (`MacMatchesPhy`, `LossTold`).
* `Settles` is an assumption on the PHY: a mode is readable one round before the link is
  up. SCSR is read before BSR, so without it one thread can pair the old mode with the
  new link and leave the MAC in the wrong mode until the next loss.
* With two threads the MAC's mode and what the stack was told may stay wrong until the
  next change; only `linkState.up` is sure to follow (`LinkFollowed`).
* `phy_get_link_status` calls its handler without looking whether a PHY was found; the
  model has one. `phy_read_reg` and `phy_write_reg` return 0 for success as a Boolean.

### PtpClock

The caller goes through `ETHHW_InitPTPTime`, `ETHHW_UpdatePTPTime`, `ETHHW_SetPTPAddend`
or `ETHHW_EnablePTPFineCorr` (`op`): write the values (`WriteSeconds`, `WriteNanos`,
`WriteAddend`), `Wait` for a bit of MACTSCR to clear, `Load` and `Store` MACTSCR with a bit
set. The hardware (`DoJump`, `DoAddend`) may act between any two of them. `Words` is what
the macros and `ETHHW_UpdatePTPTime` make of a signed time; `wanted` and `made` are the
jumps asked for and carried out, with their words.

* Values are written before the wait, so a jump not carried out yet is made with the
  next call's words, or the seconds of one and the nanoseconds of the other
  (configuration `PtpOverlap`); and a `Store` sets again what the hardware has cleared since the `Load`, so
  a jump is made twice. Both need a call that begins before the last jump is made (`hasty`).
  `JumpsOnce` says what holds without; `NoJumpLost` and `AddendRight` hold with it.
* One task calls these functions, flexPTP's, which is not in this tree.
* Direction: `PTP_UPDATE_CLOCK` passes `value < 0` as the argument that `mac_drv.c:686`
  comments "true = add", while `flexptp_options.h:38` says negative means backward
  (configuration `PtpBackward`). A subtraction programs 10^9 minus half of the nanoseconds, which is 10^9
  itself for whole seconds, and leaves the seconds as they are. What the clock makes of
  such words, and which sign flexPTP passes, is not known here.
* `ETHHW_EnablePTPTimeStamping`, which overwrites MACTSCR, comes before all of them.

### CliLine

`line`, `esc`, `pos`, `param`, `noMod`, `histIdx` are the variables of `get_line`, `hist`
and `level` the history; one key is one step, as nobody else touches them. `past` is the
history kept without limit. `Finish` is what follows the loop: trimming, and either the
history command, which reads the next line behind the blanks before it (`lead`), or the stack.

The terminal is external: it prints characters at the cursor, moves it back for a
backspace and to the left for a carriage return, and ignores a delete. `shown` is what it
shows left of the cursor; echo and recall write to it separately from the buffer. Every
character outside an escape sequence is echoed before it is looked at, so a tabulator or
control character gets onto the terminal and not into the line (`Control`); a backspace is
echoed, moves the cursor and has the character wiped out, while after a delete the blank
lands behind the character, which stays (`Erase`). `Recall` wipes the old line out with
`MSG`, which first prints the core's prefix if the last `MSG` of any task has ended in a
newline (`Prefixed`); the entry written over it hides the prefix if it is long enough. In these
three cases the terminal is `marred` for the rest of the line and not followed further;
`LineRight` speaks of the other lines. Output of other tasks in the middle of a line is not modelled.

`overrun` is set by a write behind `sLineBuf` or `escParam`, and nothing follows it. `Type`,
`Recall` and `Spill` write at `lead` plus the length, which `get_line` compares with the
limit without `lead`; `Return` and `EscNext` store behind the four characters of `escParam`
after as many. `BufferKept` says that these are the only ways.

* The end of an escape sequence is acted upon before its character is stored: the first
  arrow of a line acts on an uninitialised `escParam[0]`, each later one does what the
  arrow before it has asked for (`EscNext`). `Garbage` is what may be found there.
  `CliLineArrows` shows it for arrows after the first, which owe nothing to `Garbage`.
* Typing does not count as a modification, only erasing does: an arrow after typed
  characters replaces them (`edited`, `CliLineEdited`).
* Down to -1, or up with an empty history, blanks the line on the terminal and leaves the
  buffer (`blanked`): return enters what is not to be seen. Recalling an entry of full
  length enters it at once.
* Not modelled: `tokenize_cli_line` copies a full line, 192 bytes, to 191, and passes NULL
  to `strncpy` for a line of blanks, which are trimmed in `get_line` only.

## 3. Runs

Bounds are named constants. Rings of 3 to 5 slots wrap around at least once in 6
bytes; reads and pushes of up to 3 bytes make both the one-block and the two-block
copy happen, and a read shorter than the content; one longer push fills the ring.
More bytes only repeat these: nothing depends on the bytes' numbers but their order.
A transmit ring of two takes four frames, so that descriptors are reused and the frame
counter wraps; a receive ring of four is wrapped around by three stamped frames. Three
registrations are one more than the table of two holds. Three changes of the cable are
a link that comes up, is lost, and comes back in another mode within one round. Three
lines are one more than the history of two holds, and parameters of two
characters (four in the code) are enough for an arrow, a key that is none and a sequence too
long; lines of three characters can be full, blank at either end, or the history command, and
of three on top of a blank run over the buffer's end; a prefix of two columns (four in the
code) is hidden by some entries and not by others. Four calls to the clock are two jumps with a call
of another kind between and after them; two rounds of the addend's eight are one that is
repeated. `CHECK_DEADLOCK FALSE` stands in every cfg because a behaviour ends when its
bytes, frames, commands, lines or calls are used up.

| Run | Checks | Shows |
|---|---|---|
| `IccOneSender` | types, `PendingIsAnnounced`, `DrainRight`, `AllDelivered`, `ImplementsChannel` | CM7 to CM4, where one handler sends: a FIFO channel that never overruns |
| `IccTwoSenders` (violated) | `PushedIsStored` | two tasks of the CM4 printing at once lose or destroy elements |
| `SerialOutput` | types, `SemaphoresRight`, `ReadInOrder`, `ImplementsChannel`; `WireInOrder`, `LineBufStable`, `AllTransmitted` | the serial FIFO in the Release build with task and interrupt pushing, a FIFO channel until filled; thread, DMA and callback on top of it |
| `SerialHang` (violated) | `ThreadReturns` | a needless wake-up makes the thread wait for a flag nobody sets |
| `EthTx` | types, `OwnedUntouched`, `StampsRight`, `ImplementsChannel`, `AllSent` | every frame once, in order; a stamp to its own callback, whole until its descriptor is being reused, and kept till then |
| `EthTxLost` (violated) | `StampsDelivered` | an interrupt raised while the handler runs is cleared unseen; the callback waits for a later frame |
| `EthRx` | types, `InOrder`, `FramesRight`, `AllRead` | both stacks: frames passed on (or thrown away by lwIP) once, in order, with their own stamps |
| `EthRxFull` (violated) | `SearchEnds` | with a full ring the search backwards never stops |
| `CliRegistry` | types, `MutexRight`, `TableRight`, `HandleRight`, `LookupRight`, `HelpTidy` | two registering tasks and the CLI task: what holds without the mutex, and under which conditions |
| `LinkMonitor` | types, `MacMatchesPhy`, `ToldAlternates`, `LossTold`, `LinkFollowed` | one thread: MAC and stack follow every change, however short; two threads: the link state comes right in the end |
| `CliLine` | types, `BufferKept`, `HistoryExact`, `LineRight` | every sequence of keys: the history holds the lines entered, return enters what is shown, and the buffers are left in two ways only |
| `PtpClock` | types, `JumpsOnce`, `NoJumpLost`, `AddendRight` | a jump is made once, with its own words, if the clock is given time for it; none is dropped and the addend is right in any case |

Twelve more configurations stand beside the runs. Each states what a comment says and the
code does not keep; TLC answers each within seconds with a counterexample
(`tlc -config CliDuplicate.cfg CliRegistry`, say). The invariants of the runs above name the
same cases as their only exceptions.

| Configuration | Module | Refutes | By | Quoted from |
|---|---|---|---|---|
| `EthTxTorn` | `EthTx` | `StampsWhole` | an interrupt between the stores of `memset` calls the callback of the frame a ring before with a half erased stamp | `mac_drv.c:406` "examine only descriptors holding a timestamp" |
| `EthRxRefused` | `EthRx` | `OldestFound` | a refused frame is overlooked by the next search, which begins behind it | `mac_drv.c:345` "get the first unprocessed descriptor (oldest one)" |
| `EthRxEarly` | `EthRx` | `StampsOwn` | a packet is passed on with what stands in a context descriptor not written yet | `mac_drv.c:362` "context descriptor holding the timestamp" |
| `CliOverflow` | `CliRegistry` | `LimitKept` | two tasks that find the last room both enter a command, one behind the table | `cli.c:36` "limit on number of separate commands" |
| `CliDuplicate` | `CliRegistry` | `DuplicatesGo` | a name registered again is not cleaned up: the task waits for the mutex it has | `cli.c:499` "clean up if the same command registered before" |
| `CliArray` | `CliRegistry` | `RemovedAsGiven` | from the second handle of an array on, other commands are removed | `cli.c:548` "removes bunch of commands, terminated by -1" |
| `CliLeak` | `CliRegistry` | `Released` | the second removal of an array of two leaves with the mutex | `cli.c:544` "release mutex" |
| `CliLookup` | `CliRegistry` | `CalledAsTyped` | a look-up calls a command registered under another name | `cli.c:47` "mutex protecting the command database" |
| `CliLineEdited` | `CliLine` | `KeptIfEdited` | an arrow replaces what was typed | `cli.c:372` "replace only if no modification has made to the input buffer" |
| `CliLineArrows` | `CliLine` | `ArrowsMove` | an arrow does what the one before it asked for | `cli.c:370` "case 'A': // UP" |
| `PtpOverlap` | `PtpClock` | `JumpsAsGiven` | a call overwrites the words of the jump before it | `mac_drv.h:124` "Update PTP time forward or backward by a given value" |
| `PtpBackward` | `PtpClock` | `NegativeGoesBack` | a negative time is programmed as an addition | `flexptp_options.h:38` "negative time value means jumping backward" |

The Debug build of the first two rings: with `Rereads` set to `TRUE`, TLC finds
`ReadInOrder` (`SerialOutput.cfg`) and `DrainRight` (`IccOneSender.cfg`)
violated by a torn size. Notification with several senders is not a run; theorem
`NoLostNotification` covers it for any number of them. With `Settles` set to `FALSE`
in `LinkMonitor.cfg`, `MacMatchesPhy` is violated (section 2).

Fairness. Both tasks on a FIFO have the default priority and FreeRTOS slices time
between equals, so `PushStep`, `ReadStep` and `ConsumerLoop` are each weakly fair;
starting a push is not, nobody has to. A pending interrupt is taken, so the
receiver's steps are fair; a sender that has begun comes to its end; the receiver
opens its pipe and starts its CLI during start-up. A DMA transmission ends. For the
Ethernet the link is up, so the DMA sends what it was given and writes the context
descriptor of a packet it has written; interrupts are taken and the thread that
reads is scheduled. `AllRead` is claimed for EtherLib and without transmit
interrupts: `ETHHW_ISR` clears a receive interrupt that comes while it serves
another (section 2), and the frame then waits for the next one. In
`LinkMonitor` each thread is scheduled and the PHY answers an MDIO read; the cable may do
what it likes, also stay unplugged. `CliDuplicate` lets every
task inside a call run, which it does whenever it is ready (`FairSpec`); the other runs of
`CliRegistry`, `CliLine` and `PtpClock` state no liveness and assume no fairness. No strong fairness
is used anywhere. `AllTransmitted` is claimed for behaviours in which only
the interrupt pushes; `SerialHang` shows why: with the start-up task pushing it
does not hold.

## 4. Proofs

`FifoProofs`, about `BlockingFifo` for every ring size, read and push length, and modulus
above three times the size:

* Types (`TypeCorrect`): torn sizes keep the indices in the ring because
  `FreeIsUnsigned` and `UsedIsUnsigned` bound what the subtraction can give.
* Semaphores: `SemInv` says where `readSem` and `writeSem` are at each step of
  both sides; `SemaphoresRight` (no lost wake-up, `bfifo_pop` takes its semaphore at
  once, no pusher locked out) follows. It needs no assumption on the build.
* Order: `OrderInv` relates the indices to `pushed - popped`, the ring's content
  to the numbers of its bytes, and what each side has computed so far to the
  present state. `ReadInOrder`, `UsedIsStored` and `PopsWhatWasRead` follow.
  Assumption `Untorn`: one load of `writeIdx`, or single-byte reads; section 3 says
  how to see that it is needed.
* Refinement: `HandInv` says that what the consumer holds are the bytes released
  last; with `OrderInv` it gives `ChannelInv`, which writes content and hand-over of
  the channel as runs of consecutive numbers, `Run`. A push then lengthens one run, a
  pop moves bytes from it to the other, and every other step stutters
  (`StepsOfChannel`), until the ring is filled (`FifoIsChannel`, also under `Untorn`).

In the same module, about `SerialOutput`: its steps are steps of `BlockingFifo` or leave it
alone, so all theorems above hold of it, the refinement among them (`SerialIsChannel`); `HandshakeInv` for flag and DMA; `WireInv` continues `OrderInv` to
the wire (`WireKeepsOrder`).

`IccPipeProofs`, for any set of senders:

* `NoticeInv`: an announcement is pending, or the handler is `Emptying` the ring,
  its count of iterations being what the ring holds. No assumption on senders,
  build or gate is made, and two senders may be ruining each other's elements
  meanwhile: `NoLostNotification`.
* `QueueInv`: indices, content and progress of push and drain. `PushedIsStored`,
  `DrainRight` follow under `OneSender` and `OneLoad`;
  run `IccTwoSenders` shows that the first is needed, `Rereads` that the second is.
* `ContentInv`: under the same assumptions the ring holds the run of numbers from
  `popped` to `pushed`, so a store is a `Put`, the advance of `readIdx` a `Take`, and
  the pipe implements `AbstractFifo` without ever being void (`PipeIsChannel`).

`CliRegistryProofs`, for any tasks, names, size of the table and number of calls,
assuming only that the sizes are positive and that what is typed are names:

* `Safe` is inductive and holds types and `MutexRight` together with `IdxInv` (a
  removal under way has a handle, then an entry, and a call is of an entry) and `CmdInv`
  (a command about to be entered is new, its task's alone; what is stored has been
  entered). Types need them: the count cannot become negative only because the mutex
  keeps a second removal out. `TypeCorrect`, `MutexIsRight`.
* `RoomInv`: unless `crowded`, a task past the check found room and is the only one
  there, so it writes within the table (`TableHasRoom`).
* `ExactInv` is `TableExact` carried through a removal: while entries are being
  shifted, one of them, the `Hole`, is not counted (`TableIsExact`); `NamesInv` is
  `NamesOnce` carried through in the same way (`NamesAreOnce`).
* `HandleInv`: until something is removed or a task is `overtaken`, a task that has
  filled its entry and has not returned finds it at the end of the table, where the
  handle will be taken from, and its earlier handles are good (`HandleIsRight`).
* `LookInv`: a look-up that nothing was removed under has passed only entries with
  other tokens, and the entries it has to find are still there (`LookupIsRight`).
* `HintInv`: a table marked tidy has a hint in every entry, except between the entering
  of a command and the mark; what `tidy_format_commands` has passed has one, and
  a hint that has not been moved is its own entry's (`HelpIsTidy`).

`LinkMonitorProofs`, for any modes, changes of the cable and triggers: types, which need
that a thread decodes only words of the register it has asked for (`TypeCorrect`); and
`ToldInv`, by which the stack has been told what `linkState` says whenever one thread is
between two rounds, hence is told of changes only (`ToldChangesOnly`). For the mode of the
MAC (`MacIsRight`), `MdioInv` says that with one thread a word found belongs to the register
asked for, and `MacInv` follows a mode from the PHY to the MAC: what the round has read of
it is still the link's as long as BSR remembers no loss. Assumption `Settles`, the
auto-negotiation of IEEE 802.3: a mode is readable before the link comes up with it.

`PtpClockProofs`, for any times, rounds and calls: `WordsType` bounds the words for either
sign; `AddendInv` follows the register and its bit through the load and store
(`AddendIsRight`) and shows that no bit is taken back; `WordInv` says what of a call's words
is in the registers. With them `DueInv`, that a bit waited for stays clear until the function
sets it, gives `NoJumpIsLost`, and `JumpInv`, that without haste no copy of MACTSCR holds a
jump's bit, gives `JumpsAreMadeOnce`.

`CliLineProofs`, for any lengths, depth, characters and number of lines: types with the
bound of the history index; `RoomInv`, that before an overrun the next character has its place
in either buffer, gives `BuffersAreKept`; `HistInv` adds to `HistoryExact` that a history nothing was put
on is blank (`HistoryIsExact`); `LineRight` is inductive beside them (`LineIsRight`).

`EthTxProofs`, for any ring, counters, frames and interrupts:

* `TypeInv` adds to the types that a descriptor with a stamp has a callback and that the
  one the task works at is not the DMA's (`TypeCorrect`).
* `ChosenInv`: the descriptor chosen by the search is not the DMA's, although `found`
  counts on from one search to the next; an index left over is that of a descriptor the
  handler has cleared, and the task, interrupted, cannot have given it away since
  (`OwnedIsUntouched`).
* `StampInv` is the argument for `StampsAreRight`. `AgeInv` dates a callback by its place
  in the ring, so that one still there when the task comes back is a whole ring old;
  `BufInv`, `CbInv`, `TimeInv`, `OnceInv` and `PickInv` keep buffer, callback and stamp of a
  frame together and apart from other frames'; `QueueInv` says which descriptors are the
  DMA's and in which order it sends them; `KeptInv` says where the callback of every frame
  filled is. No assumption on the size of the counters is needed: the order in which
  pending stamps are delivered depends on it, the pairing does not. `TimeInv` says that a
  stamp is cut only in the descriptor the task is erasing.
* `ContentInv` follows from `QueueInv`: the descriptors the DMA owns are as many as
  frames are under way, because the distance from the end of the queue is a bijection
  (`OwnedCount`), and they hold consecutive frames. The ring implements `AbstractFifo`
  for any number of descriptors (`RingIsChannel`).

`EthRxProofs`, for any ring, frames and either stack, and without the bound `Spare` of the
run: also for a ring that fills, before or while it is read.

* Types (`TypeCorrect`) are inductive once `NextIs` and `PrevIs` say what stepping along
  the ring means.
* `FramesAreRight`: `PairInv` ties a context descriptor to the packet before it, and the
  context the DMA still owes to the packet it wrote last; what makes it inductive is the
  moment between the two calls of `ETHHW_RestoreRXDesc`, in which a full ring takes a new
  packet in front of an old context. `EvtInv` says that the DMA has not touched what is
  being read, `RingInv` that every frame not passed on or dropped is in the ring, in one descriptor.
* `FramesInOrder`: `OrderInv` looks from the DMA's descriptor along the ring: first the
  armed ones, then the others in the order of reception, and `ETHHW_ProcessRx` is at the
  oldest, which is what the search backwards is for; `LogInv` joins it to what has been
  passed on.

Only model-checked: the liveness properties `AllDelivered`, `AllTransmitted`, `AllSent`,
`AllRead`, `LossTold` and `LinkFollowed`, as fairness and ENABLED are beyond the prover. Every
invariant, action property and refinement of the passing runs is a theorem.

## 5. Not modelled

* Vendor headers, start-up code, CMSIS and the RTOS wrapper: register layouts and thin
  calls, by far most of the lines in `src/`. What the RTOS objects do for their callers is
  part of the models that use them. The map therefore covers a small share of the lines
  of the tree; of the firmware's own code that runs concurrently it covers most.
* flexPTP, EtherLib, lwIP, FreeRTOS, the HAL and embfmt are submodules and not in the
  tree.
* Console text (`MSG`, `insert_carriage_return`): formatting in a static buffer without a
  lock; what happens to the characters afterwards is `IccPipe` and `SerialOutput`.
* The boot handshake: whether the CM4 sleeps before or after the CM7's release depends on
  boot timing and the WFE event register, of which the code says nothing.
* `sys_arch.c`: a port of lwIP's objects on RTOS objects; its callers are not in the tree.
* Pulse train and auxiliary time stamps of the clock: nothing in the tree calls them.
* Network start-up, commands, C library stubs: straight-line code.

What a continuation would add, in this order: an abstract specification of the receive ring
(`FramesInOrder` as a refinement) and of the command table; the text of the console, whose
static buffer no property is about.
