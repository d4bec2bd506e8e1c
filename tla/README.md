# Verification of the A_os kernel

`A` is a small preemptive real-time kernel in C for Cortex-M processors
(`src/kernel`, with drivers and example modules around it). This directory
holds TLA+ models of it, the TLC runs that check them and the TLAPS proofs of
what holds for every number of processes, pool size or counter width.

## 1. The system

One supervisor (process 0) and up to four user processes run round robin on one
CPU. A 1 kHz tick (SysTick) counts time, fires timers and semaphore timeouts and
pends PendSV, which saves the running context and picks the next task. Kernel
calls protect themselves with `__disable_irq`/`__enable_irq`; interrupt handlers
talk to processes through `activate_process`, which records a reason and makes
the process ready.

| component | state | operations | hard part |
|---|---|---|---|
| dispatcher (`scheduler.c`) | `Asys.current_process`, per process `current_state`, `wait_event`, `wakeup_rsn`, `wakeup_flags` | `update_next_task`, `PendSV_Handler`, `wait_event`, `suspend`, `activate_process`, `get_activation_flags` | every call outside a critical section can be preempted or interrupted; wake-ups racing sleeps |
| time (`timer.c`) | `g_tick_count`, per process `delay_value` and eight timers | `SysTick_Handler`, `check_timers`, `task_delay`, `create/start/restart/stop/destroy_timer`, `get_timer_expired` | wrap of the counter, timers identified by bit or by index |
| semaphores (`semaphores.c`) | owner, one waiter and a deadline per semaphore | `get_semaphore`, `destroy_semaphore`, `remove_from_waiting_semaphore`, `check_semaphores` | waits span a context switch; time-out racing release |
| supervisor (`supervisor.c`) | `failed_process`, `fail_rsn` | main loop, fault handlers, process wrappers | two faults before the loop looks; loop preempted between test and act |
| memory pool (`mem.c`) | 32 chunks with links, owner and run length; `first_mem`, `num_buf_in_use`, defragmentation request | `mem_get`, `mem_release`, `defrag_mem`, `reset_orphaned_chunks` | free list kept in step with ownership; search past busy chunks |
| hardware manager (`hwmanager.c`) | owner and status per peripheral, a ring of 16 buffers each | `allocate_hw`, `deallocate_hw`, `queue_insert`, `queue_extract`, `create/destroy_queue` | ring shared with the transmit interrupt; state left over between owners |
| device layers (`HwDevices/*.c`) | receive buffer, index, time-out per UART; USB packet state | `hw_send_uart`, `hw_receive_uart`, HAL call-backs | interrupts against calls, character time-outs |
| mailboxes (`mbx.c`) | one pointer and size per process and slot | `mbx_send`, `mbx_receive` | overwrite before the receiver has read |
| SVC layer (`svc.c`), utilities (`system_functions.c`) | none | system calls, `A_memcpy`, `A_bzero`, `A_bit_index_to_num` | tail bytes when the size is not a multiple of four |
| Modbus slave (`modules/modbus`) | the tables of coils, inputs and registers, one behind the other | one handler per function code; the application's `A_set_in_to_modbus`, `A_set_reg_to_modbus` | bit, byte and register addressing; checks spread over the handlers; unmasked read-modify-write |
| QSPI flash (`hw_qspi.c`, `drivers/flash`) | the chip's contents and status; the owner | initialise, write-enable, program, erase, read | polling across task switches; transfers that fail between two commands |
| audio (`kernel/audio.c`, `modules/audio`) | voices, wave tables | voice allocation, sample loop | floating point in an interrupt |

What makes each part correct, in the order of importance for the system:

- dispatcher: no runnable task starves; a wake-up is neither lost nor invented,
  whatever instruction the interrupt falls on; a reason reaches its process; a
  killed process stays dead;
- memory pool and supervisor: two processes never hold the same chunk; the free
  list holds exactly the free chunks after any sequence of calls; the count that
  triggers the defragmentation is exact; the chunks of a failed process, and no
  others, are taken back;
- transmit queues: a peripheral has one owner; accepted buffers go out once, in
  order, and all of them do; a slot is not reused before its buffer has gone out;
- time and timers: no delay or timer ends early, all end; a one-shot timer fires
  once; calls address the timer they name;
- semaphores: a waiting process keeps its place, nobody sleeps on a free
  semaphore untold, a release reaches the waiter, a wait does not end for nothing;
- reception: the process is told of exactly the characters that have come, it uses
  what it was told of, and no character stays in the buffer for ever;
- flash: a call that reports success has done its work, every call returns;
- Modbus: a read answers what was in the table, and no request reaches the inputs
  of the application;
- mailboxes: a message is received as sent, or its loss is visible;
- voices, utilities: the voices and bytes after an operation are those a
  reference definition gives.

Interrupts and masking, common to all the models. `__disable_irq` masks PendSV,
SysTick and the device interrupts, so a masked region is one step. PendSV has the
lowest priority: an interrupt handler is one step with respect to the processes,
and a switch that was requested happens as soon as interrupts are enabled. What
a process does outside a masked region is split wherever another actor can see
or change what it uses.

## 2. Modules

| module | what it is |
|---|---|
| `Scheduler` | `scheduler.c`, the tick and `task_delay` of `timer.c`, the killing of processes in `supervisor.c` |
| `MemPool` | `mem.c` and the supervisor's loop |
| `TxFifo` | abstract: what a peripheral's transmit side promises |
| `Timers` | the software timers of a process and `check_timers` of `timer.c` |
| `HwManager` | `hwmanager.c` with `hw_send_uart`/`hw_send_usb` and their completion interrupts; implements `TxFifo` |
| `Ipc` | `semaphores.c` and the signal of `mbx.c`, around `wait_event` |
| `UartRx` | the receive side of `hw_uart.c` and the loop of the process that serves it |
| `Flash` | `hw_qspi.c`, `qspi.c`, `w25q.c` and the chip |
| `ModbusRtu` | `A_modbus_rtu.c`: the handlers and the application's side of the tables |
| `MC`*module* | the instances TLC checks, one module for each of the above but the abstract one |
| *module*`Proofs` | its theorems |

The modules meet where the code does. `MemPool` and `HwManager` assume that the
supervisor, or a process inside a call, is dispatched again: that is what
`SupervisorRuns` and `RunnableRuns` establish for `Scheduler`. `Scheduler` sees
devices, timers and semaphores as sources of reasons; a module of theirs refines
what a source posts, not how a post acts.

**`Scheduler`.** A PCB is a function over tasks per member (`ready`, `killed`,
`waitEvent`, `wakeupRsn`, `wakeupFlags`, `delayValue`); `current`, `tick` and
`pendsv` are `Asys.current_process`, `Asys.g_tick_count` and the PENDSVSET bit.
`WaitEvent` is the masked body of `wait_event`, `WaitReturn` its return after the
process has been dispatched again; `activate_process` from a process is
`ActivateTest` (the KILLED test, unmasked) and `ActivatePost`; from an interrupt
it is one step. `SysTick` does the whole handler: the count, the delays, any
subset of the reasons timers and semaphores may post, and the request of a
switch. `IsNext` is the result of the scan of `update_next_task`. `Fault` and
`Finish` are the fault handlers and the end of a process wrapper. Four history
variables (`passedOver`, `owedTicks`, `postedSince`, `unreported`) record what
the properties need; no guard reads them.

**`MemPool`.** A chunk is its index; `nxt`, `pre`, `count`, `owner` are the members
of `MEMpool[c]`, and a pointer that is not into `MEMpool` sets `wild`, after which
nothing is claimed. `MemGet` is the masked part of `mem_get` with the search
(`IsFirst`, with its repeated test of the same chunk) and the unlinking;
`MemGetReturn` reads `first_of_list` a second time, unmasked, as the code does.
`MemRelease` has both branches of `mem_release`. The supervisor's loop is
`SupTest`, `Defrag`, `SupCheck`, `SupSweep` (one pass of the masked loop per step,
no process moves in between) and `SupClear`; its tests are steps of their own,
as they are unmasked. Any mortal process may fault at any
moment, also between two of these steps; `failed` remembers one of them. `holds` is who may use which buffer, from the processes'
point of view. Fields that are written and never read are left out.

**`HwManager`.** One peripheral: `owner` and `allocated` are `HWMngr[]`, `created`,
`qOwner`, `ptr`, `ins`, `ext` and `queued` the members of `HwQueues[]`, `wire` what
the peripheral transmits. `allocate_hw` is test, assignment and `create_queue`, three steps;
`deallocate_hw` is the freeing and `destroy_queue`, whose short `A_bzero` leaves the
indices and the count; `hw_send_*` is `queue_insert` and, for an empty queue, the
start of the transmission. `TxCplt` is the completion interrupt. The model is of
the build with `USE_QUEUES` (an option no file of the repository sets) and of
`allocate_hw` with configuration 0: with another one the test of `status` in the
completion never holds. Not modelled: that all UARTs share `CONSOLE` and one
completion interrupt.

The refinement: `pending` of `TxFifo` is the sequence of the `queued` slots from
`ext` on, `wire` is `wire`. The buffer in transmission stays at the front of the
ring, so `TxCplt` implements `Complete`, `Send` implements `Accept` and `Start`
implements `Begin` or a stutter.

**`Timers`.** One process, as a process only touches its own timers. `flags`, `value`,
`deadline` and `expired` are `timer_flags`, `timer_value`, `current_timer` and
`timer_expired`; `waits` is the TIMER bit of `wait_event`, without which `check_timers`
leaves the timers alone. The calls index `timer_flags` by the mask `2^i` of timer i
where the rest goes by i, and so does the module (`MaskOf`): `stop_timer` of timer 0
stops timer 1. Masks beyond the array reach other members of the PCB; they are left
out by `MaskAssumption`. `SysTick` is one pass of `check_timers`: an enabled timer
whose deadline has come fires, and begins its next period if it is periodic; a
stopped one is put off by a tick; one that is not periodic stays enabled and fires
again at every tick. `get_timer_expired` is `ExpiredRead` and `ExpiredClear`, and what
the latter writes back may be computed from any value since the copy. Histories: `left`
(ticks a timer has still to run), `crossed` (a wrap since it was armed), `unread`, `activated`.

**`Ipc`.** `owner`, `waiter` and `deadline` are the arrays of `Semaphores`; of a PCB there are
the ready bit, whether the mask has `SUSPEND_ON_SEMAPHORE`, and whether the semaphore reason is
in `wakeup_rsn` (one bit: time-out and release have the same value). `Sleep` is `wait_event`,
which returns the reason of before the sleep. `get_semaphore` is `TryGet` and `GetFree` (masked,
one step), or `GetWait`, which begins the first sleep; interrupts are enabled from then on, so
`TimedAgain`, `TimedReturn`, `ForeverReturn` and `Take` are steps. After any wait `Take` makes the
caller the owner, whatever ended the wait. `destroy_semaphore` is three unmasked steps
(`DestroyFree`, `DestroyTest`, `DestroyPost`), by any process, as it does not ask who the owner is;
`Unqueue` is `remove_from_waiting_semaphore`, which does not ask either. `SysTick` is `check_semaphores`, which looks for
deadlines of the semaphores the waiting process OWNS. Which ready process runs is left to
`Scheduler`. `mbx_send` is a wake-up for another reason. Histories: `cause` (what posted the
reason since the wait began) and `naps` (whether its release has been posted, and the sleeps since).

**`UartRx`.** `idx`, `rxlen`, `timer`, `buf` are the members of `HWMngr[]`; a character is its
number. Nothing is assumed of the line: `RxChar`, the receive interrupt, comes at any time,
before the last characters have been read and, as it has the higher priority, between any two
steps of the tick, which is `Tick` (the count), `TickLen` and `TickClear` (the two assignments when
it ends). The process calls `hw_receive_uart` (`Prepare`, `Listen`), waits, looks at the reason
(`Woken`), reads the length and uses the buffer; it may then call `hw_receive_uart` again.
`OtherWake` is any other activation, which need not come. Histories: `from` (the first character
since the last announcement), `batch` and `told` (what was announced, and when), `raced` (a character
came inside the handler of the tick) and `mark` (nothing had come between the announcement and the
reading of the length).

**`Flash`.** A call is the sequence of commands of its function in `w25q.c`: polling (`Poll`),
write enable (`Enable`), the command, its data, polling again (`Wait`). Each is a step,
between which others run and the chip may finish (`ChipDone`); each may fail, and the call
then returns an error, except that a read of the status that fails ends the polling as if the
chip were ready (`PollFails`, `WaitFails`). The chip ignores a command while it is busy or when it is
not enabled; what it accepts is its `job`, and in its contents only when it has finished. Data that
stop half-way are programmed as far as they came. Contents are sets of one-bits: programming clears
bits, and wraps in its page; the chip takes the address, which nothing checks, modulo its size.
The size of a transfer is 32 bits wide for the caller and 16 for the driver (`DataLen`, `SizeMod`).
`allocate_hw` is `AllocTest` and `AllocTake`, so two processes may both get the flash. What a
caller may expect (`Does`: `Fits`, `Written`, `BlockErased`) is stated without the driver's own commands.
Histories: `before` (what the chip was to hold when the call began), `blind` and `early` (the call
went on without a status, before its command or after it) and `raced` (the flash changed hands
during a call). Not modelled: `w25q_EraseSector`, `_ReadData`, `_Sleep`, `_WakeUP`,
which nothing calls, and the bits of `qspi_status` but QE, which decide nothing.

**`ModbusRtu`.** The tables are one memory, as in `A_modbus_inout_t`, because the handlers'
checks let an index run from one into the next. A byte is the set of its one-bits. There is one
action per handler; the master's requests are frames that have passed the CRC and
the address. A read of coils or inputs is `ReadBits`, one `CopyBit` per round of
`get_coils_discrete_in` and `BitsRead`, with the application between any two of them. `ReadRegs`
takes the number of registers for a number of bytes, composes an answer of twice that, and what
does not fit into `tx_packet` goes over the memory behind it (`Overrun`): where the tables are from
there is the linker's choice, `Follows`. An answer whose length does not fit eight bits is `"cut"`. The
value of the hook `A_write_reg_from_modbus` goes up through `Returned` and `Result`, and is lost on the way. Coils
are turned on and never off (line 296 cancels itself out). The application's
`A_set_in_to_modbus` is `SetInRead` and `SetInWrite`, an unmasked read-modify-write. Histories:
`inputs` (what the application has set), `late` and `torn` (calls that overlapped, and the inputs
they put back), `spilled` (bytes that a request has hit outside its table) and `seen` (the values
that the bits of a read have had since it began). Values of register reads, the layout of answers
and the CRC are left out.

## 3. What the runs show

| run | states | shows |
|---|---|---|
| `sched_core` | 829414 | type invariant, `NoStarvation`, `NoSpuriousWake`, `DelayElapsed`, `ReasonsKept`, `DeadForever` |
| `sched_live` | 73969 | `SupervisorRuns`, `RunnableRuns`, `DelayEnds` |
| `mem_core` | 42505 | type invariant, `FreeList`, `CountExact`, `Exclusive`, `InPool` for one-chunk buffers, across defragmentations and two faults; `OrphanRemembered`, `OrphansReclaimed`, `DefragServed` |
| `mem_pairs` | 5652 | `Exclusive` for two-chunk buffers |
| `hw_core` | 6324 | type invariant, `NoStall`, and `FifoSpec`: the refinement with liveness |
| `tim_core` | 574760 | type invariant, `ExpiriesKept`, `NotEarly`, `OnTime`, `PeriodicFires` |
| `ipc_core` | 230662 | type invariant, `WaiterKnown`, `FreeIsTold`, `GrantExplained`, `ReleaseReaches` |
| `ipc_timeout` | stops | a `get_semaphore` with a time-out waits for ever |
| `rx_core` | 165207 | type invariant, `AnnouncedWhole`, `ReadsAnnounced`, `BufferEmpties` |
| `rx_stale` | stops | a process that the UART has woken finds no UART reason and sleeps on without reading |
| `flash_core` | 267928 | type invariant with the ranges of a call under way, `OkMeansDone`, `CallsEnd` |
| `modbus_core` | 3663788 | `InputsKept`, `RepliesTrue` |

The two runs that stop state what the documentation says and find that the code does
not do it. The passing runs restrict the workload by named constants and by the
discipline of the environment that the list below names; the list also has the exceptions that
a property makes, each of which the code needs. Where a constant can be flipped, the disagreement it hides is one edit of a `.cfg` away:

- `Horizon` (`Scheduler`): `sched_core` calls `task_delay` only for delays that end
  before the counter wraps, which is what `DelayElapsed` needs: at the wrap a
  delay ends at the next tick. `sched_live` has no such limit: its delays wrap.
- `Limit` (`MemPool`): at least one chunk stays free. The code has no test for an
  empty pool and follows a null pointer.
- `TakeTurns` (`MemPool`): `mem_get` calls do not overlap. With FALSE and two processes
  `Exclusive` is false: `mem_get` enables interrupts and then reads `first_of_list` again
  (`mem.c:185`), so two overlapping calls return one chunk.
- `Quiet` or `Keeper` (`MemPool`): no `mem_get` comes between the supervisor's test of the count
  and its `defrag_mem` (`mem_core`), or one process never gives its last buffer back, so
  that the count is not 0 while others allocate (`mem_pairs`). With neither, and `Limit` 3,
  `Exclusive` is false: the test is unmasked (`supervisor.c:45`) and `defrag_mem` relinks a
  chunk allocated since.
- `Senders` and `Mortal` (`MemPool`): a process that can fail has passed no
  buffers on, as the sweep goes by the process that allocated. More than one may fail, also
  while the supervisor is busy with another: `failed_process` holds one, and
  `OrphanRemembered` names the two ways in which a process is forgotten, by a fault before
  the supervisor has looked and by the clearing of `failed_process` at the end of a sweep.
  `OrphansReclaimed` therefore promises nothing when two processes have failed.
- `Sizes` (`MemPool`): all buffers have the same number of chunks: of a run the
  search tests only the first chunk, and with mixed sizes hands out busy ones. In
  `mem_pairs` no process fails: a swept owner puts the chunks of its runs back one by
  one, and a run is then cut from chunks that are not adjacent in the list.
- `TakeTurns` and `CloseIdle` (`HwManager`): allocations do not overlap, and the queue is
  empty when the peripheral is given back. With the first FALSE `OneOwner` is false (two calls
  of `allocate_hw` are both told they have it, `hwmanager.c:115`; with it TRUE it would say nothing, so no run has it); with the second FALSE
  `NoStall` is (`destroy_queue` clears 103 bytes of a structure of 108, `hwmanager.c:51`, and
  the next owner's queue is never empty).
- `OwnPlace` (`Ipc`): a process calls `remove_from_waiting_semaphore` only for its own place, as the code
  does not look whom it removes. With FALSE `WaiterKnown` and `FreeIsTold` are false. About who
  owns a semaphore there is no property: after a wait the caller takes it whoever has it by
  then, and `destroy_semaphore` frees it whoever has it, so two processes can both have been told it is theirs.
- `raced` and `mark` (`UartRx`): `AnnouncedWhole` excepts the announcement in whose handler a character
  comes, as that one is lost or announced twice; `ReadsAnnounced` is about a process that has
  read and used the buffer before the next character, as reception goes on into
  the same buffer. That a frame of a master is cut where the time-out or a full buffer cuts it is not
  excepted: no property speaks of frames.
- `raced`, `blind`, `early` (`Flash`): `OkMeansDone` says nothing of calls that an overlapping
  `allocate_hw` let another process into (`hwmanager.c:115`), of calls that could not read the status of a
  busy chip before their command, nor of a write to a chip that no `A_qspi_init` has set QE in; after a failed
  reading of the status at the end (`w25q.c:247`) it says that the chip is at it, not that it has finished.
- `Fits`, `BlockErased` (`Flash`): a write leaves each byte in its place if its size is below 65536 and it lies in
  one page of the chip; of any other that returns `W25Q_OK` only one page is touched. A size of 65537
  passes the check and writes one byte (`qspi.c:72`). The second half of an
  erased block is as it was or erased: the driver computes the address of 64 KB and erases 32 (`w25q.c:323`).
- `torn` and `spilled` (`ModbusRtu`): `InputsKept` excepts the inputs that a call of `A_set_in_to_modbus` put back
  because another one had come in between, and the bytes that a single write (function codes 5 and 6,
  whose index is checked wrongly or not at all) or the overrun of `tx_packet` has hit.
- reads that begin on a byte (`ModbusRtu`): in the others the bits of one byte of the table land in two of
  the answer, at places that are not theirs; `RepliesTrue` is about the former. It does not
  say that the bits of an answer are of one moment: they are not.

What the code does and a user should know although no property is about it: a mailbox
message can be overwritten before it is read; `w25q_ReadRaw` returns an error also when it
has read (`w25q.c:210`); `A_qspi_init` returns a handle also when the chip did not answer;
a timer that is not periodic fires at every tick (`timer.c:92`); a process that returns keeps its
chunks (`supervisor.c:72`); `mem_release` trusts its argument (`mem.c:197`); a frame with a wrong CRC
is answered by every slave, whatever its address (`A_modbus_rtu.c:371`).

## 4. Bounds

- Two user processes and the supervisor in `Scheduler`: with one reason, one
  process that activates the other and a device that interrupts, each hazard
  needs at most two processes and an interrupt. Counter values `W` = 3, delays of 1
  and 2 ticks: shorter than, and as long as, the counter allows. The number of
  processes and `W` are arbitrary in the theorems.
- Three processes and four chunks in `mem_core`: a holder that passes its buffers on, and two that
  receive, allocate and may fail; up to three chunks in use, so that the list is taken apart and
  rebuilt in every order. The pool empties and is defragmented again and again. Seven chunks
  and three two-chunk buffers in `mem_pairs`: one chunk is left at the end of the pool, and it is all that stays free.
- Two processes, a ring of four and three buffers in `hw_core`: the indices wrap,
  also with the ring full, and the peripheral changes hands with the indices
  anywhere.

- `tim_core`: two timers, and a third flag that is the mask of the second: the
  mask of the first is the second timer, so calls on one change the other. `W` = 4 with
  counts of 2: a period, a pause and an overdue timer fit before the wrap, and most
  deadlines wrap.
- `ipc_core`: three processes, so that there is an owner, a waiter and a third that
  comes for its place or wakes it for another reason; one semaphore that is only tried and
  one that is waited for, as the owner of one may wait for the other; anyone may give either back. Deadlines are now
  or one tick ahead (`MaxTick`): only whether one has passed is looked at. `naps` is capped
  at 3, above what `ReleaseReaches` allows.
- `rx_core`: a buffer of three characters and a time-out of two ticks, and eight characters: two full
  buffers and more, each place in the buffer at each count of the time-out, and a second call of
  `hw_receive_uart` in the middle of them. `rx_stale` needs one announcement: a buffer of two and three characters.
- `flash_core`: two processes whose allocations overlap, two blocks of two half blocks, four cells in
  pages of two; data of none, two, three and five cells, of which five become one (`SizeMod` = 4), to the second page and to
  an address past the chip, so that a page wraps. One bit per cell: bits do not interact.
- `modbus_core`: bytes of two bits, two bytes of coils and of inputs, three bytes of registers; requests
  at, before and past each end, with `Mod` = 16 such that twice a register's number
  wraps; a packet of six bytes, right before the tables (`Follows` = 0), which an answer of three
  registers overruns as far as the inputs, and `LenMod` = 10. Two application processes that set the two inputs of one byte.

## 5. Fairness

- `Scheduler`: weak fairness of `SysTick` and `PendSV`. The tick is a hardware timer,
  PendSV a pending exception, and every masked region of the kernel is finite.
  Nothing is assumed of processes or devices.
- `MemPool`: weak fairness of the supervisor's loop, justified by `SupervisorRuns`.
  Nothing is assumed of the processes.
- `HwManager`: weak fairness of `TxCplt` (a transmission that was started ends) and of
  `Start` (a process inside a call is runnable, hence `RunnableRuns`). Nothing
  obliges a process to send, allocate or give back.
- `Ipc` (`ipc_timeout` only): weak fairness of `SysTick` and of a process inside a call.
- `UartRx`: weak fairness of the tick's handler and of the steps of the process (`RunnableRuns`). Neither the
  line nor any other source of activations owes anything: `BufferEmpties` needs none, and `ToldReads` fails without.
- `Flash`: weak fairness of the steps of a process inside a call (`RunnableRuns`) and of `ChipDone`.
  Failures are not fair: they never have to happen.
- `Timers`: weak fairness of `SysTick`. Nothing is assumed of the process.

## 6. What is proved

For every number of processes, counter width, pool and ring size, and set of
buffers, from the constants' assumptions and, where named, a discipline of the
workload. All theorems are checked by TLAPS.

*Scheduler.* `TypeCorrect`. `StarvationFree`: `NoStarvation` is not inductive; what is, is
that a runnable task has been passed over no more often than the scan has moved
since it passed it, as a distance from the current task (`RoundInv`). `NoSpuriousWakes`
and `PostsMakeReady` follow from one invariant on what a blocked process is (`Blocked`:
not ready unless something was posted or its delay is over, and a process that
waits for events has no delay bit). `DelaysElapse`, if `Horizon <= W`: the ticks that are
owed are the difference of the deadline and the counter. `DeadStaysDead` is an action property, proved
step by step. `NoReasonLost` is inductive with the bookkeeping of `postedSince`.

The loop of `update_next_task` has no bound of its own; `ScanEnds` says that in every reachable
state it ends within N + 1 rounds, and that `IsNext`, by which the model stands for it, holds of
exactly the task it ends at: the supervisor is always runnable, and the tasks visited in
N + 1 rounds are all of them.

*MemPool.* `TypeCorrect`, `SweepsAreComplete` and `RoomIsEnough` hold for every workload. The others but one hold
under `Disciplined`: buffers of one length (any sizes that take `Span` chunks each), `TakeTurns`,
`Quiet` or a `Keeper` that is not mortal, senders that are not mortal, and no mortal process at
all if buffers have more than one chunk. The pool is seen as blocks of `Span` chunks at the
multiples of `Span` (`Bases`), with a short one at the end if `Span` does not divide it.

- `BuffersExclusive`, `BuffersStayBusy`, `CountIsExact`. Exclusiveness says nothing of the list,
  so the invariant `PoolInv` adds its shape (`ListInv`: a block is free or in use as a whole, links
  lead from free blocks to free blocks, no free block has two predecessors, the first has
  none), what holders hold (`HoldInv`), that a defragmentation finds the pool empty
  (`SupInv`) and the count. `defrag_mem` makes the pool `Fresh`, the state of `A_mem_init`.
- `ListIsExact`. That every free chunk is on the list is reachability, which needs no
  recursion when it is put as: every set of blocks that has the first and with each free block
  the one after it has all the free blocks (`LinkInv`). Taking a block adds it to such a set,
  putting one back removes it, and the set stays closed; in a fresh pool the smallest
  block outside such a set would follow one inside it. The smallest element of a set of naturals
  (`Smallest`) comes from the library's well-founded sets.
- `PoolStaysInside`, if one chunk stays free (`Limit < C`): if the first block of the
  list were short or the last of the list, then by `LinkInv` it would be the only free one, and
  the count says that more is free. `mem_release` stays inside as the last chunk of the pool
  is never handed out.
- `SweepsAreComplete` needs only that a process that has failed gets no chunks, and that the
  sweep has passed over all chunks below `at`. `OrphansAreRemembered` needs
  nothing either, as it names the steps that forget: that no other does comes from the
  same invariant, by which `failed_process` only ever names a process that has failed and a
  process whose sweep has ended has no chunks.
- `RoomIsEnough` is about `NumBuf` alone: the rounding of `find_chunk_by_size`.

*Timers.* `TypeCorrect`. `NeverEarly` and `FiresOnTime` from `ClockInv`: away from the wrap
the deadline of a timer in use is `left` ticks ahead, or past if its ticks are up. `NoExpiryLost`
from `ExpiryInv`: while `get_timer_expired` runs, what must not be lost is in its hands,
otherwise in `timer_expired`. `WakesHaveExpiries` is inductive.

*HwManager.* `TypeCorrect` for every workload. `NeverStalls` and `RingIsFifo` need
`Disciplined` (`TakeTurns` and `CloseIdle`), through `HwInv`: who is inside which call determines owner,
queue and grants (`LockInv`), and a non-empty ring is on the wire
or about to be started by the process that holds its first buffer (`RingInv`). For
`RingIsFifo`, every step of the ring is a step of `TxFifo` or a stutter, by lemmas on the
slot of the n-th buffer under the wrap of the indices.

*Ipc.* All five properties of `ipc_core`. `WaiterStaysKnown`, under `OwnPlace`, from an invariant
that a blocked process is recorded and, by `MayQueue`, alone. `NobodySleepsOnFree`, under `OwnPlace`: the
store of `destroy_semaphore` frees a semaphore under the eyes of a call that is going to look at the waiting
process, and the place stays taken until it has. `GrantsAreExplained` and
`ReleasesReach`, for every workload, from an invariant that ties `wake` and `rsn` to `cause` and `naps`: a posted release is in
`rsn` until the next sleep takes it to `wake`, and in `wake` until the call leaves.

*UartRx.* `TypeCorrect`, `WholeAnnounced` and `UsesAnnounced`, for every buffer, time-out and line. What is in
the buffer below the index is what has come since `from`, unless the handler of the tick is under
way and a character has come in it (`FillInv`); and when nothing has come since the announcement,
length and buffer are still those that were announced (`ToldInv`).

*Flash.* `TypeCorrect` and `OkIsDone`, for every chip, set of addresses and data, and however the allocations
overlap: as long as they have not (`raced`), a process with a call under way is the owner, so there is one; until its
command what the chip holds, or is about to, is `before`, afterwards the effect of the command, if it was not blind,
as it has seen the chip idle and enabled it after that. That the effect is what a caller
may expect is a lemma about the commands alone (`EffectDoes`).

*ModbusRtu.* `InputsStay` and `AnswersAreTrue`, for every workload, from one invariant (`Inv`). For the first: no
request changes a byte of `Apart` that it does not record in `spilled` (`RequestsApart`, with the arithmetic of
each index), and a process inside `A_set_in_to_modbus` has the byte it will replace unless it is `late`
(`SetInKeeps`). For the second: the bits copied so far are among the values `seen` (`CopyKeeps`),
whatever the application writes in between; when a read begins on a byte, bit k of the answer has the place in its byte
that bit `start` + k has in the table (`Aligned`, `SamePlace`), so no round touches the bit of another one.

Only model-checked: liveness (`SupervisorRuns`, `RunnableRuns`, `DelayEnds`, `OrphansReclaimed`,
`DefragServed`, `PeriodicFires`, `CallsEnd`, `BufferEmpties`, the fairness part of `FifoSpec`), which is
out of this prover's reach. Every invariant and every action property of the passing runs has
a theorem. `HeldIsBusy` and `SweepComplete` have a theorem only; no run repeats them.

## 7. Not modelled

Most of the repository's lines are not the system's own: the STMicroelectronics NFC stack (RFAL,
ST25R3916, ST25DV), the USB middleware, the SX126x radio and font data. They are third-party
code around the kernel and are not modelled, which is why the modules stand for a small
share of all lines although they cover most of the kernel's.

Of the system's own code these parts are left out:

- drivers that are straight sequences of register writes through blocking HAL calls (NRF24L01,
  codec, ADC, DAC, LCD), the SPI and EXTI layers (one test and one call each), the SVC table (no-ops);
- the start-up beyond the state it leaves;
- audio: floating point in an interrupt, and a scan of flags for a free voice;
- `system_functions.c`: sequential copying and formatting; that `A_memcpy` and `A_bzero` lose
  the tail of a size that is not a multiple of four is in `HwManager` where it matters;
- the USB packet path (`hw_UsbPktReceived`), which copies a packet whole, and the slots of mailboxes,
  whose `mbx_receive` refers to a variable that no file defines;
- that all UARTs share one handle and one completion interrupt: `HwManager` and `UartRx`
  have one peripheral.

Worth doing next, in this order: several UARTs on one handle, as a composition of two
instances of `HwManager`; mailbox slots with `MemPool` buffers passed on; `A_memcpy` and the choice of a voice against reference definitions.
