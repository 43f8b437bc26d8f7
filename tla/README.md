# RTXThread verification

TLA+ specifications of [RTXThread](../src/src): the CMSIS-RTOS2 RTX5 kernel for
a GD32F30x (Cortex-M4) with the device framework of RT-Thread and an event loop
on top. The modules model the code as it is; the runs check them with TLC on
small instances; the theorems are checked by TLAPS for every value of the
constants. Source paths below are relative to `src/src`.

1. [The system](#1-the-system)
2. [What makes it hard](#2-what-makes-it-hard)
3. [The modules](#3-the-modules)
4. [The runs](#4-the-runs)
5. [Fairness](#5-fairness)
6. [The proofs](#6-the-proofs)
7. [Where code and comments disagree](#7-where-code-and-comments-disagree)
8. [What is not modelled](#8-what-is-not-modelled)
9. [Plan](#9-plan)

## 1. The system

### The kernel

One processor executes threads and, above them, exception handlers. Every
service of the kernel called by a thread is an SVC; the tick (SysTick) and the
post processing (PendSV) are exceptions of the same, lowest priority. None of
the three preempts another (`RTOS2/RTX/Source/rtx_core_cm.h`,
`RTX/Source/GCC/irq_armv7m.S`), so the scheduler's data needs no lock. A device
interrupt has a higher priority: it may come between any two instructions of a
service. The few services a handler may call (`osThreadFlagsSet`,
`osSemaphoreAcquire/Release`, `osMemoryPoolAlloc/Free`,
`osEventFlagsSet/Clear/Get`, `osMessageQueuePut/Get`, always with timeout 0)
change the object by atomic operations and leave what concerns other threads to
PendSV: they register the object in `isr_queue`, and PendSV takes one entry after
another and does the rest, then switches threads.

| Component | Source | State | Operations |
|---|---|---|---|
| Scheduler | `rtx_thread.c`, first half | ready list, current and next thread, delay list, wait list | put, dispatch, block, switch, wait enter and exit, tick, round robin |
| Threads | `rtx_thread.c`, `rtx_delay.c`, `rtx_kernel.c` | state, priority, flags, attributes, join links, stack watermark | new, yield, suspend, resume, detach, join, exit, terminate, set priority, flags set, clear, wait, delay, lock and unlock |
| Delay list | `rtx_thread.c:225-381`, `rtx_delay.c`, `osKernelSuspend/Resume` | two lists linked through the threads, a difference for each | insert, remove, tick, delay until, made up ticks |
| Post processing | `rtx_system.c` | ring `isr_queue` of 16 entries, `pendSV`, suspended state of the kernel | put (handler), get (PendSV), tick, block and unblock |
| Mutexes | `rtx_mutex.c` | owner, lock count, list of waiting threads; the list of mutexes a thread owns | new, acquire, release, delete, restore on a timeout, release when the owner ends |
| Semaphores | `rtx_semaphore.c` | tokens, waiting threads | acquire, release, delete, from threads and handlers |
| Memory pools | `rtx_mempool.c` | free blocks, used count, waiting threads | alloc, free, delete, from threads and handlers |
| Event flags | `rtx_evflags.c` | flags, waiting threads | set, clear, wait, delete, from threads and handlers |
| Message queues | `rtx_msgqueue.c` | sorted list of messages, pool of blocks, waiting threads (senders and receivers in one list) | put, get, reset, delete, from threads and handlers |
| Timers | `rtx_timer.c` | list of running timers, queue of callbacks | new, start, stop, delete, tick, timer thread |
| Kernel control, configuration, event recorder | `rtx_kernel.c`, `rtx_lib.c`, `rtx_evr.c`, `Config/` | kernel state, configuration | initialize, start, lock, suspend |

### Around the kernel

| Component | Source | State | Operations |
|---|---|---|---|
| System event loop | `application/system_event.c` | list of handlers, a mutex, a message queue | register, unregister, send, loop |
| Heap | `rtthread/mem.c` | blocks that tile one array, `lfree`, `used_mem` | malloc, realloc, free |
| Ring buffer | `components/ipc/ringbuffer.c` | two indices with mirror bits, bytes | put, put by force, get, peek, reset |
| CAN device | `components/can/can.c` | software FIFO of messages, send slots with semaphores | read, write, interrupt |
| Device layer and input capture | `rtthread/device.c`, `components/misc/rt_inputcapture.c` | open mark and count, ring buffer | open, close, read, control, interrupt |
| Microsecond delay | `bsp/driver/drv_timer.c` | hardware timer, semaphore | delay, interrupt |
| SPI bus | `components/spi`, `bsp/driver/drv_spi.c` | lock, owner and devices of a bus with their configurations; chip selects; two DMA channels | configure, transfer, take and release of bus and chip select, interrupts of the channels |
| Serial flash | `components/sfud`, `spi_flash_sfud.c` | lock of the chip; in the chip: cells, busy, write enable, AAI | read, erase, write in three modes, the block device |
| Shell | `components/finsh` | a line, two positions in it, an escape sequence | a key; complete, cut and execute a line |
| Debug channel | `components/rtt`, `rt_kprintf` | two rings with a mark of each side; one format buffer | print, read; the host reads and writes |
| Clock | `components/rtc`, `components/libc/time.c`, `drv_rtc.c` | the counter of the RTC | get and set the time, convert dates |
| C library, pins, ADC, DAC, PWM | `components/libc`, `misc` | registers | get and set |
| Service library, objects, lists | `rtthread/kservice.c`, `object.c`, `include/rtservice.h` | containers of objects, lists | formatting, registration |
| Board, processor | `bsp`, `libcpu` | registers | set-up |

### How they interact

- A thread's service blocks the thread in an object's list and in the delay or
  wait list of the scheduler; the tick, PendSV or another thread's service takes
  it out of both.
- The tick counts the delay list and the timers down; an expired timer puts its
  callback into the message queue of the timer thread from inside the tick, as a
  handler does, so that PendSV delivers it.
- Mutexes change priorities of threads, and so their place in the ready list and
  in the lists of other mutexes.
- The event loop holds a mutex while it searches its handlers, takes events from
  a message queue, and its handlers' nodes live on the heap.
- The flash driver sends each of its commands as a transfer of the SPI bus; the
  lock of the chip is held over many of them, the lock of the bus over one.
- The shell reads keys from the debug channel and prints to it, as every thread may.
- Drivers are called by the device layer from threads and call it back from
  their interrupts; the interrupt and the thread share a ring buffer (input
  capture), message slots (CAN) or a semaphore (CAN, microsecond delay); a transfer of the SPI bus waits for flags that the
  interrupts of two DMA channels set.

## 2. What makes it hard

`PROJECT.json` lists the hazards at their lines. The families:

- **Interrupts inside a service.** A handler takes the last message just before
  a thread waits for it; it fills the ring buffer between two loads of one
  comparison; it drops the message a reader is looking at.
- **Work handed from handlers to PendSV.** A token, a block, a flag or a message
  can lie beside a thread that waits for it, as long as an entry of `isr_queue`
  says so. Lost entries mean threads that sleep for ever.
- **Lists with two meanings.** `thread_next` links the ready list, an object's
  list or, for a joiner, nothing but its target; `delay_prev`/`delay_next` link
  the delay list or the wait list. A thread that leaves one of them must leave
  the other.
- **Priorities that move.** Inheritance, its end on release, timeout, suspension
  or deletion, and the order of every list after it.
- **Threads that end** while they hold, wait for or are waited for.
- **Checks whose answer is old when it is used** in code that runs outside the
  kernel: system events, device open, CAN send slots.
- **Hardware that goes on by itself**: DMA channels that still run, a flash chip that
  ignores commands while it is busy, a counter read in two halves, a debugger that
  moves the marks of a ring.
- **Failures half-way**: a transfer that fails between two pages of a write.
- **Limits**: a full `isr_queue`, a full callback queue, a full ring, an empty
  heap, a token counter at its maximum, a tick that wraps around.

## 3. The modules

| Module | Models | Uses |
|---|---|---|
| `RtxScheduler` | the lists and the dispatcher of `rtx_thread.c`, as operators on one record | |
| `RtxThread` | threads, thread flags, delays, kernel lock, tick, PendSV | `RtxScheduler` |
| `RtxMutex` | mutexes and the thread services that meet them | `RtxScheduler` |
| `RtxObject` | what the objects that handlers may use have in common: waiting threads, creation, deletion, PendSV | `RtxScheduler` |
| `RtxSemaphore`, `RtxMemPool`, `RtxEventFlags`, `RtxMsgQueue` | one object each | `RtxObject` |
| `RtxDelayList` | the delay and wait lists with their pointers and differences, `osDelayUntil`, ticks made up for after a sleep | |
| `RtxIsrQueue` | the ring of post processing, access by access, with nested handlers, and the suspension of the kernel | |
| `RtxTimer` | the list of timers, the tick, the timer thread | |
| `SystemEvent` | the event loop and its clients | |
| `SmallMem` | the heap | |
| `RingBuffer` | the ring buffer, its writer an interrupt | |
| `CanReceive`, `CanTransmit` | the two directions of the CAN device | `RtList` |
| `RtList` | the doubly linked lists of `rtservice.h` | |
| `InputCapture` | open, close, read and control of the device layer with the input capture driver under it | |
| `HwDelay` | the microsecond delay | |
| `SpiBus` | the SPI bus and its driver with the shift register, both DMA channels and their interrupts | |
| `SpiFlash` | the serial flash driver and its block device, against a chip | |
| `Shell` | the keys and the line of the shell | |
| `RttChannel` | the debug channel, its host and its callers | |
| `Calendar` | the conversions between seconds and dates | |
| `Clock` | the counter, read and written in two halves, and who reads and sets the time | |

Abstract specifications, and who implements them:

| Abstract | Promises | Implemented by | Checked in |
|---|---|---|---|
| `MutexService` | a mutex has at most one owner, who locks it as often as he unlocks it, and a wait ends with the lock, the timeout or the end of the mutex | `RtxMutex` | `mutexes` |
| `Timeouts` | each waiting thread counts its own time down, one with every tick | `RtxDelayList` | `delay_lists` |
| `TimerService` | each running timer counts its own time down and owes one callback for each expiry | `RtxTimer` | `timer_expiry` |
| `Fifo` | a bounded queue, put at one end and taken from the other, by force if need be | `RingBuffer`; `RttChannel`, in each direction | `devices`; `services` |
| `FlashStore` | a request takes effect at once, in full when it succeeds and within its cells when it fails, unless the chip is at work on one that has timed out | `SpiFlash` | `services` |
| `LineEditor` | a text with a cursor, edited key by key, whose words go to the command the first one names | `Shell` | `services` |

### How the code corresponds

`PROJECT.json` maps every definition to its lines. The conventions:

*The scheduler is a record.* `RtxScheduler` holds `osRtxInfo.thread` and the
fields of the threads that scheduling uses in one record `k`; `osRtxThreadReadyPut`,
`osRtxThreadDispatch`, `osRtxThreadWaitEnter` and so on are operators from one
record to the next. A service is then an expression in the order of the code,
and its action assigns `k'` once. Sequences stand for the lists linked through
`thread_next`/`thread_prev`; the delay list is a sequence with the ticks each
thread has left. That this comes to the same as the pointers and differences of
the code is what `RtxDelayList` shows, so the pointers are modelled once.

*Steps.* In `RtxThread` and `RtxMutex` a service is one step, since nothing that
sees its data can preempt it; except `osThreadFlagsWait`, whose failed check
(`FlagsWaitFor`) and wait (`FlagsWaitEnter`) are two, since a handler may set the
flags in between (`handler = "svc"`). The loops of the tick and of PendSV take one step
for each thread or entry. In the modules on `RtxObject` a service that touches
the data it shares with handlers more than once is split at those accesses, and
handlers act between them. When a service has registered post processing (or an
interrupt has), PendSV runs after it, before any thread and before the tick.

*Interrupts.* In the modules on `RtxObject` handlers are steps that may come at
any time, as services without a thread; the two levels that matter to
`isr_queue_put` itself, one handler preempting another between two of its
instructions, are in `RtxIsrQueue`. The object modules may therefore take the
queue as a sequence with a bound.

*Pointers where they are the point.* `RtxMutex` keeps `owner_prev` and
`owner_next`, `RtxDelayList`, `SystemEvent`, `SmallMem` and `RtList` keep theirs
one by one: freed nodes, stale links and lists that lose their head are what may
go wrong there. Message lists, pools and waiting threads are sequences and sets.

*Left out everywhere*: event recorder calls, parameter checks that only look at
`NULL`, identification bytes, names, stack watermarks and stack checks, and
allocation of control blocks from the object pools (blocks are given statically).

*Module by module*

- `RtxThread`: `k`; `thread_join`, `joins` (the link back), `joinable`; flags and
  what a thread waits for; `isr_queue`; `pc`-like fields of the tick and PendSV.
  Every `svcRtx…` function of `rtx_thread.c` and `rtx_delay.c` that changes state is an action.
  Stacks, `osThreadEnumerate` and the getters are left out.
- `RtxMutex`: acquire, release, delete, `osRtxMutexOwnerRestore` in the tick and
  `osRtxMutexOwnerRelease` in exit and terminate. `Habits` says which liberties
  the application takes, so that a run can ask what holds without one of them.
- `RtxSemaphore`, `RtxMemPool`, `RtxEventFlags`, `RtxMsgQueue`: the `svc…`
  services, the `isr…` services and the post processing each object registers.
  `RtxMsgQueue` follows a message through its block: claimed by a sender,
  inserted by PendSV, claimed by a receiver, freed by PendSV.
- `RtxIsrQueue`: `index = in` then the store of the object, with a preemption
  between; the counter; `isr_queue_get`'s count, read and advance; `blocked` and
  `pendSV` over `osKernelSuspend` and `osKernelResume`.
- `RtxTimer`: the sorted list with differences, `osRtxTimerTick`, the queue of
  callbacks of size `QueueSize`, the timer thread.
- `SystemEvent`: each client and the loop walk the list node by node; the mutex
  is held or not at each step as in the code; `at` has their local variables.
- `SmallMem`: blocks with `used`, `next`, `prev` in an array of `Size` words,
  `plug_holes` with the neighbour on each side, `lfree`.
- `RingBuffer`: both indices and mirrors; the handler may write between the two
  comparisons of `rt_ringbuffer_status` when `Torn`.
- `CanReceive`: the reader statement by statement; `Interruptible` names the
  statements before which the interrupt may come.
- `CanTransmit`: slots, tokens of `tx_fifo->sem`, the semaphore and result of
  each slot, the mailboxes of the controller, retry and timeout of the writer.
- `InputCapture`: `rt_device_open/close/read/control` around `rt_inputcapture_*`,
  the ring's existence, the driver started or not; open may `Overlap`, the driver's
  stop may fail (`StopFails`), the prescaler may be set at any time (`AnyPrescale`).
- `HwDelay`: counter and reload of the timer, its interrupt, the semaphore; time
  passes tick by tick, several delays at once when `Overlap`.
- `SpiBus`: the statements of `rt_spi_configure`, of the transfers of one and two
  messages and of `spi_xfer` in the order of the code; `dma` has the channels, their
  counts, the requests of the controller, RBNE and the two flags of the driver.
  `Shift` and `Fetch` are the hardware with the interrupt that comes at its end. Bytes
  are counted, not carried; a second byte that arrives before the receiving channel
  took the first is lost, unless `Prompt`.
- `SpiFlash`: one step for each command on the bus, and `Finish` for the chip. The
  store keeps one bit in a cell; commands that the chip ignores (it is busy, not
  enabled, or in AAI), the end of a page and the size of an erase are its own. `Fault`
  is a transfer that failed, at most `MaxFaults` times. `wait_busy` gives up after
  `Retries` polls (`Retry`; 60000 polls of a millisecond in the code), as often as the
  chip is late: the caller is told of a timeout and the chip goes on. `stray` says that
  it still did so, or was left in AAI, when the lock was free last; until it is done and
  out of AAI, `FlashStore` allows its late effect and any answer (`Late`), and then asks
  for everything again.
- `Shell`: `line` cell by cell with the `rt_memmove`s of the code; `Split` and
  `Executed` are `msh_split` and `msh_exec`, which cut the line in place.
- `RttChannel`: the test for space, the copy and the store of the mark are three
  steps, and the host comes between any two.
- `Calendar` is functions checked against the calendar, which is counted day by day
  from anchors; `timegm` with its carry of seconds, minutes, hours and months
  (`CarryTime`) and of days (`CarryDays`). `Clock` has the interleavings, with a short
  day and a small counter: it is read in two halves, and written in two halves that the
  hardware takes when configuration mode is left (`SetHigh`, `SetLow`, `Commit`).

## 4. The runs

Nine runs pass, three show a disagreement. `MC` modules instantiate the models with
small sets. Five of them hold several instances side by side: `MCRtxObjects`,
`MCRtxMutex`, `MCLiveness`, `MCDevices` and `MCServices` have a variable (`kind`,
`instance`, `device`) that the initial state chooses and no step changes, the variables
the chosen instance has no use for are 0 or stay as they began, and each property says
of which instances it is asked and which properties of the model it stands for.
Such a run is the sum of small state spaces and not their product; the components in it
share no state in the code either, beyond the scheduler that each model includes.

| Run | Asks | Instances and bounds |
|---|---|---|
| `threads` | every thread is in the lists its state says (`OnePlace`); joiner and target name each other, and a joiner is woken (`JoinLinked`, `JoinerNotForgotten`); no wakeup is lost between flags and post processing (`NoMissedFlags`) | idle, main, two spare threads and a partner, one priority, timeout 1, two flags, up to 2 entries in the queue; main and the spare threads join, or main, its partner and interrupts use flags (constraint `Uses`) |
| `thread_lists` | ready and delay list are sorted; only the lock defers a switch; a thread that is preempted keeps its turn; a ready thread that none outranks gets the processor | four threads, two priorities, timeouts 1 and 2, round robin after 1 tick; no joins, no flags |
| `mutexes` | an owner has exactly the priority it is owed (`InheritsExactly`); the highest priority runs; owner lists are linked both ways and nobody waits for a free mutex (`ListsLinked`); `MutexService`; in the other instances the same, and that what an owner was raised to without being owed it ends with its last mutex (`OthersInOrder`) | `RtxMutex` itself with two equal inheriting mutexes, two priorities, mutexes deleted and made again; beside it *inherit*: the same with three priorities, no deletion; *waiters*: one mutex with every attribute, disturbed waits, the lock; *owners*: two mutexes of different attributes, nested and disturbed waits, deletion |
| `objects` | waiting threads are listed in order; tokens, blocks, flags and messages are neither lost nor made twice nor left beside a thread that waits for them; entries for PendSV are read once and in order | *semaphore* of 3 tokens and 3 entries; *pool* of 2 blocks; *event*: idle, main and a spare thread, two flags; *senders* and *receivers*: a queue of 2 messages, of two priorities with threads waiting on both sides with timeout 1, or of one with handlers that receive beside threads that wait to send, with and without timeout; *entries*: a ring of 3, bursts of 3, two interrupt levels |
| `delay_lists` | pointers and differences are one timeout for each thread; `osDelayUntil` wakes on time; `Timeouts` | 4 threads, timeouts 1 and 2, sleeps of 1 and 3 ticks, tick counter modulo 6 |
| `timer_expiry` | `KeepsTime`: each timer expires after its own ticks and is queued once for each; `TimerService` | 3 timers, periods 1 and 3, callback queue of 2 |
| `devices` | the ring is a bounded queue (`Fifo`), its indices stay within it; CAN boxes, tokens, slots and results agree; the interrupt has its buffer; a delay lasts long enough; the heap is tiled, held blocks stay as they are, and space is found when there is some | *bytes*, *marks*: a ring of 4 bytes; *box*: 3 slots, 2 messages; *writer*, *writers*: one writer, 3 slots, or two writers, 2 slots; *capture*, *failing*: 4 threads one after the other, ring of 3; *delay*: 2 threads, delays of 1, 2 and 4; *heap*: 24 words, requests 1 to 9 |
| `services` | no walk over the handlers reads a freed node, no handler is lost (`HandlersInOrder`); the chip select is the owner's, the controller runs as the owner was configured, every byte moves, and the flash chip is left quiet (`TransfersInOrder`); requests to the flash take effect at once (`FlashStore`); lines are edited and run as typed (`LineEditor`); whole outputs arrive in order (`Fifo`, twice); dates are the calendar's; the time set holds and the time read was true during the call (`ClockInOrder`) | *events*: 2 clients with two events and one, 3 nodes; *bus*: 2 threads, 2 devices, 2 modes, a good and a bad width, messages of 2 bytes; *pages*, *words*: a chip of 8 cells in 2 pages and blocks of 4 and 2, requests within and across them and beyond the end, one failed transfer, two polls before `wait_busy` gives up, a chip that takes any time, by page with the block device, or by AAI; *keys*: a line of up to 5 of 7 characters with blanks, quotes and backslashes; *tabs*: a line of 4, which overflows, three names to complete; *prints*, *types*: a ring of 4, outputs of 1 to 4 bytes; *dates*: 1600 days from 1970, from 1999, from 2097 and from the end of 2100, three seconds of each, a day more in seconds, two years more in months, and days of the month from 0 to 800; *clock*: a counter of 2 halves of 4, 2 counts a second, 2 seconds a day, 2 threads |
| `liveness` | a token and a waiting thread meet; a flag that stays set wakes its thread, and no thread waits for flags that are set unless they are still to be checked for it (`NoMissedEvent`); a queued callback is called; a CAN write returns; whoever takes the mutex of the handlers gives it back, and can have it again | *tokens*: 2 tokens; *events*: idle, main and a thread, one flag; *callbacks*: 2 timers, queue of 2; *sending*: one writer, 3 slots; *loop*: 2 clients with an event each, the event loop |
| `queue_woken` | finding, [section 7](#7-where-code-and-comments-disagree) | three threads, 2 messages |
| `event_onehandler` | finding, [section 7](#7-where-code-and-comments-disagree) | two clients with the same event |
| `shell_line` | finding, [section 7](#7-where-code-and-comments-disagree) | a line of 4 characters, three names |

Threads, mutexes, timers and nodes that are alike are symmetric in the runs that check
safety only, and in `services` the threads and the devices of the bus; `thread_lists`
and `liveness` use no symmetry, nor does `devices`, whose parts are small.

**Why these bounds are enough.** Every list operation tells apart the front, the
middle and the end of a list and equal from unequal keys: three threads beside the
idle thread give a running thread and a list with two members whose order matters,
and two priorities make each pair equal or ordered. Inheritance takes three
priorities: a low owner, a middle thread that must not run, a high waiter; after the
deletion of one mutex two are enough to tell what the other still lends from
nothing. Timeouts of 1 and 2 make two threads expire at once, one after the other, or
one after a third was inserted between; `Forever` is the wait list. Objects with a
capacity of two are empty, partly used and full, and a handler can empty a full one
under a service. Two or three entries in the queue let one object be registered again
before PendSV has come to it; in *event*, where PendSV walks all waiting threads, one
entry stands for several of the same object, and the handler comes between the steps
of the walk. In *entries* the ring is as long as a burst, so that it fills and wraps.
A tick counter modulo 6 wraps around within a sleep. The heap's 24 words hold four
blocks: a block with a free block on either, neither or both sides. Rings of three or
four bytes wrap, fill exactly and overflow. Two clients of the event list make one
remove what the other stands on, and the loop is a third that may wait for the mutex.
Two threads on the bus are an owner and one that takes over from it, with either
device, and a message of two bytes has a first and a last one. The flash has two of
everything that a request can be inside of, across or at the end of: pages, erase
blocks of two sizes, words. A line of five characters holds two words in quotes and an
escaped quote in one. The anchors of *dates* put a year that is a leap year by four,
by 400, and not by 100, and the days around each, within the walk; 60 is the second that
`timegm` does not carry, and 60, 90, 366 and 800 are days before and after its carry to
another month. With one retry `wait_busy` polls again and then gives up, on a read, an
erase, a page and a word. Two counts make a
second, so that reading the halves on either side of a carry shows in the seconds.
In `threads` one priority is enough, since `thread_lists` varies priorities; joins and
flags touch different variables of a thread and meet only in its state, so they are
explored apart.

**Deadlock** is checked, in `services` too, except in `timer_expiry` and `liveness`, where an overflow of
the callback queue calls `osRtxErrorNotify`, which never returns
(`RTX/Config/RTX_Config.c`), and in `devices`, where a CAN writer that took the head
of the list for a slot stops at an assertion.

**Restrictions by which a passing run avoids a disagreement** of
[section 7](#7-where-code-and-comments-disagree). The thread runs set `SparesJoiners`:
nobody suspends, resumes or terminates a thread blocked in join. The first
instance of `mutexes` and *inherit* go without `"Disturb"`, all four without `"Abandon"`. *receivers* lets threads
only poll. *entries* keeps bursts within the ring. *events* and *loop* set `Repeats` to
`FALSE`. *bytes* loads index and mirror together. *box* keeps the interrupt out of two
windows; *writer* has one writer. *capture* and *failing* have calls that do not overlap,
and so have *delay* and *prints*. *bus* has messages that the count registers of the
DMA channels hold, and `Prompt`; *tabs* presses no Tab while a discarded line is there
(`TabWhenStale`); *clock* keeps the low half from wrapping between its reads (`Carry`),
lets one thread set the counter at a time (`Overlap`) and sets times that the counter
holds; *dates* asks the day of no date that `timegm` carries to another month
(`MonthCarry`). Each restriction is a constant of the module. Two more are parts of
properties: `FlashStore` asks nothing while the chip is at work on what has timed out,
and `CallbackComes` owes no callback once the queue has overflowed.

## 5. Fairness

Fairness is assumed only of what the processor or the controller does by itself,
never of what an application calls:

- `RtxThread!FairSpec`, in `thread_lists`: weak fairness of the handlers (the tick
  comes again and again, PendSV runs when it is pending, and `osThreadFlagsWait` goes on
  from its check to its wait).
- `liveness`, *tokens* and *events*: `Handlers` of `RtxSemaphore` and `RtxEventFlags`,
  a service that has begun ends and a pending exception runs. Threads and handlers may
  stop calling.
- `liveness`, *callbacks*: the timer thread gets its next callback and returns from it.
  It has priority 40, above what applications use.
- `liveness`, *sending*: weak fairness of the writer; its waits have timeouts, so
  nothing is asked of the controller.
- `liveness`, *loop*: weak fairness of each step of a call, and
  strong fairness of taking the mutex: a release hands the mutex to the first waiter
  (`svcRtxMutexRelease`), so that a thread to which the mutex is open again and again
  gets it. The clients and the loop are threads of one priority; one that starved
  the others would not be fair.

`HwDelay!FairSpec` (the hardware timer counts, the thread goes on, and a released
token goes to a waiting thread) is there to ask `DelayReturns` of one delay at a time;
no run lists it.

## 6. The proofs

Each of the modules below extends the one it builds on:

| Module | Proves | On |
|---|---|---|
| `ListFacts` | insertion and removal in a sequence, counting, least numbers; induction over a set of numbers, and from it that a function defined by recursion exists | |
| `RtxSchedulerProofs` | what each operator of the scheduler does to the place of the threads, to the order of the lists and to who is running; lists of waiting threads, whatever they wait for (`Waiting`) | `ListFacts` |
| `RtxThreadProofs` | threads, their joiners, their flags, sorted lists and the highest priority, action by action | `RtxSchedulerProofs` |
| `RtxMutexProofs` | mutexes, their waiting threads, the links of their owners, what these inherit, and the promises of `MutexService` | `RtxSchedulerProofs` |
| `RtxObjectProofs` | the kernel under any of the objects that handlers use | `RtxSchedulerProofs` |
| `RtxSemaphoreProofs` | semaphores | `RtxObjectProofs` |
| `RtxEventFlagsProofs` | event flags | `RtxObjectProofs` |
| `RtxTimerProofs` | timers | `ListFacts` |

### Threads

For any finite or infinite set of threads, any priorities, timeouts, flags and round robin
time, of `RtxThread!Spec`:

| Theorem | Says |
|---|---|
| `Invariance` | `[]IInv`, the inductive invariant |
| `ThreadsInPlace` | `[]OnePlace`: every thread is in exactly the lists its state says, once |
| `JoinsLinked` | `[]JoinLinked`: `thread_join` of a target and the wait of its joiner name each other |
| `FlagsNotMissed` | `[]NoMissedFlags`: a thread whose flags are satisfied does not wait without an entry in the post-processing queue |
| `JoinersRemembered` | `[]JoinerNotForgotten`: nobody sleeps in `osThreadJoin` for a thread that is gone |
| `ListsStaySorted` | `[]ListsSorted`: type correctness; the ready list ordered by priority, the delay list by the ticks left, none of which underflows |
| `HighestPriorityRuns` | `OnlyUnlockDefers`: a step that leaves the scheduler unlocked leaves the highest priority running, except `osKernelUnlock` |

From: `SchedulerAssumption` and `ThreadAssumption` (the constants are what they should
be: the priorities are numbers, the idle thread is not the main thread, and so on) and
`SparesJoiners` (nobody suspends or resumes a thread blocked in `osThreadJoin`), without
which the inductive invariant is false: a target wakes a thread that waits for it no
longer (`JoinersWait` in [section 7](#7-where-code-and-comments-disagree)).

**The argument.** `OnePlace` alone is not inductive, for two reasons. First, the
exit or termination of a thread wakes its joiner by `osRtxThreadWaitExit` without a
look at the joiner's state (`rtx_thread.c`, `osRtxThreadJoinWakeup`): that the
joiner is in the wait list, and not ready, follows only from `JoinLinked`, and
`JoinLinked` in turn needs `NoSelfJoin`, so that a thread does not free itself as
its own target. Second, between the handlers' steps the running thread and the next
thread must be the same whenever a service begins. So `IInv` is the conjunction of
the types, of `Runs(k, {})` (each thread in place, and the thread in `next` running)
with `k.curr = k.next`, of `JoinLinked` and of `NoSelfJoin`.

The proof follows the code. `RtxSchedulerProofs` has facts about sequences
(inserting at the right place adds one element and keeps the rest once each), then one
lemma for each operator of the scheduler: what `DelayRemove`, `WaitExit`, `Block`,
`Dispatch`, `RoundRobin`... do to `Runs(k, S)`, where `S` is the set of threads
that are in no list at this moment; `Land` and `Lift` move a thread into and out of
`S`. `RtxThreadProofs` composes them in the order in which each service calls them:
one lemma for each action, `IInvNext` puts them together. `FlagsNotMissed` adds one
fact per action about who gains flags and who starts to wait. `NoMissedFlags` is not
inductive: between the check and the wait of `osThreadFlagsWait` the thread does not wait
yet, and a handler may set the flags it is about to wait for. `OwnFlagsSeen` says that it
then has an entry in the queue, so that PendSV, which runs after the wait, finds it.

`JoinersRemembered` adds what `JoinLinked` does not say: that a thread blocked in
`osThreadJoin` has a target, that the target is alive and its `thread_join` names it, and
that it is no longer joinable, so that no second thread takes over its one link
(`JoinInv`). The exit of a target must wake it, which rests on `JoinLinked`.

`RtxSchedulerProofs` proves that the lists are sorted without a word on how a list was built: a list
`Ascends` in a rank, and inserting where the loop stops, taking out any element and taking
the head keep it so (`InsertAscends`, `PlaceAscends`, `WithoutAscends`, `TailAscends`). The
rank of the ready list is the negated priority, that of the delay list the ticks left.
`Sorted(k, low)` also says that every thread of the delay list has at least `low` ticks
left; `low` is 1, but 0 in the middle of a tick, after `CountDown` and until `TickRelease`
has taken every expired thread. That is `OrderInv`: without it a second tick would count
below zero. Where a thread leaves or enters the delay list, it must be known which list
it is in, so `OrderInv` rests on `IInv`.

The highest priority needs no invariant more: the head of a sorted ready list outranks the
rest (`HeadOutranks`), so `Dispatch`, which compares it with the running thread, settles
whatever a service did (`DispatchTops`); the services that do not dispatch (`DispatchThread`
of one thread, yield, suspension of another thread, round robin) are shown to keep the
highest priority running if it was (`...Tops`), one lemma per action (`...Kept`).

### Mutexes

For any threads, any finite set of mutexes with any attributes, any priorities, timeouts,
depth of recursion and habits of the application, of `RtxMutex!Spec`:

| Theorem | Says |
|---|---|
| `MutexTypes` | `[]TypeOK` |
| `MutexWaitersListed` | `[]WaitersListed`: a thread blocked for a mutex is in the list of exactly one, a locked one; nobody else is in a list |
| `MutexWaitersSorted` | `[]WaitersSorted`: each list is in the order of the priorities the threads have now |
| `MutexHighestRuns` | `[]HighestRuns`, where the application does not lock the kernel |
| `MutexListsLinked` | `[]ListsLinked`, where nobody ends that owns a mutex that is not robust: `OwnersLinked` (the pointers from `mutex_list` of each live thread lead through exactly the mutexes it has locked, and back) with the three above |
| `MutexInheritsExactly` | `[]InheritsExactly`, where of the habits the application has at most that of deleting mutexes: each live thread has the highest of its own priority and those of the threads waiting for the inheriting mutexes it owns |
| `MutexesServe` | `ImplementsService`, where nobody ends that owns a mutex that is not robust: `RtxMutex!Spec` implements `MutexService!Spec` |

From `SchedulerAssumption` and `MutexAssumption`. The set of mutexes is finite because the
model bounds the walk along `owner_next` by their number. The hypotheses are about
`Habits`: with `osKernelLock` a thread may be outranked until the unlock, and without the
second `OwnersLinked` is false, since a mutex that is not robust keeps the pointers into
the list of its dead owner (`OwnedOnly` in [section 7](#7-where-code-and-comments-disagree)).
(`MutexesServe` has the same hypothesis.) `MutexInheritsExactly` also excludes what the code leaves undone: it does not pass a priority on from an owner
that itself waits (`"Nest"`), does not take it back when a waiting thread is
terminated, suspended or resumed, overwrites it in `osThreadSetPriority` (`"Disturb"`),
and raises the owner also when the lock then forbids the wait (`"Lock"`).

**The argument.** `WaitersListed` is not inductive. The end of an owner, a release and a
deletion wake threads before one dispatch looks at the ready list, and whom they wake they
know only by the head of a list, so `QueuesInv` has the places of the threads
(`Runs`, `Sorted`), the lists of all mutexes (`Waiting`, with their order), and `Held`: a
locked mutex has an owner, and only a locked one has waiting threads. Between the
steps of a handler the order of things is the code's: `Queues(q, x, T, low)` is the same
of any scheduler and any mutexes on the way, with the threads of `T` about to end.
Raising or lowering a thread moves it within the ready list or the one it waits in
(`ReprioritiseQueues`), handing a mutex over takes the head of its list
(`WakeFirstQueues`, `HandOverHeld`), a deletion wakes a whole list (`WokenQueues`); the
loop over the robust mutexes of a thread that ends is a function defined by recursion
(`BequeathLoops`), of which `PassKeeps` is one turn. For `HighestRuns` the idle thread
must be ready or running (`Able`): whoever waits leaves somebody to dispatch.

`LinksInv` adds `Linked`: for each live thread there is a sequence that its pointers lead
through, forwards and backwards (`Strung`), of the mutexes it owns by lock and
`owner_thread` (`Owned`). `HoldStrung` puts a mutex in front, `UnholdStrung` takes one
out at any place; `HoldOthers` and `UnholdOthers` say that the sequences of the other
owners stay as they are, which holds because no mutex has two owners. A dead thread owns
nothing: so a thread created anew may start with an empty list, and this is where a
mutex that is not robust would break it. `BequeathLinked` takes the mutexes of a thread
that ends one by one to their heirs. `MutexListIs` shows that the walk the code does along
`owner_next` finds just that sequence.

`ExactInv` adds `Settled`: who waits owns nothing, and every live thread is treated
fairly (`Fair`: it has the priority of its own or of one of its creditors, and none of them
has more). That who waits owns nothing is what makes it inductive: then the thread whose
priority a step changes is nobody's creditor (`CreditorsFree`), and a step has to be
checked for that thread alone (`SettledElse`). The code looks only at the first thread of
each list; `OwedFair` shows that this is enough, since the lists are sorted, and
`MutexListIs` that it looks at every mutex the thread owns. A hand-over is
fair to the new owner because it owned nothing and outranks those behind it
(`HandOverSettled`); a release, a deletion and a timeout are one argument
(`LoweredSettled`). A thread whose robust mutexes are handed on is owed nothing any more,
so while it ends it is left out (the last argument of `Settled`).

`MutexesServe` maps every step to one of `MutexService` or to a stutter, over what the
callers see of a mutex (`HolderOf`, `DepthOf`, `WaitersOf`): inheritance and changes of
priority move threads within the lists and show nothing (`SameView`), a suspension, a
resumption and a timeout are `GiveUp`, a wait that cannot begin is a stutter. A release and
the end of an owner are both `PassOn`: the loop over the robust mutexes, which in the code
unlocks them and hands them over one by one, amounts to passing on, in one step, the whole
set that the owner held (`BequeathPassed`, `PassOnServes`). That it is the whole set, and that
deletion and release unlink the mutex from the list of its owner, is what `LinksInv` is needed for.

### Objects and semaphores

For any threads, priorities, timeouts and objects, any length of the queue of post
processing and any maximum of tokens, of `RtxSemaphore!Spec`:

| Theorem | Says |
|---|---|
| `WaitersStayInOrder` | `[]WaitersInOrder`: every variable has its type; a thread blocked for a semaphore is in the list of exactly one, a valid one; each list is in the order of the priorities and holds nobody else |
| `TokensStayInOrder` | `[]TokensInOrder`: the count is what was given less what was taken; where a thread waits beside a token, PendSV has an entry that brings them together |

From `SchedulerAssumption`, `ObjectAssumption` and `SemaphoreAssumption`: idle and main
are two threads, priorities are numbers none of which is below that of the idle
thread, timeouts are above 0 or forever, the queue has a length and the maximum is above 0.

**The argument.** `RtxObjectProofs` is about the part that all objects share, whatever
they keep beside their list. Its invariant `KernelInv` has the places of the
threads (`Runs`), the order of the delay list (`Sorted`), and `Waits`: the lists of the
objects hold each thread blocked for one once, in the order of the priorities, and an
object that is not valid has an empty list. The order of the ready list is part of it too:
deletion and PendSV wake several threads before one dispatch looks at the head.
One lemma for each thread service, tick and PendSV step says that `KernelInv` is kept and
that no list of an object grows (`Shrinks`). `osThreadSetPriority` of a waiting thread
moves it within a list (`ListSortAscends`); the exit or termination of a thread must take
it out of the list it is in (`LeaveKeeps`); a deletion wakes a whole list, a loop whose
scheduler after each turn is a function defined by recursion (`WokenWakes`, by
`Recursion` of `ListFacts`).

`SemInv` adds the tokens. `NoStrandedToken` is not inductive: when the decrement of
`osSemaphoreAcquire` has failed and the thread is not yet in the list, an interrupt may
give a token, and nobody is waiting that it could belong to. `Covered` says what holds in
between: the request has as many entries in the queue as the semaphore has tokens, so
that PendSV, which runs after the service, finds the thread in the list. Each of the other steps
either takes an entry together with a token, a waiting thread or the reason for it, or
brings one with each token (`EntriesCount`, by counting in sequences, `Times`).

### Event flags

For any threads, priorities, timeouts, flags and objects and any length of the queue of post
processing, of `RtxEventFlags!Spec`:

| Theorem | Says |
|---|---|
| `EventsNotMissed` | `[]NoMissedEvent` and types: a thread whose flags are set does not wait, unless PendSV has an entry for the object or the walk under way has this thread still to check |
| `FlagWaitersInOrder` | `[]WaitersListed` and `[]WaitersSorted`: each list holds exactly the threads blocked for its object, once, in the order of the priorities |

From `SchedulerAssumption` and `ObjectAssumption`; nothing is assumed of the flags.

**The argument.** `osEventFlagsSet` and PendSV walk a list one thread at a time, and an
interrupt may set, clear or take flags between two of them; `EventInv` adds to `KernelInv`
what is at work then. The threads that a walk has still to check are in the list of its
object (`Walks`), although the walk wakes threads of the list it stands in. A service whose
check failed, and that has yet to enter the list, has an entry in the queue if its check
would succeed by now (`Failed`): this is the interrupt between check and wait, and without
it `NoMissedEvent` is not inductive. Every other step is settled by `MissesNone`, which asks
of each object one of two things: that all who wait for it are going to be checked, by an
entry or by the walk (`Rechecked`), or that its flags only become fewer and the walk loses
nobody. Setting flags gives the first, by a walk over the whole list or by an entry;
clearing or taking them gives the second, since whoever is not satisfied by some flags is
not satisfied by fewer of them (`FewerFlags`).

### Timers

| Theorem | Says |
|---|---|
| `TimersKeepTime` | `KeepsTime`: types; a timer is in the list, once, exactly while it runs; and `RtxTimer!Spec` implements `TimerService!Spec` |

From `TimerAssumption`: any finite set of timers, any times above 0, any length of the
callback queue. The set is finite because the tick takes expired timers until none is due,
and a model of that loop ends only if there are finitely many; the code's list is finite too.

**The argument.** The time left of a timer is the sum of the ticks of the timers up to it,
a function defined by recursion. `LeftAt` shows that it exists and has the two equations
its definition states, `LeftUnique` that nothing else has; a definition by recursion in
TLA+ is a `CHOOSE`, and that there is something to choose needs an induction.
`SetInduction` gives it: a set of numbers that has 0 and with each number the next is all
of `Nat`; `Recursion` follows, for a function in place of an operator. From there
`TillInsert`, `TillRemove` and `TillTail` say what linking and unlinking a timer does to the
time left of each *other* timer (nothing), which is what the differences are for. The
invariant is `TypeOK` with `Good`: the list has each running timer once, and the first
timer that is left is not due. Without the last, the head's tick would count
below zero, and it is the loop of `osRtxTimerTick` that restores it: `AfterRound` is the
invariant of the loop (what each round took out and put into the queue, and that a
periodic timer restarted in a round is not due in the same tick), `AfterAll` its end, by
the number of timers that are due. `NextStep` then maps each action to an action of
`TimerService` or a stutter.

### What is checked by TLC only

Liveness under fairness; `ENABLED`; `FairPreemption` (which of several threads of one
priority comes first: its `SelectSeq` is recursive); the other refinements; and everything
in the other modules. Each theorem's property, or its main parts, was a run's property
before it was proved.

## 7. Where code and comments disagree

Three `violation` runs are listed; `PROJECT.json` quotes the lines.

| Run | Finding |
|---|---|
| `queue_woken` | when PendSV has freed the block of a message that a handler received, it wakes the first thread of the queue's list as a sender, as its comment says; that thread may be a receiver, which returns `osOK` without a message |
| `event_onehandler` | the search for an event and the append of its handler are two critical sections: two clients can register one event, which the documentation rules out |
| `shell_line` | a line that fills its buffer is to be discarded, but only its two positions are reset: Tab counts the characters again, and the next one leaves the cursor beyond the end of the line |

The others are properties of the modules that fail when a restriction of
[section 4](#4-the-runs) is lifted. To repeat one, give the constant the value below and
check the property; three threads, writers or entries are enough unless said otherwise. (`SpiBus` with
`Prompt = FALSE` breaks no invariant: a byte that is lost to the receiving channel makes
its transfer wait for ever.) No disagreement is the comment of `_WriteNoCheck` (`rtt.c:11`),
that what exceeds the buffer is cut off: it is called only when everything fits
(`rtt.c:70`), as the comment there says, and an output that does not fit is left out whole.

| Property | Lift | What happens |
|---|---|---|
| `RtxThread!JoinersWait` | `SparesJoiners = FALSE` | `osThreadResume` on a thread blocked in `osThreadJoin` leaves the target's `thread_join` pointing to it; the exit of the target then wakes a thread that is elsewhere |
| `RtxMutex!InheritanceEnds` | `"Disturb"` in `Habits` | suspending, resuming or terminating a thread that waits for an inheriting mutex leaves the owner boosted |
| `RtxMutex!OwnedOnly` | `"Abandon"` in `Habits` | mutexes of a thread that has ended stay linked to its control block; after the block is used again, deleting one puts another into the new thread's list |
| `RtxMemPool!SpaceLeft` | nothing | a free puts the block back before it counts it: a handler in between sees more blocks used than there are |
| `RtxMsgQueue!NoStrandedWaiter` | `IsrReceives`, `GetTimeout = {Forever}`, priorities 2 and 3, four threads | as in `queue_woken`, and the sender the space was meant for goes on waiting |
| `RtxIsrQueue!ReadsOldest` | `Burst > max` | `isr_queue_get` counts down before it reads: on a full ring the entry it is about to read is overwritten |
| `SystemEvent!MutexReleased` | `Repeats = TRUE` | registering an event twice keeps the mutex for ever |
| `SystemEvent!CalledIsRegistered` | nothing | a handler is called after its unregistration has returned |
| `RingBuffer!CopiesOldest` | `Torn = TRUE` | index and mirror are loaded separately: an empty buffer looks full |
| `CanReceive!NumbersHold` and `ReadsOldest` | `"load"`, and `"first"` and `"bypass"`, in `Interruptible` | the reader of the software FIFO does not keep the interrupt out |
| `CanTransmit!SlotForToken` and `CancelsOwn` | two writers, two slots | a writer that gives up loses its slot, and clears the mailbox another writer uses |
| `CanTransmit!ResultKnown` | nothing | the completion of a message that was given up stays behind and wakes the next user of the slot |
| `InputCapture!OneUser`, `MarksAgree`, `RingThere` | `Overlap`, `StopFails`, `AnyPrescale` in turn | open races; a failed close leaves a device that nobody can open; setting the prescaler of a closed device starts it without a buffer |
| `HwDelay!DelayReturns` | `Overlap = TRUE`, `FairSpec` | two delays at once: one never returns |
| `SpiBus!MovesAll` | a `Length` above `CountLimit` | the count register holds 16 bits (`drv_spi.c:161`): a longer message ends early and is counted as moved, one of 65536 bytes waits for ever |
| `MCServices!ImplementsStore` | without `Late` in `FlashStore` | `sfud_erase` and `sfud_write` do not wait for the chip before the command: after a timeout (`sfud.c:972`; 60 s, and the erase of a whole chip may take longer) the chip ignores write enable and command, its latch is still set, and the poll ends with the earlier request: the caller is told success and nothing was done |
| `MCServices!ImplementsStore` | `WriteMode <- "byte"` in *pages* | `sfud_write` has no byte mode (`sfud.c:783`): it writes nothing and reports success |
| `MCServices!ImplementsChannel` | `Overlap <- TRUE` in *prints* | two threads that print copy to the same place, or one formats over what the other copies |
| `Clock!ReadsTrue` | `Carry = TRUE` | the low half of the counter wraps between its read and that of the high half: the time read is up to 26 seconds ahead |
| `Clock!SetHolds` | `Overlap = TRUE` | `rtc_counter_set` takes no lock: a setter preempted between its halves writes the second one after the other has left configuration mode, and returns without having set the time |
| `MCServices!KnowsCalendar` | `MonthCarry <- TRUE` in *dates* | `timegm` subtracts the days before the month instead of those of the month (`time.c:408`), nothing from January: January 32 of 1970 is the 4th of March; and it counts the years before the carry (`time.c:380`) |
| `Clock!SetHolds` | a `Time` or `Day` the counter cannot hold | 2500 counts a second leave 19 days in 32 bits (`drv_rtc.c:42`): a date of today is cut |

## 8. What is not modelled

- *Stack overflow checks, watermarks, MPU, secure calls*: no effect on the lists.
- *Event recorder* (`rtx_evr.c`): logging only.
- *Kernel initialisation, idle thread, tick source*: straight-line set-up, and registers.
  What is configured there are the constants of the models.
- *Object memory* (`osRtxMemoryAlloc`, `rtx_memory.c`): objects are static here.
- *Object containers of RT-Thread* (`object.c`): each operation is one critical section
  that links, unlinks or searches a list, and objects are linked while the system
  starts, by one thread. A model would restate its one step.
- *Pins, ADC, DAC, PWM*: each call passes on to the driver, which sets registers.
- *Board and processor support, start-up of the device framework*: register access, and
  calls of a linker section in order, once.
- *Vendored code* (`stdperiph`, `cmsis`): register access; the models say what its calls
  do to a counter, a mailbox, a channel or an interrupt flag. It is most of the lines of
  the repository.
- In modelled components: CAN filters, statistics, open and close, and the private mode
  of its receive path, which the default configuration leaves off; `osThreadEnumerate`
  and getters; `rt_memheap`, `rt_calloc`'s clearing and several heaps; lists of more than
  two SPI messages; detection of the flash chip, parsing of its SFDP table, its reset and
  status register, which run before the device is registered; the shell's built-in
  commands and its echo, and history, password and files, which are not compiled; time
  zones, texts of dates, microseconds and the software clock, which is not compiled;
  formatting and the string functions of `kservice.c`.

Two limits of the models. Interrupts of different levels preempt each other only in
`RtxIsrQueue`: the handler services of the objects are one atomic access and a
registration, whose interleaving that module shows to be harmless within its bound.
And the processor is sequentially consistent: a single Cortex-M4 core sees its own
accesses in order; what the compiler may reorder is modelled where an object is not
`volatile` (`RingBuffer`).

## 9. Plan

Built in this order: scheduler and threads with their proofs, mutexes, the objects
shared with handlers, the delay list, the post-processing queue, timers, the event loop,
the heap, the ring buffer, CAN, the device layer with input capture, the microsecond
delay; then the SPI bus, the serial flash, the shell, the debug channel, the calendar
and the clock. What is left:

1. *Models.* Open, close and private mode of CAN; the timer values and the pending tick
   of `osKernelSuspend` and `osKernelResume` beside the lists.
2. *Proofs*, in order of worth: the other objects on `KernelInv` of `RtxObjectProofs`
   (pools, message queues); `ListsInOrder` of `RtxDelayList`; the slots of `RtxIsrQueue`; `NodesLive` of
   `SystemEvent`; `Tiled` of `SmallMem`; `TokensHold` of `CanTransmit`; `RingThere` of
   `InputCapture`; `Fifo` as a theorem about `RingBuffer`.
