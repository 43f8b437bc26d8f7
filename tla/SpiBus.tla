------------------------------ MODULE SpiBus ------------------------------
(***************************************************************************)
(* The SPI bus (components/spi/spi_core.c) and its driver                  *)
(* (bsp/driver/drv_spi.c): threads share one controller, its two DMA       *)
(* channels and the devices attached to it.  A transfer owns the lock of   *)
(* the bus, configures the controller when the last user was another       *)
(* device, then exchanges its messages one after the other.                *)
(*                                                                         *)
(* The thread, the shift register, the two DMA channels and their          *)
(* interrupts run side by side.  rt_spi_configure writes the fields of a   *)
(* device without the lock.  A byte is not modelled: only that it moved.   *)
(***************************************************************************)
EXTENDS Naturals, Sequences

CONSTANTS
  Thread,      \* threads that use the bus
  Attached,    \* devices attached to it
  Mode,        \* modes, with their clocks, of a configuration
  Width,       \* data widths it may ask for
  Length,      \* bytes of a message
  CountLimit,  \* the count register of a DMA channel holds 0..CountLimit
  Prompt,      \* no two bytes arrive before the receiving channel takes one
  Free         \* nobody

SpiAssumption ==
  /\ Free \notin Thread \cup Attached
  /\ Length \subseteq Nat \ {0} /\ CountLimit \in Nat /\ 0 \in Mode
  /\ Prompt \in BOOLEAN

VARIABLES
  config,   \* of each device, as rt_spi_configure left it
  spi,      \* the mode the controller runs with
  owner,    \* bus->owner
  lock,     \* bus->lock: the thread and how often it holds it
  cs,       \* devices whose chip select is low
  dma,      \* the shift register, the channels and the flags of the driver
  call      \* what each thread is doing

vars == <<config, spi, owner, lock, cs, dma, call>>

WIDTH == 8   \* the only data width the driver accepts

Idle(holds) == [at |-> "idle", device |-> Free, parts |-> <<>>, next |-> 0,
                mode |-> 0, holds |-> holds, result |-> TRUE]

Init ==
  /\ config = [d \in Attached |-> [width |-> 0, mode |-> 0]]
  /\ spi = 0
  /\ owner = Free
  /\ lock = [by |-> Free, depth |-> 0]
  /\ cs = {}
  /\ dma = [tx |-> FALSE, rx |-> FALSE,            \* the channels are enabled
            dmaten |-> FALSE, dmaren |-> FALSE,    \* the controller asks them
            txcnt |-> 0, rxcnt |-> 0, rbne |-> FALSE,
            dma_tx_done |-> FALSE, dma_rx_done |-> FALSE, moved |-> 0]
  /\ call = [t \in Thread |-> Idle(Free)]

At(t, pc)    == call[t].at = pc
Goes(t, pc)  == call' = [call EXCEPT ![t].at = pc]
Device(t)    == call[t].device
---------------------------------------------------------------------------
\* A message: whether it sends and receives, its length, and whether it takes
\* and releases the chip select.
Message(send, recv, n, take, release) ==
  [send |-> send, recv |-> recv, len |-> n, take |-> take, release |-> release]

\* The messages of rt_spi_transfer, rt_spi_send_then_send, rt_spi_send_then_recv.
\* A second message may be empty; an empty first one leaves the chip select low.
Whole(n)  == {<<Message(s[1], s[2], n, TRUE, TRUE)>> :
                s \in {<<TRUE, TRUE>>, <<TRUE, FALSE>>, <<FALSE, TRUE>>}}
Then(n)   == {<<Message(TRUE, FALSE, 1, TRUE, FALSE), Message(send, ~send, n, FALSE, TRUE)>> :
                send \in BOOLEAN}
             \cup {<<Message(TRUE, FALSE, n, TRUE, FALSE), Message(FALSE, FALSE, 0, FALSE, TRUE)>>}
\* What rt_spi_transfer_message gets between rt_spi_take and rt_spi_release.
Middle(n) == {<<Message(TRUE, FALSE, n, FALSE, FALSE)>>}

\* rt_spi_configure: the width, then the mode, without the lock.
Configure(t, d, width, mode) ==
  /\ At(t, "idle") /\ call[t].holds = Free
  /\ config' = [config EXCEPT ![d].width = width]
  /\ call' = [call EXCEPT ![t] = [Idle(Free) EXCEPT !.at = "mode", !.device = d, !.mode = mode]]
  /\ UNCHANGED <<spi, owner, lock, cs, dma>>

ConfigureMode(t) ==
  /\ At(t, "mode") /\ Goes(t, "acquire")
  /\ config' = [config EXCEPT ![Device(t)].mode = call[t].mode]
  /\ UNCHANGED <<spi, owner, lock, cs, dma>>

\* rt_spi_transfer and the others that move messages.
Transfer(t, d, parts) ==
  /\ At(t, "idle") /\ call[t].holds = Free
  /\ call' = [call EXCEPT ![t] = [Idle(Free) EXCEPT
                !.at = "acquire", !.device = d, !.parts = parts, !.next = 1]]
  /\ UNCHANGED <<config, spi, owner, lock, cs, dma>>

\* rt_spi_take_bus keeps the lock; holds is the device it keeps it for.
TakeBus(t, d) ==
  /\ At(t, "idle") /\ call[t].holds = Free
  /\ call' = [call EXCEPT ![t] = [Idle(d) EXCEPT !.at = "acquire", !.device = d]]
  /\ UNCHANGED <<config, spi, owner, lock, cs, dma>>

Holding(t) == At(t, "idle") /\ call[t].holds # Free

\* rt_spi_transfer_message while the bus and the chip select are taken.
TransferHeld(t, parts) ==
  /\ Holding(t) /\ call[t].holds \in cs
  /\ call' = [call EXCEPT ![t] = [Idle(call[t].holds) EXCEPT
                !.at = "acquire", !.device = call[t].holds, !.parts = parts, !.next = 1]]
  /\ UNCHANGED <<config, spi, owner, lock, cs, dma>>

\* Mutant of Stopped: the flags of the last message stay.
Stopped_FlagsKept ==
  [dma EXCEPT !.tx = FALSE, !.rx = FALSE, !.txcnt = 0, !.rxcnt = 0, !.moved = 0]

\* An empty message, as rt_spi_take and rt_spi_release send it: spi_xfer
\* stops the channels and clears the flags and the counts.
Stopped == [dma EXCEPT !.tx = FALSE, !.rx = FALSE, !.txcnt = 0, !.rxcnt = 0,
                       !.dma_tx_done = FALSE, !.dma_rx_done = FALSE, !.moved = 0]

TakeSelect(t) ==       \* rt_spi_take
  /\ Holding(t) /\ call[t].holds \notin cs
  /\ cs' = cs \cup {call[t].holds} /\ dma' = Stopped
  /\ UNCHANGED <<config, spi, owner, lock, call>>

ReleaseSelect(t) ==    \* rt_spi_release
  /\ Holding(t) /\ call[t].holds \in cs
  /\ cs' = cs \ {call[t].holds} /\ dma' = Stopped
  /\ UNCHANGED <<config, spi, owner, lock, call>>

ReleaseBus(t) ==       \* rt_spi_release_bus
  /\ Holding(t) /\ call[t].holds \notin cs
  /\ call[t].holds = owner
  /\ lock' = IF lock.depth = 1 THEN [by |-> Free, depth |-> 0] ELSE [lock EXCEPT !.depth = @ - 1]
  /\ call' = [call EXCEPT ![t] = Idle(Free)]
  /\ UNCHANGED <<config, spi, owner, cs, dma>>
---------------------------------------------------------------------------
Configures(t)  == call[t].parts = <<>> /\ call[t].holds = Free
TakesBus(t)    == call[t].parts = <<>> /\ call[t].holds # Free

\* Where a thread goes that has the lock and the controller as it wants it.
Started(t) == IF Configures(t) THEN "release" ELSE IF TakesBus(t) THEN "idle" ELSE "select"

\* The lock is recursive.  A transfer configures the controller for a device
\* that is not the owner, rt_spi_configure for one that is.
Reconfigures(t) == (owner = Device(t)) = Configures(t)

Acquire(t) ==
  /\ At(t, "acquire") /\ lock.by \in {Free, t}
  /\ lock' = [by |-> t, depth |-> lock.depth + 1]
  /\ Goes(t, IF Reconfigures(t) THEN "setup" ELSE Started(t))
  /\ UNCHANGED <<config, spi, owner, cs, dma>>

\* spi_configure: reads the mode, and refuses another width.
Refuses(t) ==
  /\ At(t, "setup") /\ config[Device(t)].width # WIDTH
  /\ call' = [call EXCEPT ![t].at = "release", ![t].result = Configures(t),
                          ![t].holds = IF TakesBus(t) THEN Free ELSE @]
  /\ UNCHANGED <<config, spi, owner, lock, cs, dma>>

Accepts(t) ==
  /\ At(t, "setup") /\ config[Device(t)].width = WIDTH
  /\ call' = [call EXCEPT ![t].at = "program", ![t].mode = config[Device(t)].mode]
  /\ UNCHANGED <<config, spi, owner, lock, cs, dma>>

\* It resets both channels and programs the controller.
Programs(t) ==
  /\ At(t, "program") /\ Goes(t, Started(t))
  /\ spi' = call[t].mode
  /\ owner' = Device(t)
  /\ dma' = [dma EXCEPT !.tx = FALSE, !.rx = FALSE, !.txcnt = 0, !.rxcnt = 0]
  /\ UNCHANGED <<config, lock, cs>>
---------------------------------------------------------------------------
\* spi_xfer.
Part(t) == call[t].parts[call[t].next]

\* The count register holds 16 bits.
Count(n) == n % (CountLimit + 1)

Select(t) ==
  /\ At(t, "select")
  /\ cs' = IF Part(t).take THEN cs \cup {Device(t)} ELSE cs
  /\ dma' = [Stopped EXCEPT !.txcnt = Count(Part(t).len), !.rxcnt = Count(Part(t).len)]
  /\ Goes(t, IF Part(t).send \/ Part(t).recv THEN "tx" ELSE "deselect")
  /\ UNCHANGED <<config, spi, owner, lock>>

\* A dummy read clears RBNE before a byte is to be received; then the sending
\* channel is enabled.
EnableTx(t) ==
  /\ At(t, "tx")
  /\ dma' = [dma EXCEPT !.tx = TRUE, !.rbne = @ /\ ~Part(t).recv]
  /\ Goes(t, IF Part(t).recv THEN "rx" ELSE "request")
  /\ UNCHANGED <<config, spi, owner, lock, cs>>

EnableRx(t) ==
  /\ At(t, "rx") /\ Goes(t, "request")
  /\ dma' = [dma EXCEPT !.rx = TRUE]
  /\ UNCHANGED <<config, spi, owner, lock, cs>>

\* The requests of the controller stay enabled after a transfer.
Request(t) ==
  /\ At(t, "request") /\ Goes(t, "wait")
  /\ dma' = [dma EXCEPT !.dmaten = TRUE, !.dmaren = @ \/ Part(t).recv]
  /\ UNCHANGED <<config, spi, owner, lock, cs>>

\* All was sent, and received when the message receives.
Completes(t) ==
  /\ At(t, "wait") /\ dma.dma_tx_done /\ (Part(t).recv => dma.dma_rx_done)
  /\ dma' = [dma EXCEPT !.tx = FALSE, !.rx = @ /\ ~Part(t).recv]
  /\ Goes(t, "deselect")
  /\ UNCHANGED <<config, spi, owner, lock, cs>>

\* spi_xfer returns the length of the message; the callers take 0 for an error.
Deselect(t) ==
  LET empty == Part(t).len = 0
      last  == call[t].next = Len(call[t].parts)
  IN /\ At(t, "deselect")
     /\ cs' = IF Part(t).release THEN cs \ {Device(t)} ELSE cs
     /\ call' = [call EXCEPT ![t].at = IF empty \/ last THEN "release" ELSE "select",
                             ![t].next = IF empty \/ last THEN @ ELSE @ + 1,
                             ![t].result = ~empty]
     /\ dma' = [dma EXCEPT !.moved = 0]
     /\ UNCHANGED <<config, spi, owner, lock>>

Release(t) ==
  /\ At(t, "release")
  /\ lock' = IF lock.depth = 1 THEN [by |-> Free, depth |-> 0] ELSE [lock EXCEPT !.depth = @ - 1]
  /\ call' = [call EXCEPT ![t] = [Idle(call[t].holds) EXCEPT !.result = call[t].result]]
  /\ UNCHANGED <<config, spi, owner, cs, dma>>
---------------------------------------------------------------------------
\* The controller shifts a byte out and one in.  A byte that nobody has read
\* before the next one arrives stays, the next one is lost.
Receiving == \E t \in Thread : call[t].at \in {"rx", "request", "wait"} /\ Part(t).recv

Shift ==
  /\ dma.tx /\ dma.dmaten /\ dma.txcnt > 0
  /\ Prompt /\ Receiving => ~dma.rbne
  /\ dma' = [dma EXCEPT !.txcnt = @ - 1, !.moved = @ + 1,
                        !.rbne = TRUE,
                        !.dma_tx_done = @ \/ dma.txcnt = 1]   \* DMA0_Channel2_IRQHandler
  /\ UNCHANGED <<config, spi, owner, lock, cs, call>>

Fetch ==
  /\ dma.rx /\ dma.dmaren /\ dma.rbne /\ dma.rxcnt > 0
  /\ dma' = [dma EXCEPT !.rxcnt = @ - 1, !.rbne = FALSE,
                        !.dma_rx_done = @ \/ dma.rxcnt = 1]   \* DMA0_Channel1_IRQHandler
  /\ UNCHANGED <<config, spi, owner, lock, cs, call>>

Step(t) ==
  \/ ConfigureMode(t) \/ Acquire(t)
  \/ Refuses(t) \/ Accepts(t) \/ Programs(t)
  \/ Select(t) \/ EnableTx(t) \/ EnableRx(t) \/ Request(t)
  \/ Completes(t) \/ Deselect(t) \/ Release(t)

Next ==
  \/ \E t \in Thread :
       \/ \E d \in Attached :
            \/ \E width \in Width, m \in Mode : Configure(t, d, width, m)
            \/ \E n \in Length : \E parts \in Whole(n) \cup Then(n) : Transfer(t, d, parts)
            \/ TakeBus(t, d)
       \/ \E n \in Length : \E parts \in Middle(n) : TransferHeld(t, parts)
       \/ TakeSelect(t) \/ ReleaseSelect(t) \/ ReleaseBus(t)
       \/ Step(t)
  \/ Shift
  \/ Fetch

Spec == Init /\ [][Next]_vars
---------------------------------------------------------------------------
\* The chip select is low for the owner alone, and only while its transfer
\* has the lock: what one thread sends never reaches the device of another.
SelectsOwner == cs \subseteq {owner} /\ (lock.by = Free => cs = {})

\* Once every rt_spi_configure of the owner has returned, the controller runs
\* with what the owner was configured with last (a width it refuses leaves it
\* as it was): no transfer uses the settings of another device or old ones.
RunsAsConfigured ==
  \/ owner = Free \/ config[owner].width # WIDTH
  \/ \E t \in Thread : ~At(t, "idle") /\ Configures(t) /\ Device(t) = owner
  \/ \E t \in Thread : At(t, "program")
  \/ spi = config[owner].mode

\* A message is over when each of its bytes has been sent, and received: no
\* flag, count or byte of an earlier message counts for this one.
MovesAll ==
  \A t \in Thread : At(t, "deselect") /\ (Part(t).send \/ Part(t).recv) =>
    /\ dma.moved = Part(t).len
    /\ Part(t).recv => dma.rxcnt = 0
===========================================================================
