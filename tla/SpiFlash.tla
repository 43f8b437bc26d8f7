----------------------------- MODULE SpiFlash -----------------------------
(***************************************************************************)
(* The serial flash driver (components/sfud/sfud.c, sfud_sfdp.c) and its   *)
(* block device (spi_flash_sfud.c): threads read, erase and write one chip *)
(* whose commands travel over the SPI bus one by one.  Erasing and         *)
(* programming need the write enable latch, set anew for each command, and *)
(* go on in the chip after the command: it ignores everything but a read   *)
(* of its status until it is done.                                         *)
(*                                                                         *)
(* A cell holds one bit.  The lock of the device is recursive.  A transfer *)
(* may fail before it reaches the chip, at most MaxFaults times.  The chip *)
(* may take longer than the driver waits: the caller is told of a timeout, *)
(* and the chip goes on.                                                   *)
(***************************************************************************)
EXTENDS Naturals, Sequences, FiniteSetsExt

CONSTANTS
  Thread,
  Request,     \* what they ask for: records of Ask
  BlockCall,   \* what they ask the block device for: records of InCells
  Capacity,    \* cells of the chip
  PageSize,    \* cells that one program command reaches
  WriteMode,   \* "page", "aai" (two cells at a time) or "byte"
  EraseType,   \* the four erase types of its SFDP table, 0 when absent
  Sfdp,        \* the chip has that table
  Retries,     \* polls of the status before the driver gives up
  MaxFaults,
  Free         \* nobody

FlashAssumption ==
  /\ Free \notin Thread
  /\ {Capacity, PageSize, Retries} \subseteq Nat \ {0} /\ MaxFaults \in Nat
  /\ WriteMode \in {"page", "aai", "byte"} /\ Sfdp \in BOOLEAN
  /\ EraseType \in [1 .. 4 -> Nat] /\ EraseType[1] # 0
  /\ WriteMode = "aai" => \A r \in Request : r.size > 0

VARIABLES
  cells,    \* the array of the chip
  chip,     \* its busy flag, write enable latch and AAI mode, the array to be
  lock,     \* spi_flash_device.lock: the thread and how often it holds it
  call,     \* what each thread is doing
  settled,  \* the array when the lock was free last
  stray,    \* whether the chip was not done then with what had timed out
  answer,   \* what a caller was told since the last call
  faults    \* transfers that failed

vars == <<cells, chip, lock, call, settled, stray, answer, faults>>

Cell == 0 .. Capacity - 1

\* chip.erase_gran, which is the sector of the block device.
EraseGran == Min({EraseType[i] : i \in 1 .. 4} \ {0})

\* rt_sfud_read, rt_sfud_write and the erase of rt_sfud_control, in sectors.
BlockRead(pos, n) ==
  [op |-> "read", addr |-> pos * EraseGran, size |-> n * EraseGran, data |-> <<>>, then |-> FALSE]
BlockErase(start, end) ==
  [op |-> "erase", addr |-> start * EraseGran,
   size |-> (IF end = start THEN 1 ELSE end - start) * EraseGran, data |-> <<>>, then |-> FALSE]
\* sfud_erase_write erases, then writes what it has erased.
BlockWrite(pos, data) ==
  [op |-> "erase", addr |-> pos * EraseGran, size |-> Len(data), data |-> data, then |-> TRUE]

InCells(b) ==
  CASE b.op = "read"  -> BlockRead(b.pos, b.n)
    [] b.op = "erase" -> BlockErase(b.pos, b.n)
    [] b.op = "write" -> BlockWrite(b.pos, b.data)

NoRequest == [op |-> "none", addr |-> 0, size |-> 0, data |-> <<>>, then |-> FALSE]
NoAnswer  == [status |-> "none", seen |-> <<>>]

Idle == [at |-> "idle", req |-> NoRequest, addr |-> 0, size |-> 0, retry |-> 0,
         nested |-> FALSE, result |-> "success", seen |-> <<>>]

Init ==
  /\ cells = [a \in Cell |-> 1]
  /\ chip = [busy |-> FALSE, wel |-> FALSE, aai |-> FALSE, array |-> cells]
  /\ lock = [by |-> Free, depth |-> 0]
  /\ call = [t \in Thread |-> Idle]
  /\ settled = cells
  /\ stray = FALSE
  /\ answer = NoAnswer
  /\ faults = 0

At(t, pc)   == call[t].at = pc
Req(t)      == call[t].req
Goes(t, pc) == call' = [call EXCEPT ![t].at = pc]
Reading(t)  == Req(t).op = "read"
Erasing(t)  == Req(t).op = "erase"
\* The words of aai_write, and the single cells before and after them.
Words(t)    == Req(t).op = "write" /\ WriteMode = "aai" /\ ~call[t].nested
---------------------------------------------------------------------------
\* A call, and the second half of sfud_erase_write.
Starts(t, r) ==
  /\ call' = [call EXCEPT ![t] = [Idle EXCEPT
                !.at = "check", !.req = r, !.addr = r.addr, !.size = r.size]]
  /\ answer' = NoAnswer
  /\ UNCHANGED <<cells, chip, lock, settled, stray, faults>>

Ask(t, r) == At(t, "idle") /\ ~Req(t).then /\ Starts(t, r)

WriteErased(t) ==
  At(t, "idle") /\ Req(t).then /\ Starts(t, [Req(t) EXCEPT !.op = "write", !.then = FALSE])

\* The caller is told; a failed erase ends sfud_erase_write.
Returns(t, result) ==
  /\ call' = [call EXCEPT ![t] = [Idle EXCEPT
                !.req = IF Req(t).then /\ result = "success" THEN Req(t) ELSE @]]
  /\ answer' = [status |-> result, seen |-> call[t].seen]

\* sfud_write knows no byte mode: it does nothing and reports success.
CheckRequest(t) ==
  /\ At(t, "check")
  /\ \/ /\ Req(t).op = "write" /\ WriteMode = "byte"
        /\ Returns(t, "success")
     \/ /\ ~(Req(t).op = "write" /\ WriteMode = "byte")
        /\ Req(t).addr + Req(t).size > Capacity
        /\ Returns(t, "failed")
     \/ /\ ~(Req(t).op = "write" /\ WriteMode = "byte")
        /\ Req(t).addr + Req(t).size <= Capacity
        /\ Goes(t, "lock") /\ answer' = answer
  /\ UNCHANGED <<cells, chip, lock, settled, stray, faults>>

\* An odd cell before the words is written by page256_or_1_byte_write, which
\* takes the lock again.
Lock(t) ==
  LET odd == Words(t) /\ call[t].addr % 2 # 0
      next == CASE odd             -> "lock"
                [] Reading(t)      -> "poll"
                [] call[t].size > 0 -> "enable"
                [] OTHER           -> "off"
  IN /\ At(t, "lock") /\ lock.by \in {Free, t}
     /\ lock' = [by |-> t, depth |-> lock.depth + 1]
     /\ call' = [call EXCEPT ![t] = [@ EXCEPT !.at = next, !.nested = @ \/ odd, !.retry = Retries]]
     /\ UNCHANGED <<cells, chip, settled, stray, answer, faults>>
---------------------------------------------------------------------------
\* set_write_enabled(true): the command, then the status.
Enable(t) ==
  /\ At(t, "enable") /\ Goes(t, "enabled")
  /\ chip' = [chip EXCEPT !.wel = @ \/ ~chip.busy]
  /\ UNCHANGED <<cells, lock, settled, stray, answer, faults>>

Enabled(t) ==
  /\ At(t, "enabled")
  /\ call' = [call EXCEPT ![t] = [@ EXCEPT
                !.at = IF chip.wel /\ (Words(t) => call[t].size >= 2) THEN "command" ELSE "off",
                !.result = IF chip.wel THEN @ ELSE "failed"]]
  /\ UNCHANGED <<cells, chip, lock, settled, stray, answer, faults>>

\* sfud_sfdp_get_suitable_eraser: the smallest for an unaligned address, else
\* the largest that fits.
Suitable(addr, size) ==
  LET fits == {e \in {EraseType[i] : i \in 1 .. 4} \ {0} : e <= size /\ addr % e = 0}
  IN IF addr % EraseGran # 0 \/ fits = {} THEN EraseGran ELSE Max(fits)

WholeChip(t) == Erasing(t) /\ Req(t).addr = 0 /\ Req(t).size = Capacity

\* The size of the next erase.
EraseSize(t) ==
  CASE WholeChip(t) -> Capacity
    [] Sfdp         -> Suitable(call[t].addr, call[t].size)
    [] OTHER        -> EraseGran

\* Mutant of WriteSize: a command may run over the end of a page.
WriteSize_NoPage(t) ==
  CASE call[t].nested -> 1
    [] Words(t)       -> 2
    [] OTHER          -> Min({call[t].size, PageSize})

\* How many cells the next command writes: up to the end of the page.
WriteSize(t) ==
  CASE call[t].nested -> 1
    [] Words(t)       -> 2
    [] OTHER          -> Min({call[t].size, PageSize - (call[t].addr % PageSize)})

\* The array after the chip has done a command that it accepts: the block
\* that holds the address is erased, what runs over the end of a page is
\* programmed at its start.
Erased(addr, size) == [a \in Cell |-> IF a \div size = addr \div size THEN 1 ELSE cells[a]]

Programmed(addr, data) ==
  LET page == addr - (addr % PageSize)
      clears(a) == \E i \in DOMAIN data :
                     a = page + ((addr - page + i - 1) % PageSize) /\ data[i] = 0
  IN [a \in Cell |-> IF clears(a) THEN 0 ELSE cells[a]]

Data(t) == LET from == call[t].addr - Req(t).addr
           IN SubSeq(Req(t).data, from + 1, from + WriteSize(t))

\* The chip takes an erase or a program when it is idle and enabled, and in
\* AAI nothing but words.
Accepts(array, aai) ==
  chip' = IF ~chip.busy /\ chip.wel /\ (chip.aai => aai)
          THEN [chip EXCEPT !.busy = TRUE, !.array = array, !.aai = aai] ELSE chip

Command(t) ==
  /\ At(t, "command")
  /\ IF Erasing(t) THEN Accepts(Erased(call[t].addr, EraseSize(t)), FALSE)
                   ELSE Accepts(Programmed(call[t].addr, Data(t)), Words(t))
  /\ call' = [call EXCEPT ![t] = [@ EXCEPT !.at = "poll", !.retry = Retries]]
  /\ UNCHANGED <<cells, lock, settled, stray, answer, faults>>

\* The chip is done; the latch falls, except between the words of AAI.  Nobody
\* has the lock when it comes long after the timeout.
Finish ==
  /\ chip.busy
  /\ cells' = chip.array
  /\ chip' = [chip EXCEPT !.busy = FALSE, !.wel = chip.aai]
  /\ settled' = IF lock.by = Free THEN cells' ELSE settled
  /\ stray' = IF lock.by = Free THEN chip.aai ELSE stray
  /\ UNCHANGED <<lock, call, answer, faults>>
---------------------------------------------------------------------------
\* What is left after an erase or a write of n cells.
Advanced(t, n) == [call[t] EXCEPT !.addr = @ + n, !.size = @ - n]

\* The end of the loops of sfud_erase, page256_or_1_byte_write and aai_write.
AfterErase(t) ==
  LET e == EraseSize(t)
      n == e - (call[t].addr % e)
  IN IF call[t].size > n THEN [Advanced(t, n) EXCEPT !.at = "enable"]
                         ELSE [call[t] EXCEPT !.at = "off"]

AfterWrite(t) ==
  LET c == Advanced(t, WriteSize(t))
  IN CASE call[t].nested -> [call[t] EXCEPT !.at = "off"]
       [] Words(t)       -> [c EXCEPT !.at = IF c.size >= 2 THEN "command" ELSE "off"]
       [] OTHER          -> [c EXCEPT !.at = IF c.size > 0 THEN "enable" ELSE "off"]

\* wait_busy: the chip is done.
PollIdle(t) ==
  /\ At(t, "poll") /\ ~chip.busy
  /\ call' = [call EXCEPT ![t] =
                CASE Reading(t) -> [call[t] EXCEPT !.at = "data"]
                  [] Erasing(t) -> AfterErase(t)
                  [] OTHER      -> AfterWrite(t)]
  /\ UNCHANGED <<cells, chip, lock, settled, stray, answer, faults>>

\* SFUD_RETRY_PROCESS: another poll, or the end of the call, of which a read
\* disables nothing.
Retry(t) ==
  \/ /\ call[t].retry > 0
     /\ call' = [call EXCEPT ![t].retry = @ - 1]
  \/ /\ call[t].retry = 0
     /\ call' = [call EXCEPT ![t] = [@ EXCEPT
                   !.at = IF Reading(t) THEN "unlock" ELSE "off", !.result = "timeout"]]

PollBusy(t) ==
  /\ At(t, "poll") /\ chip.busy /\ Retry(t)
  /\ UNCHANGED <<cells, chip, lock, settled, stray, answer, faults>>

\* The read command; a chip that is busy or in AAI answers nothing of use.
ReadData(t) ==
  /\ At(t, "data")
  /\ call' = [call EXCEPT ![t] = [@ EXCEPT !.at = "unlock", !.result = "success",
                !.seen = IF chip.busy \/ chip.aai THEN <<>>
                         ELSE [i \in 1 .. call[t].size |-> cells[call[t].addr + i - 1]]]]
  /\ UNCHANGED <<cells, chip, lock, settled, stray, answer, faults>>

\* set_write_enabled(false), which also ends AAI.
Disable(t) ==
  /\ At(t, "off") /\ Goes(t, "offed")
  /\ chip' = IF chip.busy THEN chip ELSE [chip EXCEPT !.wel = FALSE, !.aai = FALSE]
  /\ UNCHANGED <<cells, lock, settled, stray, answer, faults>>

\* Only aai_write looks at the answer: it disables again when it is wrong,
\* and writes the last cell of an odd number when it is right.
AfterDisable(t, right) ==
  LET c == call[t]
      wrong == Words(t) /\ ~right /\ c.result = "success"
      odd == Words(t) /\ right /\ c.result = "success" /\ c.size = 1
  IN [c EXCEPT !.at = CASE wrong -> "off" [] odd -> "lock" [] OTHER -> "unlock",
               !.nested = @ \/ odd,
               !.result = IF wrong THEN "failed" ELSE @]

Disabled(t) ==
  /\ At(t, "offed")
  /\ call' = [call EXCEPT ![t] = AfterDisable(t, ~chip.wel)]
  /\ UNCHANGED <<cells, chip, lock, settled, stray, answer, faults>>

\* The inner call of aai_write returns: the words follow, or the end.
AfterNested(t) ==
  LET c == [call[t] EXCEPT !.addr = @ + 1, !.size = @ - 1, !.nested = FALSE]
      last == call[t].addr % 2 = 0
  IN CASE call[t].result # "success" -> [c EXCEPT !.at = "off"]
       [] last                      -> [c EXCEPT !.at = "unlock"]
       [] OTHER                     -> [c EXCEPT !.at = "enable"]

Unlock(t) ==
  /\ At(t, "unlock")
  /\ lock' = IF lock.depth = 1 THEN [by |-> Free, depth |-> 0] ELSE [lock EXCEPT !.depth = @ - 1]
  /\ IF call[t].nested THEN call' = [call EXCEPT ![t] = AfterNested(t)] /\ answer' = answer
                       ELSE Returns(t, call[t].result)
  /\ settled' = IF lock.depth = 1 THEN cells ELSE settled
  /\ stray' = IF lock.depth = 1
              THEN (chip.busy \/ chip.aai) /\ (stray \/ call[t].result = "timeout") ELSE stray
  /\ UNCHANGED <<cells, chip, faults>>
---------------------------------------------------------------------------
\* A transfer fails before it reaches the chip.  wait_busy polls again; the
\* failure of a disable is looked at by aai_write alone.
Fault(t) ==
  /\ faults < MaxFaults /\ faults' = faults + 1
  /\ \/ /\ At(t, "enable") \/ At(t, "enabled") \/ At(t, "command")
        /\ call' = [call EXCEPT ![t] = [@ EXCEPT !.at = "off", !.result = "failed"]]
     \/ At(t, "poll") /\ Retry(t)
     \/ /\ At(t, "data")
        /\ call' = [call EXCEPT ![t] = [@ EXCEPT !.at = "unlock", !.result = "failed"]]
     \/ /\ At(t, "off") \/ At(t, "offed")
        /\ call' = [call EXCEPT ![t] = AfterDisable(t, FALSE)]
  /\ UNCHANGED <<cells, chip, lock, settled, stray, answer>>

Step(t) ==
  \/ WriteErased(t) \/ CheckRequest(t) \/ Lock(t) \/ Enable(t) \/ Enabled(t)
  \/ Command(t) \/ PollIdle(t) \/ PollBusy(t) \/ ReadData(t)
  \/ Disable(t) \/ Disabled(t) \/ Unlock(t)

Next ==
  \/ \E t \in Thread :
       \/ \E r \in Request \cup {InCells(b) : b \in BlockCall} : Ask(t, r)
       \/ Step(t)
       \/ Fault(t)
  \/ Finish

Spec == Init /\ [][Next]_vars
---------------------------------------------------------------------------
\* When nobody has the lock, no transfer failed and the chip is not late, it is
\* idle, protected and out of AAI: no caller leaves it so that it ignores the
\* next command.
LeavesChipQuiet ==
  lock.by = Free /\ faults = 0 /\ ~stray => ~chip.busy /\ ~chip.wel /\ ~chip.aai

\* Each request takes effect at once, when it unlocks: in full when its caller
\* is told that it succeeded, within its cells when not.  Only a caller that
\* is told of a timeout leaves the chip at work, and the promise holds again
\* when the chip is done.
Store == INSTANCE FlashStore WITH
  Grain <- EraseGran,
  store <- settled,
  asked <- [t \in Thread |->
              IF At(t, "idle") THEN [op |-> "none", addr |-> 0, size |-> 0, data |-> <<>>] ELSE
              [op |-> Req(t).op, addr |-> Req(t).addr, size |-> Req(t).size, data |-> Req(t).data]]

ImplementsStore == Store!Init /\ [][Store!Next]_(Store!vars)
===========================================================================
