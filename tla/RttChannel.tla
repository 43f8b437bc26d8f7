----------------------------- MODULE RttChannel -----------------------------
(***************************************************************************)
(* The debug channel (components/rtt/rtt.c): a ring buffer of bytes to the *)
(* host and one from it, which the host reads and writes through the debug *)
(* port at any moment, and the callers in this program: rt_kprintf, which  *)
(* formats into one static buffer, rt_kputs, _write and the shell.         *)
(* Nothing takes a lock.  Output that does not fit is dropped as a whole.  *)
(***************************************************************************)
EXTENDS Naturals, Sequences, FiniteSetsExt

CONSTANTS
  Thread,   \* threads that print
  Byte,
  Output,   \* what they print: sequences of bytes
  Input,    \* what the host sends
  Size,     \* SizeOfBuffer
  BufferSize,  \* how much rtt_read is asked for
  Overlap   \* threads print while others do

RttAssumption ==
  /\ Output \cup Input \subseteq Seq(Byte) \ {<<>>}
  /\ Size \in Nat \ {0, 1} /\ BufferSize \in Nat \ {0}
  /\ Overlap \in BOOLEAN

VARIABLES
  up,          \* the ring to the host
  down,        \* the ring from the host
  rt_log_buf,  \* what rt_kprintf formatted last
  print,       \* what each thread is doing
  reader,      \* what the shell loaded before it copies
  host, input  \* what the host and the shell read last

vars == <<up, down, rt_log_buf, print, reader, host, input>>

Ring == [pBuffer |-> [i \in 0 .. Size - 1 |-> 0], RdOff |-> 0, WrOff |-> 0]
Idle == [at |-> "idle", data |-> <<>>, log |-> FALSE, n |-> 0, WrOff |-> 0]
NoLoad == [at |-> "idle", RdOff |-> 0, WrOff |-> 0]

Init ==
  /\ up = Ring /\ down = Ring
  /\ rt_log_buf = <<>>
  /\ print = [t \in Thread |-> Idle]
  /\ reader = NoLoad
  /\ host = <<>> /\ input = <<>>

\* The bytes between the offsets of a ring.
Used(r)   == (r.WrOff + Size - r.RdOff) % Size
Content(r) == [i \in 1 .. Used(r) |-> r.pBuffer[(r.RdOff + i - 1) % Size]]
---------------------------------------------------------------------------
At(t, pc) == print[t].at = pc

Starts(t, data, log) ==
  /\ At(t, "idle") /\ (Overlap \/ \A u \in Thread : At(u, "idle"))
  /\ print' = [print EXCEPT ![t] = [Idle EXCEPT !.at = "avail", !.data = data, !.log = log]]
  /\ UNCHANGED <<up, down, reader, host, input>>

kprintf(t, s) == Starts(t, s, TRUE) /\ rt_log_buf' = s
kputs(t, s)   == Starts(t, s, FALSE) /\ UNCHANGED rt_log_buf

\* What the pointer of the caller points to.
Data(t) == IF print[t].log THEN rt_log_buf ELSE print[t].data

\* Mutant of Avail: the last slot is used, and a full ring looks empty.
Avail_Full(r) == IF r.RdOff <= r.WrOff THEN Size - r.WrOff + r.RdOff ELSE r.RdOff - r.WrOff

\* _GetAvailWriteSpace.
Avail(r) == IF r.RdOff <= r.WrOff THEN Size - 1 - r.WrOff + r.RdOff ELSE r.RdOff - r.WrOff - 1

WriteNoLock(t) ==
  /\ At(t, "avail")
  /\ print' = [print EXCEPT ![t] =
                 IF Avail(up) < Len(Data(t)) THEN Idle
                 ELSE [@ EXCEPT !.at = "copy", !.n = Len(Data(t))]]
  /\ UNCHANGED <<up, down, rt_log_buf, reader, host, input>>

\* _WriteNoCheck: to the end of the buffer, then from its start.
Sent(t, i) == IF i <= Len(Data(t)) THEN Data(t)[i] ELSE 0

Copy(t) ==
  LET n   == print[t].n
      Rem == Size - up.WrOff
      first == IF Rem > n THEN n ELSE Rem
  IN /\ At(t, "copy")
     /\ up' = [up EXCEPT !.pBuffer = [i \in DOMAIN @ |->
                 IF i \in up.WrOff .. up.WrOff + first - 1 THEN Sent(t, i - up.WrOff + 1)
                 ELSE IF i < n - first THEN Sent(t, first + i + 1) ELSE @[i]]]
     /\ print' = [print EXCEPT ![t] = [@ EXCEPT !.at = "commit",
                    !.WrOff = IF Rem > n THEN up.WrOff + n ELSE n - Rem]]
     /\ UNCHANGED <<down, rt_log_buf, reader, host, input>>

Commit(t) ==
  /\ At(t, "commit")
  /\ up' = [up EXCEPT !.WrOff = print[t].WrOff]
  /\ print' = [print EXCEPT ![t] = Idle]
  /\ UNCHANGED <<down, rt_log_buf, reader, host, input>>
---------------------------------------------------------------------------
\* SEGGER_RTT_ReadNoLock: what lies before the end of the buffer, then what
\* lies at its start.
ReadLoads ==
  /\ reader.at = "idle"
  /\ reader' = [at |-> "copy", RdOff |-> down.RdOff, WrOff |-> down.WrOff]
  /\ UNCHANGED <<up, down, rt_log_buf, print, host, input>>

ReadCopies ==
  LET r      == reader
      first  == IF r.RdOff > r.WrOff THEN Min({Size - r.RdOff, BufferSize}) ELSE 0
      again  == IF r.RdOff + first = Size THEN 0 ELSE r.RdOff + first
      second == IF again <= r.WrOff THEN Min({r.WrOff - again, BufferSize - first})
                                    ELSE BufferSize - first   \* the difference is unsigned
  IN /\ reader.at = "copy" /\ reader' = NoLoad
     /\ input' = IF first + second = 0 THEN input
                 ELSE [i \in 1 .. first + second |->
                         down.pBuffer[IF i <= first THEN r.RdOff + i - 1 ELSE again + i - first - 1]]
     /\ down' = IF first + second = 0 THEN down ELSE [down EXCEPT !.RdOff = again + second]
     /\ UNCHANGED <<up, rt_log_buf, print, host>>
---------------------------------------------------------------------------
\* The host takes what is there, and sends what there is room for.
HostReads ==
  \E n \in 1 .. Used(up) :
    /\ host' = SubSeq(Content(up), 1, n)
    /\ up' = [up EXCEPT !.RdOff = (@ + n) % Size]
    /\ UNCHANGED <<down, rt_log_buf, print, reader, input>>

HostWrites(s) ==
  /\ Len(s) <= Size - 1 - Used(down)
  /\ down' = [down EXCEPT !.WrOff = (@ + Len(s)) % Size,
                !.pBuffer = [i \in DOMAIN @ |->
                   LET k == ((i + Size - down.WrOff) % Size) + 1
                   IN IF k <= Len(s) THEN s[k] ELSE @[i]]]
  /\ UNCHANGED <<up, rt_log_buf, print, reader, host, input>>

Next ==
  \/ \E t \in Thread :
       \/ \E s \in Output : kprintf(t, s) \/ kputs(t, s)
       \/ WriteNoLock(t) \/ Copy(t) \/ Commit(t)
  \/ ReadLoads \/ ReadCopies
  \/ HostReads
  \/ \E s \in Input : HostWrites(s)

Spec == Init /\ [][Next]_vars
---------------------------------------------------------------------------
\* Each ring is a bounded queue, which has a slot less than its buffer.
ToHost   == INSTANCE Fifo WITH Size <- Size - 1, queue <- Content(up), taken <- host
FromHost == INSTANCE Fifo WITH Size <- Size - 1, queue <- Content(down), taken <- input

\* The host reads whole outputs in the order they were printed, and the shell
\* what the host sent.
Delivers  == ToHost!Get \/ \E s \in Output : ToHost!Put(s)
Receives  == FromHost!Get \/ \E s \in Input : FromHost!Put(s)
HostSide  == <<Content(up), host>>
ShellSide == <<Content(down), input>>
=============================================================================
