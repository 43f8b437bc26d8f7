------------------------------- MODULE Clock -------------------------------
(***************************************************************************)
(* The clock: the counter of the RTC (bsp/driver/drv_rtc.c), which counts  *)
(* TIME_TO_SECOND_FACTOR times a second and is read in two halves, under   *)
(* time, stime, set_date and set_time (components/libc/time.c, rtc/rtc.c). *)
(* Nothing takes a lock.  The conversions to a date are in Calendar: a     *)
(* time is a day and a second of it here.                                  *)
(***************************************************************************)
EXTENDS Naturals

CONSTANTS
  Thread,
  Half,        \* what the low half of the counter counts to
  TIME_TO_SECOND_FACTOR,
  SPD,         \* seconds of a day
  Time,        \* seconds that stime sets
  Day,         \* days that set_date sets
  Carry,       \* the low half wraps while somebody has read it alone
  Overlap      \* two threads set the counter at once

ClockAssumption ==
  /\ {Half, TIME_TO_SECOND_FACTOR, SPD} \subseteq Nat \ {0}
  /\ Time \cup Day \subseteq Nat /\ {Carry, Overlap} \subseteq BOOLEAN

VARIABLES
  counter,  \* of the RTC
  latch,    \* its configuration mode, and the halves written in it
  call,     \* what each thread is doing
  told      \* the time of the last successful call that set it

vars == <<counter, latch, call, told>>

Limit == Half * Half

\* A call: what it will set (a second, a day, a second of the day), the low
\* half it has read, what it made of it, and the time when it was called, or
\* Limit when it was set since.
Idle == [at |-> "idle", sets |-> "nothing", arg |-> 0, low |-> 0, now |-> 0, from |-> 0]

NoLatch == [mode |-> FALSE, high |-> 0, low |-> 0]

Init ==
  /\ counter = 0   \* rtc_init
  /\ latch = NoLatch
  /\ call = [t \in Thread |-> Idle]
  /\ told = 0

At(t, pc) == call[t].at = pc
Secs(c)   == c \div TIME_TO_SECOND_FACTOR
---------------------------------------------------------------------------
\* time, and the two that read the time first.
Begin(t, sets, arg) ==
  /\ At(t, "idle")
  /\ call' = [call EXCEPT ![t] = IF sets = "time" THEN [Idle EXCEPT !.at = "set", !.now = arg]
                ELSE [Idle EXCEPT !.at = "low", !.sets = sets, !.arg = arg, !.from = Secs(counter)]]
  /\ UNCHANGED <<counter, latch, told>>

time(t)        == Begin(t, "nothing", 0)
stime(t, s)    == Begin(t, "time", s)
set_date(t, d) == Begin(t, "date", d)
set_time(t, s) == Begin(t, "second", s)

\* rtc_counter_get: the low half, then the high half.
GetLow(t) ==
  /\ At(t, "low")
  /\ call' = [call EXCEPT ![t].at = "high", ![t].low = counter % Half]
  /\ UNCHANGED <<counter, latch, told>>

\* Mutant of GetHigh: the high half is not shifted.
GetHigh_NotShifted(t) ==
  /\ At(t, "high")
  /\ call' = [call EXCEPT ![t].at = "read", ![t].low = 0,
                ![t].now = Secs((counter \div Half) + call[t].low)]
  /\ UNCHANGED <<counter, latch, told>>

GetHigh(t) ==
  /\ At(t, "high")
  /\ call' = [call EXCEPT ![t].at = "read", ![t].low = 0,
                ![t].now = Secs((counter \div Half) * Half + call[t].low)]
  /\ UNCHANGED <<counter, latch, told>>

\* One part of the time that was read is replaced.
Replace(t) ==
  LET c == call[t]
  IN /\ At(t, "read")
     /\ call' = [call EXCEPT ![t] =
          CASE c.sets = "nothing" -> Idle
            [] c.sets = "date"    -> [Idle EXCEPT !.at = "set", !.now = c.arg * SPD + (c.now % SPD)]
            [] c.sets = "second"  -> [Idle EXCEPT !.at = "set",
                                        !.now = (c.now \div SPD) * SPD + c.arg]]
     /\ UNCHANGED <<counter, latch, told>>

\* rtc_set_secs: the product has as many bits as the counter.
Product(t) == (call[t].now * TIME_TO_SECOND_FACTOR) % Limit

\* rtc_counter_set: into configuration mode, and the high half.
SetHigh(t) ==
  /\ At(t, "set") /\ (Overlap \/ ~latch.mode)
  /\ latch' = [latch EXCEPT !.mode = TRUE, !.high = Product(t) \div Half]
  /\ call' = [call EXCEPT ![t].at = "setlow"]
  /\ UNCHANGED <<counter, told>>

\* The low half; out of configuration mode the hardware ignores it.
SetLow(t) ==
  /\ At(t, "setlow")
  /\ latch' = IF latch.mode THEN [latch EXCEPT !.low = Product(t) % Half] ELSE latch
  /\ call' = [call EXCEPT ![t].at = "commit"]
  /\ UNCHANGED <<counter, told>>

\* The counter takes both halves when configuration mode is left.
Commit(t) ==
  /\ At(t, "commit")
  /\ counter' = IF latch.mode THEN latch.high * Half + latch.low ELSE counter
  /\ latch' = NoLatch
  /\ told' = call[t].now
  /\ call' = [u \in Thread |->
       CASE u = t -> Idle
         [] call[u].at \in {"low", "high", "read"} -> [call[u] EXCEPT !.from = Limit]
         [] OTHER -> call[u]]

\* The counter counts.  It starts again after Limit, which is out of the model.
Tick ==
  /\ counter + 1 < Limit
  /\ Carry \/ counter % Half # Half - 1 \/ \A t \in Thread : ~At(t, "high")
  /\ counter' = counter + 1
  /\ UNCHANGED <<latch, call, told>>

Next ==
  \/ \E t \in Thread :
       \/ time(t)
       \/ \E s \in Time : stime(t, s)
       \/ \E d \in Day : set_date(t, d)
       \/ \E s \in 0 .. SPD - 1 : set_time(t, s)
       \/ GetLow(t) \/ GetHigh(t) \/ Replace(t)
       \/ SetHigh(t) \/ SetLow(t) \/ Commit(t)
  \/ Tick

Spec == Init /\ [][Next]_vars
---------------------------------------------------------------------------
\* The time that was set is the time from then on.
SetHolds == told <= Secs(counter)

\* As long as nobody sets it, the time that is read is between the time when
\* the call began and the time now.
ReadsTrue ==
  \A t \in Thread : At(t, "read") /\ call[t].from < Limit =>
    call[t].from <= call[t].now /\ call[t].now <= Secs(counter)
===========================================================================
