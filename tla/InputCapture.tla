--------------------------- MODULE InputCapture ---------------------------
(***************************************************************************)
(* An input capture device (components/misc/rt_inputcapture.c) behind the  *)
(* device layer (rtthread/device.c): threads open and close it, and while  *)
(* it captures an interrupt puts data into its ring buffer.  The device is *)
(* registered as a stand alone one: it can be open once.                   *)
(*                                                                         *)
(* Nothing is locked: threads interleave between the steps of open and of  *)
(* close when Overlap holds.  The operations of the driver (inputcapture-> *)
(* ops) are external: they start and stop the capture, or fail.            *)
(***************************************************************************)
EXTENDS Naturals, FiniteSets

CONSTANTS
  Thread,
  RB_SIZE,       \* RT_INPUT_CAPTURE_RB_SIZE, the capacity of the ring buffer in items
  NoRing,
  Overlap,       \* whether a thread may run while another is opening or closing
  StopFails,     \* whether ops->close may fail
  AnyPrescale    \* whether threads set the prescaler of a device they have not opened

CaptureAssumption ==
  /\ IsFiniteSet(Thread) /\ RB_SIZE \in Nat /\ NoRing \notin Nat
  /\ Overlap \in BOOLEAN /\ StopFails \in BOOLEAN /\ AnyPrescale \in BOOLEAN

VARIABLES
  activated,     \* RT_DEVICE_FLAG_ACTIVATED
  opened,        \* RT_DEVICE_OFLAG_OPEN
  ref_count,
  ringbuff,      \* how many items the ring buffer holds, if there is one
  capturing,     \* the timer captures, and interrupts
  at,            \* what each thread is doing
  held           \* history: how often each thread has opened and not closed

vars == <<activated, opened, ref_count, ringbuff, capturing, at, held>>

TypeOK ==
  /\ activated \in BOOLEAN /\ opened \in BOOLEAN
  /\ ref_count \in 0 .. Cardinality(Thread)
  /\ ringbuff \in 0 .. RB_SIZE \cup {NoRing}
  /\ capturing \in BOOLEAN
  /\ at \in [Thread -> {"idle", "init", "check", "ring", "start", "count",
                        "stop", "drop", "close"}]
  /\ held \in [Thread -> 0 .. 1]

Init ==
  /\ activated = FALSE /\ opened = FALSE /\ ref_count = 0
  /\ ringbuff = NoRing /\ capturing = FALSE
  /\ at = [t \in Thread |-> "idle"]
  /\ held = [t \in Thread |-> 0]

---------------------------------------------------------------------------
Goes(t, step) == at' = [at EXCEPT ![t] = step]

\* t may begin a call.
Free(t) == at[t] = "idle" /\ (Overlap \/ \A u \in Thread : at[u] = "idle")

\* rt_device_open

Opens(t) ==
  /\ Free(t)
  /\ Goes(t, IF activated THEN "check" ELSE "init")
  /\ UNCHANGED <<activated, opened, ref_count, ringbuff, capturing, held>>

Inits(t) ==
  /\ at[t] = "init"
  /\ \/ Goes(t, "check") /\ activated' = TRUE
     \/ Goes(t, "idle") /\ UNCHANGED activated
  /\ UNCHANGED <<opened, ref_count, ringbuff, capturing, held>>

FindsBusy(t) ==
  /\ at[t] = "check" /\ opened
  /\ Goes(t, "idle")
  /\ UNCHANGED <<activated, opened, ref_count, ringbuff, capturing, held>>

FindsClosed(t) ==
  /\ at[t] = "check" /\ ~opened
  /\ Goes(t, "ring")
  /\ UNCHANGED <<activated, opened, ref_count, ringbuff, capturing, held>>

\* rt_inputcapture_open; a ring left by an open that failed is used again.
MakesRing(t) ==
  /\ at[t] = "ring"
  /\ ringbuff' = IF ringbuff = NoRing THEN 0 ELSE ringbuff
  /\ Goes(t, "start")
  /\ UNCHANGED <<activated, opened, ref_count, capturing, held>>

Starts(t) ==
  /\ at[t] = "start"
  /\ \/ Goes(t, "count") /\ capturing' = TRUE
     \/ Goes(t, "idle") /\ UNCHANGED capturing
  /\ UNCHANGED <<activated, opened, ref_count, ringbuff, held>>

Counts(t) ==
  /\ at[t] = "count"
  /\ opened' = TRUE
  /\ ref_count' = ref_count + 1
  /\ held' = [held EXCEPT ![t] = 1]
  /\ Goes(t, "idle")
  /\ UNCHANGED <<activated, ringbuff, capturing>>

\* rt_device_close; only the last user closes the driver.
Closes(t) ==
  /\ Free(t) /\ held[t] > 0
  /\ held' = [held EXCEPT ![t] = 0]
  /\ ref_count' = IF ref_count = 0 THEN 0 ELSE ref_count - 1
  /\ Goes(t, IF ref_count = 1 THEN "stop" ELSE "idle")
  /\ UNCHANGED <<activated, opened, ringbuff, capturing>>

\* rt_inputcapture_close; when the driver fails, nothing more happens.
Stops(t) ==
  /\ at[t] = "stop"
  /\ \/ Goes(t, "drop") /\ capturing' = FALSE
     \/ StopFails /\ Goes(t, "idle") /\ UNCHANGED capturing
  /\ UNCHANGED <<activated, opened, ref_count, ringbuff, held>>

Drops(t) ==
  /\ at[t] = "drop"
  /\ ringbuff' = NoRing
  /\ Goes(t, "close")
  /\ UNCHANGED <<activated, opened, ref_count, capturing, held>>

Closed(t) ==
  /\ at[t] = "close"
  /\ opened' = FALSE
  /\ Goes(t, "idle")
  /\ UNCHANGED <<activated, ref_count, ringbuff, capturing, held>>

\* rt_device_control, INPUTCAPTURE_CMD_SET_PRESCALER: the capture is stopped and
\* started, whatever state the device is in.
SetsPrescaler(t) ==
  /\ Free(t) /\ (held[t] > 0 \/ AnyPrescale)
  /\ capturing' = TRUE
  /\ UNCHANGED <<activated, opened, ref_count, ringbuff, at, held>>

\* ... and INPUTCAPTURE_CMD_CLEAR_BUF
ClearsBuf(t) ==
  /\ Free(t) /\ ringbuff # NoRing
  /\ ringbuff' = 0
  /\ UNCHANGED <<activated, opened, ref_count, capturing, at, held>>

\* rt_device_read; a device without users is not read.
Reads(t) ==
  /\ Free(t) /\ held[t] > 0 /\ ref_count > 0 /\ ringbuff # NoRing
  /\ ringbuff' \in 0 .. ringbuff
  /\ UNCHANGED <<activated, opened, ref_count, capturing, at, held>>

\* rt_hw_inputcapture_isr; what does not fit is dropped.
Captures ==
  /\ capturing /\ ringbuff # NoRing
  /\ ringbuff' = IF ringbuff < RB_SIZE THEN ringbuff + 1 ELSE ringbuff
  /\ UNCHANGED <<activated, opened, ref_count, capturing, at, held>>

---------------------------------------------------------------------------
Next ==
  \/ Captures
  \/ \E t \in Thread :
       \/ Opens(t) \/ Inits(t) \/ FindsBusy(t) \/ FindsClosed(t) \/ MakesRing(t)
       \/ Starts(t) \/ Counts(t) \/ Closes(t) \/ Stops(t) \/ Drops(t) \/ Closed(t)
       \/ SetsPrescaler(t) \/ ClearsBuf(t) \/ Reads(t)

Spec == Init /\ [][Next]_vars
---------------------------------------------------------------------------
\* Properties

Resting == \A t \in Thread : at[t] = "idle"
Users == {t \in Thread : held[t] > 0}

\* ringbuffer.c:72, RT_ASSERT(rb != RT_NULL): rt_hw_inputcapture_isr finds a
\* buffer whenever the capture runs, in every step of open and close.
RingThere == capturing => ringbuff # NoRing

\* device.c:229, "device is a stand alone device and opened": no two threads have
\* the device open.
OneUser == Cardinality(Users) <= 1

\* What marks the device as open, what counts its users and who believes to use
\* it agree whenever no call is under way: a closed device can be opened again.
MarksAgree == Resting => /\ ref_count = Cardinality(Users)
                         /\ opened <=> ref_count > 0

\* What a user reads was captured since the device was opened: nothing of an earlier
\* user is left when the capture starts.
StartsEmpty == \A t \in Thread : at[t] = "start" => ringbuff = 0
===========================================================================
