---------------------------- MODULE FlashStore ----------------------------
(***************************************************************************)
(* What the serial flash driver promises: each request takes effect at     *)
(* once and in full when its caller is told that it succeeded, and only    *)
(* within the cells it may touch when it is told that it failed.  After a  *)
(* timeout the chip may still be at work: until it is done, what a caller  *)
(* is told means nothing.  A cell is 1 when it is erased; programming only *)
(* takes cells to 0.                                                       *)
(***************************************************************************)
EXTENDS Naturals

CONSTANTS Thread, Capacity, Grain   \* an erase covers whole grains

VARIABLES
  store,   \* the cells
  asked,   \* what each thread waits for
  answer,  \* the answer that came since the last request, if one did
  stray    \* whether the chip may still be at work after a timeout

vars == <<store, asked, answer, stray>>

NoRequest == [op |-> "none", addr |-> 0, size |-> 0, data |-> <<>>]
NoAnswer  == [status |-> "none", seen |-> <<>>]
Failure   == {[status |-> s, seen |-> <<>>] : s \in {"failed", "timeout"}}

Cell == 0 .. Capacity - 1

InRange(r, a) == r.addr <= a /\ a < r.addr + r.size

\* The cells of every grain that the range of a request touches.
Covered(r, a) == r.size > 0 /\ \E b \in Cell : InRange(r, b) /\ b \div Grain = a \div Grain

\* A cell after a request.
After(r, s, a) ==
  CASE r.op = "erase" /\ Covered(r, a)  -> 1
    [] r.op = "write" /\ InRange(r, a)  -> IF r.data[a - r.addr + 1] = 0 THEN 0 ELSE s[a]
    [] OTHER                            -> s[a]

Effect(r, s) == [a \in Cell |-> After(r, s, a)]

\* What a read is told of the cells.
Seen(r, s) == IF r.op = "read" THEN [i \in 1 .. r.size |-> s[r.addr + i - 1]] ELSE <<>>

\* A request starts.
Ask(t) ==
  /\ asked[t] = NoRequest /\ asked' = [asked EXCEPT ![t] = asked'[t]]
  /\ answer' = NoAnswer
  /\ UNCHANGED <<store, stray>>

Ends(t) == asked[t] # NoRequest /\ asked' = [asked EXCEPT ![t] = NoRequest]

Succeed(t) ==
  LET r == asked[t] IN
  /\ Ends(t) /\ ~stray /\ ~stray'
  /\ r.addr + r.size <= Capacity
  /\ store' = Effect(r, store)
  /\ answer' = [status |-> "success", seen |-> Seen(r, store)]

Fail(t) ==
  /\ Ends(t) /\ ~stray /\ (stray' => answer'.status = "timeout")
  /\ \A a \in Cell : store'[a] \in {store[a], After(asked[t], store, a)}
  /\ answer' \in Failure

\* The chip goes on after a timeout, and a caller that comes meanwhile is told
\* anything.
Late ==
  /\ stray
  /\ \/ asked' = asked /\ answer' = answer
     \/ \E t \in Thread : Ends(t)

Init == /\ store \in [Cell -> {0, 1}]
        /\ asked = [t \in Thread |-> NoRequest]
        /\ answer = NoAnswer
        /\ stray = FALSE

Next == Late \/ \E t \in Thread : Ask(t) \/ Succeed(t) \/ Fail(t)
===========================================================================
