---------------------------- MODULE MCServices ----------------------------
(***************************************************************************)
(* What runs above the kernel, for TLC: the event loop, the SPI bus, the   *)
(* serial flash, the shell, the debug channel and the clock.  Their models *)
(* share no state, so each is an instance of its own; the flash writes     *)
(* pages or words, the shell gets keys of several kinds, the channel is    *)
(* used in both directions.  The nodes of the event loop, the devices of   *)
(* the bus and the threads are interchangeable.                            *)
(***************************************************************************)
EXTENDS Integers, TLC

CONSTANTS
  Instance,
  Node, NoNode, NoThread, Loop, Handler,
  c1, c2, e1, e2, e3,       \* clients and events of the event loop
  Thread, Attached          \* threads and SPI devices

VARIABLES
  instance,
  head_node, next, item, free, mutex, event_queue, at,   \* of SystemEvent
  config, spi, owner, cs, dma,                           \* of SpiBus
  cells, chip, settled, stray, answer, faults,           \* of SpiFlash
  lock,                                                  \* of both
  line, line_position, line_curpos, stat, ran,           \* of Shell
  up, down, rt_log_buf, print, reader, host, input,      \* of RttChannel
  day, date, left,                                       \* of Calendar
  counter, latch, told,                                  \* of Clock
  call                                                   \* of it and the first two

Events == INSTANCE SystemEvent WITH
  Client <- {c1, c2}, Event <- {e1, e2, e3}, QueueSize <- 1,
  RegistersOf <- c1 :> {e1, e3} @@ c2 :> {e2}, Repeats <- FALSE
Twice == INSTANCE SystemEvent WITH
  Client <- {c1, c2}, Event <- {e1, e2}, QueueSize <- 2,
  RegistersOf <- c1 :> {e1} @@ c2 :> {e1}, Repeats <- FALSE

Bus == INSTANCE SpiBus WITH
  Mode <- {0, 1}, Width <- {0, 8}, Length <- {2}, CountLimit <- 3,
  Prompt <- TRUE, Free <- NoThread

\* Requests within a block and across pages and blocks, of odd and even cells,
\* empty ones, and ones that go beyond the end.
Asks(op, addr, size, data) ==
  [op |-> op, addr |-> addr, size |-> size, data |-> data, then |-> FALSE]
Blocks(op, pos, n, data) == [op |-> op, pos |-> pos, n |-> n, data |-> data]

Pages == INSTANCE SpiFlash WITH
  Request <- {Asks("write", 3, 5, <<1, 0, 1, 0, 1>>), Asks("erase", 3, 4, <<>>),
              Asks("erase", 0, 0, <<>>), Asks("read", 7, 2, <<>>)},
  BlockCall <- {Blocks("write", 0, 4, <<0, 0, 0, 0>>), Blocks("erase", 1, 3, <<>>),
                Blocks("erase", 2, 2, <<>>), Blocks("read", 1, 2, <<>>)},
  Capacity <- 8, PageSize <- 4, WriteMode <- "page", EraseType <- <<4, 0, 2, 0>>,
  Sfdp <- TRUE, Retries <- 1, MaxFaults <- 1, Free <- NoThread

Words == INSTANCE SpiFlash WITH
  Request <- {Asks("write", 1, 4, <<1, 0, 1, 0>>), Asks("write", 2, 3, <<0, 0, 0>>),
              Asks("write", 3, 1, <<0>>), Asks("erase", 0, 8, <<>>),
              Asks("read", 0, 3, <<>>)},
  BlockCall <- {},
  Capacity <- 8, PageSize <- 4, WriteMode <- "aai", EraseType <- <<4, 0, 2, 0>>,
  Sfdp <- FALSE, Retries <- 1, MaxFaults <- 1, Free <- NoThread

\* Keys that quote and escape; keys that complete and fill a short line, which
\* is discarded.
Keys == INSTANCE Shell WITH
  Char <- {"a", " ", "\"", "\\"}, Name <- {<<"a">>},
  FINSH_CMD_SIZE <- 7, FINSH_ARG_MAX <- 2, Longest <- 5, TabWhenStale <- FALSE

Names == {<<"a", "C">>, <<"a", "C", "a">>, <<"C">>}
Tabs == INSTANCE Shell WITH
  Char <- {"a", "C", " ", "\""}, Name <- Names,
  FINSH_CMD_SIZE <- 4, FINSH_ARG_MAX <- 2, Longest <- 4, TabWhenStale <- FALSE
Stale == INSTANCE Shell WITH
  Char <- {"a", "C", " ", "\""}, Name <- Names,
  FINSH_CMD_SIZE <- 4, FINSH_ARG_MAX <- 2, Longest <- 5, TabWhenStale <- TRUE

Prints == INSTANCE RttChannel WITH
  Byte <- {1, 2}, Output <- {<<1>>, <<2, 1>>, <<1, 2, 2>>, <<1, 2, 1, 2>>},
  Input <- {}, Size <- 4, BufferSize <- 2, Overlap <- FALSE
Types == INSTANCE RttChannel WITH
  Byte <- {1, 2}, Output <- {}, Input <- {<<1>>, <<2>>, <<1, 2>>},
  Size <- 4, BufferSize <- 2, Overlap <- FALSE

\* From 1970 for four years, over the end of 1999 and of 2000, and over 2100,
\* which is not a leap year, and from the end of it.
January(year, wday) ==
  [year |-> year - 1900, mon |-> 0, mday |-> 1, yday |-> 0, wday |-> wday]
Dates == INSTANCE Calendar WITH
  Anchor <- {[day |-> 0, date |-> January(1970, 4)],
             [day |-> 10592, date |-> January(1999, 5)],
             [day |-> 46387, date |-> January(2097, 2)],
             [day |-> 47846, date |-> [year |-> 200, mon |-> 11, mday |-> 31,
                                       yday |-> 364, wday |-> 5]]},
  Span <- 1600, Second <- {0, 60, 86399},
  Mday <- (0 .. 31) \cup {59, 60, 90, 334, 366, 800}, MonthCarry <- FALSE

Clocks == INSTANCE Clock WITH
  Half <- 4, TIME_TO_SECOND_FACTOR <- 2, SPD <- 2, Time <- {3}, Day <- {1},
  Carry <- FALSE, Overlap <- FALSE

ASSUME
  /\ Events!SystemEventAssumption /\ Twice!SystemEventAssumption
  /\ Bus!SpiAssumption
  /\ Pages!FlashAssumption /\ Words!FlashAssumption
  /\ Keys!ShellAssumption /\ Tabs!ShellAssumption
  /\ Prints!RttAssumption /\ Types!RttAssumption
  /\ Clocks!ClockAssumption

eventVars   == <<head_node, next, item, free, mutex, event_queue, at>>
busVars     == <<config, spi, owner, cs, dma>>
flashVars   == <<cells, chip, settled, stray, answer, faults>>
shellVars   == <<line, line_position, line_curpos, stat, ran>>
channelVars == <<up, down, rt_log_buf, print, reader, host, input>>
dateVars    == <<day, date, left>>
clockVars   == <<counter, latch, told>>
vars == <<instance, eventVars, busVars, flashVars, lock, shellVars, channelVars,
          dateVars, clockVars, call>>

\* The services at rest.
NoEvents  == /\ head_node = 0 /\ next = 0 /\ item = 0 /\ free = 0 /\ mutex = 0
             /\ event_queue = 0 /\ at = 0
NoBus     == config = 0 /\ spi = 0 /\ owner = 0 /\ cs = 0 /\ dma = 0
NoFlash   == /\ cells = 0 /\ chip = 0 /\ settled = 0 /\ stray = 0 /\ answer = 0
             /\ faults = 0
NoShell   == line = 0 /\ line_position = 0 /\ line_curpos = 0 /\ stat = 0 /\ ran = 0
NoChannel == /\ up = 0 /\ down = 0 /\ rt_log_buf = 0 /\ print = 0 /\ reader = 0
             /\ host = 0 /\ input = 0
NoDate    == day = 0 /\ date = 0 /\ left = 0
NoClock   == counter = 0 /\ latch = 0 /\ told = 0

Init ==
  /\ instance \in Instance
  /\ CASE instance = "events" -> Events!Init
       [] instance = "twice"  -> Twice!Init
       [] instance = "bus"    -> Bus!Init
       [] instance = "pages"  -> Pages!Init
       [] instance = "words"  -> Words!Init
       [] instance = "keys"   -> Keys!Init
       [] instance = "tabs"   -> Tabs!Init
       [] instance = "stale"  -> Stale!Init
       [] instance = "prints" -> Prints!Init
       [] instance = "types"  -> Types!Init
       [] instance = "dates"  -> Dates!Init
       [] instance = "clock"  -> Clocks!Init
  /\ instance \notin {"events", "twice"} => NoEvents
  /\ instance # "bus" => NoBus
  /\ instance \notin {"pages", "words"} => NoFlash
  /\ instance \notin {"bus", "pages", "words"} => lock = 0
  /\ instance \notin {"keys", "tabs", "stale"} => NoShell
  /\ instance \notin {"prints", "types"} => NoChannel
  /\ instance # "dates" => NoDate
  /\ instance # "clock" => NoClock
  /\ instance \notin {"bus", "pages", "words", "clock"} => call = 0

Next ==
  \/ /\ \/ instance = "events" /\ Events!Next
        \/ instance = "twice" /\ Twice!Next
     /\ UNCHANGED <<instance, busVars, flashVars, lock, shellVars, channelVars,
                    dateVars, clockVars, call>>
  \/ /\ instance = "bus" /\ Bus!Next
     /\ UNCHANGED <<instance, eventVars, flashVars, shellVars, channelVars,
                    dateVars, clockVars>>
  \/ /\ \/ instance = "pages" /\ Pages!Next
        \/ instance = "words" /\ Words!Next
     /\ UNCHANGED <<instance, eventVars, busVars, shellVars, channelVars,
                    dateVars, clockVars>>
  \/ /\ \/ instance = "keys" /\ Keys!Next
        \/ instance = "tabs" /\ Tabs!Next
        \/ instance = "stale" /\ Stale!Next
     /\ UNCHANGED <<instance, eventVars, busVars, flashVars, lock, channelVars,
                    dateVars, clockVars, call>>
  \/ /\ \/ instance = "prints" /\ Prints!Next
        \/ instance = "types" /\ Types!Next
     /\ UNCHANGED <<instance, eventVars, busVars, flashVars, lock, shellVars,
                    dateVars, clockVars, call>>
  \/ /\ instance = "dates" /\ Dates!Next
     /\ UNCHANGED <<instance, eventVars, busVars, flashVars, lock, shellVars,
                    channelVars, clockVars, call>>
  \/ /\ instance = "clock" /\ Clocks!Next
     /\ UNCHANGED <<instance, eventVars, busVars, flashVars, lock, shellVars,
                    channelVars, dateVars>>

Spec == Init /\ [][Next]_vars

Symmetry == Permutations(Node) \cup Permutations(Attached) \cup Permutations(Thread)
---------------------------------------------------------------------------
\* The properties of each service.

\* No thread holds a pointer to a handler that was freed, none is linked, and
\* no append or unlink loses the handler of another.
HandlersInOrder ==
  instance = "events" => Events!TypeOK /\ Events!NodesLive /\ Events!HandlersReachable

\* What a thread sends reaches its device only, which is selected and has its
\* own settings, and all of it is sent and received; the flash chip is idle and
\* protected between requests unless a transfer failed or it is late.
TransfersInOrder ==
  CASE instance = "bus"   -> Bus!SelectsOwner /\ Bus!RunsAsConfigured /\ Bus!MovesAll
    [] instance = "pages" -> Pages!LeavesChipQuiet
    [] instance = "words" -> Words!LeavesChipQuiet
    [] OTHER              -> TRUE

\* Each request to the flash takes effect at once, in full when it succeeds and
\* within its cells when it fails, unless the chip is at work on one that has
\* timed out: FlashStore.
ImplementsStore ==
  /\ instance = "pages" => Pages!Store!Init
  /\ instance = "words" => Words!Store!Init
  /\ [][/\ instance = "pages" => [Pages!Store!Next]_(Pages!Store!vars)
        /\ instance = "words" => [Words!Store!Next]_(Words!Store!vars)]_vars

\* What is typed is edited where the cursor is, and run word by word:
\* LineEditor.
ImplementsEditor ==
  /\ instance = "keys" => Keys!Editor!Init
  /\ instance = "tabs" => Tabs!Editor!Init
  /\ [][/\ instance = "keys" => [Keys!Editor!Next]_(Keys!Editor!vars)
        /\ instance = "tabs" => [Tabs!Editor!Next]_(Tabs!Editor!vars)]_vars

\* The host reads whole outputs in the order they were printed, the shell what
\* the host sent: Fifo in each direction.
ImplementsChannel ==
  /\ instance = "prints" => Prints!ToHost!Init
  /\ instance = "types" => Types!FromHost!Init
  /\ [][/\ instance = "prints" => [Prints!Delivers]_(Prints!HostSide)
        /\ instance = "types" => [Types!Receives]_(Types!ShellSide)]_vars

\* A date is the day that the calendar says, both ways.
KnowsCalendar == instance = "dates" => Dates!KnowsCalendar

\* The time that was set holds from then on, and what is read was the time at
\* some moment of the call.
ClockInOrder == instance = "clock" => Clocks!SetHolds /\ Clocks!ReadsTrue

\* "registering the same event multiple times would throws error code": of two
\* clients that register the same event, one is refused.
OneHandler == instance = "twice" => Twice!OneHandler

\* "clear command line": the cursor stays in the line, and the line in its
\* buffer, after a line that was too long.
CursorInLine == instance = "stale" => Stale!CursorInLine
===========================================================================
