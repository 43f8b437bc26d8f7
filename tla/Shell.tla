------------------------------- MODULE Shell -------------------------------
(***************************************************************************)
(* The shell (components/finsh/shell.c, msh.c): its thread takes one key   *)
(* at a time, edits a line of FINSH_CMD_SIZE characters in place and, on   *)
(* Enter, cuts the line into arguments in place and calls a command.       *)
(* Compiled without history and password.  The echo is not modelled.       *)
(***************************************************************************)
EXTENDS Naturals, Sequences, FiniteSetsExt

CONSTANTS
  Char,          \* characters that are typed
  Name,          \* names of commands: sequences of characters
  FINSH_CMD_SIZE,
  FINSH_ARG_MAX,
  Longest,       \* how long a line gets (a bound of the model)
  TabWhenStale   \* Tab is pressed though a discarded line is still there

ShellAssumption ==
  /\ {FINSH_CMD_SIZE, FINSH_ARG_MAX} \subseteq Nat \ {0} /\ Longest \in Nat
  /\ TabWhenStale \in BOOLEAN
  /\ \A n \in Name : Len(n) \in 1 .. FINSH_CMD_SIZE - 1

VARIABLES
  line,            \* shell->line, a character in each cell
  line_position,   \* how many characters it has
  line_curpos,     \* the cursor
  stat,            \* the keys of an escape sequence so far
  ran              \* the arguments of the command just called

vars == <<line, line_position, line_curpos, stat, ran>>

NUL == "nul"
Key == Char \cup {"esc", "[", "A", "B", "C", "D", "tab", "del", "cr"}

Index   == 0 .. FINSH_CMD_SIZE
Cleared == [i \in Index |-> NUL]

Init ==
  /\ line = Cleared /\ line_position = 0 /\ line_curpos = 0
  /\ stat = "normal" /\ ran = <<>>

\* The characters from a cell to the next NUL.
CString(cells, from) ==
  LET end == Min({i \in from .. FINSH_CMD_SIZE : cells[i] = NUL})
  IN [i \in 1 .. end - from |-> cells[from + i - 1]]
---------------------------------------------------------------------------
\* msh_split: the cells where arguments start, and the cells set to NUL, from
\* cell i on when there are n arguments already.
Split(cells, length) ==
  LET blank(i) == cells[i] = " "
      seek(i, P(_)) == Min({j \in i .. length : j = length \/ P(j)})
      quoteFrom[i \in 0 .. length + 2] ==
        IF i >= length \/ cells[i] = "\"" THEN i
        ELSE quoteFrom[IF cells[i] = "\\" /\ cells[i + 1] = "\"" THEN i + 2 ELSE i + 1]
      from[i \in 0 .. length + 2, n \in 0 .. FINSH_ARG_MAX] ==
        LET b      == seek(i, LAMBDA j : ~blank(j))
            string == cells[b] = "\""
            start  == IF string THEN b + 1 ELSE b
            e      == IF string THEN quoteFrom[start] ELSE seek(b, blank)
            rest   == from[IF string THEN e + 1 ELSE e, n + 1]
        IN CASE i >= length
                  -> [starts |-> <<>>, cut |-> {}]
             [] n = FINSH_ARG_MAX \/ b = length
                  -> [starts |-> <<>>, cut |-> i .. b - 1]
             [] OTHER
                  -> IF e >= length THEN [starts |-> <<start>>, cut |-> i .. b - 1]
                     ELSE [starts |-> <<start>> \o rest.starts,
                           cut |-> (i .. b - 1) \cup (IF string THEN {e} ELSE {}) \cup rest.cut]
  IN from[0, 0]

\* msh_exec: the name is what stands before the first blank.
Executed(cells, length) ==
  LET cmd  == Min({i \in 0 .. length : i = length \/ cells[i] # " "})
      size == Min({i \in cmd .. length : i = length \/ cells[i] = " "}) - cmd
      s    == Split(cells, length)
      cut  == [i \in Index |-> IF i \in s.cut THEN NUL ELSE cells[i]]
  IN IF [i \in 1 .. size |-> cells[cmd + i - 1]] \in Name
     THEN [k \in DOMAIN s.starts |-> CString(cut, s.starts[k])] ELSE <<>>

\* msh_auto_complete: all that the matching names have in common.
Matching == {n \in Name : Len(CString(line, 0)) <= Len(n)
                          /\ SubSeq(n, 1, Len(CString(line, 0))) = CString(line, 0)}

str_common(a, b) == Max({k \in 0 .. Min({Len(a), Len(b)}) : SubSeq(a, 1, k) = SubSeq(b, 1, k)})

AutoComplete ==
  LET ptr    == CHOOSE n \in Matching : TRUE
      common == Min({str_common(ptr, n) : n \in Matching})
  IN IF line[0] = NUL \/ Matching = {} THEN line
     ELSE [i \in Index |-> IF i < common THEN ptr[i + 1] ELSE line[i]]
---------------------------------------------------------------------------
Stays(s) == stat' = s /\ ran' = <<>> /\ UNCHANGED <<line, line_position, line_curpos>>

\* A character left beyond the end of the line by one that was discarded.
Stale == \E i \in line_position .. FINSH_CMD_SIZE : line[i] # NUL

\* rt_memmove of the tail, which ends where the characters end.
Moved(to, from, n) ==
  [i \in Index |-> IF i \in to .. to + n - 1 THEN line[i - to + from] ELSE line[i]]

Tab ==
  /\ TabWhenStale \/ ~Stale
  /\ line' = AutoComplete
  /\ line_position' = Len(CString(line', 0)) /\ line_curpos' = line_position'
  /\ stat' = "normal" /\ ran' = <<>>

\* Mutant of Backspace: the last character of the line stays.
Backspace_LastKept ==
  /\ IF line_curpos = 0 THEN UNCHANGED <<line, line_position, line_curpos>>
     ELSE /\ line_position > 0
          /\ line_position' = line_position - 1
          /\ line_curpos' = line_curpos - 1
          /\ line' = Moved(line_curpos', line_curpos, line_position - line_curpos)
  /\ stat' = "normal" /\ ran' = <<>>

\* At position 0 with a cursor beyond it the code would move memory outside
\* the line; CursorInLine says that it does not get there.
Backspace ==
  /\ IF line_curpos = 0 THEN UNCHANGED <<line, line_position, line_curpos>>
     ELSE /\ line_position > 0
          /\ line_position' = line_position - 1
          /\ line_curpos' = line_curpos - 1
          /\ line' = [Moved(line_curpos', line_curpos, line_position - line_curpos)
                        EXCEPT ![line_position'] = NUL]
  /\ stat' = "normal" /\ ran' = <<>>

Enter ==
  /\ ran' = Executed(line, line_position)
  /\ line' = Cleared /\ line_position' = 0 /\ line_curpos' = 0
  /\ stat' = "normal"

\* A full line is discarded: its characters stay.
Insert(c) ==
  LET position == IF line_position >= FINSH_CMD_SIZE THEN 0 ELSE line_position
      full     == position + 1 >= FINSH_CMD_SIZE
  IN /\ c \in Char /\ line_position < Longest
     /\ line' = IF line_curpos < position
                THEN [Moved(line_curpos + 1, line_curpos, position - line_curpos)
                        EXCEPT ![line_curpos] = c]
                ELSE [line EXCEPT ![position] = c]
     /\ line_position' = IF full THEN 0 ELSE position + 1
     /\ line_curpos' = IF full THEN 0 ELSE line_curpos + 1
     /\ stat' = "normal" /\ ran' = <<>>

\* The keys that move the cursor end an escape sequence.
Left ==
  /\ line_curpos' = IF line_curpos > 0 THEN line_curpos - 1 ELSE line_curpos
  /\ stat' = "normal" /\ ran' = <<>> /\ UNCHANGED <<line, line_position>>

Right ==
  /\ line_curpos' = IF line_curpos < line_position THEN line_curpos + 1 ELSE line_curpos
  /\ stat' = "normal" /\ ran' = <<>> /\ UNCHANGED <<line, line_position>>

Press(ch) ==
  CASE ch = "esc"                             -> Stays("spec")
    [] stat = "spec" /\ ch = "["              -> Stays("func")
    [] stat = "func" /\ ch \in {"A", "B"}     -> Stays("normal")
    [] stat = "func" /\ ch = "D"              -> Left
    [] stat = "func" /\ ch = "C"              -> Right
    [] ch = "tab"                             -> Tab
    [] ch = "del"                             -> Backspace
    [] ch = "cr"                              -> Enter
    [] OTHER                                  -> Insert(ch)

Next == \E ch \in Key : Press(ch)

Spec == Init /\ [][Next]_vars
---------------------------------------------------------------------------
\* The cursor is in the line and the line in its buffer: no key moves memory
\* outside of it.
CursorInLine == line_curpos <= line_position /\ line_position <= FINSH_CMD_SIZE

\* What is typed is edited where the cursor is, and run word by word.
Editor == INSTANCE LineEditor WITH
  Size <- FINSH_CMD_SIZE, ArgMax <- FINSH_ARG_MAX,
  text <- IF Stale THEN <<>> ELSE CString(line, 0),
  cursor <- IF Stale THEN 0 ELSE line_curpos,
  spoiled <- Stale

ImplementsEditor == Editor!Init /\ [][Editor!Next]_(Editor!vars)
===========================================================================
