---------------------------- MODULE LineEditor ----------------------------
(***************************************************************************)
(* What the shell promises its user: a line with a cursor, edited key by   *)
(* key, whose words go to the command that the first of them names.  A     *)
(* line that grows to Size characters is thrown away; until the next Enter *)
(* nothing is promised then.                                               *)
(***************************************************************************)
EXTENDS Naturals, SequencesExt

CONSTANTS Char, Name, Size, ArgMax

VARIABLES
  text,      \* the line
  cursor,    \* how many of its characters are before the cursor
  spoiled,   \* a line was thrown away since the last Enter
  ran        \* the words of the command that Enter just ran

vars == <<text, cursor, spoiled, ran>>

Blank  == " "
Quote  == "\""
Escape == "\\"
---------------------------------------------------------------------------
\* The words of a text: blanks part them, quotes hold them together, and a
\* backslash keeps a quote from ending a word (both stay in the word).
Ends(p)        == [mode |-> "between", word |-> <<>>, words |-> Append(p.words, p.word)]
Takes(p, m, c) == [p EXCEPT !.mode = m, !.word = Append(@, c)]

ParseChar(p, c) ==
  CASE p.mode = "between" /\ c = Blank -> p
    [] p.mode = "between" /\ c = Quote -> [p EXCEPT !.mode = "string"]
    [] p.mode = "between"              -> Takes(p, "word", c)
    [] p.mode = "word" /\ c = Blank    -> Ends(p)
    [] p.mode = "word"                 -> Takes(p, "word", c)
    [] p.mode = "string" /\ c = Quote  -> Ends(p)
    [] c = Escape                      -> Takes(p, "escaped", c)
    [] OTHER                           -> Takes(p, "string", c)

Words(s) ==
  LET p == FoldLeft(ParseChar, [mode |-> "between", word |-> <<>>, words |-> <<>>], s)
  IN (IF p.mode = "between" THEN p ELSE Ends(p)).words

\* Enter runs the command that the first word names, unless it is in quotes,
\* with at most ArgMax words.
Runs(s) ==
  LET first == SelectSeq(s, LAMBDA c : c # Blank)
  IN IF first # <<>> /\ Head(first) # Quote /\ Head(Words(s)) \in Name
     THEN SubSeq(Words(s), 1, Min({ArgMax, Len(Words(s))})) ELSE <<>>

\* What the names that continue a text have in common.
Completed(s) ==
  LET names == {n \in Name : IsPrefix(s, n)}
  IN IF s = <<>> \/ names = {} THEN s ELSE LongestCommonPrefix(names)
---------------------------------------------------------------------------
Edited(s, c) == text' = s /\ cursor' = c /\ ran' = <<>> /\ UNCHANGED spoiled

Insert(c) == Len(text) + 1 < Size /\ Edited(InsertAt(text, cursor + 1, c), cursor + 1)
Delete    == cursor > 0 /\ Edited(RemoveAt(text, cursor), cursor - 1)
Left      == cursor > 0 /\ Edited(text, cursor - 1)
Right     == cursor < Len(text) /\ Edited(text, cursor + 1)
Complete  == Edited(Completed(text), Len(Completed(text)))
Ignore    == Edited(text, cursor)

Enter ==
  /\ text' = <<>> /\ cursor' = 0 /\ ~spoiled'
  /\ spoiled \/ ran' = Runs(text)

Discard ==
  /\ spoiled \/ Len(text) + 1 = Size
  /\ text' = <<>> /\ cursor' = 0 /\ spoiled' /\ ran' = <<>>

Init == text = <<>> /\ cursor = 0 /\ ~spoiled /\ ran = <<>>

Next ==
  \/ ~spoiled /\ ((\E c \in Char : Insert(c)) \/ Delete \/ Left \/ Right \/ Complete \/ Ignore)
  \/ Enter
  \/ Discard
===========================================================================
