------------------------------ MODULE Terminal ------------------------------
(***************************************************************************)
(* What the console promises to the programs that read it: a line being    *)
(* edited and a queue of characters whose lines are complete.  There are   *)
(* no indices, no ring and no locks here.                                  *)
(***************************************************************************)
EXTENDS Integers, Sequences, SequencesExt

CONSTANTS
    Char,            \* the characters that can be typed
    INPUT_BUF_SIZE   \* how much unread input is kept

VARIABLES
    line,            \* what has been typed of the current line
    ready            \* what a program may read

vars == <<line, ready>>

EndsLine(c) == c \in {"nl", "eof"}

Init == line = <<>> /\ ready = <<>>

KillLine == line' = <<>> /\ UNCHANGED ready

Erase == line # <<>> /\ line' = Front(line) /\ UNCHANGED ready

\* A character is kept while there is room; the line is handed over when it
\* ends or when there is room for no more.
Type(c) ==
    LET typed == Append(line, c)
        full == Len(ready) + Len(typed) = INPUT_BUF_SIZE
    IN  /\ Len(ready) + Len(line) < INPUT_BUF_SIZE
        /\ IF EndsLine(c) \/ full
           THEN line' = <<>> /\ ready' = ready \o typed
           ELSE line' = typed /\ UNCHANGED ready

\* One call of read() takes characters in order and nothing beyond the end
\* of a line.
Take(k) ==
    /\ k <= Len(ready)
    /\ \A j \in 1 .. k - 1 : ~EndsLine(ready[j])
    /\ ready' = SubSeq(ready, k + 1, Len(ready))
    /\ UNCHANGED line

Next ==
    \/ KillLine
    \/ Erase
    \/ \E c \in Char : Type(c)
    \/ \E k \in 1 .. INPUT_BUF_SIZE : Take(k)

Spec == Init /\ [][Next]_vars
=============================================================================
