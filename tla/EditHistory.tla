---------------------------- MODULE EditHistory ----------------------------
(***************************************************************************)
(* What an undo button promises: the canvases the user went through lie on *)
(* a line, with the one on the screen marked.  Undo and redo move the mark *)
(* by one and change nothing.  An edit cuts off what lies ahead of the     *)
(* mark and adds the new canvas right behind the one it changed, so that   *)
(* one undo reverses it, and the line forgets its beginning when it grows  *)
(* too long.  Three departures from this are named at the end, for editors *)
(* that are known to take them.                                            *)
(***************************************************************************)
EXTENDS Naturals, Sequences

CONSTANT MaxHistory \* how many canvases the line holds besides the marked one

VARIABLES line, at

Init == Len(line) = 1 /\ at = 1

\* The last MaxHistory + 1 elements of s.
Newest(s) ==
    SubSeq(s, IF Len(s) > MaxHistory + 1 THEN Len(s) - MaxHistory ELSE 1, Len(s))

Behind == SubSeq(line, 1, at - 1)

\* The line ends at the mark, as ended by the canvases of tail.
EndsWith(tail) == at' = Len(line') /\ line' = Newest(Behind \o tail)

Edit == EndsWith(<<line[at], line'[at']>>)

Back == UNCHANGED line /\ at > 1 /\ at' = at - 1

Forward == UNCHANGED line /\ at < Len(line) /\ at' = at + 1

StartAgain == Len(line') = 1 /\ at' = 1
-----------------------------------------------------------------------------
\* An edit that takes two undos: the first returns to nothing but what is shown before it.
EditTwice == EndsWith(<<line[at], line[at], line'[at']>>)

\* An edit that undo does not reverse: it returns to the new canvas itself.
Settle == EndsWith(<<line'[at'], line'[at']>>)

\* An edit that is no step of the line: it replaces the canvas that is marked.
Amend == UNCHANGED at /\ line' = [line EXCEPT ![at] = line'[at]]
=============================================================================
