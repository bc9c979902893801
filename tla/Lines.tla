-------------------------------- MODULE Lines --------------------------------
(***************************************************************************)
(* What device/console.h is used for: a screen on which each call of       *)
(* consolePuts writes its whole string before another call's starts.       *)
(***************************************************************************)
EXTENDS Naturals, Sequences

CONSTANTS Writer, StrLen

VARIABLE line     \* the writers of the characters of the unfinished string

Init == line = <<>>

(* Only the writer who began a string continues it. *)
Write == /\ Len(line) < StrLen
         /\ \E w \in Writer : /\ \A i \in 1 .. Len(line) : line[i] = w
                              /\ line' = Append(line, w)

EndOfString == Len(line) = StrLen /\ line' = <<>>

Spec == Init /\ [][Write \/ EndOfString]_line
=============================================================================
