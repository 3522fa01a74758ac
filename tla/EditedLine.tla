----------------------------- MODULE EditedLine -----------------------------
(***************************************************************************)
(* What the terminal promises its readers: the characters typed, edited    *)
(* and converted, in order, of which only the newest Cap are kept; a read  *)
(* takes characters from the front, up to the first end of a line.         *)
(***************************************************************************)
EXTENDS Naturals, Sequences, SequencesExt

CONSTANTS Chars, Cap, MaxBurst

VARIABLES
    arrived,    \* characters typed and not yet edited in
    line

LineEnds == {"NL", "EOT"}

Edited(l, c) ==
    CASE c = "TAB" -> l
      [] c = "BACKSPACE" -> IF l = <<>> THEN l ELSE Front(l)
      [] OTHER -> LET m == Append(l, IF c = "CR" THEN "NL" ELSE c)
                  IN  IF Len(m) > Cap THEN Tail(m) ELSE m

(* All of the characters s are edited into l.                              *)
EditedAll(l, s) ==
    LET after[i \in 0 .. Len(s)] == IF i = 0 THEN l ELSE Edited(after[i - 1], s[i])
    IN  after[Len(s)]

Init == arrived = <<>> /\ line = <<>>

Type == arrived = <<>> /\ arrived' \in SeqOf(Chars, MaxBurst) /\ UNCHANGED line

Edit == line' = EditedAll(line, arrived) /\ arrived' = <<>>

Read == \E k \in 0 .. Len(line) :
          /\ \A i \in 1 .. k - 1 : line[i] \notin LineEnds
          /\ line' = SubSeq(line, k + 1, Len(line))
          /\ UNCHANGED arrived

Spec == Init /\ [][Type \/ Edit \/ Read]_<<arrived, line>>
=============================================================================
