--------------------------- MODULE AppendOnlyLedger ---------------------------
(***************************************************************************)
(* What a tenant's hash chain promises to its readers: a log of entries    *)
(* that only grows at its end, several entries at a time, and in which no  *)
(* event is entered twice.                                                 *)
(***************************************************************************)
EXTENDS Naturals, Sequences

VARIABLE log  \* a sequence of entries [id, sha]

Init == log = <<>>

EntersOnce(l) == \A i, j \in 1..Len(l) : l[i].id = l[j].id => i = j

Extends(l, m) == Len(l) < Len(m) /\ SubSeq(m, 1, Len(l)) = l

Grow == Extends(log, log') /\ EntersOnce(log')

Spec == Init /\ [][Grow]_log
=============================================================================
