----------------------------- MODULE MergeTapesMC -----------------------------
(* Five tapes of up to two records over three keys: the heap gets three        *)
(* levels, and an element moves over two of them in both directions.  A tape   *)
(* whose first read fails is as good as an empty one.                          *)
EXTENDS MergeTapes

Rec(k) == [key |-> k, count |-> 1]
MCTapes == {<<Rec(1)>>, <<Rec(3)>>, <<Rec(1), Rec(2)>>}
=============================================================================
