------------------------------ MODULE SemifileMC ------------------------------
(* A buffer of three cells; blocks that fit twice, once, and never.            *)
EXTENDS Semifile

MCBlocks == {<<1>>, <<2, 2>>, <<1, 2, 1, 2>>}
MCSizes == {1, 2}
MCOffsets == 0..2
=============================================================================
