----------------------------- MODULE SfbtiWriteMC ----------------------------
(* Two keys per record and up to nine entries: up to five leaves, so that the *)
(* file gets two generations of parents below its root.                       *)
EXTENDS SfbtiWrite

MCKeys == 0..8
MCEntries == {[key |-> k, val |-> k + 1] : k \in MCKeys}
=============================================================================
