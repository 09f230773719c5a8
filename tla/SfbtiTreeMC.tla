----------------------------- MODULE SfbtiTreeMC -----------------------------
(* Two keys per record: nine keys reach a tree with two generations of parents *)
(* under the root, and the searches ask for keys that are there and keys that  *)
(* are missing, before, between and behind those.                              *)
EXTENDS SfbtiTree

MCKeys == 0..8
MCEntries == {[key |-> k, val |-> k + 1] : k \in MCKeys}
=============================================================================
