----------------------------- MODULE FindIndexMC -----------------------------
(* Every sorted node of up to four 2-token keys over three token values, and  *)
(* every query over those values and one larger than any stored token.        *)
EXTENDS FindIndex

MCToken == 0..2
MCQueryToken == 0..3
=============================================================================
