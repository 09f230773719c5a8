----------------------------- MODULE BuildTreesMC -----------------------------
(***************************************************************************)
(* The model checking instance of BuildTrees: three bins in two passes,    *)
(* the last one of a single bin, and every way to spread two records over  *)
(* the bins.                                                               *)
(***************************************************************************)
EXTENDS BuildTrees

CONSTANTS t1, t2

\* Two tapes that share a record; one of them torn in the middle; one tape torn at the
\* end and another before its first record.
MCContents ==
    { [tapes_of |-> <<{t1, t2}, {t1}>>, torn |-> {}],
      [tapes_of |-> <<{t1, t2}, {t1}>>, torn |-> {t2}],
      [tapes_of |-> <<{t1}, {t1}>>, torn |-> {t1, t2}] }

=============================================================================
