---------------------------- MODULE PrepareTapesMC ----------------------------
(* Bigrams over one known and one unknown word, with all four patterns, and a  *)
(* limit that makes dumps begin between the patterns of a line.                *)
EXTENDS PrepareTapes

MCDictionary == [w \in {STAR, PP_UNK, "a"} |->
                   CASE w = STAR -> 0 [] w = PP_UNK -> 1 [] w = "a" -> 2]
MCWords == {"a", "x"}
MCCounts == {0, 2}
=============================================================================
