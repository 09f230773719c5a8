---------------------------- MODULE QueryLibraryMC ----------------------------
(***************************************************************************)
(* The model checking instance of QueryLibrary: bigrams in two bins and    *)
(* trigrams in one or two, in archives that are whole, appended to, glued  *)
(* together, torn, incomplete or damaged.                                  *)
(***************************************************************************)
EXTENDS QueryLibrary

\* Eight hashes in two bins: 0-2 and 6-7 are in the first, 3-5 in the second.
MCHash == (1 :> 1) @@ (2 :> 4) @@ (3 :> 7)
MCKeys == {<<1, 2>>, <<2, 1>>, <<3, 3>>, <<2, 2>>, <<2, 1, 1>>, <<1, 2, 3>>}
MCCounts ==
    [b \in 1..3 |-> [k \in MCKeys |-> 100 * b + 10 * k[1] + k[2]]]

\* Leaves of a tree: common, many and too few for a share of the table.
MCLeaves == (1 :> 2) @@ (2 :> 6) @@ (3 :> 1)

\* Characters in a small set: 2 is the slash, 5 to 7 are the letters.
T == <<3>>
Two(prefix) == [bins |-> 2, prefix |-> prefix, dir |-> T]
One == [bins |-> 1, prefix |-> 1, dir |-> <<>>]

\* The file of a bin, as the builder names it and tar packs it.
Tree(n, g, j, build) ==
    Member(MemberName(BuilderName(g.dir, Digits(g.bins, n, j), g.prefix)),
           (j % 3) + 1, [bin |-> j, build |-> build], TRUE)
Trees(n, g, build) == [j \in 1..(g.bins^n) |-> Tree(n, g, j - 1, build)]

End == <<ZeroItem, ZeroItem>>
Dir == <<Member(<<3, 2>>, 0, [bin |-> 0, build |-> 1], TRUE)>>
Both(g, build) == Trees(2, g, build) \o Trees(3, One, build)

Conf(its, torn, mmap, gs) ==
    [items |-> its, torn |-> torn, mmap |-> mmap, words |-> 4, grams |-> gs]

Bin(n) == [bins |-> n, prefix |-> 0, dir |-> T]

MCConfigs ==
    { Conf(Dir \o Both(Two(1), 1) \o End, 0, m, (2 :> Two(1)) @@ (3 :> One)) : m \in BOOLEAN }
    \union
    { Conf(Trees(3, Two(p), 1) \o End, 0, m, 3 :> Two(p)) : p \in {0, 2}, m \in BOOLEAN }
    \union
    { Conf(its, 0, FALSE, (2 :> Two(0)) @@ (3 :> One)) : its \in
        { Both(Two(0), 2) \o End,
          Both(Two(0), 3) \o End,
          \* bins 1 and 2 appended once more, without a zero block, behind one, behind two
          Both(Two(0), 1) \o <<Tree(2, Two(0), 1, 2), Tree(2, Two(0), 2, 3)>> \o End,
          Both(Two(0), 1) \o <<ZeroItem, Tree(2, Two(0), 1, 2)>> \o End,
          Both(Two(0), 1) \o End \o <<Tree(2, Two(0), 1, 2)>> \o End,
          \* a bin is missing, damaged, or has too long a name
          Tail(Both(Two(0), 1)) \o End,
          Both(Two(0), 1) \o <<Member(T, 1, [bin |-> 0, build |-> 1], FALSE)>> \o End,
          Both(Two(0), 1) \o <<Member([i \in 1..8 |-> 3], 1, [bin |-> 0, build |-> 1], TRUE)>> \o End,
          Both(Two(0), 1) \o <<ZeroItem>> } }
    \union
    { Conf(Both(Two(0), 1) \o End, t, FALSE, (2 :> Two(0)) @@ (3 :> One)) : t \in 1..3 }
    \union
    \* the third word is behind the table, or the table cannot be had
    { [Conf(Trees(2, Two(0), 1) \o End, 0, FALSE, 2 :> Two(0)) EXCEPT !.words = w] : w \in {3, -1} }
    \union
    \* too many trees for the array: the ninth of 27 is behind its end, its size for 16
    \* is negative, of 64 there are 8 in it; no bins, and a prefix longer than the name
    { Conf(Trees(3, Bin(3), 1) \o End, 0, FALSE, 3 :> Bin(3)),
      Conf(End, 0, FALSE, 2 :> Bin(4)),
      Conf([j \in 1..8 |-> Tree(3, Bin(4), j - 1, 1)] \o End, 0, FALSE, 3 :> Bin(4)),
      Conf(End, 0, FALSE, 2 :> Bin(0)),
      Conf(Trees(2, Two(0), 1) \o End, 0, FALSE, 2 :> Two(3)) }

=============================================================================
