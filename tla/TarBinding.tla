------------------------------ MODULE TarBinding ------------------------------
(***************************************************************************)
(* tarbind.c: the archive that holds all the trees is scanned once, header *)
(* by header, and from then on its members are read by their offsets.      *)
(*                                                                         *)
(* An archive is a sequence of blocks: zero blocks, headers, and the       *)
(* blocks of the member behind each header.  A data block says which       *)
(* member it belongs to and which part of it it is.                        *)
(***************************************************************************)
EXTENDS Naturals, Sequences, SequencesExt

CONSTANTS
    BlockSize,      \* 512
    PathMax         \* TAR_PATH_MAX

ASSUME TarAssumption == BlockSize \in Nat \ {0} /\ PathMax \in Nat

VARIABLES
    items,      \* history: what the archive was made of, members and zero blocks
    archive,    \* its blocks
    current,    \* the offset that the descriptor and `current' are at
    zeros,      \* all_zeroes_counter
    bindings,   \* bindingMap: offset and length by name
    scan        \* "no", "scanning", "done", "failed"

tarVars == <<items, archive, current, zeros, bindings, scan>>

\* A member of the archive and a zero block between or behind the members.
Member(name, size, holds, intact) ==
    [kind |-> "member", name |-> name, size |-> size, holds |-> holds, intact |-> intact]
ZeroItem == [kind |-> "zero"]

Block(kind, item, part) == [kind |-> kind, item |-> item, part |-> part]
BlocksOf(size) == (size + BlockSize - 1) \div BlockSize

\* tar lays out the items one behind the other.
Layout(its) ==
    FlattenSeq([i \in 1..Len(its) |->
        IF its[i].kind = "zero" THEN <<Block("zero", i, 0)>>
        ELSE <<Block("header", i, 0)>> \o
             [p \in 1..BlocksOf(its[i].size) |-> Block("data", i, p)]])

TarInit ==
    /\ items = <<>> /\ archive = <<>>
    /\ current = 0 /\ zeros = 0
    /\ bindings = <<>>
    /\ scan = "no"

\* tarbind_create opens the file; torn is how many blocks its end lacks.
TarOpen(its, torn) ==
    /\ items' = its
    /\ archive' = SubSeq(Layout(its), 1, Len(Layout(its)) - torn)
    /\ current' = 0 /\ zeros' = 0
    /\ bindings' = <<>>
    /\ scan' = "scanning"

AtBlock == current \div BlockSize + 1
Here == archive[AtBlock]

\* A zero block; the second one is taken for the end of the archive, even if there
\* were members between the two.
ScanZero ==
    /\ scan = "scanning" /\ AtBlock <= Len(archive)
    /\ Here.kind = "zero"
    /\ current' = current + BlockSize
    /\ zeros' = zeros + 1
    /\ scan' = IF zeros' < 2 THEN "scanning" ELSE "done"
    /\ UNCHANGED <<items, archive, bindings>>

Acceptable(item) == item.intact /\ Len(item.name) < PathMax

\* The table with a member bound under its name.
Bound(name, binding) ==
    [n \in DOMAIN bindings \union {name} |-> IF n = name THEN binding ELSE bindings[n]]

\* Mutated form of ScanHeader: a name keeps its first binding.
ScanHeaderKeepsFirst ==
    /\ scan = "scanning" /\ AtBlock <= Len(archive)
    /\ Here.kind = "header"
    /\ LET item == items[Here.item]
           data == current + BlockSize
       IN /\ Acceptable(item)
          /\ bindings' = IF item.name \in DOMAIN bindings THEN bindings
                         ELSE Bound(item.name, [offset |-> data, length |-> item.size])
          /\ current' = data + BlockSize * BlocksOf(item.size)
    /\ UNCHANGED <<items, archive, zeros, scan>>

\* A header that is in order binds its name, in place of what was bound to it
\* before, and the blocks of the member are skipped.
ScanHeader ==
    /\ scan = "scanning" /\ AtBlock <= Len(archive)
    /\ Here.kind = "header"
    /\ LET item == items[Here.item]
           data == current + BlockSize
       IN /\ Acceptable(item)
          /\ bindings' = Bound(item.name, [offset |-> data, length |-> item.size])
          /\ current' = data + BlockSize * BlocksOf(item.size)
    /\ UNCHANGED <<items, archive, zeros, scan>>

\* The archive ends before its second zero block; a header has a wrong checksum, as
\* a block of data has, or too long a name.
Unreadable ==
    \/ AtBlock > Len(archive)
    \/ Here.kind = "data"
    \/ Here.kind = "header" /\ ~Acceptable(items[Here.item])

\* Everything is freed again.
ScanFails ==
    /\ scan = "scanning"
    /\ bindings' = <<>>
    /\ scan' = "failed"
    /\ UNCHANGED <<items, archive, current, zeros>>

\* What a read at the binding brings in: all blocks of the member from its first.
DataAt(binding) ==
    SubSeq(archive, binding.offset \div BlockSize + 1,
           binding.offset \div BlockSize + BlocksOf(binding.length))

-----------------------------------------------------------------------------

\* The items in front of the second zero block.
Scanned ==
    {i \in 1..Len(items) :
        Cardinality({j \in 1..i : items[j].kind = "zero"}) < 2 /\ items[i].kind = "member"}
Latest(name) ==
    LET same == {i \in Scanned : items[i].name = name}
    IN IF same = {} THEN 0 ELSE CHOOSE i \in same : \A j \in same : j <= i

\* The scan of an archive: it has bound exactly the members in front of the second
\* zero block, each name to the last of them that has it; every binding covers the
\* blocks of that member, all of them and no other; and a scan that fails leaves
\* nothing bound.
BindingsExact ==
    /\ scan = "done" =>
         /\ DOMAIN bindings = {items[i].name : i \in Scanned}
         /\ \A name \in DOMAIN bindings :
              LET i == Latest(name) IN
              /\ bindings[name].length = items[i].size
              /\ DataAt(bindings[name]) =
                   [p \in 1..BlocksOf(items[i].size) |-> Block("data", i, p)]
    /\ scan = "failed" => bindings = <<>>

=============================================================================
