------------------------------ MODULE FindIndex ------------------------------
(***************************************************************************)
(* One call of sfbti_find_index (src/src/sfbti.c), the binary search that  *)
(* every lookup runs once per tree level.  A node holds `entries' keys in  *)
(* ascending order; a key is a tuple of N tokens, compared token by token. *)
(* With exact = FALSE the call picks the child to descend into, with       *)
(* exact = TRUE it picks the leaf entry of the key or answers -1.          *)
(*                                                                         *)
(* One action is one iteration of one of the function's loops.             *)
(***************************************************************************)
EXTENDS Integers

CONSTANTS
    K,           \* KEYS_PER_RECORD
    N,           \* ngram_size
    Token,       \* the token values a stored key is made of
    QueryToken   \* the token values a caller may ask for

ASSUME FindAssumption ==
    /\ K \in Nat \ {0}
    /\ N \in Nat \ {0}
    /\ Token \subseteq Nat
    /\ QueryToken \subseteq Int

VARIABLES
    entries,     \* buf->entries
    keyvals,     \* the keys of buf->keyvals, by index
    key, exact,  \* the arguments
    mn, mx, mp,  \* the window and its probe
    i,           \* the token being compared
    pc,          \* "while", "compare", "exact", "return" or "abort"
    ret          \* the returned index

vars == <<entries, keyvals, key, exact, mn, mx, mp, i, pc, ret>>
args == <<entries, keyvals, key, exact>>

\* The order the token loop implements: the first token that differs decides.
Earlier(a, b) ==
    \E j \in 1..N : a[j] < b[j] /\ \A h \in 1..(j-1) : a[h] = b[h]

Sorted == \A e, f \in 0..(entries-1) : e < f => Earlier(keyvals[e], keyvals[f])

Init ==
    /\ entries \in 0..K
    /\ keyvals \in [0..(entries-1) -> [1..N -> Token]]
    /\ Sorted
    /\ key \in [1..N -> QueryToken]
    /\ exact \in BOOLEAN
    /\ mn = 0
    /\ mx = entries - 1
    /\ mp = 0
    /\ i = 1
    /\ pc = "while"
    /\ ret = 0

\* Mutated form of Probe: the probe rounds down, as in most binary searches.
ProbeRoundsDown ==
    /\ pc = "while"
    /\ mn # mx
    /\ mp' = (mn + mx) \div 2
    /\ i' = 1
    /\ pc' = IF mn < mx THEN "compare" ELSE "abort"
    /\ UNCHANGED <<args, mn, mx, ret>>

\* while( mn != mx ): take a probe; the assertion stops the process when the
\* window has become empty.
Probe ==
    /\ pc = "while"
    /\ mn # mx
    /\ mp' = (mn + mx + 1) \div 2
    /\ i' = 1
    /\ pc' = IF mn < mx THEN "compare" ELSE "abort"
    /\ UNCHANGED <<args, mn, mx, ret>>

WindowClosed ==
    /\ pc = "while"
    /\ mn = mx
    /\ pc' = "exact"
    /\ UNCHANGED <<args, mn, mx, mp, i, ret>>

\* The argument is earlier than the probed key.
GoLeft ==
    /\ pc = "compare"
    /\ key[i] < keyvals[mp][i]
    /\ mx' = mp - 1
    /\ pc' = "while"
    /\ UNCHANGED <<args, mn, mp, i, ret>>

\* Mutated form of GoRight: a tie on any token decides, not only on the last.
GoRightOnTie ==
    /\ pc = "compare"
    /\ key[i] >= keyvals[mp][i]
    /\ mn' = mp
    /\ pc' = "while"
    /\ UNCHANGED <<args, mx, mp, i, ret>>

\* The argument is later than the probed key, or equal to it in every token.
GoRight ==
    /\ pc = "compare"
    /\ key[i] > keyvals[mp][i] \/ (key[i] = keyvals[mp][i] /\ i = N)
    /\ mn' = mp
    /\ pc' = "while"
    /\ UNCHANGED <<args, mx, mp, i, ret>>

\* Mutated form of NextToken: the loop runs past the last token.
NextTokenUnbounded ==
    /\ pc = "compare"
    /\ key[i] = keyvals[mp][i]
    /\ i' = i + 1
    /\ UNCHANGED <<args, mn, mx, mp, pc, ret>>

NextToken ==
    /\ pc = "compare"
    /\ key[i] = keyvals[mp][i]
    /\ i < N
    /\ i' = i + 1
    /\ UNCHANGED <<args, mn, mx, mp, pc, ret>>

Return ==
    /\ pc = "exact"
    /\ ret' = IF exact /\ \E j \in 1..N : keyvals[mn][j] # key[j] THEN -1 ELSE mn
    /\ pc' = "return"
    /\ UNCHANGED <<args, mn, mx, mp, i>>

Next == Probe \/ WindowClosed \/ GoLeft \/ GoRight \/ NextToken \/ Return

Spec == Init /\ [][Next]_vars

-----------------------------------------------------------------------------

\* Every variable has its type.
TypeOK ==
    /\ entries \in 0..K
    /\ keyvals \in [0..(entries-1) -> [1..N -> Token]]
    /\ key \in [1..N -> QueryToken]
    /\ exact \in BOOLEAN
    /\ mn \in Nat
    /\ mx \in Int
    /\ mp \in Nat
    /\ i \in 1..N
    /\ pc \in {"while", "compare", "exact", "return", "abort"}
    /\ ret \in Int

ExactSearch ==
    pc = "return" /\ exact =>
        IF \E e \in 0..(entries-1) : keyvals[e] = key
        THEN ret \in 0..(entries-1) /\ keyvals[ret] = key
        ELSE ret = -1

ChildSearch ==
    pc = "return" /\ ~exact =>
        /\ ret \in 0..(entries-1)
        /\ ret > 0 => ~Earlier(key, keyvals[ret])
        /\ \A e \in (ret+1)..(entries-1) : Earlier(key, keyvals[e])

\* assert( mn < mx ) and assert( mn == mx ) can fail only on a node without
\* entries.
AssertHolds == pc = "abort" => entries = 0

\* The exact search answers the index that holds the key, and -1 only when no
\* entry of the node holds it (the leaf step of sfbti_tar_search); the inexact one
\* answers the last entry that is not later than the key, or the first entry when
\* all are later, the child whose range covers the key (its inner step).  An
\* assertion fails on a node without entries only.
SearchResult == ExactSearch /\ ChildSearch /\ AssertHolds

\* Every probe leaves a strictly smaller window inside the old one, and probes an
\* entry of the node: what makes the loop stop, and stop inside the record.
WindowShrinks ==
    [][pc = "compare" /\ pc' = "while" =>
           /\ mn <= mn'
           /\ mx' <= mx
           /\ mx' - mn' < mx - mn
           /\ mp \in 0..(entries-1)]_vars

=============================================================================
