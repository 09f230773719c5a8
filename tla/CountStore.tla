------------------------------ MODULE CountStore ------------------------------
(***************************************************************************)
(* What a tree file promises its caller, whatever its layout: counts are   *)
(* put in once, the file is sealed, and from then on every question is     *)
(* answered with the count that was put in, or 0.  A seal can be lost (a   *)
(* crash, a full disk): then no number is ever answered again.             *)
(***************************************************************************)
EXTENDS Integers

CONSTANTS
    Keys,       \* the n-grams
    Counts,     \* the counts
    NoKey,      \* no question is pending
    NoReply,    \* no question was answered yet, or the next one is pending
    Failed      \* the reply to a question whose file could not be read

VARIABLES
    counts,     \* the count of every key, 0 for the keys never put in
    status,     \* "filling", "sealed" or "lost"
    pending,    \* the key being asked for
    reply,      \* the last reply
    stopped     \* the process stopped on an assertion

storeVars == <<counts, status, pending, reply, stopped>>

Init ==
    /\ counts = [k \in Keys |-> 0]
    /\ status = "filling"
    /\ pending = NoKey
    /\ reply = NoReply
    /\ stopped = FALSE

Put(k, c) ==
    /\ status = "filling"
    /\ counts[k] = 0
    /\ counts' = [counts EXCEPT ![k] = c]
    /\ UNCHANGED <<status, pending, reply, stopped>>

Seal ==
    /\ status = "filling"
    /\ status' = "sealed"
    /\ UNCHANGED <<counts, pending, reply, stopped>>

Lose ==
    /\ status # "lost"
    /\ pending = NoKey
    /\ status' = "lost"
    /\ UNCHANGED <<counts, pending, reply, stopped>>

Ask(k) ==
    /\ status # "filling"
    /\ ~stopped
    /\ pending = NoKey
    /\ pending' = k
    /\ reply' = NoReply
    /\ UNCHANGED <<counts, status, stopped>>

Answer ==
    /\ pending # NoKey /\ ~stopped
    /\ status = "sealed"
    /\ reply' = counts[pending]
    /\ pending' = NoKey
    /\ UNCHANGED <<counts, status, stopped>>

Fail ==
    /\ pending # NoKey /\ ~stopped
    /\ status = "sealed"
    /\ reply' = Failed
    /\ pending' = NoKey
    /\ UNCHANGED <<counts, status, stopped>>

\* A store nothing was put into, or whose seal was lost, cannot be asked.
Stop ==
    /\ pending # NoKey /\ ~stopped
    /\ status = "lost" \/ \A k \in Keys : counts[k] = 0
    /\ stopped' = TRUE
    /\ UNCHANGED <<counts, status, pending, reply>>

Respond == Answer \/ Fail \/ Stop

Next ==
    \/ \E k \in Keys, c \in Counts : Put(k, c)
    \/ Seal
    \/ Lose
    \/ \E k \in Keys : Ask(k)
    \/ Respond

Spec == Init /\ [][Next]_storeVars /\ WF_storeVars(Respond)

=============================================================================
