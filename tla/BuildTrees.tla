------------------------------ MODULE BuildTrees ------------------------------
(***************************************************************************)
(* mergetapes-to-sfbtin (src/src/mergetapes-to-sfbtin.c): every record of  *)
(* the merged tapes goes to the tree file of its hash bin.  A process can  *)
(* keep only Batch files open, so the bins are covered in passes that each *)
(* merge all the tapes again: one pass after the other, or, with -F, each  *)
(* in a child process of its own.                                          *)
(*                                                                         *)
(* The records of all tapes are numbered in the order of their keys, and   *)
(* one key may be on several tapes.  A pass merges them as MergeTapes has  *)
(* it: in this order, summing up what the tapes have, the rest of a tape   *)
(* left out after a read error, and stuck at a tape that ends inside a     *)
(* record.  A tree file is the sequence of its entries (SfbtiWrite shows   *)
(* what becomes of them), each a number and the tapes it was summed from.  *)
(***************************************************************************)
EXTENDS Integers, Sequences, FiniteSets

CONSTANTS
    MaxIndex,   \* the number of bins, ipow( no_bins, N )
    Batch,      \* DESCRIPTORS_PER_BATCH
    Tapes,      \* argv[ argi.. ]
    NoRecords,  \* the number of different keys on them
    Contents    \* what may be on the tapes: which have each key, which are torn

ASSUME BuildAssumption ==
    /\ MaxIndex \in Nat \ {0}
    /\ Batch \in Nat \ {0}
    /\ NoRecords \in Nat
    /\ Contents \subseteq [tapes_of : [1..NoRecords -> SUBSET Tapes \ {{}}], torn : SUBSET Tapes]

Bins == 0..(MaxIndex - 1)
NoPasses == (MaxIndex + Batch - 1) \div Batch
Passes == 0..(NoPasses - 1)
Parent == NoPasses                  \* the process main started in
Processes == Passes \union {Parent} \* and the child forked for each pass

VARIABLES
    forking,    \* -F
    bin_of,     \* the bin each record hashes to
    tapes_of,   \* the tapes that have it
    torn,       \* the tapes that end inside a record
    bins,       \* the tree files: their entries, and "none", "open" or "closed"
    opened,     \* history: how often each file was created
    pc,         \* per process; "none" before it is forked
    pass,       \* passno
    next,       \* per process: the next bin to open or close, or record to merge
    cut,        \* per pass: the last record it reads of each tape
    failed,     \* history: the passes in which a write failed
    to_fork,    \* i of the fork loop
    to_wait,    \* how many calls of wait are left
    reaped,     \* the children wait returned
    status,     \* the exit status, -1 before the process ends
    success     \* "Success." was printed

inputs == <<forking, bin_of, tapes_of, torn>>
work == <<bins, opened, pass, next, cut, failed>>
parental == <<to_fork, to_wait, reaped, success>>
vars == <<inputs, work, pc, parental, status>>

PassMin(q) == Batch * q

\* Mutated form of PassMax: the bounds of two passes meet.
PassMaxMeets(q) == IF MaxIndex - 1 < Batch * (q + 1) THEN MaxIndex - 1 ELSE Batch * (q + 1)

PassMax(q) == IF MaxIndex - 1 < Batch * (q + 1) - 1 THEN MaxIndex - 1 ELSE Batch * (q + 1) - 1

Covered(q) == PassMin(q)..PassMax(q)

Whole == [t \in Tapes |-> NoRecords]

\* The tapes that a merge takes record r from when it reads the tapes up to c.
From(r, c) == {t \in tapes_of[r] : r <= c[t]}

Init ==
    /\ forking \in BOOLEAN
    /\ bin_of \in [1..NoRecords -> Bins]
    /\ \E content \in Contents : tapes_of = content.tapes_of /\ torn = content.torn
    /\ bins = [b \in Bins |-> [entries |-> <<>>, state |-> "none"]]
    /\ opened = [b \in Bins |-> 0]
    /\ pc = [p \in Processes |->
               IF p # Parent THEN "none" ELSE IF forking THEN "fork" ELSE "open"]
    /\ pass = [p \in Processes |-> IF p = Parent THEN 0 ELSE p]
    /\ next = [p \in Processes |-> 0]
    /\ cut = [q \in Passes |-> Whole]
    /\ failed = {}
    /\ to_fork = 0
    /\ to_wait = NoPasses
    /\ reaped = {}
    /\ status = [p \in Processes |-> -1]
    /\ success = FALSE

Exit(p, s) ==
    /\ pc' = [pc EXCEPT ![p] = "exited"]
    /\ status' = [status EXCEPT ![p] = s]

GoTo(p, label, n) ==
    /\ pc' = [pc EXCEPT ![p] = label]
    /\ next' = [next EXCEPT ![p] = n]
    /\ UNCHANGED status

-----------------------------------------------------------------------------

\* fork: the child takes the pass of the loop's index and leaves the loop.
Fork ==
    /\ pc[Parent] = "fork" /\ to_fork < NoPasses
    /\ pc' = [pc EXCEPT ![to_fork] = "open"]
    /\ next' = [next EXCEPT ![to_fork] = PassMin(to_fork)]
    /\ to_fork' = to_fork + 1
    /\ UNCHANGED <<inputs, bins, opened, pass, cut, failed, to_wait, reaped, status, success>>

\* fork fails: its result is stored and not looked at.
ForkFails ==
    /\ pc[Parent] = "fork" /\ to_fork < NoPasses
    /\ to_fork' = to_fork + 1
    /\ UNCHANGED <<inputs, work, pc, to_wait, reaped, status, success>>

\* The parent skips every pass, for none is its chosen one, and waits.
ForkEnds ==
    /\ pc[Parent] = "fork" /\ to_fork = NoPasses
    /\ pc' = [pc EXCEPT ![Parent] = "wait"]
    /\ UNCHANGED <<inputs, work, parental, status>>

Forked == {p \in Passes : pc[p] # "none"}

\* Mutated form of Wait: it does not wait for a child to end.
WaitNoHang ==
    /\ pc[Parent] = "wait" /\ to_wait > 0
    /\ to_wait' = to_wait - 1
    /\ UNCHANGED <<inputs, work, pc, to_fork, reaped, status, success>>

\* Mutated form of Wait: it blocks when no child is left.
WaitForever ==
    /\ pc[Parent] = "wait" /\ to_wait > 0
    /\ \E p \in Forked \ reaped : pc[p] = "exited" /\ reaped' = reaped \union {p}
    /\ to_wait' = to_wait - 1
    /\ UNCHANGED <<inputs, work, pc, to_fork, status, success>>

\* wait returns when a child has ended, or at once when there is none left.
Wait ==
    /\ pc[Parent] = "wait" /\ to_wait > 0
    /\ \/ \E p \in Forked \ reaped : pc[p] = "exited" /\ reaped' = reaped \union {p}
       \/ Forked \subseteq reaped /\ UNCHANGED reaped
    /\ to_wait' = to_wait - 1
    /\ UNCHANGED <<inputs, work, pc, to_fork, status, success>>

\* What the children returned is printed, and then "Success.".
WaitEnds ==
    /\ pc[Parent] = "wait" /\ to_wait = 0
    /\ success' = TRUE
    /\ Exit(Parent, 0)
    /\ UNCHANGED <<inputs, work, to_fork, to_wait, reaped>>

\* sfbti_new_wctx creates the file of the next bin of the pass.
OpenBin(p) ==
    /\ pc[p] = "open" /\ next[p] \in Covered(pass[p])
    /\ bins' = [bins EXCEPT ![next[p]] = [entries |-> <<>>, state |-> "open"]]
    /\ opened' = [opened EXCEPT ![next[p]] = @ + 1]
    /\ next' = [next EXCEPT ![p] = @ + 1]
    /\ UNCHANGED <<inputs, pc, pass, cut, failed, parental, status>>

\* It fails, or a tape cannot be opened: main returns 1.
OpenFails(p) ==
    /\ pc[p] = "open"
    /\ Exit(p, 1)
    /\ UNCHANGED <<inputs, work, parental>>

OpenEnds(p) ==
    /\ pc[p] = "open" /\ next[p] > PassMax(pass[p])
    /\ GoTo(p, "merge", 0)
    /\ UNCHANGED <<inputs, bins, opened, pass, cut, failed, parental>>

\* The tapes that are read behind record n, all of them before the first.
Readers(p, n) == IF n = 0 THEN Tapes ELSE From(n, cut[pass[p]])

\* Tape t ends behind record n, inside the next one.
TornBehind(t, n) == t \in torn /\ \A r \in (n + 1)..NoRecords : t \notin tapes_of[r]

\* mertap_heap_read_push_or_finish for these tapes.  A read error drops the rest of
\* a tape with a warning.
ReadOn(p, n) ==
    \E errors \in SUBSET Readers(p, n) :
        /\ \A t \in Readers(p, n) \ errors : ~TornBehind(t, n)
        /\ cut' = [cut EXCEPT ![pass[p]] = [t \in Tapes |-> IF t \in errors THEN n ELSE @[t]]]

\* mertap_loop fills its heap.
FillHeap(p) ==
    /\ pc[p] = "merge" /\ next[p] = 0
    /\ ReadOn(p, 0)
    /\ next' = [next EXCEPT ![p] = 1]
    /\ UNCHANGED <<inputs, bins, opened, pc, pass, failed, parental, status>>

\* The record is summed up from the tapes that still give it, which are read on, and
\* then output_to_sfbti puts it into its bin if this pass has that open.
Merge(p) ==
    /\ pc[p] = "merge" /\ next[p] \in 1..NoRecords
    /\ ReadOn(p, next[p])
    /\ LET r == next[p]
           from == Readers(p, r)
       IN bins' = IF from # {} /\ bin_of[r] \in Covered(pass[p])
                  THEN [bins EXCEPT ![bin_of[r]].entries = Append(@, <<r, from>>)]
                  ELSE bins
    /\ next' = [next EXCEPT ![p] = @ + 1]
    /\ UNCHANGED <<inputs, opened, pc, pass, failed, parental, status>>

\* A tape ends inside a record: mertap_file_read_peek calls itself without end, or
\* until the stack is full where the compiler makes no loop of it.
ReadTorn(p) ==
    /\ pc[p] = "merge" /\ next[p] \in 0..NoRecords
    /\ \E t \in Readers(p, next[p]) : TornBehind(t, next[p])
    /\ \/ pc' = [pc EXCEPT ![p] = "hung"] /\ UNCHANGED status
       \/ Exit(p, 1)
    /\ UNCHANGED <<inputs, work, parental>>

\* sfbti_add_entry fails and mertap_loop gives up.  Its result, oerror, is not
\* looked at: the files are closed as after a full merge.
MergeFails(p) ==
    /\ pc[p] = "merge" /\ next[p] \in 1..NoRecords
    /\ Readers(p, next[p]) # {} /\ bin_of[next[p]] \in Covered(pass[p])
    /\ failed' = failed \union {pass[p]}
    /\ GoTo(p, "close", PassMin(pass[p]))
    /\ UNCHANGED <<inputs, bins, opened, pass, cut, parental>>

\* The heap is empty.  mertap_loop returns 0, whether or not tapes were dropped.
MergeEnds(p) ==
    /\ pc[p] = "merge" /\ next[p] > NoRecords
    /\ GoTo(p, "close", PassMin(pass[p]))
    /\ UNCHANGED <<inputs, bins, opened, pass, cut, failed, parental>>

\* sfbti_close_wctx
CloseBin(p) ==
    /\ pc[p] = "close" /\ next[p] \in Covered(pass[p])
    /\ bins' = [bins EXCEPT ![next[p]].state = "closed"]
    /\ next' = [next EXCEPT ![p] = @ + 1]
    /\ UNCHANGED <<inputs, opened, pc, pass, cut, failed, parental, status>>

\* It fails: main returns 1 and leaves the other files of the pass unfinished.
CloseFails(p) ==
    /\ pc[p] = "close" /\ next[p] \in Covered(pass[p])
    /\ Exit(p, 1)
    /\ UNCHANGED <<inputs, work, parental>>

\* Mutated form of PassEnds: the last pass is left out.
PassEndsEarly(p) ==
    /\ pc[p] = "close" /\ next[p] > PassMax(pass[p])
    /\ IF p = Parent /\ pass[p] + 2 < NoPasses
       THEN /\ pass' = [pass EXCEPT ![p] = @ + 1]
            /\ GoTo(p, "open", PassMin(pass[p] + 1))
       ELSE Exit(p, 0) /\ UNCHANGED <<pass, next>>
    /\ UNCHANGED <<inputs, bins, opened, cut, failed, parental>>

\* The pass is finished; a child is through, the only process of a run without -F
\* goes on with the next pass.
PassEnds(p) ==
    /\ pc[p] = "close" /\ next[p] > PassMax(pass[p])
    /\ IF p = Parent /\ pass[p] + 1 < NoPasses
       THEN /\ pass' = [pass EXCEPT ![p] = @ + 1]
            /\ GoTo(p, "open", PassMin(pass[p] + 1))
       ELSE Exit(p, 0) /\ UNCHANGED <<pass, next>>
    /\ UNCHANGED <<inputs, bins, opened, cut, failed, parental>>

\* A child is killed.
Killed(p) ==
    /\ p # Parent /\ pc[p] \in {"open", "merge", "close", "hung"}
    /\ Exit(p, 1)
    /\ UNCHANGED <<inputs, work, parental>>

ParentStep == Fork \/ ForkFails \/ ForkEnds \/ Wait \/ WaitEnds

Step(p) ==
    \/ OpenBin(p) \/ OpenFails(p) \/ OpenEnds(p)
    \/ FillHeap(p) \/ Merge(p) \/ ReadTorn(p) \/ MergeFails(p) \/ MergeEnds(p)
    \/ CloseBin(p) \/ CloseFails(p) \/ PassEnds(p)

Next ==
    \/ ParentStep
    \/ \E p \in Processes : Step(p) \/ Killed(p)

Spec == Init /\ [][Next]_vars

\* The scheduler runs every process that can go on.
FairSpec ==
    /\ Spec
    /\ WF_vars(ParentStep)
    /\ \A p \in Processes : WF_vars(Step(p))

-----------------------------------------------------------------------------

CreatedOnce == \A b \in Bins : opened[b] <= 1

\* What bin b is to get of the records up to number n when the tapes are read up to c.
Share(b, n, c) ==
    {<<r, From(r, c)>> : r \in {s \in 1..n : bin_of[s] = b /\ From(s, c) # {}}}

\* Exactly these are the entries of a file, in the order of their keys.
Holds(entries, share) ==
    /\ {entries[i] : i \in DOMAIN entries} = share
    /\ \A i, j \in DOMAIN entries : i < j => entries[i][1] < entries[j][1]

Full(b) == Holds(bins[b].entries, Share(b, NoRecords, Whole))

\* Read errors took something from pass q: a record, or a tape's part of one.
Lossy(q) == \E r \in 1..NoRecords : From(r, cut[q]) # tapes_of[r]

\* No file is created twice, which would empty it, by whatever processes.  The files
\* of a pass are what one merge makes of the tapes, or of the beginnings of them that
\* read errors left: each has the records of its bin in the order of the keys, none
\* left out up to some point, all of them if it was closed and no write failed in its
\* pass.  A closed file that is short of records, or of a tape's part of one, is owed
\* to a failed write or a dropped tape of its pass.
BinsAreShares ==
    /\ CreatedOnce
    /\ \A q \in Passes : \A b \in Covered(q) :
        /\ \E n \in 0..NoRecords : Holds(bins[b].entries, Share(b, n, cut[q]))
        /\ bins[b].state = "closed" /\ q \notin failed =>
             /\ Holds(bins[b].entries, Share(b, NoRecords, cut[q]))
             /\ Full(b) \/ Lossy(q)

Complete == \A b \in Bins : bins[b].state = "closed" /\ Full(b)

\* What has to go well; the exit status tells of the last of these only.
AllWell ==
    /\ pc[Parent] = "exited"
    /\ failed = {}
    /\ \A q \in Passes : ~Lossy(q)
    /\ forking => Forked = Passes
    /\ \A p \in Processes : status[p] = 0 \/ pc[p] = "none"

\* If every process that ran ended with status 0, no write failed, no pass lost part of
\* a tape to a read error, and every fork succeeded, then every record is in exactly
\* the file of its bin, summed up from all tapes that have it.
WellMeansComplete == AllWell => Complete

\* The parent does not end while a child still writes: who reads the trees after it
\* never sees a file that is being written.
ParentEndsLast ==
    pc[Parent] = "exited" => \A p \in Passes : pc[p] \in {"none", "exited"}

Over(p) == pc[p] \in {"none", "exited"}

\* If no tape ends inside a record the build ends, whatever fails and whichever child
\* is killed.  If one does, every child ends or is stuck in reading it, and so is
\* the only process of a run without -F; the parent ends unless it waits for a child
\* that is stuck.
BuildEnds ==
    /\ torn = {} => <>(\A p \in Processes : Over(p))
    /\ \A p \in Processes :
         <>(\/ Over(p) \/ pc[p] = "hung"
            \/ pc[p] = "wait" /\ \E child \in Passes : pc[child] = "hung")

\* mergetapes-to-sfbtin.c:355: "Success."
SuccessMeansComplete == success => Complete

=============================================================================
