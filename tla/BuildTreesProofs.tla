--------------------------- MODULE BuildTreesProofs ---------------------------
(***************************************************************************)
(* The build of the trees for every number of bins, batch size and         *)
(* contents of the tapes: which process may touch which bin, what is in a  *)
(* file when, after read errors as well, and that the parent of a forking  *)
(* run is the last one to end.                                             *)
(***************************************************************************)
EXTENDS BuildTrees, FiniteSetTheorems, SequenceTheorems, TLAPS

-----------------------------------------------------------------------------
(* The inductive invariant                                                 *)

\* A process that has begun and not ended may be stuck in reading a torn tape.
Working == {"open", "merge", "close", "hung"}
Entries == (1..NoRecords) \X SUBSET Tapes

BuildTyped ==
    /\ forking \in BOOLEAN
    /\ bin_of \in [1..NoRecords -> Bins]
    /\ tapes_of \in [1..NoRecords -> SUBSET Tapes]
    /\ bins \in [Bins -> [entries : Seq(Entries), state : {"none", "open", "closed"}]]
    /\ opened \in [Bins -> Nat]
    /\ pc \in [Processes -> {"none", "fork", "wait", "exited"} \union Working]
    /\ pass \in [Processes -> Passes]
    /\ next \in [Processes -> Nat]
    /\ cut \in [Passes -> [Tapes -> 0..NoRecords]]
    /\ failed \subseteq Passes
    /\ to_fork \in 0..NoPasses
    /\ to_wait \in 0..NoPasses
    /\ reaped \subseteq Passes
    /\ status \in [Processes -> {-1, 0, 1}]

\* Only with -F the parent forks and waits, only without it the parent works; a
\* child's pass is its own.
Roles ==
    /\ forking => pc[Parent] \in {"fork", "wait", "exited"}
    /\ ~forking => /\ pc[Parent] \in Working \union {"exited"}
                   /\ \A p \in Passes : pc[p] = "none"
    /\ \A p \in Passes : pc[p] \in Working \union {"none", "exited"} /\ pass[p] = p
    /\ pc[Parent] = "fork" => \A p \in Passes : p >= to_fork => pc[p] = "none"

\* The parent reaps children that have ended; after k calls of wait it has reaped k
\* of them or all that there are.
Waiting ==
    /\ \A p \in reaped : pc[p] = "exited"
    /\ pc[Parent] = "fork" => to_wait = NoPasses
    /\ Forked \subseteq reaped \/ Cardinality(reaped) >= NoPasses - to_wait
    /\ forking /\ pc[Parent] = "exited" => Forked \subseteq reaped

\* The process a pass belongs to.
Worker(q) == IF forking THEN q ELSE Parent

Untouched(b) == opened[b] = 0 /\ bins[b] = [entries |-> <<>>, state |-> "none"]

\* The file of bin b has what pass q is to put there of the first n records.
Held(q, b, n) == Holds(bins[b].entries, Share(b, n, cut[q]))

\* Where a working process is in its pass.
InPass(p, b) ==
    /\ pc[p] = "open" =>
         IF b < next[p] THEN /\ opened[b] = 1
                             /\ bins[b] = [entries |-> <<>>, state |-> "open"]
                        ELSE Untouched(b)
    /\ pc[p] = "merge" =>
         /\ opened[b] = 1 /\ bins[b].state = "open"
         /\ Held(pass[p], b, next[p] - 1)
    /\ pc[p] = "close" =>
         /\ opened[b] = 1
         /\ Held(pass[p], b, NoRecords) \/ pass[p] \in failed
         /\ bins[b].state = IF b < next[p] THEN "closed" ELSE "open"
    /\ pc[p] = "exited" /\ status[p] = 0 => bins[b].state = "closed"

\* How far a working process has counted.
Counts(p) ==
    /\ pc[p] \in {"open", "close"} => next[p] \in PassMin(pass[p])..(PassMax(pass[p]) + 1)
    /\ pc[p] = "merge" => next[p] \in 0..(NoRecords + 1)
    /\ status[p] # -1 => pc[p] = "exited"

Counting == \A p \in Processes : Counts(p)

\* The bins of a pass that was not begun are untouched, those of a pass its process
\* has left are closed.
Begun ==
    \A q \in Passes : \A b \in Covered(q) :
        LET w == Worker(q) IN
        /\ pc[w] = "none" \/ pass[w] < q => Untouched(b)
        /\ pc[w] # "none" /\ q < pass[w] => bins[b].state = "closed"
        /\ pc[w] # "none" /\ q = pass[w] => InPass(w, b)

\* A process without children only ends with 0 behind the last pass.
Through == ~forking /\ status[Parent] = 0 => pass[Parent] = NoPasses - 1

BuildInv ==
    /\ BuildTyped
    /\ Roles
    /\ Waiting
    /\ Counting
    /\ Begun
    /\ Through
    /\ BinsAreShares

-----------------------------------------------------------------------------
(* The passes share the bins out                                           *)

\* There is a pass, and its number is the least that covers all bins.
LEMMA PassesRound ==
    /\ NoPasses \in Nat \ {0}
    /\ Batch * NoPasses >= MaxIndex
    /\ Batch * (NoPasses - 1) < MaxIndex
<1>1. MaxIndex \in Nat \ {0} /\ Batch \in Nat \ {0}
  BY BuildAssumption
<1> DEFINE s == MaxIndex + Batch - 1
<1>2. s \in Nat /\ s >= Batch
  BY <1>1
<1> HIDE DEF s
<1>3. /\ s \div Batch \in Nat
      /\ Batch * (s \div Batch) <= s /\ s < Batch * (s \div Batch) + Batch
  BY <1>1, <1>2
<1>4. s \div Batch # 0
  BY <1>1, <1>2, <1>3
<1> DEFINE k == s \div Batch
<1>5. k \in Nat /\ Batch * k >= MaxIndex /\ Batch * k <= MaxIndex + Batch - 1
  BY <1>1, <1>3 DEF s
<1>6. k # 0
  BY <1>4
<1> HIDE DEF k
<1>7. Batch * (k - 1) = Batch * k - Batch
  BY <1>1, <1>5
<1>8. Batch * (k - 1) < MaxIndex
  BY <1>1, <1>5, <1>7
<1> QED BY <1>5, <1>6, <1>8 DEF k, s, NoPasses

\* Every bin belongs to a pass.
LEMMA BinsCovered ==
    ASSUME NEW b \in Bins
    PROVE  \E q \in Passes : b \in Covered(q)
<1>1. MaxIndex \in Nat \ {0} /\ Batch \in Nat \ {0} /\ b \in Nat /\ b < MaxIndex
  BY BuildAssumption DEF Bins
<1> DEFINE q == b \div Batch
<1>2. q \in Nat /\ Batch * q <= b /\ b < Batch * q + Batch
  BY <1>1
<1>3. q < NoPasses
  <2> HIDE DEF q
  <2>1. SUFFICES ASSUME q >= NoPasses PROVE FALSE
    BY <1>2, PassesRound
  <2>2. Batch * q >= Batch * NoPasses
    BY <1>1, <1>2, <2>1, PassesRound
  <2> QED BY <1>1, <1>2, <2>2, PassesRound
<1>4. Batch * (q + 1) = Batch * q + Batch
  BY <1>1, <1>2
<1>5. b \in Covered(q) /\ q \in Passes
  <2> HIDE DEF q
  <2> QED BY <1>1, <1>2, <1>3, <1>4, PassesRound DEF Covered, PassMin, PassMax, Passes
<1> QED BY <1>5

\* No bin belongs to two passes.
LEMMA CoveredOnce ==
    ASSUME NEW q \in Passes, NEW r \in Passes, NEW b \in Covered(q), b \in Covered(r)
    PROVE  q = r
<1>1. Batch \in Nat \ {0} /\ MaxIndex \in Nat /\ q \in Nat /\ r \in Nat
  BY BuildAssumption, PassesRound DEF Passes
<1>2. ASSUME NEW x \in Nat, NEW y \in Nat, x < y PROVE Batch * (x + 1) <= Batch * y
  BY <1>1, <1>2
<1>3. ASSUME NEW x \in Nat, b \in Covered(x)
      PROVE  b \in Int /\ Batch * x <= b /\ b < Batch * (x + 1)
  <2>1. Batch * x \in Int /\ Batch * (x + 1) \in Int
    BY <1>1
  <2> QED BY <1>1, <1>3, <2>1 DEF Covered, PassMin, PassMax
<1>4. b \in Int /\ Batch * q <= b /\ b < Batch * (q + 1) /\ Batch * r <= b /\ b < Batch * (r + 1)
  BY <1>1, <1>3
<1>5. Batch * q \in Int /\ Batch * r \in Int /\ Batch * (q + 1) \in Int /\ Batch * (r + 1) \in Int
  BY <1>1
<1>6. ~(q < r) /\ ~(r < q)
  BY <1>1, <1>2, <1>4, <1>5
<1> QED BY <1>1, <1>6

\* A pass covers bins only, and where it ends is behind where it begins.
LEMMA CoveredBins ==
    ASSUME NEW q \in Passes
    PROVE  /\ q \in Nat /\ PassMin(q) \in Nat /\ PassMax(q) \in Nat
           /\ PassMin(q) <= PassMax(q) /\ Covered(q) \subseteq Bins
<1>1. Batch \in Nat \ {0} /\ MaxIndex \in Nat \ {0} /\ q \in Nat /\ q <= NoPasses - 1
  BY BuildAssumption, PassesRound DEF Passes
<1>2. Batch * q <= Batch * (NoPasses - 1)
  BY <1>1, PassesRound
<1>3. Batch * (q + 1) = Batch * q + Batch /\ Batch * q \in Nat
  BY <1>1
<1> QED BY <1>1, <1>2, <1>3, PassesRound DEF PassMin, PassMax, Covered, Bins

-----------------------------------------------------------------------------
(* What a step of a working process leaves alone                           *)

\* The part of BinsAreShares that is about one bin.
BinShare(q, b) ==
    /\ opened[b] <= 1
    /\ \E n \in 0..NoRecords : Held(q, b, n)
    /\ bins[b].state = "closed" /\ q \notin failed =>
         Held(q, b, NoRecords) /\ (Full(b) \/ Lossy(q))

\* BinsAreShares, taken bin by bin.
LEMMA EveryBin == BinsAreShares <=> \A q \in Passes : \A b \in Covered(q) : BinShare(q, b)
<1>1. ASSUME BinsAreShares, NEW q \in Passes, NEW b \in Covered(q) PROVE BinShare(q, b)
  <2>1. b \in Bins
    BY CoveredBins
  <2> QED BY <1>1, <2>1 DEF BinsAreShares, CreatedOnce, BinShare, Held
<1>2. ASSUME \A q \in Passes : \A b \in Covered(q) : BinShare(q, b) PROVE BinsAreShares
  BY <1>2, BinsCovered DEF BinsAreShares, CreatedOnce, BinShare, Held
<1> QED BY <1>1, <1>2

\* The same of the next state.
LEMMA EveryBinNext ==
    ASSUME \A q \in Passes : \A b \in Covered(q) : BinShare(q, b)'
    PROVE  BinsAreShares'
<1>1. \A q \in Passes : \A b \in Covered(q) :
        /\ opened'[b] <= 1
        /\ \E n \in 0..NoRecords : Holds(bins[b].entries, Share(b, n, cut[q]))'
        /\ (bins[b].state = "closed" /\ q \notin failed =>
               Holds(bins[b].entries, Share(b, NoRecords, cut[q])) /\ (Full(b) \/ Lossy(q)))'
  BY DEF BinShare, Held
<1>2. \A b \in Bins : opened'[b] <= 1
  BY <1>1, BinsCovered
<1> QED BY <1>1, <1>2 DEF BinsAreShares, CreatedOnce, Covered, PassMin, PassMax

\* A pass that lost nothing takes what the whole tapes give.
LEMMA WholeShare ==
    ASSUME BuildTyped, NEW q \in Passes, NEW b, ~Lossy(q), Held(q, b, NoRecords)
    PROVE  Full(b)
<1>1. ASSUME NEW r \in 1..NoRecords PROVE From(r, cut[q]) = From(r, Whole)
  <2>1. From(r, cut[q]) = tapes_of[r]
    BY DEF Lossy
  <2>2. \A t \in tapes_of[r] : Whole[t] = NoRecords
    BY DEF BuildTyped, Whole
  <2>3. From(r, Whole) = tapes_of[r]
    BY <2>2, BuildAssumption DEF From
  <2> QED BY <2>1, <2>3
<1>2. Share(b, NoRecords, cut[q]) = Share(b, NoRecords, Whole)
  BY <1>1 DEF Share
<1> QED BY <1>2 DEF Held, Full

\* A process that works does so on the bins of its pass, as their only worker.
LEMMA OwnPass ==
    ASSUME BuildInv, NEW p \in Processes, pc[p] \in Working
    PROVE  /\ pass[p] \in Passes
           /\ p = Worker(pass[p])
           /\ Covered(pass[p]) \subseteq Bins
           /\ \A b \in Covered(pass[p]) : InPass(p, b)
<1>1. pass[p] \in Passes
  BY DEF BuildInv, BuildTyped
<1>2. p = Worker(pass[p])
  BY DEF BuildInv, Roles, Working, Worker, Processes
<1>3. pc[p] # "none"
  BY DEF Working
<1> QED BY <1>1, <1>2, <1>3, CoveredBins DEF BuildInv, Begun

\* A step of p that keeps to its pass.
Alone(p) ==
    /\ UNCHANGED <<inputs, pass, parental>>
    /\ \A b \in Bins \ Covered(pass[p]) : bins'[b] = bins[b] /\ opened'[b] = opened[b]
    /\ \A r \in Processes \ {p} : pc'[r] = pc[r] /\ next'[r] = next[r] /\ status'[r] = status[r]
    /\ \A q \in Passes \ {pass[p]} : cut'[q] = cut[q]
    /\ failed \subseteq failed'
    /\ pc'[p] \in Working \union {"exited"}

\* A bin nobody touched is as good as it was.
LEMMA BinKept ==
    ASSUME BuildTyped, NEW q \in Passes, NEW b \in Covered(q), BinShare(q, b),
           UNCHANGED inputs, bins'[b] = bins[b], opened'[b] = opened[b], cut'[q] = cut[q],
           failed \subseteq failed'
    PROVE  /\ BinShare(q, b)'
           /\ Untouched(b) => Untouched(b)'
           /\ \A n : Held(q, b, n)' <=> Held(q, b, n)
<1>1. b \in Bins
  BY CoveredBins
<1>2. \A n : Share(b, n, cut[q])' = Share(b, n, cut[q])
  BY DEF Share, From, inputs
<1>3. Share(b, NoRecords, Whole)' = Share(b, NoRecords, Whole)
  BY DEF Share, From, Whole, inputs
<1>4. \A n : Held(q, b, n)' <=> Held(q, b, n)
  BY <1>2 DEF Held, Holds
<1>5. (Full(b)' <=> Full(b)) /\ (Lossy(q)' <=> Lossy(q))
  BY <1>3 DEF Full, Lossy, From, Holds, inputs
<1> QED BY <1>4, <1>5 DEF BinShare, Untouched

\* A step that changes no file and nothing of what the passes read.
LEMMA FilesKept ==
    ASSUME BuildTyped, BinsAreShares, UNCHANGED <<inputs, bins, opened, cut, failed>>
    PROVE  /\ BinsAreShares'
           /\ \A b : Untouched(b) => Untouched(b)'
<1>1. ASSUME NEW q \in Passes, NEW b \in Covered(q) PROVE BinShare(q, b)'
  <2>1. BinShare(q, b)
    BY EveryBin
  <2> QED BY <2>1, BinKept
<1>2. BinsAreShares'
  BY <1>1, EveryBinNext
<1> QED BY <1>2 DEF Untouched

\* It leaves every process that does not move itself where it was in its pass.
LEMMA PlaceKept ==
    ASSUME UNCHANGED <<inputs, bins, opened, cut, failed, pass>>, NEW p, NEW b,
           pc'[p] = pc[p], next'[p] = next[p], status'[p] = status[p], InPass(p, b)
    PROVE  InPass(p, b)'
<1>1. ASSUME NEW n PROVE Held(pass[p], b, n)' <=> Held(pass[p], b, n)
  BY DEF Held, Holds, Share, From, inputs
<1>2. Held(pass[p], b, next[p] - 1)' <=> Held(pass[p], b, next[p] - 1)
  <2>1. PICK n : n = next[p] - 1
    OBVIOUS
  <2> QED BY <1>1, <2>1 DEF Held
<1>3. Held(pass[p], b, NoRecords)' <=> Held(pass[p], b, NoRecords)
  BY <1>1
<1>4. Untouched(b)' <=> Untouched(b)
  BY DEF Untouched
<1> QED BY <1>2, <1>3, <1>4 DEF InPass

\* Such a step keeps the invariant if it leaves the bins of its pass in order.
LEMMA Frame ==
    ASSUME BuildInv, BuildTyped', NEW p \in Processes, pc[p] \in Working, Alone(p),
           Counts(p)',
           \A b \in Covered(pass[p]) : InPass(p, b)' /\ BinShare(pass[p], b)',
           ~forking /\ status'[Parent] = 0 => pass[Parent] = NoPasses - 1
    PROVE  BuildInv'
<1> DEFINE q == pass[p]
<1>1. q \in Passes /\ p = Worker(q) /\ Covered(q) \subseteq Bins
  BY OwnPass
<1>2. /\ forking' = forking /\ bin_of' = bin_of /\ pass' = pass /\ to_fork' = to_fork
      /\ to_wait' = to_wait /\ reaped' = reaped
      /\ pc'[p] \in Working \union {"exited"}
      /\ pc[p] \notin {"none", "fork", "wait", "exited"}
      /\ \A r \in Processes \ {p} : pc'[r] = pc[r] /\ next'[r] = next[r] /\ status'[r] = status[r]
  BY DEF Alone, inputs, parental, Working
<1>3. \A r \in Passes : r \in Processes /\ r # Parent
  BY PassesRound DEF Processes, Passes, Parent
<1>4. Roles'
  <2>1. Parent \in Processes
    BY DEF Processes
  <2>2. pc'[Parent] = "fork" => p # Parent /\ pc[Parent] = "fork"
    BY <1>2, <2>1 DEF Working
  <2>3. p = Parent => ~forking
    BY <1>2 DEF BuildInv, Roles
  <2>4. p # Parent => forking
    BY <1>2 DEF BuildInv, Roles, Processes
  <2>5. ASSUME NEW r \in Passes
        PROVE  pc'[r] \in Working \union {"none", "exited"} /\ pass'[r] = r
               /\ (pc[r] = "none" => pc'[r] = "none")
    BY <1>2, <1>3 DEF BuildInv, Roles
  <2>6. forking => pc'[Parent] \in {"fork", "wait", "exited"}
    BY <1>2, <2>1, <2>3 DEF BuildInv, Roles
  <2>7. ~forking => pc'[Parent] \in Working \union {"exited"} /\ \A r \in Passes : pc'[r] = "none"
    BY <1>2, <2>4, <2>5 DEF BuildInv, Roles
  <2> QED BY <1>2, <2>2, <2>5, <2>6, <2>7 DEF BuildInv, Roles
<1>5. Waiting'
  <2>1. p \notin reaped
    BY <1>2 DEF BuildInv, Waiting
  <2>2. Forked' = Forked
    BY <1>2, <1>3 DEF Forked, Working
  <2>3. \A r \in reaped' : pc'[r] = "exited"
    BY <1>2, <1>3, <2>1 DEF BuildInv, BuildTyped, Waiting
  <2>4. pc'[Parent] = "fork" => pc[Parent] = "fork"
    BY <1>2 DEF Processes, Working
  <2>5. forking /\ pc'[Parent] = "exited" => pc[Parent] = "exited"
    BY <1>2 DEF BuildInv, Roles, Processes, Working
  <2> QED BY <1>2, <2>2, <2>3, <2>4, <2>5 DEF BuildInv, Waiting
<1>6. Counting'
  BY <1>2 DEF BuildInv, Counting, Counts, PassMin, PassMax
<1>7. \A r \in Passes : \A b \in Covered(r) : BinShare(r, b)
  BY EveryBin DEF BuildInv
<1>8. ASSUME NEW r \in Passes, r # q, NEW b \in Covered(r)
      PROVE  /\ b \in Bins /\ bins'[b] = bins[b] /\ opened'[b] = opened[b]
             /\ (Untouched(b) => Untouched(b)') /\ (\A n : Held(r, b, n)' <=> Held(r, b, n))
             /\ BinShare(r, b)'
  <2>1. b \in Bins /\ b \notin Covered(q)
    BY <1>1, <1>8, CoveredBins, CoveredOnce
  <2> QED BY <1>7, <2>1, BinKept DEF Alone, BuildInv
<1>9. Begun'
  <2>1. ASSUME NEW r \in Passes PROVE Worker(r) \in Processes /\ Worker(r)' = Worker(r)
    BY <1>2, <1>3 DEF Worker, Processes
  <2>2. SUFFICES ASSUME NEW r \in Passes, NEW b \in Covered(r),
                        NEW w \in Processes, w = Worker(r)
                 PROVE  /\ pc'[w] = "none" \/ pass[w] < r => Untouched(b)'
                        /\ pc'[w] # "none" /\ r < pass[w] => bins'[b].state = "closed"
                        /\ pc'[w] # "none" /\ r = pass[w] => InPass(w, b)'
    BY <1>2, <2>1 DEF Begun, Covered, PassMin, PassMax, InPass
  <2>3. CASE r = q
    <3>1. w = p /\ pass[w] = r
      BY <1>1, <2>2, <2>3
    <3>2. InPass(w, b)'
      BY <2>3, <3>1
    <3>3. pc'[w] # "none" /\ ~(pass[w] < r) /\ ~(r < pass[w])
      BY <1>1, <1>2, <2>3, <3>1, CoveredBins DEF Working
    <3> QED BY <3>2, <3>3
  <2>4. CASE r # q
    <3>1. /\ pc[w] = "none" \/ pass[w] < r => Untouched(b)
          /\ pc[w] # "none" /\ r < pass[w] => bins[b].state = "closed"
          /\ pc[w] # "none" /\ r = pass[w] => InPass(w, b)
      BY <2>2 DEF BuildInv, Begun
    <3>2. pc'[w] = "none" <=> pc[w] = "none"
      BY <1>2, <2>2 DEF Working
    <3>3. r = pass[w] => w # p
      BY <1>1, <2>4
    <3>4. w # p => pc'[w] = pc[w] /\ next'[w] = next[w] /\ status'[w] = status[w]
      BY <1>2, <2>2
    <3>5. w # p /\ pass[w] = r /\ InPass(w, b) => InPass(w, b)'
      <4> SUFFICES ASSUME w # p, pass[w] = r, InPass(w, b) PROVE InPass(w, b)'
        OBVIOUS
      <4>1. /\ bins'[b] = bins[b] /\ opened'[b] = opened[b] /\ failed \subseteq failed'
            /\ (Untouched(b) => Untouched(b)')
        BY <1>8, <2>4 DEF Alone
      <4>2. \A n : Held(pass[w], b, n)' <=> Held(pass[w], b, n)
        BY <1>2, <1>8, <2>4 DEF Held
      <4>3. Held(pass[w], b, next[w] - 1)' <=> Held(pass[w], b, next[w] - 1)
        BY <1>2, <3>4, <4>2 DEF Held
      <4>4. Held(pass[w], b, NoRecords)' <=> Held(pass[w], b, NoRecords)
        BY <4>2
      <4> QED BY <1>2, <3>4, <4>1, <4>3, <4>4 DEF InPass
    <3>6. /\ bins'[b] = bins[b] /\ (Untouched(b) => Untouched(b)')
      BY <1>8, <2>4
    <3>7. /\ pc'[w] = "none" \/ pass[w] < r => Untouched(b)'
          /\ pc'[w] # "none" /\ r < pass[w] => bins'[b].state = "closed"
          /\ pc'[w] # "none" /\ r = pass[w] => InPass(w, b)'
      BY <3>1, <3>2, <3>3, <3>5, <3>6
    <3> QED BY <3>7
  <2> QED BY <2>3, <2>4
<1>10. Through'
  BY <1>2 DEF Through
<1>11. BinsAreShares'
  <2>1. ASSUME NEW r \in Passes, NEW b \in Covered(r) PROVE BinShare(r, b)'
    <3>1. CASE r = q
      <4>1. BinShare(pass[p], b)'
        BY <2>1, <3>1
      <4> QED BY <1>2, <3>1, <4>1 DEF BinShare, Held, Lossy
    <3>2. CASE r # q
      BY <1>8, <2>1, <3>2
    <3> QED BY <3>1, <3>2
  <2> QED BY <2>1, EveryBinNext
<1> QED BY <1>4, <1>5, <1>6, <1>9, <1>10, <1>11 DEF BuildInv

-----------------------------------------------------------------------------
(* The initial state and the steps of the parent                           *)

\* Before the first fork no file is opened.
LEMMA BuildInit == Init => BuildInv
<1> SUFFICES ASSUME Init PROVE BuildInv
  OBVIOUS
<1>1. NoPasses \in Nat \ {0} /\ MaxIndex \in Nat \ {0} /\ NoRecords \in Nat
  BY PassesRound, BuildAssumption
<1>2. /\ \A r \in Passes : r \in Processes /\ r # Parent /\ r \in Nat /\ Worker(r) \in Processes
      /\ Parent \in Processes /\ 0 \in Passes
  BY <1>1 DEF Processes, Passes, Parent, Worker
<1>3. BuildTyped
  <2>1. pass \in [Processes -> Passes]
    BY <1>2 DEF Init, Processes
  <2>2. pc \in [Processes -> {"none", "fork", "wait", "exited"} \union Working]
    BY DEF Init, Working
  <2>3. bins \in [Bins -> [entries : Seq(Entries), state : {"none", "open", "closed"}]]
    BY DEF Init
  <2>4. tapes_of \in [1..NoRecords -> SUBSET Tapes]
    BY BuildAssumption DEF Init
  <2>5. cut \in [Passes -> [Tapes -> 0..NoRecords]]
    BY <1>1 DEF Init, Whole
  <2> QED BY <1>1, <2>1, <2>2, <2>3, <2>4, <2>5 DEF Init, BuildTyped
<1>4. Roles
  BY <1>2 DEF Init, Roles, Working
<1>5. Waiting
  <2>1. Forked = {}
    BY <1>2 DEF Init, Forked
  <2> QED BY <1>2, <2>1 DEF Init, Waiting
<1>6. Counting
  <2>1. PassMin(0) = 0 /\ PassMax(0) \in Nat
    BY <1>2, CoveredBins, BuildAssumption DEF PassMin
  <2> QED BY <1>2, <2>1 DEF Init, Counting, Counts
<1>7. \A b \in Bins : Untouched(b)
  BY DEF Init, Untouched
<1>8. Begun
  <2> SUFFICES ASSUME NEW r \in Passes, NEW b \in Covered(r)
               PROVE  LET w == Worker(r) IN
                      /\ Untouched(b)
                      /\ pc[w] # "none" => ~(r < pass[w])
                      /\ pc[w] # "none" /\ r = pass[w] => InPass(w, b)
    BY DEF Begun
  <2>1. Untouched(b) /\ b \in Bins /\ b \in PassMin(r)..PassMax(r)
    BY <1>7, CoveredBins DEF Covered
  <2>2. CASE forking
    BY <1>2, <2>1, <2>2 DEF Init, Worker
  <2>3. CASE ~forking
    <3>1. Worker(r) = Parent /\ pass[Parent] = 0 /\ pc[Parent] = "open" /\ next[Parent] = 0
      BY <1>2, <2>3 DEF Init, Worker
    <3>2. b \in Nat
      BY <2>1, <1>1 DEF Bins
    <3>3. InPass(Parent, b)
      BY <2>1, <3>1, <3>2 DEF InPass
    <3> QED BY <1>2, <2>1, <3>1, <3>3
  <2> QED BY <2>2, <2>3
<1>9. Through
  BY <1>2 DEF Init, Through
<1>10. BinsAreShares
  <2> SUFFICES ASSUME NEW q \in Passes, NEW b \in Covered(q) PROVE BinShare(q, b)
    BY EveryBin
  <2>1. b \in Bins
    BY CoveredBins
  <2>2. opened[b] = 0 /\ bins[b].state = "none" /\ bins[b].entries = <<>>
    BY <2>1 DEF Init
  <2>3. Share(b, 0, cut[q]) = {}
    BY DEF Share
  <2>4. Held(q, b, 0) /\ 0 \in 0..NoRecords
    BY <1>1, <2>2, <2>3 DEF Held, Holds
  <2> QED BY <2>2, <2>4 DEF BinShare
<1> QED BY <1>3, <1>4, <1>5, <1>6, <1>8, <1>9, <1>10 DEF BuildInv

\* Reaped children can be counted.
LEMMA ReapedFinite ==
    ASSUME BuildTyped
    PROVE  /\ IsFiniteSet(Passes) /\ Cardinality(Passes) = NoPasses
           /\ IsFiniteSet(reaped) /\ Cardinality(reaped) \in Nat
<1>1. NoPasses \in Nat
  BY PassesRound
<1>2. IsFiniteSet(Passes) /\ Cardinality(Passes) = NoPasses
  BY <1>1, FS_Interval DEF Passes
<1>3. IsFiniteSet(reaped)
  BY <1>2, FS_Subset DEF BuildTyped
<1> QED BY <1>2, <1>3, FS_CardinalityType

\* The bins do not change and no child does.
LEMMA ParentOnly ==
    ASSUME BuildInv, forking, UNCHANGED <<inputs, work>>,
           \A r \in Passes : pc'[r] = pc[r] /\ status'[r] = status[r]
    PROVE  Begun' /\ BinsAreShares' /\ Through'
<1>1. BinsAreShares' /\ \A b : Untouched(b) => Untouched(b)'
  BY FilesKept DEF BuildInv, work
<1>2. Begun'
  <2> SUFFICES ASSUME NEW r \in Passes, NEW b \in Covered(r)
               PROVE  /\ pc'[r] = "none" \/ pass'[r] < r => Untouched(b)'
                      /\ pc'[r] # "none" /\ r < pass'[r] => bins'[b].state = "closed"
                      /\ pc'[r] # "none" /\ r = pass'[r] => InPass(r, b)'
    BY DEF Begun, Worker, Covered, PassMin, PassMax, inputs, InPass
  <2>1. /\ pc[r] = "none" \/ pass[r] < r => Untouched(b)
        /\ pc[r] # "none" /\ r < pass[r] => bins[b].state = "closed"
        /\ pc[r] # "none" /\ r = pass[r] => InPass(r, b)
    BY DEF BuildInv, Begun, Worker
  <2>2. (Untouched(b) => Untouched(b)') /\ (InPass(r, b) => InPass(r, b)')
    BY <1>1, PlaceKept DEF work
  <2> QED BY <2>1, <2>2 DEF work
<1> QED BY <1>1, <1>2 DEF Through, inputs

\* The parent forks, sees a fork fail or reaps a child; it touches no file.
LEMMA ParentKeeps ==
    ASSUME BuildInv, ParentStep
    PROVE  BuildInv'
<1>1. /\ NoPasses \in Nat \ {0} /\ Parent \in Processes /\ Parent = NoPasses
      /\ \A r \in Passes : r \in Processes /\ r # Parent /\ r \in Nat
  BY PassesRound DEF Processes, Passes, Parent
<1>2. pc[Parent] \in {"fork", "wait"} /\ forking
  BY DEF ParentStep, Fork, ForkFails, ForkEnds, Wait, WaitEnds, BuildInv, Roles, Working
<1>3. BuildTyped /\ Roles /\ Waiting /\ Counting /\ Begun /\ BinsAreShares
  BY DEF BuildInv
<1>4. Cardinality(reaped) \in Nat /\ IsFiniteSet(reaped)
  BY <1>3, ReapedFinite
<1>5. CASE Fork
  <2>1. to_fork \in Passes /\ to_fork \in Processes /\ to_fork # Parent /\ pc[to_fork] = "none"
    BY <1>1, <1>3, <1>5 DEF Fork, BuildTyped, Passes, Roles
  <2>2. PICK c \in Passes : c = to_fork
    BY <2>1
  <2>3. /\ PassMin(c) \in Nat /\ PassMax(c) \in Nat /\ PassMin(c) <= PassMax(c)
        /\ Covered(c) = PassMin(c)..PassMax(c)
    BY CoveredBins DEF Covered
  <2>4. /\ UNCHANGED <<inputs, bins, opened, pass, cut, failed, to_wait, reaped, status, success>>
        /\ pc[Parent] = "fork"
        /\ pc' = [pc EXCEPT ![c] = "open"] /\ next' = [next EXCEPT ![c] = PassMin(c)]
        /\ to_fork' = c + 1
    BY <1>5, <2>2 DEF Fork
  <2>5. BuildTyped'
    <3>1. pc' \in [Processes -> {"none", "fork", "wait", "exited"} \union Working]
      BY <1>3, <2>4 DEF BuildTyped, Working
    <3>2. next' \in [Processes -> Nat] /\ to_fork' \in 0..NoPasses
      BY <1>1, <1>3, <2>3, <2>4, <2>2 DEF BuildTyped, Passes
    <3> QED BY <1>3, <2>4, <3>1, <3>2 DEF BuildTyped, inputs
  <2>6. /\ pc'[c] = "open" /\ next'[c] = PassMin(c) /\ status'[c] = status[c]
        /\ \A r \in Processes : r # c => pc'[r] = pc[r] /\ next'[r] = next[r] /\ status'[r] = status[r]
    BY <1>1, <1>3, <2>4 DEF BuildTyped
  <2>7. forking' = forking /\ pass' = pass
    BY <2>4 DEF inputs
  <2>8. c \in Passes /\ pc[c] = "none" /\ c = to_fork /\ c \in Nat
    BY <1>1, <2>1, <2>2
  <2>9. Roles'
    <3>1. ASSUME NEW r \in Passes
          PROVE  /\ pc'[r] \in Working \union {"none", "exited"} /\ pass'[r] = r
                 /\ r >= c + 1 => pc'[r] = "none"
      <4>1. CASE r = c
        BY <2>6, <2>7, <2>8, <4>1, <1>3 DEF Roles, Working
      <4>2. CASE r # c
        BY <1>1, <2>6, <2>7, <2>8, <4>2, <1>3, <2>4 DEF Roles
      <4> QED BY <4>1, <4>2
    <3>2. pc'[Parent] = "fork"
      BY <1>1, <2>4, <2>6, <2>8
    <3> QED BY <1>2, <2>4, <2>7, <3>1, <3>2 DEF Roles
  <2>10. Waiting'
    <3>1. \A r \in reaped' : pc'[r] = "exited"
      BY <1>1, <1>3, <2>4, <2>6, <2>8 DEF Waiting, BuildTyped
    <3>2. pc'[Parent] = "fork" /\ to_wait' = NoPasses /\ reaped' = reaped
      BY <1>1, <1>3, <2>4, <2>6, <2>8 DEF Waiting
    <3> QED BY <1>1, <1>4, <3>1, <3>2 DEF Waiting
  <2>11. Counting'
    <3>1. ASSUME NEW r \in Processes PROVE Counts(r)'
      <4>1. CASE r = c
        <5>1. pass'[c] = c /\ status'[c] = -1
          BY <1>3, <2>1, <2>6, <2>7, <2>8 DEF Roles, Counting, Counts, BuildTyped
        <5> QED BY <2>3, <2>6, <4>1, <5>1 DEF Counts
      <4>2. CASE r # c
        BY <1>3, <2>6, <2>7, <4>2 DEF Counting, Counts, PassMin, PassMax
      <4> QED BY <4>1, <4>2
    <3> QED BY <3>1 DEF Counting
  <2>12. ASSUME NEW b
         PROVE  (Untouched(b) => Untouched(b)')
    BY <2>4 DEF Untouched
  <2>13. Begun'
    <3> SUFFICES ASSUME NEW r \in Passes, NEW b \in Covered(r)
                 PROVE  /\ pc'[r] = "none" \/ pass'[r] < r => Untouched(b)'
                        /\ pc'[r] # "none" /\ r < pass'[r] => bins'[b].state = "closed"
                        /\ pc'[r] # "none" /\ r = pass'[r] => InPass(r, b)'
      BY <1>2, <2>7 DEF Begun, Worker, Covered, PassMin, PassMax, InPass
    <3>1. /\ pc[r] = "none" \/ pass[r] < r => Untouched(b)
          /\ pc[r] # "none" /\ r < pass[r] => bins[b].state = "closed"
          /\ pc[r] # "none" /\ r = pass[r] => InPass(r, b)
      BY <1>2, <1>3 DEF Begun, Worker
    <3>2. CASE r = c
      <4>1. Untouched(b) /\ pass'[c] = c /\ b \in PassMin(c)..PassMax(c)
        BY <1>3, <2>3, <2>7, <2>8, <3>1, <3>2 DEF Roles
      <4>2. Untouched(b)' /\ ~(b < next'[c])
        BY <2>3, <2>6, <2>12, <4>1
      <4>3. InPass(c, b)'
        BY <2>6, <4>2 DEF InPass
      <4> QED BY <2>6, <2>8, <3>2, <4>1, <4>3
    <3>3. CASE r # c
      <4>1. pc'[r] = pc[r] /\ next'[r] = next[r] /\ status'[r] = status[r]
        BY <1>1, <2>6, <3>3
      <4>2. InPass(r, b) => InPass(r, b)'
        BY <2>4, <4>1, PlaceKept
      <4> QED BY <2>4, <2>12, <3>1, <4>1, <4>2
    <3> QED BY <3>2, <3>3
  <2>14. BinsAreShares'
    BY <1>3, <2>4, FilesKept
  <2>15. Through'
    BY <1>2, <2>7 DEF Through
  <2> QED BY <2>5, <2>9, <2>10, <2>11, <2>13, <2>14, <2>15 DEF BuildInv
<1>6. ASSUME UNCHANGED <<inputs, work>>, BuildTyped',
             \A r \in Passes : pc'[r] = pc[r] /\ status'[r] = status[r],
             Roles', Waiting',
             pc'[Parent] \in {"fork", "wait", "exited"},
             status'[Parent] # -1 => pc'[Parent] = "exited"
      PROVE  BuildInv'
  <2>1. Begun' /\ BinsAreShares' /\ Through'
    BY <1>2, <1>6, ParentOnly
  <2>2. ASSUME NEW r \in Processes PROVE Counts(r)'
    <3>1. Counts(r) /\ pass'[r] = pass[r] /\ next'[r] = next[r]
      BY <1>3, <1>6 DEF Counting, work
    <3>2. CASE r = Parent
      <4>1. pc'[r] \notin {"open", "close", "merge"}
        BY <1>6, <3>2
      <4> QED BY <1>6, <3>2, <4>1 DEF Counts
    <3>3. CASE r # Parent
      <4>1. pc'[r] = pc[r] /\ status'[r] = status[r]
        BY <1>6, <3>3 DEF Processes
      <4> QED BY <3>1, <4>1 DEF Counts, PassMin, PassMax
    <3> QED BY <3>2, <3>3
  <2>3. Counting'
    BY <2>2 DEF Counting
  <2> QED BY <1>6, <2>1, <2>3 DEF BuildInv
<1>7. CASE ForkFails
  <2>1. BuildTyped'
    BY <1>1, <1>3, <1>7 DEF ForkFails, BuildTyped, inputs, work
  <2>2. Roles'
    BY <1>1, <1>3, <1>7 DEF ForkFails, Roles, BuildTyped, inputs, work
  <2>3. Waiting'
    BY <1>3, <1>7 DEF ForkFails, Waiting, Forked, inputs, work
  <2>4. status[Parent] # -1 => pc[Parent] = "exited"
    BY <1>1, <1>3 DEF Counting, Counts
  <2> QED BY <1>2, <1>6, <1>7, <2>1, <2>2, <2>3, <2>4 DEF ForkFails
<1>8. CASE ForkEnds
  <2>1. /\ UNCHANGED <<inputs, work, parental, status>>
        /\ pc'[Parent] = "wait" /\ \A r \in Passes : pc'[r] = pc[r]
    BY <1>1, <1>3, <1>8 DEF ForkEnds, BuildTyped
  <2>2. BuildTyped'
    BY <1>1, <1>3, <1>8 DEF ForkEnds, BuildTyped, inputs, work, parental
  <2>3. Roles'
    BY <1>2, <1>3, <2>1 DEF Roles, inputs, work
  <2>4. Waiting'
    <3>1. Forked' = Forked
      BY <2>1 DEF Forked
    <3>2. reaped' = reaped /\ to_wait' = to_wait /\ \A r \in reaped' : pc'[r] = "exited"
      BY <1>3, <2>1 DEF parental, Waiting, BuildTyped
    <3> QED BY <1>3, <2>1, <3>1, <3>2 DEF Waiting
  <2>5. status[Parent] = -1
    BY <1>1, <1>3, <1>8 DEF Counting, Counts, ForkEnds
  <2> QED BY <1>6, <2>1, <2>2, <2>3, <2>4, <2>5
<1>9. CASE Wait
  <2>1. /\ UNCHANGED <<inputs, work, pc, to_fork, status, success>>
        /\ pc[Parent] = "wait" /\ to_wait > 0 /\ to_wait' = to_wait - 1
    BY <1>9 DEF Wait
  <2>2. /\ reaped' \subseteq Passes
        /\ \A r \in reaped' : pc[r] = "exited"
        /\ \/ Forked \subseteq reaped'
           \/ Cardinality(reaped') >= NoPasses - to_wait'
    <3>1. CASE Forked \subseteq reaped /\ UNCHANGED reaped
      BY <1>3, <3>1 DEF BuildTyped, Waiting
    <3>2. ASSUME NEW p \in Forked \ reaped, pc[p] = "exited", reaped' = reaped \union {p}
          PROVE  /\ reaped' \subseteq Passes
                 /\ \A r \in reaped' : pc[r] = "exited"
                 /\ Forked \subseteq reaped' \/ Cardinality(reaped') >= NoPasses - to_wait'
      <4>1. reaped' \subseteq Passes
        BY <1>3, <3>2 DEF BuildTyped, Forked
      <4>2. Cardinality(reaped') = Cardinality(reaped) + 1
        BY <1>4, <3>2, FS_AddElement
      <4>3. Forked \subseteq reaped \/ Cardinality(reaped) >= NoPasses - to_wait
        BY <1>3 DEF Waiting
      <4>4. to_wait \in Nat
        BY <1>3 DEF BuildTyped
      <4>5. Forked \subseteq reaped' \/ Cardinality(reaped') >= NoPasses - to_wait'
        BY <1>1, <1>4, <2>1, <3>2, <4>2, <4>3, <4>4
      <4> QED BY <1>3, <3>2, <4>1, <4>5 DEF Waiting
    <3> QED BY <1>9, <3>1, <3>2 DEF Wait
  <2>3. BuildTyped'
    BY <1>1, <1>3, <2>1, <2>2 DEF BuildTyped, inputs, work
  <2>4. Roles'
    BY <1>3, <2>1 DEF Roles, inputs, work
  <2>5. Waiting'
    BY <2>1, <2>2 DEF Waiting, Forked
  <2>6. status[Parent] # -1 => pc[Parent] = "exited"
    BY <1>1, <1>3 DEF Counting, Counts
  <2> QED BY <1>2, <1>6, <2>1, <2>3, <2>4, <2>5, <2>6
<1>10. CASE WaitEnds
  <2>1. /\ UNCHANGED <<inputs, work, to_fork, to_wait, reaped>>
        /\ to_wait = 0 /\ pc'[Parent] = "exited" /\ \A r \in Passes : pc'[r] = pc[r]
        /\ status'[Parent] = 0 /\ \A r \in Passes : status'[r] = status[r]
    BY <1>1, <1>3, <1>10 DEF WaitEnds, Exit, BuildTyped
  <2>2. BuildTyped'
    BY <1>1, <1>3, <1>10 DEF WaitEnds, Exit, BuildTyped, inputs, work
  <2>3. Roles'
    BY <1>2, <1>3, <2>1 DEF Roles, inputs, work
  <2>4. Forked \subseteq reaped
    <3>1. CASE Cardinality(reaped) >= NoPasses
      <4>1. reaped = Passes
        <5>1. reaped \subseteq Passes /\ IsFiniteSet(Passes) /\ Cardinality(Passes) = NoPasses
          BY <1>3, ReapedFinite DEF BuildTyped
        <5> QED BY <1>1, <1>4, <3>1, <5>1, FS_Subset
      <4> QED BY <4>1 DEF Forked
    <3> QED BY <1>1, <1>3, <1>4, <2>1, <3>1 DEF Waiting
  <2>5. Waiting'
    <3>1. Forked' = Forked
      BY <2>1 DEF Forked
    <3>2. \A r \in reaped' : pc'[r] = "exited"
      BY <1>3, <2>1 DEF Waiting, BuildTyped
    <3> QED BY <2>1, <2>4, <3>1, <3>2 DEF Waiting
  <2> QED BY <1>6, <2>1, <2>2, <2>3, <2>5
<1> QED BY <1>5, <1>7, <1>8, <1>9, <1>10 DEF ParentStep

-----------------------------------------------------------------------------
(* The steps of a working process                                          *)

\* What is known before a step of a working process.
LEMMA AtWork ==
    ASSUME BuildInv, NEW p \in Processes, pc[p] \in Working
    PROVE  /\ BuildTyped /\ Counts(p) /\ status[p] = -1
           /\ pass[p] \in Passes /\ next[p] \in Nat
           /\ PassMin(pass[p]) \in Nat /\ PassMax(pass[p]) \in Nat
           /\ Covered(pass[p]) = PassMin(pass[p])..PassMax(pass[p])
           /\ Covered(pass[p]) \subseteq Bins
           /\ \A b \in Covered(pass[p]) : InPass(p, b) /\ BinShare(pass[p], b)
<1>1. BuildTyped /\ Counts(p) /\ pc[p] # "exited"
  BY DEF BuildInv, Counting, Working
<1>2. pass[p] \in Passes /\ next[p] \in Nat /\ status[p] = -1
  BY <1>1 DEF BuildTyped, Counts
<1>3. Covered(pass[p]) \subseteq Bins /\ \A b \in Covered(pass[p]) : InPass(p, b)
  BY OwnPass
<1>4. \A b \in Covered(pass[p]) : BinShare(pass[p], b)
  BY <1>2, EveryBin DEF BuildInv
<1> QED BY <1>1, <1>2, <1>3, <1>4, CoveredBins DEF Covered

\* A process that fails or is killed.
LEMMA ExitKeeps ==
    ASSUME BuildInv, NEW p \in Processes, pc[p] \in Working,
           Exit(p, 1), UNCHANGED <<inputs, work, parental>>
    PROVE  BuildInv'
<1>1. BuildTyped /\ Covered(pass[p]) \subseteq Bins /\ pass[p] \in Passes
      /\ \A b \in Covered(pass[p]) : InPass(p, b) /\ BinShare(pass[p], b)
  BY AtWork
<1>2. /\ pc'[p] = "exited" /\ status'[p] = 1
      /\ \A r \in Processes \ {p} : pc'[r] = pc[r] /\ status'[r] = status[r]
  BY <1>1 DEF Exit, BuildTyped
<1>3. BuildTyped'
  BY <1>1 DEF Exit, BuildTyped, inputs, work, parental, Working
<1>4. Alone(p)
  BY <1>2 DEF Alone, work
<1>5. Counts(p)'
  BY <1>2 DEF Counts
<1>6. ASSUME NEW b \in Covered(pass[p]) PROVE InPass(p, b)' /\ BinShare(pass[p], b)'
  <2>1. InPass(p, b)'
    BY <1>2 DEF InPass
  <2>2. BinShare(pass[p], b)'
    <3>1. BinShare(pass[p], b) /\ failed \subseteq failed'
      BY <1>1 DEF work
    <3>2. UNCHANGED <<inputs, bins, opened, cut, pass>>
      BY DEF work
    <3>3. PICK q \in Passes : q = pass[p]
      BY <1>1
    <3>4. BinShare(q, b)'
      BY <1>1, <3>1, <3>2, <3>3, BinKept
    <3> QED BY <3>2, <3>3, <3>4 DEF BinShare, Held, Lossy
  <2> QED BY <2>1, <2>2
<1>7. ~forking /\ status'[Parent] = 0 => pass[Parent] = NoPasses - 1
  <2>1. ~forking => p = Parent
    BY DEF BuildInv, Roles, Processes, Working
  <2> QED BY <1>2, <2>1
<1> QED BY <1>3, <1>4, <1>5, <1>6, <1>7, Frame

\* Without -F nobody but the parent works.
LEMMA LoneWorker ==
    ASSUME BuildInv, NEW p \in Processes, pc[p] \in Working
    PROVE  p = Parent <=> ~forking
  BY DEF BuildInv, Roles, Processes, Working

\* A step after which the process still works cannot break Through.
LEMMA StillThrough ==
    ASSUME BuildInv, NEW p \in Processes, pc[p] \in Working, status' = status
    PROVE  ~forking /\ status'[Parent] = 0 => pass[Parent] = NoPasses - 1
  BY AtWork, LoneWorker

\* A step after which a bin of the pass is in order as if pass q was spelled out.
LEMMA Spelled ==
    ASSUME NEW p \in Processes, NEW q \in Passes, q = pass[p], pass' = pass, NEW b,
           BinShare(q, b)'
    PROVE  BinShare(pass[p], b)'
  BY DEF BinShare, Held, Lossy

\* A process creates the file of the next bin of its own pass, which nobody
\* else creates.
LEMMA OpenBinKeeps ==
    ASSUME BuildInv, NEW p \in Processes, OpenBin(p)
    PROVE  BuildInv'
<1>0. pc[p] = "open" /\ pc[p] \in Working
  BY DEF OpenBin, Working
<1>1. /\ BuildTyped /\ Counts(p) /\ pass[p] \in Passes /\ next[p] \in Nat
      /\ PassMin(pass[p]) \in Nat /\ PassMax(pass[p]) \in Nat
      /\ Covered(pass[p]) = PassMin(pass[p])..PassMax(pass[p])
      /\ Covered(pass[p]) \subseteq Bins
      /\ \A b \in Covered(pass[p]) : InPass(p, b) /\ BinShare(pass[p], b)
  BY <1>0, AtWork
<1>2. PICK c \in Covered(pass[p]) : c = next[p]
  BY DEF OpenBin
<1>3. /\ bins'[c] = [entries |-> <<>>, state |-> "open"] /\ opened'[c] = opened[c] + 1
      /\ \A b \in Bins : b # c => bins'[b] = bins[b] /\ opened'[b] = opened[b]
      /\ next'[p] = c + 1 /\ \A r \in Processes \ {p} : next'[r] = next[r]
      /\ UNCHANGED <<inputs, pc, pass, cut, failed, parental, status>>
  BY <1>1, <1>2 DEF OpenBin, BuildTyped
<1>4. BuildTyped'
  <2>1. bins' \in [Bins -> [entries : Seq(Entries), state : {"none", "open", "closed"}]]
    BY <1>1, <1>2 DEF BuildTyped, OpenBin
  <2>2. opened' \in [Bins -> Nat] /\ next' \in [Processes -> Nat]
    BY <1>1, <1>2 DEF BuildTyped, OpenBin
  <2> QED BY <1>1, <1>3, <2>1, <2>2 DEF BuildTyped, inputs, parental
<1>5. Alone(p)
  BY <1>0, <1>2, <1>3 DEF Alone
<1>6. Counts(p)'
  <2>1. c + 1 \in PassMin(pass[p])..(PassMax(pass[p]) + 1)
    BY <1>1, <1>2
  <2> QED BY <1>0, <1>1, <1>3, <2>1 DEF Counts, PassMin, PassMax
<1>7. PICK q \in Passes : q = pass[p]
  BY <1>1
<1>8. ASSUME NEW b \in Covered(q) PROVE InPass(p, b)' /\ BinShare(q, b)'
  <2>1. b \in Nat /\ c \in Nat /\ b \in Bins
    BY <1>1, <1>7
  <2>2. IF b < c THEN opened[b] = 1 /\ bins[b] = [entries |-> <<>>, state |-> "open"]
                 ELSE Untouched(b)
    BY <1>0, <1>1, <1>2, <1>7 DEF InPass
  <2>3. CASE b = c
    <3>1. opened'[b] = 1 /\ bins'[b] = [entries |-> <<>>, state |-> "open"]
      BY <1>3, <2>1, <2>2, <2>3 DEF Untouched
    <3>2. InPass(p, b)'
      BY <1>0, <1>3, <2>1, <2>3, <3>1 DEF InPass
    <3>3. 0 \in 0..NoRecords /\ Held(q, b, 0)'
      BY <3>1, BuildAssumption DEF Held, Holds, Share
    <3>4. BinShare(q, b)'
      BY <3>1, <3>3 DEF BinShare
    <3> QED BY <3>2, <3>4
  <2>4. CASE b # c
    <3>1. bins'[b] = bins[b] /\ opened'[b] = opened[b]
      BY <1>3, <2>1, <2>4
    <3>2. BinShare(q, b)' /\ (Untouched(b) => Untouched(b)')
      BY <1>1, <1>3, <1>7, <2>1, <3>1, BinKept
    <3>3. b < c + 1 <=> b < c
      BY <2>1, <2>4
    <3>4. InPass(p, b)'
      BY <1>0, <1>3, <2>2, <3>1, <3>2, <3>3 DEF InPass
    <3> QED BY <3>2, <3>4
  <2> QED BY <2>3, <2>4
<1>9. \A b \in Covered(pass[p]) : InPass(p, b)' /\ BinShare(pass[p], b)'
  BY <1>3, <1>7, <1>8, Spelled
<1> QED BY <1>0, <1>3, <1>4, <1>5, <1>6, <1>9, StillThrough, Frame

\* Tapes cut alike up to record n give the same share of the first n records.
LEMMA ShareKept ==
    ASSUME NEW b, NEW n, NEW c, NEW d, \A r \in 1..n : From(r, c) = From(r, d)
    PROVE  Share(b, n, c) = Share(b, n, d)
  BY DEF Share

\* The next record completes its bin's share, and only that one's.
LEMMA ShareGrows ==
    ASSUME NEW b, NEW c, NEW n \in 1..NoRecords
    PROVE  Share(b, n, c) = IF bin_of[n] = b /\ From(n, c) # {}
                            THEN Share(b, n - 1, c) \union {<<n, From(n, c)>>}
                            ELSE Share(b, n - 1, c)
<1>1. n \in Nat /\ n >= 1
  BY BuildAssumption
<1>2. 1..n = (1..(n - 1)) \union {n}
  BY <1>1
<1> QED BY <1>2 DEF Share

\* A file that holds its share of the first records holds one more when what the
\* tapes give of the next record of its bin is appended.
LEMMA HoldsAppended ==
    ASSUME BuildTyped, NEW n \in 1..NoRecords, NEW e \in Seq(Entries), NEW b, NEW c,
           Holds(e, Share(b, n - 1, c)), bin_of[n] = b, From(n, c) # {}
    PROVE  Holds(Append(e, <<n, From(n, c)>>), Share(b, n, c))
<1> DEFINE x == <<n, From(n, c)>>
<1> DEFINE a == Append(e, x)
<1>0. x \in Entries /\ x[1] = n
  BY DEF From, BuildTyped, Entries
<1> HIDE DEF x
<1>1. /\ Len(e) \in Nat /\ DOMAIN e = 1..Len(e) /\ DOMAIN a = 1..(Len(e) + 1)
      /\ \A i \in 1..Len(e) : a[i] = e[i]
      /\ a[Len(e) + 1] = x
  BY <1>0, AppendProperties, LenProperties
<1>2. {a[i] : i \in DOMAIN a} = {e[i] : i \in DOMAIN e} \union {x}
  <2>1. 1..(Len(e) + 1) = (1..Len(e)) \union {Len(e) + 1}
    BY <1>1
  <2> QED BY <1>1, <2>1
<1>3. ASSUME NEW i \in DOMAIN a, NEW j \in DOMAIN a, i < j PROVE a[i][1] < a[j][1]
  <2>1. i \in 1..Len(e)
    BY <1>1, <1>3
  <2>2. CASE j \in 1..Len(e)
    BY <1>1, <1>3, <2>1, <2>2 DEF Holds
  <2>3. CASE j \notin 1..Len(e)
    <3>1. j = Len(e) + 1
      BY <1>1, <2>3
    <3>2. e[i] \in Share(b, n - 1, c)
      BY <1>1, <2>1 DEF Holds
    <3>3. PICK r \in 1..(n - 1) : e[i] = <<r, From(r, c)>>
      BY <3>2 DEF Share
    <3>4. e[i][1] = r /\ r < n
      BY <3>3, BuildAssumption
    <3> QED BY <1>0, <1>1, <2>1, <3>1, <3>4
  <2> QED BY <2>2, <2>3
<1>4. Share(b, n, c) = Share(b, n - 1, c) \union {x}
  BY ShareGrows DEF x
<1>5. Holds(a, Share(b, n, c))
  BY <1>2, <1>3, <1>4 DEF Holds
<1> QED BY <1>5 DEF x

\* A read error behind record n takes nothing of the records up to n, and nothing
\* of another pass, which reads the tapes for itself.
LEMMA ReadKeeps ==
    ASSUME BuildTyped, NEW p \in Processes, NEW q \in Passes, q = pass[p],
           NEW n \in 0..NoRecords, ReadOn(p, n)
    PROVE  /\ cut' \in [Passes -> [Tapes -> 0..NoRecords]]
           /\ \A r \in Passes \ {q} : cut'[r] = cut[r]
           /\ \A r \in 1..n : From(r, cut'[q]) = From(r, cut[q])
<1>1. PICK errors \in SUBSET Readers(p, n) :
        cut' = [cut EXCEPT ![q] = [t \in Tapes |-> IF t \in errors THEN n ELSE @[t]]]
  BY DEF ReadOn
<1>2. cut \in [Passes -> [Tapes -> 0..NoRecords]] /\ tapes_of \in [1..NoRecords -> SUBSET Tapes]
  BY DEF BuildTyped
<1>3. cut'[q] = [t \in Tapes |-> IF t \in errors THEN n ELSE cut[q][t]]
  BY <1>1, <1>2
<1>4. cut' \in [Passes -> [Tapes -> 0..NoRecords]]
  BY <1>1, <1>2
<1>5. ASSUME NEW r \in 1..n, NEW t \in tapes_of[r] PROVE r <= cut'[q][t] <=> r <= cut[q][t]
  <2>1. r \in 1..NoRecords /\ r \in Nat /\ n \in Nat /\ n # 0
    BY BuildAssumption
  <2>2. t \in Tapes /\ cut[q][t] \in Nat
    BY <1>2, <2>1
  <2>3. CASE t \in errors
    <3>1. n <= cut[q][t]
      BY <2>1, <2>3 DEF Readers, From
    <3> QED BY <1>3, <2>1, <2>2, <2>3, <3>1
  <2>4. CASE t \notin errors
    BY <1>3, <2>2, <2>4
  <2> QED BY <2>3, <2>4
<1>6. \A r \in 1..n : From(r, cut'[q]) = From(r, cut[q])
  BY <1>5 DEF From
<1> QED BY <1>1, <1>2, <1>4, <1>6

\* Before the first record the merge reads something of every tape, or fails to.
LEMMA FillHeapKeeps ==
    ASSUME BuildInv, NEW p \in Processes, FillHeap(p)
    PROVE  BuildInv'
<1>0. pc[p] = "merge" /\ pc[p] \in Working /\ next[p] = 0
  BY DEF FillHeap, Working
<1>1. /\ BuildTyped /\ Counts(p) /\ pass[p] \in Passes
      /\ Covered(pass[p]) \subseteq Bins
      /\ \A b \in Covered(pass[p]) : InPass(p, b) /\ BinShare(pass[p], b)
  BY <1>0, AtWork
<1>2. PICK q \in Passes : q = pass[p]
  BY <1>1
<1>3. /\ next'[p] = 1 /\ \A r \in Processes \ {p} : next'[r] = next[r]
      /\ UNCHANGED <<inputs, bins, opened, pc, pass, failed, parental, status>>
      /\ next' \in [Processes -> Nat]
  BY <1>1 DEF FillHeap, BuildTyped
<1>4. 0 \in 0..NoRecords /\ NoRecords \in Nat
  BY BuildAssumption
<1>5. /\ cut' \in [Passes -> [Tapes -> 0..NoRecords]]
      /\ \A r \in Passes \ {q} : cut'[r] = cut[r]
  BY <1>1, <1>2, <1>4, ReadKeeps DEF FillHeap
<1>6. BuildTyped'
  BY <1>1, <1>3, <1>5 DEF BuildTyped, inputs, parental
<1>7. Alone(p)
  BY <1>0, <1>2, <1>3, <1>5 DEF Alone
<1>8. Counts(p)'
  BY <1>0, <1>1, <1>3, <1>4 DEF Counts
<1>9. ASSUME NEW b \in Covered(q) PROVE InPass(p, b)' /\ BinShare(q, b)'
  <2>1. /\ b \in Bins /\ opened[b] = 1 /\ bins[b].state = "open"
        /\ Held(q, b, next[p] - 1)
    BY <1>0, <1>1, <1>2 DEF InPass
  <2>2. \A m \in {-1, 0} : Share(b, m, cut[q]) = {} /\ Share(b, m, cut[q])' = {}
    BY DEF Share
  <2>3. Held(q, b, 0)'
    BY <1>0, <1>3, <2>1, <2>2 DEF Held, Holds
  <2>4. InPass(p, b)'
    BY <1>0, <1>2, <1>3, <2>1, <2>3 DEF InPass, Held
  <2>5. BinShare(q, b)'
    BY <1>3, <1>4, <2>1, <2>3 DEF BinShare
  <2> QED BY <2>4, <2>5
<1>10. \A b \in Covered(pass[p]) : InPass(p, b)' /\ BinShare(pass[p], b)'
  BY <1>2, <1>3, <1>9, Spelled
<1> QED BY <1>0, <1>3, <1>6, <1>7, <1>8, <1>10, StillThrough, Frame

\* The next record of the merge goes into the file of its bin if that belongs
\* to this pass, and is passed over if not.
LEMMA MergeKeeps ==
    ASSUME BuildInv, NEW p \in Processes, Merge(p)
    PROVE  BuildInv'
<1>0. pc[p] = "merge" /\ pc[p] \in Working
  BY DEF Merge, Working
<1>1. /\ BuildTyped /\ Counts(p) /\ pass[p] \in Passes /\ next[p] \in Nat
      /\ Covered(pass[p]) \subseteq Bins
      /\ \A b \in Covered(pass[p]) : InPass(p, b) /\ BinShare(pass[p], b)
  BY <1>0, AtWork
<1>2. PICK n \in 1..NoRecords : n = next[p]
  BY DEF Merge
<1>3. PICK q \in Passes : q = pass[p]
  BY <1>1
<1> DEFINE from == From(n, cut[q])
<1> DEFINE new == <<n, from>>
<1>4. n # 0 /\ n \in Nat /\ n \in 0..NoRecords /\ NoRecords \in Nat
  BY BuildAssumption
<1>5. Readers(p, next[p]) = from /\ Readers(p, n) = from
  BY <1>2, <1>3, <1>4 DEF Readers
<1>6. /\ next'[p] = n + 1 /\ \A r \in Processes \ {p} : next'[r] = next[r]
      /\ UNCHANGED <<inputs, opened, pc, pass, failed, parental, status>>
      /\ bins' = IF from # {} /\ bin_of[n] \in Covered(q)
                 THEN [bins EXCEPT ![bin_of[n]].entries = Append(@, new)] ELSE bins
      /\ next' \in [Processes -> Nat]
  <2>1. next' = [next EXCEPT ![p] = n + 1]
    BY <1>2 DEF Merge
  <2>2. UNCHANGED <<inputs, opened, pc, pass, failed, parental, status>>
    BY DEF Merge
  <2>3. bins' = IF from # {} /\ bin_of[n] \in Covered(q)
                THEN [bins EXCEPT ![bin_of[n]].entries = Append(@, new)] ELSE bins
    BY <1>2, <1>3, <1>5 DEF Merge
  <2>4. next \in [Processes -> Nat]
    BY <1>1 DEF BuildTyped
  <2> HIDE DEF from, new
  <2> QED BY <1>4, <2>1, <2>2, <2>3, <2>4
<1>7. /\ cut' \in [Passes -> [Tapes -> 0..NoRecords]]
      /\ \A r \in Passes \ {q} : cut'[r] = cut[r]
      /\ \A r \in 1..n : From(r, cut'[q]) = From(r, cut[q])
  <2>1. ReadOn(p, n)
    BY <1>2 DEF Merge
  <2> QED BY <1>1, <1>3, <1>4, <2>1, ReadKeeps
<1>8. ASSUME NEW b \in Bins PROVE bins[b].entries \in Seq(Entries)
  BY <1>1 DEF BuildTyped
<1>9. new \in Entries
  BY <1>1 DEF From, BuildTyped, Entries
<1> HIDE DEF from, new
<1>10. BuildTyped'
  <2>1. bins' \in [Bins -> [entries : Seq(Entries), state : {"none", "open", "closed"}]]
    <3>1. CASE from # {} /\ bin_of[n] \in Covered(q)
      <4>1. Append(bins[bin_of[n]].entries, new) \in Seq(Entries)
        BY <1>1, <1>3, <1>8, <1>9, <3>1, AppendProperties
      <4> QED BY <1>1, <1>3, <1>6, <3>1, <4>1 DEF BuildTyped
    <3>2. CASE ~(from # {} /\ bin_of[n] \in Covered(q))
      <4>1. bins' = bins
        BY <1>6, <3>2
      <4> QED BY <1>1, <4>1 DEF BuildTyped
    <3> QED BY <3>1, <3>2
  <2> QED BY <1>1, <1>6, <1>7, <2>1 DEF BuildTyped, inputs, parental
<1>11. Alone(p)
  <2>1. \A b \in Bins \ Covered(q) : bins'[b] = bins[b]
    BY <1>1, <1>6 DEF BuildTyped
  <2> QED BY <1>0, <1>3, <1>6, <1>7, <2>1 DEF Alone
<1>12. Counts(p)'
  BY <1>0, <1>1, <1>4, <1>6 DEF Counts
<1>13. ASSUME NEW b \in Covered(q) PROVE InPass(p, b)' /\ BinShare(q, b)'
  <2>1. /\ b \in Bins /\ opened[b] = 1 /\ bins[b].state = "open"
        /\ Holds(bins[b].entries, Share(b, n - 1, cut[q]))
    BY <1>0, <1>1, <1>2, <1>3 DEF InPass, Held
  <2>2. Holds(bins'[b].entries, Share(b, n, cut[q])) /\ bins'[b].state = "open"
    <3>1. CASE bin_of[n] = b /\ from # {}
      <4>1. bins'[b].entries = Append(bins[b].entries, new) /\ bins'[b].state = "open"
        BY <1>1, <1>6, <2>1, <3>1 DEF BuildTyped
      <4> QED BY <1>1, <1>8, <2>1, <3>1, <4>1, HoldsAppended DEF from, new
    <3>2. CASE ~(bin_of[n] = b /\ from # {})
      <4>1. bins'[b] = bins[b]
        BY <1>1, <1>6, <2>1, <3>2 DEF BuildTyped
      <4> QED BY <2>1, <3>2, <4>1, ShareGrows DEF from
    <3> QED BY <3>1, <3>2
  <2>3. Share(b, n, cut[q])' = Share(b, n, cut[q])
    <3>1. Share(b, n, cut'[q]) = Share(b, n, cut[q])
      BY <1>7, ShareKept
    <3> QED BY <1>6, <3>1 DEF Share, From, inputs
  <2>4. Held(q, b, n)'
    BY <2>2, <2>3 DEF Held, Holds
  <2>5. next'[p] - 1 = n /\ opened'[b] = 1
    BY <1>4, <1>6, <2>1
  <2>6. InPass(p, b)'
    BY <1>0, <1>3, <1>6, <2>2, <2>4, <2>5 DEF InPass, Held
  <2>7. BinShare(q, b)'
    BY <1>4, <2>2, <2>4, <2>5 DEF BinShare
  <2> QED BY <2>6, <2>7
<1>14. \A b \in Covered(pass[p]) : InPass(p, b)' /\ BinShare(pass[p], b)'
  BY <1>3, <1>6, <1>13, Spelled
<1> QED BY <1>0, <1>6, <1>10, <1>11, <1>12, <1>14, StillThrough, Frame

\* Steps that only take the process to another place in its pass.
LEMMA GoToKeeps ==
    ASSUME BuildInv, NEW p \in Processes, pc[p] \in Working,
           NEW label \in Working, NEW n \in Nat, GoTo(p, label, n),
           UNCHANGED <<inputs, bins, opened, pass, cut, parental>>,
           failed \subseteq failed', failed' \subseteq Passes,
           Counts(p)', \A b \in Covered(pass[p]) : InPass(p, b)'
    PROVE  BuildInv'
<1>1. /\ BuildTyped /\ Covered(pass[p]) \subseteq Bins /\ pass[p] \in Passes
      /\ \A b \in Covered(pass[p]) : BinShare(pass[p], b)
  BY AtWork
<1>2. /\ pc'[p] = label /\ status' = status
      /\ \A r \in Processes \ {p} : pc'[r] = pc[r] /\ next'[r] = next[r]
  BY <1>1 DEF GoTo, BuildTyped
<1>3. BuildTyped'
  <2>1. pc' \in [Processes -> {"none", "fork", "wait", "exited"} \union Working]
    BY <1>1 DEF GoTo, BuildTyped
  <2>2. next' \in [Processes -> Nat]
    BY <1>1 DEF GoTo, BuildTyped
  <2> QED BY <1>1, <1>2, <2>1, <2>2 DEF BuildTyped, inputs, parental
<1>4. Alone(p)
  BY <1>2 DEF Alone
<1>5. PICK q \in Passes : q = pass[p]
  BY <1>1
<1>6. ASSUME NEW b \in Covered(q) PROVE BinShare(q, b)'
  BY <1>1, <1>5, BinKept
<1>7. \A b \in Covered(pass[p]) : BinShare(pass[p], b)'
  BY <1>5, <1>6, Spelled
<1> QED BY <1>2, <1>3, <1>4, <1>7, StillThrough, Frame

\* A process ends its opening loop or its merge, which may have failed, and
\* goes on to the next loop.
LEMMA LoopEndsKeep ==
    ASSUME BuildInv, NEW p \in Processes, OpenEnds(p) \/ MergeFails(p) \/ MergeEnds(p)
    PROVE  BuildInv'
<1>0. pc[p] \in Working
  BY DEF OpenEnds, MergeFails, MergeEnds, Working
<1>1. /\ BuildTyped /\ Counts(p) /\ pass[p] \in Passes /\ next[p] \in Nat /\ status[p] = -1
      /\ PassMin(pass[p]) \in Nat /\ PassMax(pass[p]) \in Nat
      /\ PassMin(pass[p]) <= PassMax(pass[p])
      /\ Covered(pass[p]) = PassMin(pass[p])..PassMax(pass[p])
      /\ \A b \in Covered(pass[p]) : b \in Nat /\ b >= PassMin(pass[p]) /\ b <= PassMax(pass[p])
      /\ \A b \in Covered(pass[p]) : InPass(p, b)
  BY <1>0, AtWork, CoveredBins
<1>2. UNCHANGED <<inputs, bins, opened, pass, cut, parental>> /\ NoRecords \in Nat
  BY BuildAssumption DEF OpenEnds, MergeFails, MergeEnds
<1>3. PassMin(pass[p])' = PassMin(pass[p]) /\ PassMax(pass[p])' = PassMax(pass[p])
  BY <1>2 DEF PassMin, PassMax
<1>4. PICK q \in Passes : q = pass[p]
  BY <1>1
<1>5. ASSUME NEW b, NEW n PROVE Held(q, b, n)' <=> Held(q, b, n)
  BY <1>2 DEF Held, Holds, Share, From, inputs
<1>6. CASE OpenEnds(p)
  <2>1. pc'[p] = "merge" /\ next'[p] = 0 /\ status' = status /\ failed' = failed
    BY <1>1, <1>6 DEF OpenEnds, GoTo, BuildTyped
  <2>2. Counts(p)'
    BY <1>1, <1>2, <2>1 DEF Counts
  <2>3. ASSUME NEW b \in Covered(q) PROVE InPass(p, b)'
    <3>1. opened[b] = 1 /\ bins[b] = [entries |-> <<>>, state |-> "open"]
      BY <1>1, <1>4, <1>6 DEF OpenEnds, InPass
    <3>2. Share(b, next[p] - 1, cut[pass[p]])' = {}
      BY <2>1 DEF Share
    <3>3. Held(pass[p], b, next[p] - 1)'
      BY <1>2, <3>1, <3>2 DEF Held, Holds
    <3> QED BY <1>2, <2>1, <3>1, <3>3 DEF InPass
  <2>4. GoTo(p, "merge", 0) /\ "merge" \in Working /\ 0 \in Nat
    BY <1>6 DEF OpenEnds, Working
  <2>5. failed \subseteq failed' /\ failed' \subseteq Passes
    BY <1>1, <2>1 DEF BuildTyped
  <2>6. \A b \in Covered(pass[p]) : InPass(p, b)'
    BY <1>4, <2>3
  <2> QED BY <1>0, <1>2, <2>2, <2>4, <2>5, <2>6, GoToKeeps
<1>7. CASE MergeFails(p) \/ MergeEnds(p)
  <2>1. /\ GoTo(p, "close", PassMin(pass[p])) /\ "close" \in Working
        /\ pc[p] = "merge"
        /\ pc'[p] = "close" /\ next'[p] = PassMin(pass[p]) /\ status' = status
    BY <1>1, <1>7 DEF MergeFails, MergeEnds, GoTo, BuildTyped, Working
  <2>2. failed \subseteq failed' /\ failed' \subseteq Passes
    BY <1>1, <1>7 DEF MergeFails, MergeEnds, BuildTyped
  <2>3. Counts(p)'
    <3>1. PassMin(pass[p]) \in PassMin(pass[p])..(PassMax(pass[p]) + 1)
      BY <1>1
    <3> QED BY <1>1, <1>3, <2>1, <3>1 DEF Counts
  <2>4. ASSUME NEW b \in Covered(q) PROVE InPass(p, b)'
    <3>1. opened[b] = 1 /\ bins[b].state = "open" /\ Held(q, b, next[p] - 1)
      BY <1>1, <1>4, <2>1 DEF InPass
    <3>2. Held(q, b, NoRecords) \/ q \in failed'
      <4>1. CASE MergeFails(p)
        BY <1>4, <4>1 DEF MergeFails
      <4>2. CASE MergeEnds(p)
        <5>1. next[p] - 1 = NoRecords
          BY <1>1, <1>2, <2>1, <4>2 DEF MergeEnds, Counts
        <5> QED BY <3>1, <5>1
      <4> QED BY <1>7, <4>1, <4>2
    <3>3. Held(q, b, NoRecords)' \/ q \in failed'
      BY <1>5, <3>2
    <3>4. Held(pass[p], b, NoRecords)' \/ pass'[p] \in failed'
      BY <1>2, <1>4, <3>3 DEF Held
    <3>5. ~(b < next'[p])
      BY <1>1, <1>4, <2>1
    <3> QED BY <1>2, <2>1, <3>1, <3>4, <3>5 DEF InPass
  <2>5. \A b \in Covered(pass[p]) : InPass(p, b)'
    BY <1>4, <2>4
  <2> QED BY <1>0, <1>1, <1>2, <2>1, <2>2, <2>3, <2>5, GoToKeeps
<1> QED BY <1>6, <1>7

\* A process comes to the end of a torn tape: it reads on for ever or is ended.
LEMMA ReadTornKeeps ==
    ASSUME BuildInv, NEW p \in Processes, ReadTorn(p)
    PROVE  BuildInv'
<1>0. pc[p] \in Working /\ UNCHANGED <<inputs, work, parental>>
  BY DEF ReadTorn, Working
<1>1. CASE Exit(p, 1)
  BY <1>0, <1>1, ExitKeeps
<1>2. CASE pc' = [pc EXCEPT ![p] = "hung"] /\ UNCHANGED status
  <2>1. /\ BuildTyped /\ Counts(p) /\ pass[p] \in Passes /\ next[p] \in Nat /\ status[p] = -1
    BY <1>0, AtWork
  <2>2. pc'[p] = "hung" /\ status'[p] = -1 /\ next' = next
    BY <1>0, <1>2, <2>1 DEF BuildTyped, work
  <2>3. GoTo(p, "hung", next[p]) /\ "hung" \in Working
    BY <1>0, <1>2, <2>1 DEF GoTo, BuildTyped, work, Working
  <2>4. failed \subseteq failed' /\ failed' \subseteq Passes
    BY <1>0, <2>1 DEF BuildTyped, work
  <2>5. Counts(p)' /\ \A b \in Covered(pass[p]) : InPass(p, b)'
    BY <2>2 DEF Counts, InPass
  <2> QED BY <1>0, <2>1, <2>3, <2>4, <2>5, GoToKeeps DEF work
<1> QED BY <1>1, <1>2 DEF ReadTorn

\* A process closes the file of the next bin of its pass, which holds all that the
\* pass reads of its share unless the merge failed.
LEMMA CloseBinKeeps ==
    ASSUME BuildInv, NEW p \in Processes, CloseBin(p)
    PROVE  BuildInv'
<1>0. pc[p] = "close" /\ pc[p] \in Working
  BY DEF CloseBin, Working
<1>1. /\ BuildTyped /\ Counts(p) /\ pass[p] \in Passes /\ next[p] \in Nat
      /\ PassMin(pass[p]) \in Nat /\ PassMax(pass[p]) \in Nat
      /\ Covered(pass[p]) = PassMin(pass[p])..PassMax(pass[p])
      /\ Covered(pass[p]) \subseteq Bins
      /\ \A b \in Covered(pass[p]) : InPass(p, b) /\ BinShare(pass[p], b)
  BY <1>0, AtWork
<1>2. PICK c \in Covered(pass[p]) : c = next[p]
  BY DEF CloseBin
<1>3. /\ bins' = [bins EXCEPT ![c].state = "closed"]
      /\ next'[p] = c + 1 /\ \A r \in Processes \ {p} : next'[r] = next[r]
      /\ next' \in [Processes -> Nat]
      /\ UNCHANGED <<inputs, opened, pc, pass, cut, failed, parental, status>>
  BY <1>1, <1>2 DEF CloseBin, BuildTyped
<1>4. BuildTyped'
  <2>1. bins' \in [Bins -> [entries : Seq(Entries), state : {"none", "open", "closed"}]]
    BY <1>1, <1>3 DEF BuildTyped
  <2> QED BY <1>1, <1>3, <2>1 DEF BuildTyped, inputs, parental
<1>5. ASSUME NEW b \in Bins
      PROVE  /\ bins'[b].entries = bins[b].entries
             /\ bins'[b].state = IF b = c THEN "closed" ELSE bins[b].state
             /\ b # c => bins'[b] = bins[b]
  BY <1>1, <1>3 DEF BuildTyped
<1>6. Alone(p)
  BY <1>0, <1>3, <1>5 DEF Alone
<1>7. Counts(p)'
  <2>1. c + 1 \in PassMin(pass[p])..(PassMax(pass[p]) + 1)
    BY <1>1
  <2> QED BY <1>0, <1>1, <1>3, <2>1 DEF Counts, PassMin, PassMax
<1>8. PICK q \in Passes : q = pass[p]
  BY <1>1
<1>9. ASSUME NEW b \in Covered(q) PROVE InPass(p, b)' /\ BinShare(q, b)'
  <2>1. /\ b \in Nat /\ c \in Nat /\ b \in Bins /\ opened[b] = 1
        /\ Held(q, b, NoRecords) \/ q \in failed
        /\ bins[b].state = IF b < c THEN "closed" ELSE "open"
        /\ BinShare(q, b)
    BY <1>0, <1>1, <1>2, <1>8 DEF InPass
  <2>2. Held(q, b, NoRecords) => Full(b) \/ Lossy(q)
    BY <1>1, WholeShare
  <2>3. /\ \A n : Held(q, b, n)' <=> Held(q, b, n)
        /\ Full(b)' <=> Full(b)
        /\ Lossy(q)' <=> Lossy(q)
    BY <1>3, <1>5, <2>1 DEF Held, Full, Lossy, Holds, Share, From, Whole, inputs
  <2>4. InPass(p, b)'
    BY <1>0, <1>3, <1>5, <1>8, <2>1, <2>3 DEF InPass, Held
  <2>5. BinShare(q, b)'
    BY <1>3, <2>1, <2>2, <2>3 DEF BinShare
  <2> QED BY <2>4, <2>5
<1>10. \A b \in Covered(pass[p]) : InPass(p, b)' /\ BinShare(pass[p], b)'
  BY <1>3, <1>8, <1>9, Spelled
<1> QED BY <1>0, <1>3, <1>4, <1>6, <1>7, <1>10, StillThrough, Frame

\* A process ends its pass: a child exits, a single process goes on to the next
\* pass.
LEMMA PassEndsKeeps ==
    ASSUME BuildInv, NEW p \in Processes, PassEnds(p)
    PROVE  BuildInv'
<1>0. pc[p] = "close" /\ pc[p] \in Working
  BY DEF PassEnds, Working
<1>1. /\ BuildTyped /\ Counts(p) /\ pass[p] \in Passes /\ next[p] \in Nat /\ status[p] = -1
      /\ PassMin(pass[p]) \in Nat /\ PassMax(pass[p]) \in Nat
      /\ Covered(pass[p]) = PassMin(pass[p])..PassMax(pass[p])
      /\ Covered(pass[p]) \subseteq Bins
      /\ \A b \in Covered(pass[p]) : InPass(p, b) /\ BinShare(pass[p], b)
  BY <1>0, AtWork
<1>2. ASSUME NEW b \in Covered(pass[p]) PROVE bins[b].state = "closed"
  BY <1>0, <1>1 DEF PassEnds, InPass
<1>3. NoPasses \in Nat \ {0} /\ pass[p] \in 0..(NoPasses - 1)
  BY <1>1, PassesRound DEF Passes
<1>4. UNCHANGED <<inputs, bins, opened, cut, failed, parental>>
  BY DEF PassEnds
<1>5. CASE ~(p = Parent /\ pass[p] + 1 < NoPasses)
  <2>1. Exit(p, 0) /\ UNCHANGED <<pass, next>>
    BY <1>5 DEF PassEnds
  <2>2. /\ pc'[p] = "exited" /\ status'[p] = 0
        /\ \A r \in Processes \ {p} : pc'[r] = pc[r] /\ status'[r] = status[r]
    BY <1>1, <2>1 DEF Exit, BuildTyped
  <2>3. BuildTyped'
    BY <1>1, <1>4, <2>1 DEF Exit, BuildTyped, inputs, parental, Working
  <2>4. Alone(p)
    BY <1>4, <2>1, <2>2 DEF Alone
  <2>5. Counts(p)'
    BY <2>2 DEF Counts
  <2>6. ASSUME NEW b \in Covered(pass[p]) PROVE InPass(p, b)' /\ BinShare(pass[p], b)'
    <3>1. InPass(p, b)'
      BY <1>2, <1>4, <2>2 DEF InPass
    <3>2. PICK q \in Passes : q = pass[p]
      BY <1>1
    <3>3. BinShare(q, b)'
      BY <1>1, <1>4, <3>2, BinKept
    <3>4. BinShare(pass[p], b)'
      BY <2>1, <3>2, <3>3, Spelled
    <3> QED BY <3>1, <3>4
  <2>7. ~forking => pass[Parent] = NoPasses - 1
    BY <1>0, <1>3, <1>5, LoneWorker
  <2> QED BY <1>0, <2>3, <2>4, <2>5, <2>6, <2>7, Frame
<1>6. CASE p = Parent /\ pass[p] + 1 < NoPasses
  <2>1. /\ pass' = [pass EXCEPT ![p] = @ + 1]
        /\ GoTo(p, "open", PassMin(pass[p] + 1))
        /\ ~forking /\ forking' = forking
    BY <1>0, <1>4, <1>6, LoneWorker DEF PassEnds, inputs
  <2>2. PICK q \in Passes : q = pass[p] + 1 /\ q # 0
    BY <1>3, <1>6 DEF Passes
  <2>3. PassMin(q) \in Nat /\ PassMin(q) <= PassMax(q) /\ PassMax(q) \in Nat
        /\ Covered(q) = PassMin(q)..PassMax(q)
    BY CoveredBins DEF Covered
  <2>4. /\ pass'[p] = q /\ pc'[p] = "open" /\ next'[p] = PassMin(q) /\ status' = status
        /\ \A r \in Processes \ {p} :
             pass'[r] = pass[r] /\ pc'[r] = pc[r] /\ next'[r] = next[r]
    BY <1>1, <2>1, <2>2 DEF GoTo, BuildTyped
  <2>5. BuildTyped'
    <3>1. pc' \in [Processes -> {"none", "fork", "wait", "exited"} \union Working]
      BY <1>1, <2>1 DEF GoTo, BuildTyped, Working
    <3>2. next' \in [Processes -> Nat] /\ pass' \in [Processes -> Passes]
      BY <1>1, <2>1, <2>2, <2>3 DEF GoTo, BuildTyped
    <3> QED BY <1>1, <1>4, <2>4, <3>1, <3>2 DEF BuildTyped, inputs, parental
  <2>6. /\ \A r \in Passes : r \in Processes /\ r # p
        /\ \A r \in Passes : pc[r] = "none"
    BY <1>3, <1>6, <2>1 DEF Passes, Processes, Parent, BuildInv, Roles
  <2>7. Roles'
    BY <1>6, <2>1, <2>4, <2>6 DEF BuildInv, Roles, Working
  <2>8. Waiting'
    <3>1. Forked = {} /\ Forked' = {}
      BY <2>4, <2>6 DEF Forked
    <3>2. \A r \in reaped' : pc'[r] = "exited"
      BY <1>1, <1>4, <2>4, <2>6 DEF BuildInv, BuildTyped, Waiting, parental
    <3> QED BY <1>6, <2>1, <2>4, <3>1, <3>2 DEF Waiting
  <2>9. Counting'
    <3>1. ASSUME NEW r \in Processes PROVE Counts(r)'
      <4>1. CASE r = p
        BY <1>1, <2>3, <2>4, <4>1 DEF Counts
      <4>2. CASE r # p
        <5>1. Counts(r)
          BY DEF BuildInv, Counting
        <5> QED BY <2>4, <4>2, <5>1 DEF Counts, PassMin, PassMax
      <4> QED BY <4>1, <4>2
    <3> QED BY <3>1 DEF Counting
  <2>10. Begun'
    <3>1. SUFFICES ASSUME NEW r \in Passes, NEW b \in Covered(r)
                   PROVE  /\ q < r => Untouched(b)'
                          /\ r < q => bins'[b].state = "closed"
                          /\ r = q => InPass(p, b)'
      BY <1>6, <2>1, <2>4 DEF Begun, Worker, Covered, PassMin, PassMax, InPass
    <3>2. /\ pass[p] < r => Untouched(b)
          /\ r < pass[p] => bins[b].state = "closed"
      BY <1>0, <1>6, <2>1 DEF BuildInv, Begun, Worker, Working
    <3>3. Untouched(b) => Untouched(b)'
      BY <1>4 DEF Untouched
    <3>4. r \in Nat /\ pass[p] \in Nat /\ q = pass[p] + 1
      BY <1>3, <2>2 DEF Passes
    <3>5. CASE r = pass[p]
      BY <1>2, <1>4, <3>4, <3>5
    <3>6. CASE r = q
      <4>1. Untouched(b)' /\ ~(b < next'[p])
        BY <2>3, <2>4, <3>2, <3>3, <3>4, <3>6
      <4>2. InPass(p, b)'
        BY <2>4, <4>1 DEF InPass
      <4> QED BY <3>4, <3>6, <4>2
    <3>7. CASE r # pass[p] /\ r # q
      BY <1>4, <3>2, <3>3, <3>4, <3>7
    <3> QED BY <3>5, <3>6, <3>7
  <2>11. BinsAreShares'
    BY <1>4, FilesKept DEF BuildInv
  <2>12. Through'
    BY <1>1, <1>6, <2>4 DEF Through
  <2> QED BY <2>5, <2>7, <2>8, <2>9, <2>10, <2>11, <2>12 DEF BuildInv
<1> QED BY <1>5, <1>6

-----------------------------------------------------------------------------
(* The theorems                                                            *)

\* Every step keeps the invariant.
LEMMA BuildStep ==
    ASSUME BuildInv, [Next]_vars
    PROVE  BuildInv'
<1>1. CASE ParentStep
  BY <1>1, ParentKeeps
<1>2. ASSUME NEW p \in Processes, OpenFails(p) \/ CloseFails(p) \/ Killed(p) PROVE BuildInv'
  BY <1>2, ExitKeeps DEF OpenFails, CloseFails, Killed, Working
<1>3. ASSUME NEW p \in Processes, Step(p) PROVE BuildInv'
  BY <1>2, <1>3, OpenBinKeeps, LoopEndsKeep, FillHeapKeeps, MergeKeeps, ReadTornKeeps,
     CloseBinKeeps, PassEndsKeeps DEF Step
<1>4. CASE UNCHANGED vars
  <2> USE <1>4 DEF vars, inputs, work, parental
  <2>1. BuildTyped' /\ Roles' /\ Counting' /\ Through'
    BY DEF BuildInv, BuildTyped, Roles, Counting, Counts, PassMin, PassMax, Through
  <2>2. Waiting'
    BY DEF BuildInv, Waiting, Forked
  <2>3. BinsAreShares'
    BY FilesKept DEF BuildInv
  <2>4. Begun'
    <3>1. SUFFICES ASSUME NEW r \in Passes, NEW b \in Covered(r), NEW w, w = Worker(r)
                   PROVE  /\ pc'[w] = "none" \/ pass'[w] < r => Untouched(b)'
                          /\ pc'[w] # "none" /\ r < pass'[w] => bins'[b].state = "closed"
                          /\ pc'[w] # "none" /\ r = pass'[w] => InPass(w, b)'
      BY DEF Begun, Worker, Covered, PassMin, PassMax, InPass
    <3>2. /\ pc[w] = "none" \/ pass[w] < r => Untouched(b)
          /\ pc[w] # "none" /\ r < pass[w] => bins[b].state = "closed"
          /\ pc[w] # "none" /\ r = pass[w] => InPass(w, b)
      BY <3>1 DEF BuildInv, Begun
    <3>3. (Untouched(b) => Untouched(b)') /\ (InPass(w, b) => InPass(w, b)')
      BY FilesKept, PlaceKept DEF BuildInv
    <3> QED BY <3>2, <3>3
  <2> QED BY <2>1, <2>2, <2>3, <2>4 DEF BuildInv
<1> QED BY <1>1, <1>2, <1>3, <1>4 DEF Next

\* The invariant holds in every behaviour.
LEMMA BuildInvariance == Spec => []BuildInv
  BY BuildInit, BuildStep, PTL DEF Spec

\* Whatever fails, tapes that cannot be read to their ends included, and whichever
\* child is killed: no tree file is created twice; every file holds an unbroken
\* beginning of what its pass reads of its bin's share, in order; a file that was
\* closed holds all of that unless a write failed in its pass, and then also all that
\* the tapes have for its bin unless a read error took something from its pass.
THEOREM FilesAreShares == Spec => []BinsAreShares
  BY BuildInvariance, PTL DEF BuildInv

\* Where every fork worked, no write failed, no read error took a record or a part of
\* one from any pass, and every process ended with 0, every record is in the file of
\* its bin, summed up from all tapes that have it: the passes leave no bin out.
THEOREM GoodEndIsComplete == Spec => []WellMeansComplete
<1>1. BuildInv => WellMeansComplete
  <2> SUFFICES ASSUME BuildInv, AllWell, NEW b \in Bins
               PROVE  bins[b].state = "closed" /\ Full(b)
    BY DEF WellMeansComplete, Complete
  <2>1. PICK q \in Passes : b \in Covered(q)
    BY BinsCovered
  <2>2. /\ NoPasses \in Nat \ {0} /\ q \in 0..(NoPasses - 1)
        /\ q \in Processes /\ Parent \in Processes /\ q # Parent
    BY PassesRound DEF Passes, Processes, Parent
  <2>3. bins[b].state = "closed"
    <3>1. CASE forking
      <4>1. pc[q] # "none" /\ status[q] = 0
        BY <2>2, <3>1 DEF AllWell, Forked
      <4>2. pc[q] = "exited" /\ pass[q] = q
        BY <2>2, <4>1 DEF BuildInv, Counting, Counts, Roles
      <4> QED BY <2>1, <3>1, <4>1, <4>2 DEF BuildInv, Begun, Worker, InPass
    <3>2. CASE ~forking
      <4>1. pc[Parent] = "exited" /\ status[Parent] = 0
        BY <2>2 DEF AllWell
      <4>2. pass[Parent] = NoPasses - 1
        BY <3>2, <4>1 DEF BuildInv, Through
      <4>3. q < pass[Parent] \/ q = pass[Parent]
        BY <2>2, <4>2
      <4> QED BY <2>1, <3>2, <4>1, <4>3 DEF BuildInv, Begun, Worker, InPass
    <3> QED BY <3>1, <3>2
  <2>4. q \notin failed /\ ~Lossy(q)
    BY DEF AllWell
  <2> QED BY <2>1, <2>3, <2>4 DEF BuildInv, BinsAreShares
<1> QED BY <1>1, BuildInvariance, PTL

\* One wait per pass is enough, whatever fork returned: when the parent has ended, no
\* child runs.
THEOREM ParentIsLast == Spec => []ParentEndsLast
<1>1. BuildInv => ParentEndsLast
  <2> SUFFICES ASSUME BuildInv, pc[Parent] = "exited", NEW p \in Passes
               PROVE  pc[p] \in {"none", "exited"}
    BY DEF ParentEndsLast
  <2>1. CASE forking
    BY <2>1 DEF BuildInv, Waiting, Forked
  <2>2. CASE ~forking
    BY <2>2 DEF BuildInv, Roles
  <2> QED BY <2>1, <2>2
<1> QED BY <1>1, BuildInvariance, PTL

=============================================================================
