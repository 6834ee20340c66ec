---------------------------- MODULE AdmissionProofs ----------------------------
(***************************************************************************)
(* Proofs about Admission for any runtimes and platforms and any number of *)
(* faults: what an admitted run is, that nothing else than a fault rejects *)
(* one, and that the benchmark is tried whatever gate failed; and about    *)
(* the statistics of Timing for any counts, values and ceiling.            *)
(***************************************************************************)
EXTENDS Admission, WellFoundedInduction, TLAPS

(* A hung lane has come to its gate and stays there; a finished one was    *)
(* cancelled or is through; a successful one was not cancelled, no step of *)
(* it failed, and its receipts are uploaded.                               *)
Ended(l) ==
  /\ l \in hung => at[l] <= Len(Gates(l))
  /\ job[l] # "running" => l \in cancelled \/ at[l] = Len(Gates(l)) + 1
  /\ job[l] = "success" => l \notin broken \cup cancelled /\ l \in uploaded

(* The gates a lane has left behind were passed, unless a step failed or   *)
(* the one that measures was slow, and says so.                            *)
Passed(l) ==
  \A i \in 1 .. at[l] - 1 :
    \/ Gates(l)[i] \in good[l]
    \/ l \in broken
    \/ Gates(l)[i] = Timed(l) /\ files[l][Timed(l)] = "slow"

(* A runtime's lane that is through has tried its benchmark.               *)
Tried(l) ==
  l \in Runtime /\ at[l] > Len(Gates(l)) =>
    files[l]["performance"] # "none" \/ files[l]["cohort"] = "none"

(* Without a fault every gate that was passed left the receipt it has to.  *)
Receipted(l) ==
  faults = 0 =>
    /\ l \notin broken \cup hung \cup cancelled
    /\ job[l] \in {"running", "success"}
    /\ \A g \in Gate : files[l][g] \in {"none", "ok"}
    /\ \A i \in 1 .. at[l] - 1 :
         Gates(l)[i] \notin Unreceipted => files[l][Gates(l)[i]] = "ok"

Local(l) == Ended(l) /\ Passed(l) /\ Tried(l) /\ Receipted(l)

(* A verdict is given when all lanes have ended, and then nothing changes; *)
(* an admission rests on their results and on their receipts.              *)
Verdicts ==
  /\ verdict # "none" => \A l \in Lane : job[l] # "running"
  /\ verdict = "success" => Succeeded /\ Admissible
  /\ HonestPasses

IInv == /\ TypeOK /\ at \in [Lane -> Nat]
        /\ (\A l \in Lane : Local(l)) /\ Verdicts
-------------------------------------------------------------------------------
(* The gates of a lane are all different.                                  *)
LEMMA GateFacts ==
  ASSUME NEW l \in Lane
  PROVE  /\ Len(Gates(l)) \in Nat /\ Len(Gates(l)) >= 1
         /\ DOMAIN Gates(l) = 1 .. Len(Gates(l))
         /\ \A i \in 1 .. Len(Gates(l)) : Gates(l)[i] \in Gate
         /\ \A i, j \in 1 .. Len(Gates(l)) : Gates(l)[i] = Gates(l)[j] => i = j
         /\ Gates(l)[1] = "cohort" /\ Timed(l) \in Gate
         /\ l \in Runtime => Len(Gates(l)) = 5 /\ Gates(l)[5] = "performance"
<1>1. CASE l \in Runtime
  BY <1>1 DEF Gates, Gate, Timed
<1>2. CASE l \notin Runtime
  BY <1>2 DEF Gates, Gate, Timed
<1> QED
  BY <1>1, <1>2

(* A gate writes its own receipt, and no other.                            *)
LEMMA Leaving ==
  ASSUME TypeOK, NEW l \in Lane, Current(l) \in Gate, NEW r \in Receipt, Leave(l, r)
  PROVE  /\ files' \in [Lane -> [Gate -> Receipt]]
         /\ files'[l][Current(l)] = r
         /\ \A g \in Gate : g # Current(l) => files'[l][g] = files[l][g]
         /\ \A m \in Lane : m # l => files'[m] = files[m]
<1> DEFINE own == [files[l] EXCEPT ![Current(l)] = r]
<1>1. files \in [Lane -> [Gate -> Receipt]] /\ files[l] \in [Gate -> Receipt]
  BY DEF TypeOK
<1>2. own \in [Gate -> Receipt]
  BY <1>1
<1>3. files' = [files EXCEPT ![l] = own]
  BY DEF Leave
<1>4. /\ own[Current(l)] = r
      /\ \A g \in Gate : g # Current(l) => own[g] = files[l][g]
  BY <1>1
<1>5. /\ files' \in [Lane -> [Gate -> Receipt]] /\ files'[l] = own
      /\ \A m \in Lane : m # l => files'[m] = files[m]
  BY <1>1, <1>2, <1>3
<1> QED
  BY <1>4, <1>5

LEMMA Remaining ==
  ASSUME NEW l, NEW g
  PROVE  Remains(l, g) \subseteq Receipt
  BY DEF Remains, Receipt

(* The gate at which a lane is. *)
LEMMA AtGate ==
  ASSUME TypeOK, at \in [Lane -> Nat], NEW l \in Lane, at[l] <= Len(Gates(l))
  PROVE  /\ at[l] \in 1 .. Len(Gates(l)) /\ Current(l) \in Gate
         /\ \A i \in 1 .. at[l] - 1 : Gates(l)[i] \in Gate /\ Gates(l)[i] # Current(l)
<1>1. at[l] \in 1 .. Len(Gates(l)) /\ Len(Gates(l)) \in Nat
  BY GateFacts DEF TypeOK
<1>2. \A i \in 1 .. at[l] - 1 : i \in 1 .. Len(Gates(l)) /\ i # at[l]
  BY <1>1
<1> QED
  BY <1>1, <1>2, GateFacts DEF Current

Moves(l) == Pass(l) \/ Slow(l) \/ Fail(l) \/ Skip(l) \/ Hang(l) \/ Cancel(l)
LaneStep(l) == Moves(l) \/ Upload(l)

(* A lane moves only while its job runs, and at most its receipt of the    *)
(* gate it is at changes.                                                  *)
LEMMA LaneFacts ==
  ASSUME TypeOK, at \in [Lane -> Nat], NEW l \in Lane, Local(l), LaneStep(l)
  PROVE  /\ job[l] = "running"
         /\ UNCHANGED <<profile, aggregate>>
         /\ faults' \in 0 .. MaxFaults /\ faults' >= faults
         /\ Upload(l) => UNCHANGED files
         /\ UNCHANGED files \/ \E r \in Receipt : Leave(l, r)
         /\ Moves(l) => at[l] <= Len(Gates(l))
<1>1. MaxFaults \in Nat /\ faults \in 0 .. MaxFaults
  BY LaneAssumption DEF TypeOK
<1>2. Remains(l, Current(l)) \subseteq Receipt /\ {"none", "slow", "ok"} \subseteq Receipt
  BY Remaining DEF Receipt
<1>3. CASE Pass(l)
  <2>1. job[l] = "running" /\ at[l] <= Len(Gates(l))
    BY <1>3 DEF Pass, Gating
  <2>2. UNCHANGED <<profile, aggregate>>
    BY <1>3 DEF Pass
  <2>3. faults' \in 0 .. MaxFaults /\ faults' >= faults
    BY <1>3, <1>1 DEF Pass
  <2>4. UNCHANGED files \/ \E r \in Receipt : Leave(l, r)
    BY <1>3, <1>2 DEF Pass
  <2>5. Upload(l) => UNCHANGED files
    BY DEF Upload
  <2> QED  BY <2>1, <2>2, <2>3, <2>4, <2>5
<1>4. CASE Slow(l)
  <2>1. job[l] = "running" /\ at[l] <= Len(Gates(l))
    BY <1>4 DEF Slow, Gating
  <2>2. UNCHANGED <<profile, aggregate>>
    BY <1>4 DEF Slow
  <2>3. faults' \in 0 .. MaxFaults /\ faults' >= faults
    BY <1>4, <1>1 DEF Slow, Fault
  <2>4. UNCHANGED files \/ \E r \in Receipt : Leave(l, r)
    BY <1>4, <1>2 DEF Slow
  <2>5. Upload(l) => UNCHANGED files
    BY DEF Upload
  <2> QED  BY <2>1, <2>2, <2>3, <2>4, <2>5
<1>5. CASE Fail(l)
  <2>1. job[l] = "running" /\ at[l] <= Len(Gates(l))
    BY <1>5 DEF Fail, Gating
  <2>2. UNCHANGED <<profile, aggregate>>
    BY <1>5 DEF Fail
  <2>3. faults' \in 0 .. MaxFaults /\ faults' >= faults
    BY <1>5, <1>1 DEF Fail, Fault
  <2>4. UNCHANGED files \/ \E r \in Receipt : Leave(l, r)
    BY <1>5, <1>2 DEF Fail
  <2>5. Upload(l) => UNCHANGED files
    BY DEF Upload
  <2> QED  BY <2>1, <2>2, <2>3, <2>4, <2>5
<1>6. CASE Skip(l)
  <2>1. job[l] = "running" /\ at[l] <= Len(Gates(l))
    BY <1>6 DEF Skip, Gating
  <2>2. UNCHANGED <<profile, aggregate>>
    BY <1>6 DEF Skip
  <2>3. faults' \in 0 .. MaxFaults /\ faults' >= faults
    BY <1>6, <1>1 DEF Skip
  <2>4. UNCHANGED files \/ \E r \in Receipt : Leave(l, r)
    BY <1>6, <1>2 DEF Skip
  <2>5. Upload(l) => UNCHANGED files
    BY DEF Upload
  <2> QED  BY <2>1, <2>2, <2>3, <2>4, <2>5
<1>7. CASE Hang(l)
  <2>1. job[l] = "running" /\ at[l] <= Len(Gates(l))
    BY <1>7 DEF Hang, Gating
  <2>2. UNCHANGED <<profile, aggregate>>
    BY <1>7 DEF Hang
  <2>3. faults' \in 0 .. MaxFaults /\ faults' >= faults
    BY <1>7, <1>1 DEF Hang, Fault
  <2>4. UNCHANGED files \/ \E r \in Receipt : Leave(l, r)
    BY <1>7, <1>2 DEF Hang
  <2>5. Upload(l) => UNCHANGED files
    BY DEF Upload
  <2> QED  BY <2>1, <2>2, <2>3, <2>4, <2>5
<1>8. CASE Cancel(l)
  <2>1. job[l] = "running" /\ at[l] <= Len(Gates(l))
    BY <1>8, GateFacts DEF Cancel, Gating, Local, Ended
  <2>2. UNCHANGED <<profile, aggregate>>
    BY <1>8 DEF Cancel
  <2>3. faults' \in 0 .. MaxFaults /\ faults' >= faults
    BY <1>8, <1>1 DEF Cancel, Fault
  <2>4. UNCHANGED files \/ \E r \in Receipt : Leave(l, r)
    BY <1>8, <1>2 DEF Cancel
  <2>5. Upload(l) => UNCHANGED files
    BY DEF Upload
  <2> QED  BY <2>1, <2>2, <2>3, <2>4, <2>5
<1>10. Moves(l) => at[l] <= Len(Gates(l))
  BY GateFacts DEF Moves, Pass, Slow, Fail, Skip, Hang, Cancel, Gating, Local, Ended
<1>9. CASE Upload(l)
  <2>1. UNCHANGED <<profile, aggregate, files>> /\ job[l] = "running"
    BY <1>9 DEF Upload
  <2>2. faults' \in 0 .. MaxFaults /\ faults' >= faults
    BY <1>9, <1>1 DEF Upload, Fault
  <2> QED  BY <1>10, <2>1, <2>2
<1> QED
  BY <1>3, <1>4, <1>5, <1>6, <1>7, <1>8, <1>9, <1>10 DEF LaneStep, Moves

(* What a step of a lane writes. *)
LEMMA Writing ==
  ASSUME TypeOK, at \in [Lane -> Nat], NEW l \in Lane, Local(l), LaneStep(l)
  PROVE  /\ files' \in [Lane -> [Gate -> Receipt]]
         /\ \A m \in Lane : m # l => files'[m] = files[m]
         /\ \A g \in Gate : g # Current(l) => files'[l][g] = files[l][g]
         /\ at[l] > Len(Gates(l)) => files' = files
         /\ \A i \in 1 .. at[l] - 1 :
              files'[l][Gates(l)[i]] = files[l][Gates(l)[i]]
         /\ \A r \in Receipt : Moves(l) /\ Leave(l, r) => files'[l][Current(l)] = r
<1>1. /\ Moves(l) => at[l] <= Len(Gates(l))
      /\ UNCHANGED files \/ \E r \in Receipt : Leave(l, r)
      /\ Upload(l) => UNCHANGED files
      /\ files \in [Lane -> [Gate -> Receipt]]
      /\ at[l] \in Nat /\ Len(Gates(l)) \in Nat
  BY LaneFacts, GateFacts DEF TypeOK
<1>2. CASE Moves(l)
  <2>1. /\ Current(l) \in Gate
        /\ \A i \in 1 .. at[l] - 1 : Gates(l)[i] \in Gate /\ Gates(l)[i] # Current(l)
    BY <1>1, <1>2, AtGate
  <2>2. ~(at[l] > Len(Gates(l)))
    BY <1>1, <1>2
  <2>3. /\ files' \in [Lane -> [Gate -> Receipt]]
        /\ \A m \in Lane : m # l => files'[m] = files[m]
        /\ \A g \in Gate : g # Current(l) => files'[l][g] = files[l][g]
    BY <1>1, <2>1, Leaving
  <2>4. \A r \in Receipt : Leave(l, r) => files'[l][Current(l)] = r
    BY <2>1, Leaving
  <2> QED  BY <2>1, <2>2, <2>3, <2>4
<1>3. CASE Upload(l) /\ ~Moves(l)
  BY <1>1, <1>3
<1> QED
  BY <1>2, <1>3 DEF LaneStep

(* Nothing happens to the other lanes.                                      *)
LEMMA Elsewhere ==
  ASSUME TypeOK, at \in [Lane -> Nat], NEW l \in Lane, Local(l), LaneStep(l), NEW m \in Lane, m # l
  PROVE  /\ at'[m] = at[m] /\ good'[m] = good[m] /\ job'[m] = job[m]
         /\ m \in broken' <=> m \in broken
         /\ m \in hung' <=> m \in hung
         /\ m \in cancelled' <=> m \in cancelled
         /\ m \in uploaded' <=> m \in uploaded
         /\ files'[m] = files[m]
<1>a. files'[m] = files[m]
  BY Writing
<1>1. CASE Pass(l)
  BY <1>1, <1>a DEF Pass, Moves, TypeOK
<1>2. CASE Slow(l)
  BY <1>2, <1>a DEF Slow, Moves, TypeOK
<1>3. CASE Fail(l)
  BY <1>3, <1>a DEF Fail, Moves, TypeOK
<1>4. CASE Skip(l)
  BY <1>4, <1>a DEF Skip, Moves, TypeOK
<1>5. CASE Hang(l)
  BY <1>5, <1>a DEF Hang, Moves, TypeOK
<1>6. CASE Cancel(l)
  BY <1>6, <1>a DEF Cancel, Moves, TypeOK
<1>7. CASE Upload(l)
  BY <1>7, <1>a DEF Upload, Moves, TypeOK
<1> QED
  BY <1>a, <1>1, <1>2, <1>3, <1>4, <1>5, <1>6, <1>7 DEF LaneStep, Moves

LEMMA OtherLane ==
  ASSUME TypeOK, at \in [Lane -> Nat], NEW l \in Lane, Local(l), LaneStep(l),
         NEW m \in Lane, m # l, Local(m)
  PROVE  Local(m)'
<1>1. /\ at'[m] = at[m] /\ good'[m] = good[m] /\ job'[m] = job[m]
      /\ m \in broken' <=> m \in broken
      /\ m \in hung' <=> m \in hung
      /\ m \in cancelled' <=> m \in cancelled
      /\ m \in uploaded' <=> m \in uploaded
      /\ files'[m] = files[m]
  BY Elsewhere
<1>2. faults' = 0 => faults = 0
  BY LaneFacts, LaneAssumption DEF TypeOK
<1>3. Unreceipted' = Unreceipted
  BY LaneFacts DEF Unreceipted
<1>4. Ended(m)' /\ Passed(m)' /\ Tried(m)'
  BY <1>1 DEF Local, Ended, Passed, Tried
<1>5. Receipted(m)'
  BY <1>1, <1>2, <1>3 DEF Local, Receipted
<1> QED
  BY <1>4, <1>5 DEF Local

(* A lane keeps every variable in its type.                                 *)
LEMMA LaneType ==
  ASSUME TypeOK, at \in [Lane -> Nat], NEW l \in Lane, Local(l), LaneStep(l)
  PROVE  TypeOK' /\ at' \in [Lane -> Nat]
<1>a. /\ files' \in [Lane -> [Gate -> Receipt]] /\ UNCHANGED <<profile, aggregate>>
      /\ faults' \in 0 .. MaxFaults
  BY LaneFacts, Writing
<1>b. \A m \in Lane : at[m] \in 1 .. Len(Gates(m)) + 1 /\ Len(Gates(m)) \in Nat
  BY GateFacts DEF TypeOK
<1>c. Moves(l) => /\ at[l] \in 1 .. Len(Gates(l)) /\ Current(l) \in Gate
  BY LaneFacts, AtGate
<1>1. CASE Pass(l)
  <2>1. at' = [at EXCEPT ![l] = at[l] + 1] /\ Moves(l)
    BY <1>1 DEF Pass, Moves
  <2>2. /\ at' \in [Lane -> Nat]
        /\ \A m \in Lane : at'[m] \in 1 .. Len(Gates(m)) + 1
    BY <1>b, <1>c, <2>1
  <2>3. good' \in [Lane -> SUBSET Gate]
    BY <1>1, <1>c, <2>1 DEF Pass, TypeOK
  <2> QED  BY <1>1, <1>a, <2>2, <2>3 DEF Pass, TypeOK, aggregate
<1>2. CASE Slow(l)
  <2>1. at' = [at EXCEPT ![l] = at[l] + 1] /\ Moves(l)
    BY <1>2 DEF Slow, Moves
  <2>2. /\ at' \in [Lane -> Nat]
        /\ \A m \in Lane : at'[m] \in 1 .. Len(Gates(m)) + 1
    BY <1>b, <1>c, <2>1
  <2>3. good' \in [Lane -> SUBSET Gate]
    BY <1>2, <1>c, <2>1 DEF Slow, TypeOK
  <2> QED  BY <1>2, <1>a, <2>2, <2>3 DEF Slow, TypeOK, aggregate
<1>3. CASE Fail(l)
  <2>1. at' = [at EXCEPT ![l] = at[l] + 1] /\ Moves(l)
    BY <1>3 DEF Fail, Moves
  <2>2. /\ at' \in [Lane -> Nat]
        /\ \A m \in Lane : at'[m] \in 1 .. Len(Gates(m)) + 1
    BY <1>b, <1>c, <2>1
  <2>3. broken' \subseteq Lane
    BY <1>3, <1>c, <2>1 DEF Fail, TypeOK
  <2> QED  BY <1>3, <1>a, <2>2, <2>3 DEF Fail, TypeOK, aggregate
<1>4. CASE Skip(l)
  BY <1>4, <1>a, <1>b, <1>c DEF Skip, Moves, TypeOK, Gating, aggregate
<1>5. CASE Hang(l)
  BY <1>5, <1>a, <1>b, <1>c DEF Hang, Moves, TypeOK, Gating, aggregate
<1>6. CASE Cancel(l)
  BY <1>6, <1>a, <1>b, <1>c DEF Cancel, Moves, TypeOK, Gating, aggregate
<1>7. CASE Upload(l)
  <2>1. uploaded' \subseteq Lane
    BY <1>7 DEF Upload, TypeOK
  <2>2. job' \in [Lane -> {"running", "success", "failure", "cancelled"}]
    BY <1>7 DEF Upload, TypeOK
  <2> QED  BY <1>7, <1>a, <2>1, <2>2 DEF Upload, TypeOK, aggregate
<1> QED
  BY <1>1, <1>2, <1>3, <1>4, <1>5, <1>6, <1>7 DEF LaneStep, Moves

(* A lane ends only when it is through, or cancelled.                       *)
LEMMA EndedStep ==
  ASSUME TypeOK, at \in [Lane -> Nat], NEW l \in Lane, Local(l), LaneStep(l)
  PROVE  Ended(l)'
<1>a. job[l] = "running" /\ (Moves(l) => at[l] <= Len(Gates(l)))
  BY LaneFacts
<1>b. at[l] \in Nat /\ Len(Gates(l)) \in Nat
  BY GateFacts
<1>1. CASE Pass(l)
  BY <1>1, <1>a, <1>b DEF Pass, Moves, Ended, Local, Gating, TypeOK
<1>2. CASE Slow(l)
  BY <1>2, <1>a, <1>b DEF Slow, Moves, Ended, Local, Gating, TypeOK
<1>3. CASE Fail(l)
  BY <1>3, <1>a, <1>b DEF Fail, Moves, Ended, Local, Gating, TypeOK
<1>4. CASE Skip(l)
  BY <1>4, <1>a, <1>b DEF Skip, Moves, Ended, Local, Gating, TypeOK
<1>5. CASE Hang(l)
  BY <1>5, <1>a, <1>b DEF Hang, Moves, Ended, Local, Gating, TypeOK
<1>6. CASE Cancel(l)
  BY <1>6, <1>a, <1>b DEF Cancel, Moves, Ended, Local, Gating, TypeOK
<1>7. CASE Upload(l)
  BY <1>7, <1>a, <1>b DEF Upload, Moves, Ended, Local, Gating, TypeOK
<1> QED
  BY <1>1, <1>2, <1>3, <1>4, <1>5, <1>6, <1>7 DEF LaneStep, Moves

(* What lies behind a lane stays passed, and its receipts are kept.         *)
LEMMA PassedStep ==
  ASSUME TypeOK, at \in [Lane -> Nat], NEW l \in Lane, Local(l), LaneStep(l)
  PROVE  Passed(l)'
<1>a. Moves(l) => at[l] \in 1 .. Len(Gates(l)) /\ Current(l) \in Gate
  BY LaneFacts, AtGate
<1>b. at[l] \in Nat /\ Len(Gates(l)) \in Nat /\ Timed(l) \in Gate
  BY GateFacts
<1>c. \A i \in 1 .. at[l] - 1 : files'[l][Gates(l)[i]] = files[l][Gates(l)[i]]
  BY Writing
<1>d. \A r \in Receipt : Moves(l) /\ Leave(l, r) => files'[l][Current(l)] = r
  BY Writing
<1>f. \A i \in 1 .. at[l] - 1 :
        \/ Gates(l)[i] \in good[l]
        \/ l \in broken
        \/ Gates(l)[i] = Timed(l) /\ files'[l][Timed(l)] = "slow"
  BY <1>c DEF Local, Passed
<1>1. CASE Pass(l)
  <2>1. /\ at'[l] = at[l] + 1 /\ good'[l] = good[l] \cup {Current(l)}
        /\ broken' = broken
    BY <1>1 DEF Pass, TypeOK
  <2>2. \A i \in 1 .. at'[l] - 1 : i \in 1 .. at[l] - 1 \/ i = at[l]
    BY <1>b, <2>1
  <2> QED  BY <1>f, <2>1, <2>2 DEF Passed, Current
<1>2. CASE Slow(l)
  <2>1. /\ at'[l] = at[l] + 1 /\ good' = good /\ broken' = broken
        /\ Current(l) = Timed(l) /\ Leave(l, "slow")
    BY <1>2 DEF Slow, TypeOK
  <2>2. \A i \in 1 .. at'[l] - 1 : i \in 1 .. at[l] - 1 \/ i = at[l]
    BY <1>b, <2>1
  <2>3. files'[l][Timed(l)] = "slow"
    <3>1. "slow" \in Receipt /\ Moves(l)
      BY <1>2 DEF Receipt, Moves
    <3> QED  BY <1>d, <2>1, <3>1
  <2> QED  BY <1>f, <2>1, <2>2, <2>3 DEF Passed, Current
<1>3. CASE Fail(l)
  BY <1>3 DEF Fail, Passed
<1>4. CASE Skip(l)
  BY <1>4 DEF Skip, Runs, Passed
<1>5. CASE Hang(l)
  BY <1>5, <1>a, <1>b, <1>f DEF Hang, Moves, Passed, TypeOK
<1>6. CASE Cancel(l)
  BY <1>6, <1>a, <1>b, <1>f DEF Cancel, Moves, Passed, TypeOK
<1>7. CASE Upload(l)
  BY <1>7, <1>a, <1>b, <1>f DEF Upload, Moves, Passed, TypeOK
<1> QED
  BY <1>1, <1>2, <1>3, <1>4, <1>5, <1>6, <1>7 DEF LaneStep, Moves

(* The benchmark is tried whatever went wrong before it, but for a checkout.*)
LEMMA TriedStep ==
  ASSUME TypeOK, at \in [Lane -> Nat], NEW l \in Lane, Local(l), LaneStep(l)
  PROVE  Tried(l)'
<1>a. /\ at[l] \in Nat /\ Len(Gates(l)) \in Nat
      /\ l \in Runtime => Len(Gates(l)) = 5
  BY GateFacts
<1>b. Moves(l) => at[l] <= Len(Gates(l)) /\ ~(at[l] > Len(Gates(l)))
  BY <1>a, LaneFacts
<1>1. CASE Pass(l)
  <2>1. at'[l] = at[l] + 1
    BY <1>1 DEF Pass, TypeOK
  <2>2. CASE l \in Runtime /\ at[l] = 5
    <3>1. Current(l) = "performance" /\ "ok" \in Receipt /\ "performance" \in Gate
      BY <1>a, <2>2, GateFacts DEF Current, Receipt, Gate
    <3>2. "performance" \notin Unreceipted
      BY DEF Unreceipted
    <3>3. Leave(l, "ok") /\ Moves(l)
      BY <1>1, <3>1, <3>2 DEF Pass, Moves
    <3>4. files'[l]["performance"] = "ok"
      BY <3>1, <3>3, Writing
    <3> QED  BY <3>4 DEF Tried
  <2>3. CASE ~(l \in Runtime /\ at[l] = 5)
    <3>1. Moves(l)
      BY <1>1 DEF Moves
    <3>2. l \in Runtime => ~(at'[l] > Len(Gates(l)))
      <4> SUFFICES ASSUME l \in Runtime
                   PROVE  ~(at[l] + 1 > 5)
        BY <1>a, <2>1
      <4>1. at[l] \in Nat /\ at[l] <= 5 /\ at[l] # 5
        BY <1>a, <1>b, <2>3, <3>1
      <4> QED  BY <4>1
    <3> QED  BY <3>2 DEF Tried
  <2> QED  BY <2>2, <2>3
<1>2. CASE Slow(l)
  <2>1. at'[l] = at[l] + 1
    BY <1>2 DEF Slow, TypeOK
  <2>2. CASE l \in Runtime /\ at[l] = 5
    <3>1. Current(l) = "performance" /\ "slow" \in Receipt
      BY <1>a, <2>2, GateFacts DEF Current, Receipt
    <3>2. Leave(l, "slow") /\ Moves(l)
      BY <1>2 DEF Slow, Moves
    <3>3. files'[l]["performance"] = "slow"
      BY <3>1, <3>2, Writing
    <3> QED  BY <3>3 DEF Tried
  <2>3. CASE ~(l \in Runtime /\ at[l] = 5)
    <3>1. Moves(l)
      BY <1>2 DEF Moves
    <3>2. l \in Runtime => ~(at'[l] > Len(Gates(l)))
      <4> SUFFICES ASSUME l \in Runtime
                   PROVE  ~(at[l] + 1 > 5)
        BY <1>a, <2>1
      <4>1. at[l] \in Nat /\ at[l] <= 5 /\ at[l] # 5
        BY <1>a, <1>b, <2>3, <3>1
      <4> QED  BY <4>1
    <3> QED  BY <3>2 DEF Tried
  <2> QED  BY <2>2, <2>3
<1>3. CASE Fail(l)
  <2>1. at'[l] = at[l] + 1
    BY <1>3 DEF Fail, TypeOK
  <2>2. CASE l \in Runtime /\ at[l] = 5
    <3>1. Current(l) = "performance" /\ "cohort" \in Gate
      BY <1>a, <2>2, GateFacts DEF Current, Gate
    <3>2. PICK r \in Remains(l, "performance") : Leave(l, r)
      BY <1>3, <3>1 DEF Fail
    <3>3. r # "none" \/ files[l]["cohort"] = "none"
      BY <3>2 DEF Remains, Piped
    <3>4. r \in Receipt /\ Moves(l)
      BY <1>3, <3>2, Remaining DEF Moves
    <3>5. files'[l]["performance"] = r /\ files'[l]["cohort"] = files[l]["cohort"]
      BY <3>1, <3>2, <3>4, Writing
    <3> QED  BY <3>3, <3>5 DEF Tried
  <2>3. CASE ~(l \in Runtime /\ at[l] = 5)
    <3>1. Moves(l)
      BY <1>3 DEF Moves
    <3>2. l \in Runtime => ~(at'[l] > Len(Gates(l)))
      <4> SUFFICES ASSUME l \in Runtime
                   PROVE  ~(at[l] + 1 > 5)
        BY <1>a, <2>1
      <4>1. at[l] \in Nat /\ at[l] <= 5 /\ at[l] # 5
        BY <1>a, <1>b, <2>3, <3>1
      <4> QED  BY <4>1
    <3> QED  BY <3>2 DEF Tried
  <2> QED  BY <2>2, <2>3
<1>4. CASE Skip(l)
  <2>1. at'[l] = at[l] + 1 /\ ~Runs(l)
    BY <1>4 DEF Skip, TypeOK
  <2>2. l \in Runtime => at[l] # 5
    <3> SUFFICES ASSUME l \in Runtime, at[l] = 5
                 PROVE  Runs(l)
      BY <2>1
    <3>1. Current(l) = "performance"
      BY GateFacts DEF Current
    <3> QED  BY <3>1 DEF Runs, Always
  <2>3. Moves(l)
    BY <1>4 DEF Moves
  <2>4. l \in Runtime => ~(at'[l] > Len(Gates(l)))
    <3> SUFFICES ASSUME l \in Runtime
                 PROVE  ~(at[l] + 1 > 5)
      BY <1>a, <2>1
    <3>1. at[l] \in Nat /\ at[l] <= 5 /\ at[l] # 5
      BY <1>a, <1>b, <2>2, <2>3
    <3> QED  BY <3>1
  <2> QED  BY <2>4 DEF Tried
<1>5. CASE Hang(l)
  <2>1. at' = at /\ Moves(l)
    BY <1>5 DEF Hang, Moves
  <2> QED  BY <1>b, <2>1 DEF Tried
<1>6. CASE Cancel(l)
  <2>1. at' = at /\ Moves(l)
    BY <1>6 DEF Cancel, Moves
  <2> QED  BY <1>b, <2>1 DEF Tried
<1>7. CASE Upload(l)
  <2>1. at' = at /\ files' = files
    BY <1>7 DEF Upload
  <2> QED  BY <2>1 DEF Tried, Local
<1> QED
  BY <1>1, <1>2, <1>3, <1>4, <1>5, <1>6, <1>7 DEF LaneStep, Moves

(* Where nothing goes wrong every gate leaves its receipt, every lane its  *)
(* upload.                                                                 *)
LEMMA ReceiptedStep ==
  ASSUME TypeOK, at \in [Lane -> Nat], NEW l \in Lane, Local(l), LaneStep(l)
  PROVE  Receipted(l)'
<1> SUFFICES ASSUME faults' = 0
             PROVE  Receipted(l)'
  BY DEF Receipted
<1>a. faults = 0 /\ ~Fault
  <2>1. MaxFaults \in Nat /\ faults \in 0 .. MaxFaults /\ faults' >= faults
    BY LaneFacts, LaneAssumption DEF TypeOK
  <2> QED  BY <2>1 DEF Fault
<1>b. /\ l \notin broken \cup hung \cup cancelled
      /\ job[l] \in {"running", "success"}
      /\ \A g \in Gate : files[l][g] \in {"none", "ok"}
      /\ \A i \in 1 .. at[l] - 1 :
           Gates(l)[i] \notin Unreceipted => files[l][Gates(l)[i]] = "ok"
  BY <1>a DEF Local, Receipted
<1>c. Unreceipted' = Unreceipted
  BY LaneFacts DEF Unreceipted
<1>d. /\ at[l] \in Nat /\ Len(Gates(l)) \in Nat /\ Len(Gates(l)) >= 1
      /\ Gates(l)[1] = "cohort" /\ "cohort" \in Gate
  BY GateFacts DEF Gate
<1>1. CASE Pass(l)
  <2>1. /\ at'[l] = at[l] + 1 /\ broken' = broken /\ hung' = hung
        /\ cancelled' = cancelled /\ job' = job /\ Moves(l)
    BY <1>1 DEF Pass, TypeOK, Moves
  <2> DEFINE r == IF Current(l) \in Unreceipted THEN "none" ELSE "ok"
  <2>2. Leave(l, r) /\ r \in Receipt /\ r \in {"none", "ok"}
    BY <1>1 DEF Pass, Receipt
  <2>3. /\ files'[l][Current(l)] = r
        /\ \A g \in Gate : g # Current(l) => files'[l][g] = files[l][g]
        /\ \A i \in 1 .. at[l] - 1 :
             files'[l][Gates(l)[i]] = files[l][Gates(l)[i]]
    BY <2>1, <2>2, Writing
  <2>4. \A g \in Gate : files'[l][g] \in {"none", "ok"}
    BY <1>b, <2>2, <2>3
  <2>5. \A i \in 1 .. at'[l] - 1 : i \in 1 .. at[l] - 1 \/ i = at[l]
    BY <1>d, <2>1
  <2>6. \A i \in 1 .. at'[l] - 1 :
          Gates(l)[i] \notin Unreceipted => files'[l][Gates(l)[i]] = "ok"
    BY <1>b, <2>3, <2>5 DEF Current
  <2> QED  BY <1>b, <1>c, <2>1, <2>4, <2>6 DEF Receipted
<1>2. CASE Slow(l) \/ Fail(l) \/ Hang(l)
  BY <1>2, <1>a DEF Slow, Fail, Hang
<1>3. CASE Skip(l)
  BY <1>3, <1>b DEF Skip, Runs
<1>4. CASE Cancel(l)
  BY <1>4, <1>a, <1>b DEF Cancel
<1>5. CASE Upload(l)
  <2>1. at[l] = Len(Gates(l)) + 1
    BY <1>5, <1>b DEF Upload
  <2>2. files[l]["cohort"] = "ok"
    <3>1. 1 \in 1 .. at[l] - 1
      BY <1>d, <2>1
    <3>2. "cohort" \notin Unreceipted
      BY DEF Unreceipted
    <3> QED  BY <1>b, <1>d, <3>1, <3>2
  <2>3. l \in uploaded'
    BY <1>5, <1>a, <1>d, <2>2 DEF Upload
  <2>4. job'[l] = "success"
    <3>1. job \in [Lane -> {"running", "success", "failure", "cancelled"}]
      BY DEF TypeOK
    <3> QED  BY <1>5, <1>b, <2>3, <3>1 DEF Upload
  <2>5. /\ at' = at /\ files' = files /\ broken' = broken /\ hung' = hung
        /\ cancelled' = cancelled
    BY <1>5 DEF Upload
  <2> QED  BY <1>b, <1>c, <2>4, <2>5 DEF Receipted
<1> QED
  BY <1>1, <1>2, <1>3, <1>4, <1>5 DEF LaneStep, Moves

-------------------------------------------------------------------------------
(* What the summary finds of a run in which nothing went wrong. *)
LEMMA HonestRun ==
  ASSUME TypeOK, \A l \in Lane : Local(l), Finished, faults = 0
  PROVE  /\ Succeeded /\ Admissible
         /\ \A l \in Lane, g \in Gate : Collected(l, g) # "torn"
<1>1. \A l \in Lane :
        /\ job[l] = "success" /\ l \in uploaded /\ at[l] = Len(Gates(l)) + 1
        /\ \A g \in Gate : files[l][g] \in {"none", "ok"}
        /\ \A i \in 1 .. at[l] - 1 :
             Gates(l)[i] \notin Unreceipted => files[l][Gates(l)[i]] = "ok"
  BY DEF Finished, Local, Ended, Receipted
<1>2. \A l \in Lane : \A i \in 1 .. Len(Gates(l)) :
        Gates(l)[i] \notin Unreceipted => Collected(l, Gates(l)[i]) = "ok"
  <2> SUFFICES ASSUME NEW l \in Lane, NEW i \in 1 .. Len(Gates(l)),
                      Gates(l)[i] \notin Unreceipted
               PROVE  Collected(l, Gates(l)[i]) = "ok"
    OBVIOUS
  <2>1. i \in 1 .. at[l] - 1
    BY <1>1, GateFacts
  <2> QED  BY <1>1, <2>1 DEF Collected
<1>3. \A l \in Runtime : \A g \in {"quality", "performance", "explicit"} \ Unreceipted :
        Collected(l, g) = "ok"
  <2> SUFFICES ASSUME NEW l \in Runtime,
                      NEW g \in {"quality", "performance", "explicit"} \ Unreceipted
               PROVE  Collected(l, g) = "ok"
    OBVIOUS
  <2>1. l \in Lane
    BY DEF Lane
  <2>2. \E i \in 1 .. Len(Gates(l)) : Gates(l)[i] = g
    <3>1. /\ 3 \in 1 .. Len(Gates(l)) /\ Gates(l)[3] = "quality"
          /\ 4 \in 1 .. Len(Gates(l)) /\ Gates(l)[4] = "explicit"
          /\ 5 \in 1 .. Len(Gates(l)) /\ Gates(l)[5] = "performance"
      BY DEF Gates
    <3> QED  BY <3>1
  <2> QED  BY <1>2, <2>1, <2>2
<1>4. \A l \in Platform : \A g \in {"quality", "package", "relocated"} :
        Collected(l, g) = "ok"
  <2> SUFFICES ASSUME NEW l \in Platform,
                      NEW g \in {"quality", "package", "relocated"}
               PROVE  Collected(l, g) = "ok"
    OBVIOUS
  <2>1. l \in Lane /\ l \notin Runtime
    BY LaneAssumption DEF Lane
  <2>2. \E i \in 1 .. Len(Gates(l)) : Gates(l)[i] = g
    <3>1. /\ 4 \in 1 .. Len(Gates(l)) /\ Gates(l)[4] = "quality"
          /\ 5 \in 1 .. Len(Gates(l)) /\ Gates(l)[5] = "package"
          /\ 6 \in 1 .. Len(Gates(l)) /\ Gates(l)[6] = "relocated"
      BY <2>1 DEF Gates
    <3> QED  BY <3>1
  <2>3. g \notin Unreceipted
    BY DEF Unreceipted
  <2> QED  BY <1>2, <2>1, <2>2, <2>3
<1>5. Succeeded /\ \A l \in Lane, g \in Gate : Collected(l, g) # "torn"
  BY <1>1 DEF Succeeded, Collected
<1> QED
  BY <1>3, <1>4, <1>5 DEF Admissible

(* A verdict rests on lanes that have ended, and it is the last step.      *)
LEMMA VerdictStep ==
  ASSUME IInv, [Next]_vars
  PROVE  Verdicts'
<1>a. MaxFaults \in Nat /\ faults \in 0 .. MaxFaults
  BY LaneAssumption DEF IInv, TypeOK
<1>1. ASSUME NEW l \in Lane, LaneStep(l)
      PROVE  Verdicts'
  <2>1. job[l] = "running" /\ verdict' = verdict
    BY <1>1, LaneFacts DEF IInv, aggregate
  <2>2. verdict' = "none"
    BY <2>1 DEF IInv, Verdicts
  <2> QED  BY <2>2 DEF Verdicts, HonestPasses
<1>2. CASE Aggregate
  <2>1. /\ Finished /\ UNCHANGED <<profile, lanes, faults>>
        /\ verdict' = IF report' = "ok" THEN "success" ELSE "failure"
    BY <1>2 DEF Aggregate
  <2>2. (\A l \in Lane : job[l] # "running")'
    BY <2>1 DEF Finished, lanes
  <2>3. (Succeeded /\ Admissible)' <=> Succeeded /\ Admissible
    BY <2>1 DEF Succeeded, Admissible, Collected, Unreceipted, lanes
  <2>4. report' = "ok" => Succeeded /\ Admissible
    BY <1>2 DEF Aggregate
  <2>5. faults = 0 => report' = "ok"
    <3> SUFFICES ASSUME faults = 0
                 PROVE  report' = "ok"
      OBVIOUS
    <3>1. /\ Succeeded /\ Admissible
          /\ \A l \in Lane, g \in Gate : Collected(l, g) # "torn"
      BY <2>1, HonestRun DEF IInv
    <3> QED  BY <1>2, <3>1 DEF Aggregate
  <2>6. HonestPasses'
    BY <1>a, <2>1, <2>5 DEF HonestPasses
  <2> QED  BY <2>1, <2>2, <2>3, <2>4, <2>6 DEF Verdicts
<1>3. CASE AggregateDies
  <2>1. /\ Finished /\ UNCHANGED lanes /\ verdict' = "failure"
        /\ faults' = faults + 1
    BY <1>3 DEF AggregateDies, Fault
  <2> QED  BY <1>a, <2>1 DEF Verdicts, HonestPasses, Finished, lanes
<1>4. CASE UNCHANGED vars
  BY <1>4 DEF IInv, vars, lanes, aggregate, Verdicts, HonestPasses, Succeeded,
     Admissible, Collected, Unreceipted
<1> QED
  BY <1>1, <1>2, <1>3, <1>4 DEF Next, LaneStep, Moves

(* The inductive invariant holds from the start and after every step.      *)
THEOREM Invariance == Spec => []IInv
<1>1. Init => IInv
  <2> SUFFICES ASSUME Init
               PROVE  IInv
    OBVIOUS
  <2>1. MaxFaults \in Nat /\ \A l \in Lane : Len(Gates(l)) \in Nat
    BY LaneAssumption, GateFacts
  <2>2. TypeOK /\ at \in [Lane -> Nat]
    <3>1. /\ files \in [Lane -> [Gate -> Receipt]]
          /\ good \in [Lane -> SUBSET Gate]
          /\ job \in [Lane -> {"running", "success", "failure", "cancelled"}]
      BY DEF Init, Receipt
    <3>2. at \in [Lane -> Nat] /\ \A l \in Lane : at[l] \in 1 .. Len(Gates(l)) + 1
      BY <2>1 DEF Init
    <3>3. faults \in 0 .. MaxFaults
      BY <2>1 DEF Init
    <3> QED  BY <3>1, <3>2, <3>3 DEF Init, TypeOK
  <2>3. ASSUME NEW l \in Lane
        PROVE  Local(l)
    <3>1. at[l] = 1 /\ job[l] = "running" /\ \A g \in Gate : files[l][g] = "none"
      BY DEF Init
    <3>2. Len(Gates(l)) \in Nat /\ Len(Gates(l)) >= 1 /\ "cohort" \in Gate
      BY GateFacts DEF Gate
    <3> QED
      BY <3>1, <3>2 DEF Init, Local, Ended, Passed, Tried, Receipted
  <2>4. Verdicts
    BY DEF Init, Verdicts, HonestPasses
  <2> QED  BY <2>2, <2>3, <2>4 DEF IInv
<1>2. IInv /\ [Next]_vars => IInv'
  <2> SUFFICES ASSUME IInv, [Next]_vars
               PROVE  IInv'
    OBVIOUS
  <2>1. ASSUME NEW l \in Lane, LaneStep(l)
        PROVE  TypeOK' /\ at' \in [Lane -> Nat] /\ \A m \in Lane : Local(m)'
    <3>1. TypeOK /\ at \in [Lane -> Nat] /\ \A m \in Lane : Local(m)
      BY DEF IInv
    <3>2. Local(l)'
      BY <2>1, <3>1, EndedStep, PassedStep, TriedStep, ReceiptedStep DEF Local
    <3>3. \A m \in Lane : m # l => Local(m)'
      BY <2>1, <3>1, OtherLane
    <3> QED  BY <2>1, <3>1, <3>2, <3>3, LaneType
  <2>2. ASSUME Aggregate \/ AggregateDies
        PROVE  TypeOK' /\ at' \in [Lane -> Nat] /\ \A m \in Lane : Local(m)'
    <3>1. UNCHANGED <<profile, lanes>> /\ faults' \in 0 .. MaxFaults
          /\ faults' >= faults
      BY <2>2, LaneAssumption DEF IInv, TypeOK, Aggregate, AggregateDies, Fault
    <3>2. /\ verdict' \in {"none", "success", "failure"}
          /\ report' \in {"none", "ok", "failed"} /\ died' \in BOOLEAN
      BY <2>2 DEF IInv, TypeOK, Aggregate, AggregateDies
    <3>3. TypeOK' /\ at' \in [Lane -> Nat]
      BY <3>1, <3>2 DEF IInv, TypeOK, lanes
    <3>4. faults' = 0 => faults = 0
      BY <3>1, LaneAssumption DEF IInv, TypeOK
    <3>5. /\ at' = at /\ files' = files /\ good' = good /\ broken' = broken
          /\ hung' = hung /\ cancelled' = cancelled /\ uploaded' = uploaded
          /\ job' = job
      BY <3>1 DEF lanes
    <3>6. ASSUME NEW m \in Lane
          PROVE  Local(m)'
      <4>1. Local(m)
        BY DEF IInv
      <4>2. Ended(m)' /\ Passed(m)' /\ Tried(m)'
        BY <3>5, <4>1 DEF Local, Ended, Passed, Tried
      <4>3. Unreceipted' = Unreceipted
        BY <3>1 DEF Unreceipted
      <4>4. Receipted(m)'
        BY <3>4, <3>5, <4>1, <4>3 DEF Local, Receipted
      <4> QED  BY <4>2, <4>4 DEF Local
    <3> QED  BY <3>3, <3>6
  <2>3. ASSUME UNCHANGED vars
        PROVE  TypeOK' /\ at' \in [Lane -> Nat] /\ \A m \in Lane : Local(m)'
    <3>1. TypeOK' /\ at' \in [Lane -> Nat]
      BY <2>3 DEF IInv, TypeOK, vars, lanes, aggregate
    <3>2. ASSUME NEW m \in Lane
          PROVE  Local(m)'
      <4>1. Unreceipted' = Unreceipted
        BY <2>3 DEF vars, Unreceipted
      <4>2. Local(m)
        BY DEF IInv
      <4>3. /\ at' = at /\ files' = files /\ good' = good /\ broken' = broken
            /\ hung' = hung /\ cancelled' = cancelled /\ uploaded' = uploaded
            /\ job' = job /\ faults' = faults
        BY <2>3 DEF vars, lanes
      <4>4. Ended(m)' /\ Passed(m)' /\ Tried(m)'
        BY <4>2, <4>3 DEF Local, Ended, Passed, Tried
      <4>5. Receipted(m)'
        BY <4>1, <4>2, <4>3 DEF Local, Receipted
      <4> QED  BY <4>4, <4>5 DEF Local
    <3> QED  BY <3>1, <3>2
  <2>4. /\ TypeOK' /\ at' \in [Lane -> Nat]
        /\ \A m \in Lane : Local(m)'
    <3>1. (\E l \in Lane : LaneStep(l)) \/ Aggregate \/ AggregateDies \/ UNCHANGED vars
      BY DEF Next, LaneStep, Moves
    <3>2. CASE \E l \in Lane : LaneStep(l)
      BY <2>1, <3>2
    <3>3. CASE Aggregate \/ AggregateDies
      BY <2>2, <3>3
    <3>4. CASE UNCHANGED vars
      BY <2>3, <3>4
    <3> QED  BY <3>1, <3>2, <3>3, <3>4
  <2> QED  BY <2>4, VerdictStep DEF IInv
<1> QED
  BY <1>1, <1>2, PTL DEF Spec

(* A run that is admitted really passed every gate of every lane in time,  *)
(* whatever a receipt says that was left by a gate which failed later, and *)
(* whatever a lane says whose receipts are missing or slow                 *)
(* (ci-summary.mjs, receipt-policy.mjs); and every state is of its type.   *)
THEOREM AdmissionSafety == Spec => []AdmitInv
<1>1. ASSUME IInv
      PROVE  AdmitInv
  <2>1. ASSUME verdict = "success", NEW l \in Lane, NEW i \in DOMAIN Gates(l)
        PROVE  Gates(l)[i] \in good[l]
    <3>1. Succeeded /\ Admissible /\ Local(l)
      BY <1>1, <2>1 DEF IInv, Verdicts
    <3>2. /\ job[l] = "success" /\ l \notin broken /\ l \in uploaded
          /\ at[l] = Len(Gates(l)) + 1
      BY <3>1 DEF Succeeded, Local, Ended
    <3>3. Collected(l, Timed(l)) = "ok"
      BY <3>1 DEF Admissible, Timed, Unreceipted, Lane
    <3>4. files[l][Timed(l)] # "slow"
      BY <3>2, <3>3 DEF Collected
    <3>5. i \in 1 .. at[l] - 1
      <4>1. Len(Gates(l)) \in Nat /\ DOMAIN Gates(l) = 1 .. Len(Gates(l))
        BY GateFacts
      <4> QED  BY <3>2, <4>1
    <3> QED  BY <3>1, <3>2, <3>4, <3>5 DEF Local, Passed
  <2> QED  BY <1>1, <2>1 DEF AdmitInv, AdmitSound, IInv
<1> QED
  BY <1>1, Invariance, PTL

(* Nothing else than a fault makes the run fail: no receipt is asked for   *)
(* that no step writes, with a capability profile or without.              *)
THEOREM HonestSafety == Spec => []HonestPasses
<1>1. IInv => HonestPasses
  BY DEF IInv, Verdicts
<1> QED
  BY <1>1, Invariance, PTL

(* Whatever gate failed, a lane of a runtime that was not cancelled has    *)
(* tried its benchmark, unless it got no checkout to do it from (the       *)
(* `if: !cancelled()' of source-free.yml).                                 *)
THEOREM PerformanceSafety == Spec => []PerformanceTried
<1>1. ASSUME IInv, NEW l \in Runtime \ cancelled, job[l] # "running"
      PROVE  files[l]["performance"] # "none" \/ files[l]["cohort"] = "none"
  <2>1. l \in Lane /\ Local(l)
    BY <1>1 DEF IInv, Lane
  <2>2. at[l] = Len(Gates(l)) + 1 /\ Len(Gates(l)) \in Nat
    BY <1>1, <2>1, GateFacts DEF Local, Ended
  <2>3. at[l] > Len(Gates(l))
    BY <2>2
  <2> QED  BY <1>1, <2>1, <2>3 DEF Local, Tried
<1>2. IInv => PerformanceTried
  BY <1>1 DEF PerformanceTried
<1> QED
  BY <1>2, Invariance, PTL

-------------------------------------------------------------------------------
(* The statistics of a benchmark. *)
(* What holds at 0 and is passed on holds up to the bound.                 *)
LEMMA Climb ==
  ASSUME NEW L \in Nat, NEW S, 0 \in S, \A k \in 0 .. L - 1 : k \in S => k + 1 \in S
  PROVE  \A k \in 0 .. L : k \in S
<1> DEFINE T == (0 .. L) \ S
<1> SUFFICES ASSUME T # {}
             PROVE  FALSE
  OBVIOUS
<1>1. T \subseteq Nat
  OBVIOUS
<1>2. PICK x \in T : \A y \in T : ~ (<<y, x>> \in OpToRel(<, Nat))
  <2> HIDE DEF T
  <2> QED  BY <1>1, NatLessThanWellFounded, WFMin
<1>3. \A y \in T : ~ (y < x)
  BY <1>1, <1>2 DEF OpToRel
<1>4. x \in 1 .. L /\ x - 1 \in 0 .. L - 1
  OBVIOUS
<1>5. x - 1 \notin T
  BY <1>3, <1>4
<1> QED
  BY <1>4, <1>5

(* A set of numbers has a least one. *)
LEMMA MinFacts ==
  ASSUME NEW S, S \subseteq Nat, S # {}
  PROVE  Min(S) \in S /\ \A y \in S : Min(S) <= y
<1>1. PICK x \in S : \A y \in S : ~ (<<y, x>> \in OpToRel(<, Nat))
  BY NatLessThanWellFounded, WFMin
<1>2. \A y \in S : ~ (y < x)
  BY <1>1 DEF OpToRel
<1>3. \A y \in S : x =< y
  BY <1>2
<1> QED
  BY <1>3 DEF Min

LEMMA MinIs ==
  ASSUME NEW S, S \subseteq Nat, NEW x \in S, \A y \in S : x <= y
  PROVE  Min(S) = x
<1>1. Min(S) \in S /\ Min(S) <= x /\ x <= Min(S)
  BY MinFacts
<1>2. Min(S) \in Nat /\ x \in Nat
  BY <1>1
<1> QED
  BY <1>1, <1>2

LEMMA MaxIs ==
  ASSUME NEW S, S \subseteq Nat, NEW x \in S, \A y \in S : x >= y
  PROVE  Max(S) = x
<1>1. Max(S) \in S /\ Max(S) >= x /\ x >= Max(S)
  BY DEF Max
<1>2. Max(S) \in Nat /\ x \in Nat
  BY <1>1
<1> QED
  BY <1>1, <1>2

LEMMA SampleFacts ==
  ASSUME NEW s \in Samples
  PROVE  /\ Top \in Value /\ Value \subseteq Nat
         /\ Size(s) \in Counts /\ Size(s) \in Nat \ {0}
         /\ Upto(s, Top) = Size(s)
         /\ \A v \in Value : Upto(s, v) \in 0 .. Size(s)
         /\ \A v, w \in Value : v <= w => Upto(s, v) <= Upto(s, w)
<1>1. Top \in Nat /\ Counts \subseteq Nat \ {0}
  BY SampleAssumption
<1>2. Top \in Value /\ Value \subseteq Nat
  BY <1>1 DEF Value
<1>3. PICK n \in Counts :
        /\ s \in [Value -> 0 .. n] /\ s[Top] = n
        /\ \A v, w \in Value : v <= w => s[v] <= s[w]
  BY DEF Samples
<1> QED
  BY <1>1, <1>2, <1>3 DEF Size, Upto

(* The sample of an index exceeds those values that are reached too early. *)
LEMMA SortedFacts ==
  ASSUME NEW s \in Samples, NEW k \in 0 .. Size(s) - 1
  PROVE  /\ Sorted(s, k) \in Value /\ Sorted(s, k) \in Nat
         /\ \A v \in Value : Sorted(s, k) <= v <=> Upto(s, v) > k
<1> DEFINE S == {v \in Value : Upto(s, v) > k}
<1>1. Value \subseteq Nat /\ Top \in S
  BY SampleFacts
<1>2. S \subseteq Nat /\ S # {}
  BY <1>1
<1>3. Min(S) \in S /\ \A y \in S : Min(S) <= y
  <2> HIDE DEF S
  <2> QED  BY <1>2, MinFacts
<1>4. Sorted(s, k) = Min(S)
  BY DEF Sorted
<1>5. Sorted(s, k) \in Value /\ Upto(s, Sorted(s, k)) > k
  BY <1>3, <1>4
<1>6. ASSUME NEW v \in Value, Sorted(s, k) <= v
      PROVE  Upto(s, v) > k
  <2>1. Upto(s, Sorted(s, k)) <= Upto(s, v)
    BY <1>5, <1>6, SampleFacts
  <2>2. Upto(s, Sorted(s, k)) \in Nat /\ Upto(s, v) \in Nat
    BY <1>5, SampleFacts
  <2> QED  BY <1>5, <2>1, <2>2, SampleFacts
<1>7. \A v \in Value : Upto(s, v) > k => Sorted(s, k) <= v
  BY <1>3, <1>4
<1> QED
  BY <1>1, <1>5, <1>6, <1>7

LEMMA SortedInOrder ==
  ASSUME NEW s \in Samples, NEW j \in 0 .. Size(s) - 1, NEW k \in 0 .. Size(s) - 1, j <= k
  PROVE  Sorted(s, j) <= Sorted(s, k)
<1>1. Sorted(s, k) \in Value /\ Sorted(s, k) <= Sorted(s, k)
  BY SortedFacts
<1>2. Upto(s, Sorted(s, k)) > k /\ Upto(s, Sorted(s, k)) \in Nat
  BY <1>1, SortedFacts, SampleFacts
<1>3. Upto(s, Sorted(s, k)) > j
  BY <1>2, SampleFacts
<1> QED
  BY <1>1, <1>3, SortedFacts

(* Rounding up, by hundredths, and down to halves and tenths. *)
LEMMA Roundings ==
  ASSUME NEW n \in Nat \ {0}
  PROVE  /\ Index95(n) \in 0 .. n - 1
         /\ \A u \in Nat : u > Index95(n) <=> 100 * u >= 95 * n
         /\ n \div 2 \in 0 .. n - 1
         /\ n % 2 = 1 \/ n \div 2 - 1 \in 0 .. n - 1
         /\ Trim(n) \in Nat /\ 10 * Trim(n) <= n /\ n < 10 * Trim(n) + 10
  BY DEF Index95, Ceil, Trim

(* Both languages take their percentile at the same index.                 *)
LEMMA SameIndex ==
  ASSUME NEW s \in Samples
  PROVE  Min({Max({Ceil(Size(s) * 95, 100) - 1, 0}), Size(s) - 1}) = Index95(Size(s))
<1> DEFINE i == Index95(Size(s))
<1>1. Size(s) \in Nat \ {0}
  BY SampleFacts
<1>2. i \in 0 .. Size(s) - 1
  BY <1>1, Roundings
<1>3. Ceil(Size(s) * 95, 100) - 1 = i
  BY DEF Index95
<1> HIDE DEF i
<1>4. Max({i, 0}) = i
  <2>1. {i, 0} \subseteq Nat /\ i \in {i, 0} /\ \A y \in {i, 0} : i >= y
    BY <1>1, <1>2
  <2> QED  BY <2>1, MaxIs
<1>5. Min({i, Size(s) - 1}) = i
  <2>1. /\ {i, Size(s) - 1} \subseteq Nat /\ i \in {i, Size(s) - 1}
        /\ \A y \in {i, Size(s) - 1} : i <= y
    BY <1>1, <1>2
  <2> QED  BY <2>1, MinIs
<1> QED
  BY <1>3, <1>4, <1>5 DEF i

(* Both languages report the same p95, and it is the nearest rank: the     *)
(* least value that 95 of 100 samples do not exceed (`stats').             *)
THEOREM NearestRank == P95NearestRank
<1> SUFFICES ASSUME NEW s \in Samples
             PROVE  /\ JsP95(s) = Min({v \in Value : 100 * Upto(s, v) >= 95 * Size(s)})
                    /\ RustP95(s) = JsP95(s)
  BY DEF P95NearestRank
<1>1. \A v \in Value : Upto(s, v) > Index95(Size(s)) <=> 100 * Upto(s, v) >= 95 * Size(s)
  <2>1. \A v \in Value : Upto(s, v) \in Nat
    BY SampleFacts
  <2> QED  BY <2>1, SampleFacts, Roundings
<1>2. {v \in Value : Upto(s, v) > Index95(Size(s))}
        = {v \in Value : 100 * Upto(s, v) >= 95 * Size(s)}
  BY <1>1
<1>3. JsP95(s) = Min({v \in Value : 100 * Upto(s, v) >= 95 * Size(s)})
  BY <1>2 DEF JsP95, Sorted
<1>4. RustP95(s) = JsP95(s)
  BY SameIndex DEF JsP95, RustP95
<1> QED
  BY <1>3, <1>4

(* A p95 keeps the ceiling if and only if one sample in twenty at most is  *)
(* above it.                                                               *)
LEMMA CeilingFacts ==
  ASSUME NEW s \in Samples
  PROVE  /\ JsP95(s) \in Nat
         /\ JsP95(s) <= Ceiling <=> 20 * (Size(s) - Upto(s, Ceiling)) <= Size(s)
<1>1. /\ Size(s) \in Nat \ {0} /\ Ceiling \in Value
      /\ Upto(s, Ceiling) \in Nat
  BY SampleFacts, SampleAssumption
<1>2. Index95(Size(s)) \in 0 .. Size(s) - 1
  BY <1>1, Roundings
<1>3. /\ JsP95(s) \in Nat
      /\ JsP95(s) <= Ceiling <=> Upto(s, Ceiling) > Index95(Size(s))
  BY <1>1, <1>2, SortedFacts DEF JsP95
<1>4. Upto(s, Ceiling) > Index95(Size(s)) <=> 100 * Upto(s, Ceiling) >= 95 * Size(s)
  BY <1>1, Roundings
<1> QED
  BY <1>1, <1>3, <1>4

(* Whatever the language of a lane, its admitted benchmarks are those in   *)
(* time (`validTiming').                                                   *)
LEMMA AdmittedFacts ==
  ASSUME NEW s \in Samples
  PROVE  /\ Valid(Size(s), JsP95(s), s)
              <=> Size(s) \in 7 .. 31 /\ 20 * (Size(s) - Upto(s, Ceiling)) <= Size(s)
         /\ ValidSummary(Size(s), RustP95(s)) <=> Valid(Size(s), JsP95(s), s)
<1>1. Ceiling \in Nat
  BY SampleAssumption DEF Value
<1>2. RustP95(s) = JsP95(s)
  BY NearestRank DEF P95NearestRank
<1>3. ValidSummary(Size(s), JsP95(s)) <=> Valid(Size(s), JsP95(s), s)
  BY DEF Valid
<1>4. JsP95(s) \in 0 .. Ceiling <=> 20 * (Size(s) - Upto(s, Ceiling)) <= Size(s)
  BY <1>1, CeilingFacts
<1> QED
  BY <1>2, <1>3, <1>4 DEF ValidSummary

(* The sums exist, sample by sample. *)
LEMMA SumsExist ==
  ASSUME NEW s \in Samples, NEW t \in Nat, 2 * t <= Size(s)
  PROVE  \E f : f = [k \in t .. Size(s) - t |->
                       IF k = t THEN 0 ELSE f[k - 1] + Sorted(s, k - 1)]
<1> DEFINE L == Size(s) - 2 * t
           Adds(m, f) == f = [k \in t .. t + m |->
                                IF k = t THEN 0 ELSE f[k - 1] + Sorted(s, k - 1)]
           S == {m \in 0 .. L : \E f : Adds(m, f)}
<1>1. L \in Nat /\ t + L = Size(s) - t
  BY SampleFacts
<1>2. 0 \in S
  <2> DEFINE f == [k \in t .. t + 0 |-> 0]
  <2>1. \A k \in t .. t + 0 : k = t
    OBVIOUS
  <2>2. Adds(0, f)
    BY <2>1
  <2> HIDE DEF f, Adds
  <2> QED  BY <1>1, <2>2
<1>3. ASSUME NEW k \in 0 .. L - 1, k \in S
      PROVE  k + 1 \in S
  <2>1. PICK f : Adds(k, f)
    BY <1>3
  <2> DEFINE g == [j \in t .. t + (k + 1) |->
                     IF j = t + (k + 1) THEN f[j - 1] + Sorted(s, j - 1) ELSE f[j]]
  <2>2. \A j \in t .. t + k : g[j] = f[j]
    BY <1>1
  <2>3. ASSUME NEW j \in t .. t + (k + 1)
        PROVE  g[j] = IF j = t THEN 0 ELSE g[j - 1] + Sorted(s, j - 1)
    <3>1. CASE j = t + (k + 1)
      <4>1. j - 1 \in t .. t + k /\ j # t
        BY <1>1, <3>1
      <4>2. g[j] = f[j - 1] + Sorted(s, j - 1)
        BY <3>1
      <4> QED  BY <2>2, <4>1, <4>2
    <3>2. CASE j # t + (k + 1) /\ j # t
      <4>1. j \in t .. t + k /\ j - 1 \in t .. t + k
        BY <1>1, <3>2
      <4>2. f[j] = f[j - 1] + Sorted(s, j - 1)
        BY <2>1, <3>2, <4>1
      <4> QED  BY <2>2, <3>2, <4>1, <4>2
    <3>3. CASE j # t + (k + 1) /\ j = t
      <4>1. j \in t .. t + k
        BY <1>1, <3>3
      <4>2. f[j] = 0
        BY <2>1, <3>3, <4>1
      <4> QED  BY <2>2, <3>3, <4>1, <4>2
    <3> QED  BY <3>1, <3>2, <3>3
  <2>4. Adds(k + 1, g)
    <3>1. g = [j \in t .. t + (k + 1) |-> g[j]]
      OBVIOUS
    <3> HIDE DEF g
    <3> QED  BY <2>3, <3>1
  <2> HIDE DEF g, Adds
  <2> QED  BY <1>1, <2>4
<1>4. \A k \in 0 .. L : k \in S
  <2> HIDE DEF S, L
  <2> QED  BY <1>1, <1>2, <1>3, Climb
<1>5. \E f : Adds(L, f)
  <2>1. L \in S
    BY <1>1, <1>4
  <2> HIDE DEF Adds, L
  <2> QED  BY <2>1
<1> QED
  BY <1>1, <1>5

LEMMA SumsFacts ==
  ASSUME NEW s \in Samples, NEW t \in Nat, 2 * t <= Size(s)
  PROVE  \A k \in t .. Size(s) - t :
           Sums(s, t)[k] = IF k = t THEN 0 ELSE Sums(s, t)[k - 1] + Sorted(s, k - 1)
<1> DEFINE Adds(f) == f = [k \in t .. Size(s) - t |->
                             IF k = t THEN 0 ELSE f[k - 1] + Sorted(s, k - 1)]
<1>1. \E f : Adds(f)
  BY SumsExist
<1>2. Sums(s, t) = CHOOSE f : Adds(f)
  BY DEF Sums
<1>3. Adds(Sums(s, t))
  <2> HIDE DEF Adds
  <2> QED  BY <1>1, <1>2
<1> HIDE DEF Sums
<1> QED
  BY <1>3

(* A sum of samples that keep a bound keeps as many times that bound.      *)
LEMMA SumsBounded ==
  ASSUME NEW s \in Samples, NEW t \in Nat, 2 * t <= Size(s), NEW v \in Int
  PROVE  /\ Sums(s, t)[Size(s) - t] \in Int
         /\ (\A k \in t .. Size(s) - t - 1 : Sorted(s, k) <= v)
              => Sums(s, t)[Size(s) - t] <= v * (Size(s) - 2 * t)
         /\ (\A k \in t .. Size(s) - t - 1 : Sorted(s, k) >= v)
              => Sums(s, t)[Size(s) - t] >= v * (Size(s) - 2 * t)
<1> DEFINE L == Size(s) - 2 * t
           Below == \A k \in t .. Size(s) - t - 1 : Sorted(s, k) <= v
           Above == \A k \in t .. Size(s) - t - 1 : Sorted(s, k) >= v
           S == {m \in 0 .. L : /\ Sums(s, t)[t + m] \in Int
                                /\ Below => Sums(s, t)[t + m] <= v * m
                                /\ Above => Sums(s, t)[t + m] >= v * m}
<1>1. L \in Nat /\ t + L = Size(s) - t /\ Size(s) \in Nat
  BY SampleFacts
<1>2. 0 \in S
  <2>1. Sums(s, t)[t + 0] = 0
    BY <1>1, SumsFacts
  <2>2. v * 0 = 0
    OBVIOUS
  <2> QED  BY <1>1, <2>1, <2>2
<1>3. ASSUME NEW m \in 0 .. L - 1, m \in S
      PROVE  m + 1 \in S
  <2> DEFINE a == Sums(s, t)[t + m]
             b == Sums(s, t)[t + (m + 1)]
             c == Sorted(s, t + m)
  <2>1. /\ t + m \in t .. Size(s) - t - 1 /\ t + m \in 0 .. Size(s) - 1
        /\ t + (m + 1) \in t .. Size(s) - t /\ t + (m + 1) # t
        /\ (t + (m + 1)) - 1 = t + m /\ m + 1 \in 0 .. L
    BY <1>1
  <2>2. b = a + c
    BY <2>1, SumsFacts
  <2>3. c \in Int
    BY <2>1, SortedFacts
  <2>4. /\ a \in Int
        /\ Below => a <= v * m /\ c <= v
        /\ Above => a >= v * m /\ c >= v
    BY <1>3, <2>1
  <2>5. v * (m + 1) = v * m + v /\ v * m \in Int
    OBVIOUS
  <2> HIDE DEF Below, Above, L, a, c
  <2>6. b \in Int /\ (Below => b <= v * (m + 1)) /\ (Above => b >= v * (m + 1))
    BY <2>2, <2>3, <2>4, <2>5
  <2> QED  BY <2>1, <2>6
<1>4. \A m \in 0 .. L : m \in S
  <2> HIDE DEF S, L
  <2> QED  BY <1>1, <1>2, <1>3, Climb
<1>5. L \in S
  BY <1>1, <1>4
<1> HIDE DEF Below, Above
<1> QED
  BY <1>1, <1>5 DEF Below, Above

(* The p50 of JavaScript is never below the native one, and equal for odd  *)
(* counts.                                                                 *)
LEMMA HalfFacts ==
  ASSUME NEW s \in Samples
  PROVE  /\ JsP50(s) >= RustP50(s)
         /\ Size(s) % 2 = 1 => JsP50(s) = RustP50(s)
<1> DEFINE half == Size(s) \div 2
<1>1. Size(s) \in Nat \ {0}
  BY SampleFacts
<1>2. half \in 0 .. Size(s) - 1 /\ (Size(s) % 2 = 1 \/ half - 1 \in 0 .. Size(s) - 1)
  BY <1>1, Roundings
<1>3. Sorted(s, half) \in Nat
  BY <1>2, SortedFacts
<1>4. CASE Size(s) % 2 = 1
  BY <1>3, <1>4 DEF JsP50, RustP50
<1>5. CASE Size(s) % 2 # 1
  <2> HIDE DEF half
  <2>1. half - 1 \in 0 .. Size(s) - 1
    BY <1>2, <1>5
  <2>2. half - 1 <= half
    BY <1>1, <1>2
  <2>3. Sorted(s, half - 1) \in Nat /\ Sorted(s, half - 1) <= Sorted(s, half)
    BY <1>2, <2>1, <2>2, SortedFacts, SortedInOrder
  <2>4. JsP50(s) = 2 * Sorted(s, half) /\ RustP50(s) = Sorted(s, half - 1) + Sorted(s, half)
    BY <1>5 DEF JsP50, RustP50, half
  <2> QED  BY <1>3, <1>5, <2>3, <2>4
<1> QED
  BY <1>4, <1>5

(* A tenth of the samples at either end is all that the trimmed mean       *)
(* leaves out (`stats' of main.rs).                                        *)
LEMMA TrimmedFacts ==
  ASSUME NEW s \in Samples
  PROVE  /\ 2 * Trim(Size(s)) <= Size(s)
         /\ Trimmed(s).count = Size(s) - 2 * Trim(Size(s)) /\ Trimmed(s).count > 0
         /\ Trimmed(s).sum = Sums(s, Trim(Size(s)))[Size(s) - Trim(Size(s))]
<1> DEFINE n == Size(s)
           t == IF Trim(n) > 0 /\ Trim(n) * 2 < n THEN Trim(n) ELSE 0
<1>1. n \in Nat \ {0}
  BY SampleFacts
<1>2. Trim(n) \in Nat /\ 10 * Trim(n) <= n
  BY <1>1, Roundings
<1>3. t = Trim(n) /\ n - 2 * t > 0 /\ 2 * t <= n
  BY <1>1, <1>2
<1>4. Trimmed(s) = [sum |-> Sums(s, t)[n - t], count |-> n - 2 * t]
  BY DEF Trimmed
<1> HIDE DEF t, n
<1>5. Trimmed(s).sum = Sums(s, t)[n - t] /\ Trimmed(s).count = n - 2 * t
  BY <1>4
<1> QED
  BY <1>3, <1>5 DEF n

(* The p50 of JavaScript is never below the native one, and the native     *)
(* trimmed mean is not moved by a tenth of the samples at either end.      *)
THEOREM CentreIsRobust == CentreRobust
<1> SUFFICES ASSUME NEW s \in Samples
             PROVE  \A v \in Value :
         /\ 10 * (Size(s) - Upto(s, v)) <= Size(s) => Trimmed(s).sum <= v * Trimmed(s).count
         /\ 10 * Upto(s, v - 1) <= Size(s) => Trimmed(s).sum >= v * Trimmed(s).count
  BY HalfFacts, TrimmedFacts DEF CentreRobust
<1> DEFINE n == Size(s)
           t == Trim(n)
<1>1. /\ n \in Nat \ {0} /\ t \in Nat /\ 2 * t <= n /\ n < 10 * t + 10
  BY SampleFacts, Roundings, TrimmedFacts
<1>2. Trimmed(s).sum = Sums(s, t)[n - t] /\ Trimmed(s).count = n - 2 * t
  BY TrimmedFacts
<1>3. ASSUME NEW v \in Value, 10 * (n - Upto(s, v)) <= n
      PROVE  Trimmed(s).sum <= v * Trimmed(s).count
  <2>1. v \in Int /\ Upto(s, v) \in Nat
    BY SampleFacts DEF Value
  <2>2. ASSUME NEW k \in t .. n - t - 1
        PROVE  Sorted(s, k) <= v
    <3>1. k \in 0 .. n - 1 /\ Upto(s, v) > k
      BY <1>1, <1>3, <2>1
    <3> QED  BY <3>1, SortedFacts
  <2> HIDE DEF t
  <2> QED  BY <1>1, <1>2, <2>1, <2>2, SumsBounded
<1>4. ASSUME NEW v \in Value, 10 * Upto(s, v - 1) <= n
      PROVE  Trimmed(s).sum >= v * Trimmed(s).count
  <2>1. v \in Int
    BY DEF Value
  <2>2. ASSUME NEW k \in t .. n - t - 1
        PROVE  Sorted(s, k) >= v
    <3>1. k \in 0 .. n - 1 /\ k >= t
      BY <1>1
    <3>2. Sorted(s, k) \in Nat /\ Sorted(s, k) \in Value
      BY <3>1, SortedFacts
    <3> SUFFICES ASSUME Sorted(s, k) < v
                 PROVE  FALSE
      BY <2>1, <3>2
    <3>3. v - 1 \in Value /\ Sorted(s, k) <= v - 1
      BY <2>1, <3>2, SampleAssumption DEF Value
    <3>4. Upto(s, v - 1) > k /\ Upto(s, v - 1) \in Nat
      BY <3>1, <3>3, SortedFacts, SampleFacts
    <3> QED  BY <1>1, <1>4, <3>1, <3>4
  <2> HIDE DEF t
  <2> QED  BY <1>1, <1>2, <2>1, <2>2, SumsBounded
<1> QED
  BY <1>3, <1>4

(* An admitted run rests on receipts in time, all benchmarks in time could *)
(* have been admitted, and the statistics mean what they are called, in    *)
(* both languages alike (receipt-policy.mjs, the two `stats').             *)
THEOREM TimingSafety == Spec => []TimingExact
<1>1. ASSUME NEW l \in Lane
      PROVE  Admitted(l) = InTime
  <2>1. AdmittedJs = InTime /\ AdmittedNative = InTime
    BY AdmittedFacts DEF AdmittedJs, AdmittedNative, InTime
  <2> QED  BY <2>1 DEF Admitted
<1>2. ASSUME IInv, verdict = "success", NEW l \in Lane
      PROVE  files[l][Timed(l)] = "ok"
  <2>1. Collected(l, Timed(l)) = "ok"
    BY <1>2 DEF IInv, Verdicts, Admissible, Timed, Unreceipted, Lane
  <2> QED  BY <2>1 DEF Collected
<1>3. ForgedRejected
  BY DEF ForgedRejected, Valid
<1>4. IInv => TimingExact
  BY <1>1, <1>2, <1>3, NearestRank, CentreIsRobust DEF TimingExact
<1> QED
  BY <1>4, Invariance, PTL
===============================================================================
