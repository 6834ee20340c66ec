------------------------ MODULE PortableTransferProofs ------------------------
(***************************************************************************)
(* Proofs about PortableTransfer for every guest, every transferBlocks and *)
(* every number of wrong answers of the core: what an import that is run   *)
(* on is, what a passed gate means, when a session is left, and which      *)
(* guests pass on a core that does what it should.                         *)
(***************************************************************************)
EXTENDS PortableTransfer, TLAPS

Chosen == kind \in Kinds /\ count \in Counts /\ guest \in Guests

(* No session is past the guest's last block.                              *)
WithinGuest == s.at <= guest.exitAt /\ export.at <= guest.exitAt

(* The loops of slices stay within their bound.                            *)
Budget ==
  /\ step = "transfer" => k < count
  /\ step \in {"run", "replay", "rerun"} => k <= MaxSlices
  /\ step = "compare" => k = 0

(* The steps between Create or Import and the `finally`.                   *)
Held == {"transfer", "boundary", "run", "restore", "replay", "closeSource",
         "compare", "rerun", "close", "unwind"}

(* An instance holds a session in these steps and in no other, unless the  *)
(* core has not destroyed it.                                              *)
Holding ==
  /\ step # "threw" => live = (step \in Held)
  /\ step = "threw" /\ live => kept

(* The steps that follow the export.                                       *)
Exported == {"run", "restore", "replay", "closeSource", "import", "compare",
             "rerun", "close", "passed"}

(* What was exported is what the caller was told of the boundary.          *)
BoundaryKept ==
  /\ step = "boundary" => s.exit = "none"
  /\ step \in Exported =>
       /\ export.exit = "none" /\ export.out = (kind = "restart")
       /\ export.at = seen.at /\ export.steps = seen.steps

(* The restart gate comes to its import by its replay only, and a gate to  *)
(* its end by the guest's own.                                             *)
Gated ==
  /\ step \in {"closeSource", "import", "compare", "rerun", "close", "passed"}
       /\ kind = "restart" => rewound /\ seen.slices < 32
  /\ step \in {"close", "passed"} => s.exit = "43" /\ s.out

(* A session that the core has executed faithfully up to its block.        *)
Faithful(x) ==
  /\ x.out = (guest.outAt <= x.at)
  /\ x.exit = IF x.at = guest.exitAt THEN "43" ELSE "none"

Suitable ==
  faults = 0 /\ count >= 1 /\ Fits /\ (kind = "restart" => guest.exitAt <= 32)

(* Where a guest that fits is when nothing has gone wrong.                 *)
Course ==
  /\ step \notin {"unwind", "threw"}
  /\ step \in {"restore", "replay"} => kind = "restart"
  /\ step = "transfer" => s.at = (IF kind = "restart" THEN k ELSE 0) /\ Faithful(s)
  /\ step = "transfer" /\ kind # "restart" => k = 0
  /\ step = "boundary" => s.at = count /\ Faithful(s)
  /\ step \in Exported => export.at = count /\ Faithful(export)
  /\ step \in {"run", "rerun"} => s.at = count + k /\ Faithful(s)
  /\ step \in {"restore", "replay"} => seen.slices = guest.exitAt - count
  /\ step = "restore" => s.steps = seen.exitSteps
  /\ step = "replay" =>
       s.at = k /\ s.steps = seen.exitSteps + k /\ Faithful(s)
  /\ step = "compare" => s = export

OnCourse == Suitable => Course

IInv == /\ TypeOK /\ Chosen /\ WithinGuest /\ Budget /\ Holding
        /\ BoundaryKept /\ ImportExact /\ Gated /\ OnCourse
-------------------------------------------------------------------------------
(* What a session becomes is a session, no further than the guest's end.   *)
LEMMA Advancing ==
  ASSUME Chosen, NEW x \in Session, x.at <= guest.exitAt, NEW n \in Nat
  PROVE  Advance(x, n) \in Session /\ Advance(x, n).at <= guest.exitAt
<1>1. guest.exitAt \in Nat /\ guest.outAt \in Nat
  BY GuestAssumption DEF Chosen
<1> QED
  BY <1>1 DEF Advance, Session

LEMMA Rewinding ==
  ASSUME NEW n \in Nat
  PROVE  /\ [Entry EXCEPT !.steps = n] \in Session
         /\ [Entry EXCEPT !.steps = n].at = 0
  BY DEF Entry, Session

LEMMA Becoming ==
  ASSUME TypeOK, Chosen, NEW x \in Session, x.at <= guest.exitAt, Becomes(x)
  PROVE  /\ s' \in Session /\ s'.at <= guest.exitAt
         /\ faults' \in 0 .. MaxFaults
         /\ faults' = 0 => s' = x /\ faults = 0
<1>1. guest.exitAt \in Nat /\ MaxFaults \in Nat /\ faults \in 0 .. MaxFaults
  BY GuestAssumption DEF Chosen, TypeOK
<1>2. CASE s' = x /\ UNCHANGED faults
  BY <1>1, <1>2
<1>3. CASE faults < MaxFaults /\ s' \in Wrong(x) /\ faults' = faults + 1
  <2>1. CASE s' = [x EXCEPT !.at = 0]
    BY <1>1, <1>3, <2>1 DEF Session
  <2>2. CASE s' = [x EXCEPT !.steps = 0]
    BY <1>1, <1>3, <2>2 DEF Session
  <2>3. CASE s' = [x EXCEPT !.out = ~@]
    <3>1. x.out \in BOOLEAN
      BY DEF Session
    <3>2. (~x.out) \in BOOLEAN
      BY <3>1
    <3>3. \A b \in BOOLEAN : [x EXCEPT !.out = b] \in Session
      BY DEF Session
    <3>4. s' \in Session
      BY <2>3, <3>2, <3>3, Zenon
    <3>5. s'.at = x.at
      BY <2>3 DEF Session
    <3> QED  BY <1>1, <1>3, <3>4, <3>5
  <2>4. CASE s' = [x EXCEPT !.exit = "other"]
    BY <1>1, <1>3, <2>4 DEF Session
  <2>5. CASE s' = [x EXCEPT !.exit = "none"]
    BY <1>1, <1>3, <2>5 DEF Session
  <2> QED  BY <1>3, <2>1, <2>2, <2>3, <2>4, <2>5 DEF Wrong
<1> QED
  BY <1>2, <1>3 DEF Becomes

(* Sessions stay of their type and within the guest, and the setting is kept.*)
LEMMA TypeStep ==
  ASSUME TypeOK, Chosen, WithinGuest, Budget, [Next]_vars
  PROVE  TypeOK' /\ Chosen' /\ WithinGuest'
<1>a. /\ guest.exitAt \in Nat /\ count \in Nat /\ MaxFaults \in Nat
      /\ MaxSlices \in Nat
  BY GuestAssumption DEF Chosen, MaxSlices
<1> USE <1>a
<1> USE DEF TypeOK, Chosen, WithinGuest, Budget, setting, MaxSlices
<1>1. CASE RefuseCount
  BY <1>1 DEF RefuseCount
<1>2. CASE Create
  <2>1. Entry \in Session /\ 0 <= guest.exitAt
    BY DEF Entry, Session
  <2> QED  BY <1>2, <2>1 DEF Create, Entry
<1>3. CASE Transfer
  <2> DEFINE n == IF kind = "restart" THEN 1 ELSE count
  <2>1. n \in Nat /\ Advance(s, n) \in Session /\ Advance(s, n).at <= guest.exitAt
    BY Advancing
  <2>2. /\ s' \in Session /\ s'.at <= guest.exitAt
        /\ faults' \in 0 .. MaxFaults
    BY <1>3, <2>1, Becoming DEF Transfer
  <2> QED  BY <1>3, <2>2 DEF Transfer
<1>4. CASE Boundary
  <2>1. s.at \in Nat /\ s.steps \in Nat
    BY DEF Session
  <2>2. seen' \in [at : Nat, steps : Nat, slices : Nat, exitSteps : Nat]
    BY <1>4, <2>1 DEF Boundary
  <2> QED  BY <1>4, <2>2 DEF Boundary
<1>5. CASE BoundaryMismatch
  BY <1>5 DEF BoundaryMismatch
<1>6. CASE SliceSource
  <2>1. Advance(s, 1) \in Session /\ Advance(s, 1).at <= guest.exitAt
    BY Advancing
  <2>2. /\ s' \in Session /\ s'.at <= guest.exitAt
        /\ faults' \in 0 .. MaxFaults
    BY <1>6, <2>1, Becoming DEF SliceSource, Slice
  <2> QED  BY <1>6, <2>2 DEF SliceSource, Slice
<1>7. CASE SliceReplay
  <2>1. Advance(s, 1) \in Session /\ Advance(s, 1).at <= guest.exitAt
    BY Advancing
  <2>2. /\ s' \in Session /\ s'.at <= guest.exitAt
        /\ faults' \in 0 .. MaxFaults
    BY <1>7, <2>1, Becoming DEF SliceReplay, Slice
  <2> QED  BY <1>7, <2>2 DEF SliceReplay, Slice
<1>8. CASE SliceRestored
  <2>1. Advance(s, 1) \in Session /\ Advance(s, 1).at <= guest.exitAt
    BY Advancing
  <2>2. /\ s' \in Session /\ s'.at <= guest.exitAt
        /\ faults' \in 0 .. MaxFaults
    BY <1>8, <2>1, Becoming DEF SliceRestored, Slice
  <2> QED  BY <1>8, <2>2 DEF SliceRestored, Slice
<1>9. CASE OutOfSlices
  BY <1>9 DEF OutOfSlices
<1>10. CASE RunEnds
  <2>1. s.steps \in Nat /\ k \in Nat
    BY DEF Session
  <2>2. seen' \in [at : Nat, steps : Nat, slices : Nat, exitSteps : Nat]
    BY <1>10, <2>1 DEF RunEnds
  <2>3. step' \in {"unwind", "restore", "closeSource"}
    BY <1>10 DEF RunEnds
  <2>4. TypeOK'
    BY <1>10, <2>2, <2>3 DEF RunEnds
  <2>5. Chosen' /\ WithinGuest'
    BY <1>10 DEF RunEnds
  <2> QED  BY <2>4, <2>5
<1>11. CASE Restore
  <2>1. /\ [Entry EXCEPT !.steps = s.steps] \in Session
        /\ [Entry EXCEPT !.steps = s.steps].at <= guest.exitAt
    <3>1. s.steps \in Nat /\ 0 <= guest.exitAt
      BY DEF Session
    <3> QED  BY <3>1, Rewinding
  <2>2. /\ s' \in Session /\ s'.at <= guest.exitAt
        /\ faults' \in 0 .. MaxFaults
    BY <1>11, <2>1, Becoming DEF Restore
  <2> QED  BY <1>11, <2>2 DEF Restore
<1>12. CASE ReplayEnds
  <2>1. rewound' \in BOOLEAN
    BY <1>12 DEF ReplayEnds
  <2>2. step' \in {"unwind", "closeSource"}
    BY <1>12 DEF ReplayEnds
  <2> QED  BY <1>12, <2>1, <2>2 DEF ReplayEnds
<1>13. CASE Import
  <2>1. /\ s' \in Session /\ s'.at <= guest.exitAt
        /\ faults' \in 0 .. MaxFaults
    BY <1>13, Becoming DEF Import
  <2> QED  BY <1>13, <2>1 DEF Import
<1>14. CASE Compare
  BY <1>14 DEF Compare
<1>15. CASE RerunEnds
  BY <1>15 DEF RerunEnds
<1>16. CASE CallThrows
  BY <1>16 DEF CallThrows
<1>17. CASE Close
  <2>1. (live' = FALSE \/ live' = TRUE) /\ faults' \in 0 .. MaxFaults
    BY <1>17 DEF Close
  <2>2. step' \in {"threw", "import", "passed"}
    BY <1>17 DEF Close
  <2> QED  BY <1>17, <2>1, <2>2 DEF Close
<1>18. CASE UNCHANGED vars
  BY <1>18 DEF vars
<1> QED
  BY <1>1, <1>2, <1>3, <1>4, <1>5, <1>6, <1>7, <1>8, <1>9,
     <1>10, <1>11, <1>12, <1>13, <1>14, <1>15, <1>16, <1>17, <1>18 DEF Next

(* No loop of slices goes beyond its bound.                                 *)
LEMMA BudgetStep ==
  ASSUME TypeOK, Chosen, Budget, [Next]_vars
  PROVE  Budget'
<1>a. /\ guest.exitAt \in Nat /\ count \in Nat /\ MaxFaults \in Nat
      /\ MaxSlices \in Nat
  BY GuestAssumption DEF Chosen, MaxSlices
<1> USE <1>a
<1> USE DEF TypeOK, Chosen, Budget, setting, MaxSlices
<1>1. CASE RefuseCount
  BY <1>1 DEF RefuseCount
<1>2. CASE Create
  BY <1>2 DEF Create
<1>3. CASE Transfer
  BY <1>3 DEF Transfer
<1>4. CASE Boundary
  BY <1>4 DEF Boundary
<1>5. CASE BoundaryMismatch
  BY <1>5 DEF BoundaryMismatch
<1>6. CASE SliceSource
  BY <1>6 DEF SliceSource, Slice
<1>7. CASE SliceReplay
  BY <1>7 DEF SliceReplay, Slice
<1>8. CASE SliceRestored
  BY <1>8 DEF SliceRestored, Slice
<1>9. CASE OutOfSlices
  BY <1>9 DEF OutOfSlices
<1>10. CASE RunEnds
  BY <1>10 DEF RunEnds
<1>11. CASE Restore
  BY <1>11 DEF Restore
<1>12. CASE ReplayEnds
  BY <1>12 DEF ReplayEnds
<1>13. CASE Import
  BY <1>13 DEF Import
<1>14. CASE Compare
  BY <1>14 DEF Compare
<1>15. CASE RerunEnds
  BY <1>15 DEF RerunEnds
<1>16. CASE CallThrows
  BY <1>16 DEF CallThrows
<1>17. CASE Close
  BY <1>17 DEF Close
<1>18. CASE UNCHANGED vars
  BY <1>18 DEF vars
<1> QED
  BY <1>1, <1>2, <1>3, <1>4, <1>5, <1>6, <1>7, <1>8, <1>9,
     <1>10, <1>11, <1>12, <1>13, <1>14, <1>15, <1>16, <1>17, <1>18 DEF Next

(* A session lives from Create or Import to the `finally`.                  *)
LEMMA HoldingStep ==
  ASSUME TypeOK, Holding, [Next]_vars
  PROVE  Holding'
<1> USE DEF TypeOK, Holding, Held, setting
<1>1. CASE RefuseCount
  BY <1>1 DEF RefuseCount
<1>2. CASE Create
  BY <1>2 DEF Create
<1>3. CASE Transfer
  BY <1>3 DEF Transfer
<1>4. CASE Boundary
  BY <1>4 DEF Boundary
<1>5. CASE BoundaryMismatch
  BY <1>5 DEF BoundaryMismatch
<1>6. CASE SliceSource
  BY <1>6 DEF SliceSource, Slice
<1>7. CASE SliceReplay
  BY <1>7 DEF SliceReplay, Slice
<1>8. CASE SliceRestored
  BY <1>8 DEF SliceRestored, Slice
<1>9. CASE OutOfSlices
  BY <1>9 DEF OutOfSlices
<1>10. CASE RunEnds
  BY <1>10 DEF RunEnds
<1>11. CASE Restore
  BY <1>11 DEF Restore
<1>12. CASE ReplayEnds
  BY <1>12 DEF ReplayEnds
<1>13. CASE Import
  BY <1>13 DEF Import
<1>14. CASE Compare
  BY <1>14 DEF Compare
<1>15. CASE RerunEnds
  BY <1>15 DEF RerunEnds
<1>16. CASE CallThrows
  BY <1>16 DEF CallThrows
<1>17. CASE Close
  <2>1. CASE live' = FALSE
    <3>1. step' = IF step = "unwind" THEN "threw"
                  ELSE IF step = "closeSource" THEN "import" ELSE "passed"
      BY <1>17, <2>1, Zenon DEF Close
    <3>2. step' \notin Held
      BY <3>1
    <3>3. (step' \in Held) = FALSE
      BY <3>2
    <3> QED  BY <2>1, <3>3
  <2>2. CASE live' = TRUE /\ kept' = TRUE
    <3>1. step' = "threw"
      BY <1>17, <2>2 DEF Close
    <3> QED  BY <2>2, <3>1
  <2> QED  BY <1>17, <2>1, <2>2 DEF Close
<1>18. CASE UNCHANGED vars
  BY <1>18 DEF vars
<1> QED
  BY <1>1, <1>2, <1>3, <1>4, <1>5, <1>6, <1>7, <1>8, <1>9,
     <1>10, <1>11, <1>12, <1>13, <1>14, <1>15, <1>16, <1>17, <1>18 DEF Next

(* The export is kept as it was reported.                                   *)
LEMMA BoundaryStep ==
  ASSUME TypeOK, BoundaryKept, [Next]_vars
  PROVE  BoundaryKept'
<1> USE DEF TypeOK, BoundaryKept, Exported, setting, Exited, Session
<1>1. CASE RefuseCount
  BY <1>1 DEF RefuseCount
<1>2. CASE Create
  BY <1>2 DEF Create
<1>3. CASE Transfer
  BY <1>3 DEF Transfer
<1>4. CASE Boundary
  BY <1>4 DEF Boundary
<1>5. CASE BoundaryMismatch
  BY <1>5 DEF BoundaryMismatch
<1>6. CASE SliceSource
  BY <1>6 DEF SliceSource, Slice
<1>7. CASE SliceReplay
  BY <1>7 DEF SliceReplay, Slice
<1>8. CASE SliceRestored
  BY <1>8 DEF SliceRestored, Slice
<1>9. CASE OutOfSlices
  BY <1>9 DEF OutOfSlices
<1>10. CASE RunEnds
  BY <1>10 DEF RunEnds
<1>11. CASE Restore
  BY <1>11 DEF Restore
<1>12. CASE ReplayEnds
  BY <1>12 DEF ReplayEnds
<1>13. CASE Import
  BY <1>13 DEF Import
<1>14. CASE Compare
  BY <1>14 DEF Compare
<1>15. CASE RerunEnds
  BY <1>15 DEF RerunEnds
<1>16. CASE CallThrows
  BY <1>16 DEF CallThrows
<1>17. CASE Close
  BY <1>17 DEF Close
<1>18. CASE UNCHANGED vars
  BY <1>18 DEF vars
<1> QED
  BY <1>1, <1>2, <1>3, <1>4, <1>5, <1>6, <1>7, <1>8, <1>9,
     <1>10, <1>11, <1>12, <1>13, <1>14, <1>15, <1>16, <1>17, <1>18 DEF Next

(* Only the exported state passes the comparison.                           *)
LEMMA ImportStep ==
  ASSUME TypeOK, Budget, BoundaryKept, ImportExact, [Next]_vars
  PROVE  ImportExact'
<1> USE DEF TypeOK, Budget, BoundaryKept, ImportExact, Exported, setting, Exited, Session
<1>1. CASE RefuseCount
  BY <1>1 DEF RefuseCount
<1>2. CASE Create
  BY <1>2 DEF Create
<1>3. CASE Transfer
  BY <1>3 DEF Transfer
<1>4. CASE Boundary
  BY <1>4 DEF Boundary
<1>5. CASE BoundaryMismatch
  BY <1>5 DEF BoundaryMismatch
<1>6. CASE SliceSource
  BY <1>6 DEF SliceSource, Slice
<1>7. CASE SliceReplay
  BY <1>7 DEF SliceReplay, Slice
<1>8. CASE SliceRestored
  BY <1>8 DEF SliceRestored, Slice
<1>9. CASE OutOfSlices
  BY <1>9 DEF OutOfSlices
<1>10. CASE RunEnds
  BY <1>10 DEF RunEnds
<1>11. CASE Restore
  BY <1>11 DEF Restore
<1>12. CASE ReplayEnds
  BY <1>12 DEF ReplayEnds
<1>13. CASE Import
  BY <1>13 DEF Import
<1>14. CASE Compare
  BY <1>14 DEF Compare
<1>15. CASE RerunEnds
  BY <1>15 DEF RerunEnds
<1>16. CASE CallThrows
  BY <1>16 DEF CallThrows
<1>17. CASE Close
  BY <1>17 DEF Close
<1>18. CASE UNCHANGED vars
  BY <1>18 DEF vars
<1> QED
  BY <1>1, <1>2, <1>3, <1>4, <1>5, <1>6, <1>7, <1>8, <1>9,
     <1>10, <1>11, <1>12, <1>13, <1>14, <1>15, <1>16, <1>17, <1>18 DEF Next

(* No gate goes on without what it asks for.                                *)
LEMMA GatedStep ==
  ASSUME TypeOK, Chosen, Budget, Gated, [Next]_vars
  PROVE  Gated'
<1> USE DEF TypeOK, Budget, Gated, setting, MaxSlices, Exited
<1>1. CASE RefuseCount
  BY <1>1 DEF RefuseCount
<1>2. CASE Create
  BY <1>2 DEF Create
<1>3. CASE Transfer
  BY <1>3 DEF Transfer
<1>4. CASE Boundary
  BY <1>4 DEF Boundary
<1>5. CASE BoundaryMismatch
  BY <1>5 DEF BoundaryMismatch
<1>6. CASE SliceSource
  BY <1>6 DEF SliceSource, Slice
<1>7. CASE SliceReplay
  BY <1>7 DEF SliceReplay, Slice
<1>8. CASE SliceRestored
  BY <1>8 DEF SliceRestored, Slice
<1>9. CASE OutOfSlices
  BY <1>9 DEF OutOfSlices
<1>10. CASE RunEnds
  BY <1>10 DEF RunEnds
<1>11. CASE Restore
  BY <1>11 DEF Restore
<1>12. CASE ReplayEnds
  <2>1. CASE rewound'
    <3>1. k > seen.slices
      BY <1>12, <2>1 DEF ReplayEnds
    <3>2. kind = "restart" => seen.slices < 32
      BY <1>12, <3>1 DEF ReplayEnds
    <3> QED  BY <1>12, <2>1, <3>2 DEF ReplayEnds
  <2>2. CASE ~rewound'
    BY <1>12, <2>2 DEF ReplayEnds
  <2> QED  BY <2>1, <2>2
<1>13. CASE Import
  BY <1>13 DEF Import
<1>14. CASE Compare
  BY <1>14 DEF Compare
<1>15. CASE RerunEnds
  BY <1>15 DEF RerunEnds
<1>16. CASE CallThrows
  BY <1>16 DEF CallThrows
<1>17. CASE Close
  BY <1>17 DEF Close
<1>18. CASE UNCHANGED vars
  BY <1>18 DEF vars
<1> QED
  BY <1>1, <1>2, <1>3, <1>4, <1>5, <1>6, <1>7, <1>8, <1>9,
     <1>10, <1>11, <1>12, <1>13, <1>14, <1>15, <1>16, <1>17, <1>18 DEF Next

(* A session with blocks left that a core executes as it should.           *)
LEMMA FaithfulAdvance ==
  ASSUME Chosen, NEW x \in Session, Faithful(x), NEW n \in Nat,
         x.at + n <= guest.exitAt
  PROVE  /\ Advance(x, n).at = x.at + n
         /\ Advance(x, n).steps = x.steps + n
         /\ Faithful(Advance(x, n))
<1> DEFINE y == Advance(x, n)
<1>1. /\ guest.exitAt \in Nat /\ guest.outAt \in Nat
      /\ x.at \in Nat /\ x.steps \in Nat /\ x.out \in BOOLEAN
  BY GuestAssumption DEF Chosen, Session
<1>2. y = [at |-> x.at + n, steps |-> x.steps + n,
           out |-> x.out \/ guest.outAt <= x.at + n,
           exit |-> IF x.at + n = guest.exitAt THEN "43" ELSE "none"]
  <2>1. (IF x.at + n < guest.exitAt THEN x.at + n ELSE guest.exitAt) = x.at + n
    BY <1>1
  <2>2. x.steps + ((x.at + n) - x.at) = x.steps + n
    BY <1>1
  <2> QED  BY <2>1, <2>2 DEF Advance
<1>3. y.out = (guest.outAt <= y.at)
  <2>1. x.out => guest.outAt <= x.at + n
    <3>1. x.out => guest.outAt <= x.at
      BY DEF Faithful
    <3>2. guest.outAt <= x.at => guest.outAt <= x.at + n
      BY <1>1
    <3> QED  BY <3>1, <3>2
  <2>2. (x.out \/ guest.outAt <= x.at + n) = (guest.outAt <= x.at + n)
    BY <2>1
  <2> QED  BY <1>2, <2>2
<1>4. y.at = x.at + n /\ y.steps = x.steps + n
  BY <1>2
<1>5. y.exit = IF y.at = guest.exitAt THEN "43" ELSE "none"
  BY <1>2
<1> QED
  BY <1>3, <1>4, <1>5 DEF Faithful

LEMMA FaithfulExit ==
  ASSUME Chosen, NEW x \in Session, Faithful(x), x.exit # "none"
  PROVE  x.at = guest.exitAt /\ x.exit = "43" /\ x.out
<1>1. x.at = guest.exitAt /\ x.exit = "43"
  BY DEF Faithful
<1>2. guest.outAt <= guest.exitAt
  BY GuestAssumption DEF Chosen
<1> QED
  BY <1>1, <1>2 DEF Faithful

(* Nothing that goes right takes a guest that fits off its course.         *)
LEMMA CourseStep ==
  ASSUME TypeOK, Chosen, WithinGuest, Budget, BoundaryKept, OnCourse, [Next]_vars
  PROVE  OnCourse'
<1> SUFFICES ASSUME Suitable'
             PROVE  Course'
  BY DEF OnCourse
<1>a. UNCHANGED setting
  BY DEF Next, RefuseCount, Create, Transfer, Boundary, BoundaryMismatch,
     SliceSource, SliceReplay, SliceRestored, Slice, OutOfSlices, RunEnds, Restore,
     ReplayEnds, Import, Compare, RerunEnds, CallThrows, Close, vars, setting
<1>b. kind' = kind /\ count' = count /\ guest' = guest
  BY <1>a DEF setting
<1>c. /\ MaxFaults \in Nat /\ faults \in Nat /\ count \in Nat /\ k \in Nat
      /\ guest.exitAt \in Nat /\ guest.outAt \in 1 .. guest.exitAt
      /\ MaxSlices \in Nat /\ seen.exitSteps \in Nat
      /\ s \in Session /\ export \in Session /\ s.at \in Nat /\ s.steps \in Nat
      /\ s.out \in BOOLEAN
  BY GuestAssumption DEF TypeOK, Chosen, MaxSlices, Session
<1>d. faults' = 0
  BY DEF Suitable
<1>e. faults = 0
  BY <1>c, <1>d DEF Next, RefuseCount, Create, Transfer, Boundary,
     BoundaryMismatch, SliceSource, SliceReplay, SliceRestored, Slice, OutOfSlices,
     RunEnds, Restore, ReplayEnds, Import, Compare, RerunEnds, CallThrows, Close,
     Becomes, vars, setting
<1>f. /\ count >= 1 /\ count < guest.exitAt /\ guest.exitAt - count <= MaxSlices
      /\ kind = "restart" => guest.exitAt <= 32
      /\ (guest.outAt <= count) = (kind = "restart")
  BY <1>b DEF Suitable, Fits, MaxSlices
<1>g. Course
  BY <1>e, <1>f DEF OnCourse, Suitable, Fits
<1>h. \A x : Becomes(x) => s' = x
  BY <1>c, <1>d DEF Becomes
<1>i. \A x : Faithful(x)' = Faithful(x)
  BY <1>b DEF Faithful
<1>1. CASE RefuseCount
  BY <1>1, <1>c, <1>f DEF RefuseCount
<1>2. CASE Create
  <2>1. s' = Entry /\ step' = "transfer" /\ k' = 0
    BY <1>2 DEF Create
  <2>2. Entry.at = 0 /\ Entry.out = FALSE /\ Entry.exit = "none"
    BY DEF Entry
  <2>3. (guest.outAt <= 0) = FALSE /\ guest.exitAt # 0
    BY <1>c
  <2>4. Faithful(Entry)
    BY <2>2, <2>3 DEF Faithful
  <2> QED
    BY <1>b, <2>1, <2>2, <2>4 DEF Course, Faithful, Exported
<1>3. CASE Transfer
  <2>1. CASE kind = "restart"
    <3>1. s.at = k /\ k < count /\ Faithful(s) /\ k' = k + 1
      BY <1>3, <1>g, <2>1 DEF Transfer, Course
    <3>2. s' = Advance(s, 1)
      BY <1>3, <1>h, <2>1 DEF Transfer
    <3>3. s'.at = k + 1 /\ Faithful(s')
      BY <1>c, <1>f, <3>1, <3>2, FaithfulAdvance
    <3>4. s'.exit = "none"
      BY <1>c, <1>f, <3>1, <3>3 DEF Faithful
    <3>5. step' = IF k' = count THEN "boundary" ELSE "transfer"
      BY <1>3, <3>4 DEF Transfer
    <3> QED
      BY <1>b, <2>1, <3>1, <3>3, <3>5 DEF Course, Faithful, Exported
  <2>2. CASE kind # "restart"
    <3>1. s.at = 0 /\ Faithful(s) /\ k' = count
      BY <1>3, <1>g, <2>2 DEF Transfer, Course
    <3>2. s' = Advance(s, count)
      BY <1>3, <1>h, <2>2 DEF Transfer
    <3>3. s'.at = count /\ Faithful(s')
      BY <1>c, <1>f, <3>1, <3>2, FaithfulAdvance
    <3>4. s'.exit = "none"
      BY <1>c, <1>f, <3>3 DEF Faithful
    <3>5. step' = "boundary"
      BY <1>3, <3>1, <3>4 DEF Transfer
    <3> QED
      BY <1>b, <3>3, <3>5 DEF Course, Faithful, Exported
  <2> QED  BY <2>1, <2>2
<1>4. CASE Boundary
  <2>1. s.at = count /\ Faithful(s)
    BY <1>4, <1>g DEF Boundary, Course
  <2>2. step' = "run" /\ s' = s /\ export' = s /\ k' = 0
    BY <1>4 DEF Boundary
  <2> QED  BY <1>b, <1>c, <2>1, <2>2 DEF Course, Faithful, Exported
<1>5. CASE BoundaryMismatch
  BY <1>5, <1>f, <1>g DEF BoundaryMismatch, Course, Faithful
<1>6. ASSUME NEW from \in {"run", "rerun"}, Slice(from)
      PROVE  Course'
  <2>1. s.at = count + k /\ Faithful(s)
    BY <1>6, <1>g DEF Slice, Course
  <2>2. /\ s.exit = "none" => s.at < guest.exitAt
        /\ ~Exited /\ step' = step /\ k' = k + 1 /\ export' = export
        /\ seen' = seen
    BY <1>6, <1>c, <2>1 DEF Slice, Faithful, WithinGuest
  <2>3. s' = Advance(s, 1)
    BY <1>6, <1>h DEF Slice
  <2>4. s'.at = count + k' /\ Faithful(s')
    BY <1>c, <2>1, <2>2, <2>3, FaithfulAdvance DEF Exited
  <2>5. step' = from /\ step = from
    BY <1>6, <2>2 DEF Slice
  <2> QED
    BY <1>b, <1>6, <1>g, <2>2, <2>4, <2>5 DEF Course, Faithful, Exported
<1>7. CASE SliceReplay
  <2>1. /\ s.at = k /\ s.steps = seen.exitSteps + k /\ Faithful(s)
        /\ seen.slices = guest.exitAt - count /\ kind = "restart"
    BY <1>7, <1>g DEF SliceReplay, Slice, Course
  <2>2. /\ s.at < guest.exitAt /\ step' = "replay" /\ k' = k + 1
        /\ export' = export /\ seen' = seen
    BY <1>7, <1>c, <2>1 DEF SliceReplay, Slice, Exited, Faithful, WithinGuest
  <2>3. s' = Advance(s, 1)
    BY <1>7, <1>h DEF SliceReplay, Slice
  <2>4. s'.at = k' /\ s'.steps = seen.exitSteps + k' /\ Faithful(s')
    BY <1>c, <2>1, <2>2, <2>3, FaithfulAdvance
  <2>5. step = "replay"
    BY <1>7 DEF SliceReplay, Slice
  <2> QED
    BY <1>b, <1>g, <2>1, <2>2, <2>4, <2>5 DEF Course, Faithful, Exported
<1>8. CASE OutOfSlices
  <2>1. CASE step \in {"run", "rerun"}
    <3>1. s.at = count + MaxSlices /\ Faithful(s) /\ s.exit = "none"
      BY <1>8, <1>g, <2>1 DEF OutOfSlices, Course, Exited
    <3> QED  BY <1>c, <1>f, <3>1 DEF Faithful, WithinGuest
  <2>2. CASE step = "replay"
    <3>1. /\ s.at = MaxSlices /\ Faithful(s) /\ s.exit = "none"
          /\ kind = "restart"
      BY <1>8, <1>g, <2>2 DEF OutOfSlices, Course, Exited
    <3> QED  BY <1>c, <1>f, <3>1 DEF Faithful, WithinGuest, MaxSlices
  <2> QED  BY <1>8, <2>1, <2>2 DEF OutOfSlices
<1>9. CASE RunEnds
  <2>1. s.at = count + k /\ Faithful(s) /\ s.exit # "none" /\ step = "run"
    BY <1>9, <1>g DEF RunEnds, Course, Exited
  <2>2. s.at = guest.exitAt /\ s.exit = "43" /\ s.out /\ k = guest.exitAt - count
    BY <1>c, <2>1, FaithfulExit
  <2>3. step' = IF kind = "restart" THEN "restore" ELSE "closeSource"
    BY <1>9, <2>2 DEF RunEnds
  <2>4. /\ seen'.slices = k /\ seen'.exitSteps = s.steps
        /\ s' = s /\ export' = export
    BY <1>9 DEF RunEnds, TypeOK
  <2> QED
    BY <1>b, <1>g, <2>1, <2>2, <2>3, <2>4 DEF Course, Faithful, Exported
<1>10. CASE Restore
  <2>1. /\ s.steps = seen.exitSteps /\ seen.slices = guest.exitAt - count
        /\ kind = "restart" /\ step = "restore"
    BY <1>10, <1>g DEF Restore, Course
  <2>2. s' = [Entry EXCEPT !.steps = s.steps] /\ k' = 0
    BY <1>10, <1>h DEF Restore
  <2>3. /\ s'.at = 0 /\ s'.out = FALSE /\ s'.exit = "none"
        /\ s'.steps = s.steps
    BY <2>2 DEF Entry
  <2>4. step' = "replay" /\ export' = export /\ seen' = seen
    BY <1>10, <2>3 DEF Restore
  <2>5. Faithful(s')
    <3>1. (guest.outAt <= 0) = FALSE /\ guest.exitAt # 0
      BY <1>c
    <3> QED  BY <2>3, <3>1 DEF Faithful
  <2> QED
    BY <1>b, <1>c, <1>g, <2>1, <2>2, <2>3, <2>4, <2>5 DEF Course, Faithful, Exported
<1>11. CASE ReplayEnds
  <2>1. /\ s.at = k /\ s.steps = seen.exitSteps + k /\ Faithful(s)
        /\ seen.slices = guest.exitAt - count /\ s.exit # "none"
    BY <1>11, <1>g DEF ReplayEnds, Course, Exited
  <2>2. s.at = guest.exitAt /\ s.exit = "43" /\ s.out
    BY <1>c, <2>1, FaithfulExit
  <2>3. s.steps > seen.exitSteps /\ k > seen.slices
    BY <1>c, <1>f, <2>1, <2>2
  <2>4. rewound'
    BY <1>11, <2>2, <2>3 DEF ReplayEnds
  <2>5. step' = "closeSource" /\ step = "replay" /\ export' = export
    BY <1>11, <2>4 DEF ReplayEnds
  <2> QED
    BY <1>b, <1>g, <2>5 DEF Course, Faithful, Exported
<1>12. CASE Import
  <2>1. s' = export /\ export' = export /\ step' = "compare" /\ step = "import"
    BY <1>12, <1>h DEF Import
  <2> QED
    BY <1>b, <1>g, <2>1 DEF Course, Faithful, Exported
<1>13. CASE Compare
  <2>1. s = export /\ export.at = count /\ Faithful(export) /\ k = 0
    BY <1>13, <1>g DEF Compare, Course, Exported, Budget
  <2>2. /\ export.exit = "none" /\ export.out = (kind = "restart")
        /\ export.at = seen.at /\ export.steps = seen.steps
    BY <1>13 DEF Compare, BoundaryKept, Exported
  <2>3. step' = "rerun" /\ s' = s /\ k' = k /\ export' = export
    BY <1>13, <2>1, <2>2 DEF Compare, Exited
  <2> QED
    BY <1>b, <1>c, <2>1, <2>3 DEF Course, Faithful, Exported
<1>14. CASE RerunEnds
  <2>1. Faithful(s) /\ s.exit # "none" /\ step = "rerun"
    BY <1>14, <1>g DEF RerunEnds, Course, Exited
  <2>2. s.exit = "43" /\ s.out
    BY <1>c, <2>1, FaithfulExit
  <2>3. step' = "close" /\ export' = export
    BY <1>14, <2>2 DEF RerunEnds
  <2> QED
    BY <1>b, <1>g, <2>1, <2>3 DEF Course, Faithful, Exported
<1>15. CASE CallThrows
  BY <1>15, <1>d, <1>e DEF CallThrows
<1>16. CASE Close
  <2>1. ~live' /\ step # "unwind"
    BY <1>16, <1>d, <1>e, <1>g DEF Close, Course
  <2>2. /\ step' = IF step = "closeSource" THEN "import" ELSE "passed"
        /\ step \in {"closeSource", "close"} /\ export' = export
    BY <1>16, <2>1 DEF Close
  <2> QED
    BY <1>b, <1>g, <2>2 DEF Course, Faithful, Exported
<1>17. CASE UNCHANGED vars
  BY <1>17, <1>b, <1>g DEF vars, Course, Faithful, Exported
<1> QED
  BY <1>1, <1>2, <1>3, <1>4, <1>5, <1>6, <1>7, <1>8, <1>9, <1>10, <1>11, <1>12,
     <1>13, <1>14, <1>15, <1>16, <1>17 DEF Next, SliceSource, SliceRestored

-------------------------------------------------------------------------------
(* The inductive invariant holds from the start and after every step.      *)
THEOREM Invariance == Spec => []IInv
<1>1. Init => IInv
  <2> SUFFICES ASSUME Init
               PROVE  IInv
    OBVIOUS
  <2>1. /\ MaxFaults \in Nat /\ guest.exitAt \in Nat /\ count \in Nat
        /\ MaxSlices \in Nat
    BY GuestAssumption DEF Init, MaxSlices
  <2>2. TypeOK
    <3>1. s \in Session /\ export \in Session
      BY DEF Init, Entry, Session
    <3>2. seen \in [at : Nat, steps : Nat, slices : Nat, exitSteps : Nat]
      BY DEF Init, NoEvidence
    <3>3. k \in 0 .. MaxSlices /\ faults \in 0 .. MaxFaults
      BY <2>1 DEF Init
    <3> QED  BY <3>1, <3>2, <3>3 DEF Init, TypeOK
  <2>3. Chosen /\ WithinGuest /\ Budget
    BY <2>1 DEF Init, Chosen, WithinGuest, Budget, Entry
  <2>4. Holding
    <3>1. (step \in Held) = FALSE /\ live = FALSE /\ step # "threw"
      BY DEF Init, Held
    <3> QED  BY <3>1 DEF Holding
  <2>5. BoundaryKept /\ ImportExact /\ Gated
    BY DEF Init, BoundaryKept, ImportExact, Gated, Exported
  <2>6. OnCourse
    BY DEF Init, OnCourse, Course, Exported
  <2> QED  BY <2>2, <2>3, <2>4, <2>5, <2>6 DEF IInv
<1>2. IInv /\ [Next]_vars => IInv'
  BY TypeStep, BudgetStep, HoldingStep, BoundaryStep, ImportStep, GatedStep,
     CourseStep DEF IInv
<1> QED
  BY <1>1, <1>2, PTL DEF Spec

(* Every session the gate holds is of its type, and an import is run on    *)
(* only if state, exit code, pc, steps and output, which are all that a    *)
(* Session records, are those of the export, whatever the core answers     *)
(* (host.mjs 639-655, 779-790).                                            *)
THEOREM TransferSafety == Spec => []TransferInv
<1>1. IInv => TransferInv
  BY DEF IInv, TransferInv
<1> QED
  BY <1>1, Invariance, PTL

(* A passed gate has seen a source that was rewound to its entry and ran   *)
(* longer than it had left, and an import that exited with 43 and the      *)
(* output; and no instance holds a session (host.mjs 566-611, 656-677).    *)
THEOREM GateSafety == Spec => []GateSound
<1>1. IInv => GateSound
  <2>1. step = "passed" => (step \in Held) = FALSE
    BY DEF Held
  <2>2. IInv /\ step = "passed" => ~live
    BY <2>1 DEF IInv, Holding
  <2> QED  BY <2>2 DEF IInv, GateSound, Gated
<1> QED
  BY <1>1, Invariance, PTL

(* A gate that is over has left a session only if the core refused or      *)
(* feigned to destroy it, and then it has failed: the `finally` blocks     *)
(* (host.mjs 613, 678, 752, 816) lie on every way out.                     *)
THEOREM ReleaseSafety == Spec => []NoSessionLeft
<1>1. IInv => NoSessionLeft
  BY DEF IInv, NoSessionLeft, Holding, Held
<1> QED
  BY <1>1, Invariance, PTL

(* On a core that does what it should no gate fails with a guest that      *)
(* fits: not for its comparisons, not for its bounds on blocks and slices. *)
THEOREM FittingSafety == Spec => []FittingGuestPasses
<1>1. IInv => FittingGuestPasses
  BY DEF IInv, FittingGuestPasses, OnCourse, Suitable, Course
<1> QED
  BY <1>1, Invariance, PTL
===============================================================================
