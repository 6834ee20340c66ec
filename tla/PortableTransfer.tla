--------------------------- MODULE PortableTransfer ---------------------------
(***************************************************************************)
(* The portable transfer gates of src/glue/js/host.mjs (490-859).  A       *)
(* source session runs a guest to a block boundary, exports it, runs on    *)
(* to the guest's exit and is destroyed; a fresh instance imports the      *)
(* export, must find the same boundary, and runs to the same exit.         *)
(* "restart" is createPortableRestart / restorePortableRestart, which also *)
(* rewinds the source to its entry checkpoint and replays it; "snapshot"   *)
(* is the AgentSnapshot pair, whose guest prints what it reads from its    *)
(* workspace.                                                              *)
(*                                                                         *)
(* The core and the guest are external: the guest is a number of blocks    *)
(* and the block at which it prints; the core executes it faithfully but   *)
(* for MaxFaults wrong answers.  The gates must see the difference, and    *)
(* end, whatever the core does.                                            *)
(***************************************************************************)
EXTENDS Naturals

CONSTANTS
  Kinds,         \* the gates exercised, among {"restart", "snapshot"}
  Counts,        \* the values of transferBlocks that callers pass
  Guests,        \* [exitAt, outAt]: the blocks that exit and that print
  MaxFaults      \* bound on the wrong answers of the core

ASSUME GuestAssumption ==
  /\ Counts \subseteq Nat /\ MaxFaults \in Nat
  /\ \A g \in Guests : g.exitAt \in Nat /\ g.outAt \in 1 .. g.exitAt

VARIABLES
  step,          \* where the gate is
  kind, count,   \* which gate; its transferBlocks
  guest,         \* the ELF
  live,          \* is there a session in the current instance?
  s,             \* that session: block, step counter, printed, exit code
  k,             \* calls of run made by the current loop
  export,        \* the bytes handed to the fresh instance
  seen,          \* what the source reported to the caller
  rewound,       \* restart: the source was replayed from its entry
  kept,          \* history: the core refused or feigned a destroy
  faults         \* wrong answers given so far

vars == <<step, kind, count, guest, live, s, k, export, seen, rewound, kept,
          faults>>
setting == <<kind, count, guest>>

Session == [at : Nat, steps : Nat, out : BOOLEAN, exit : {"none", "43", "other"}]
Entry == [at |-> 0, steps |-> 0, out |-> FALSE, exit |-> "none"]
NoEvidence == [at |-> 0, steps |-> 0, slices |-> 0, exitSteps |-> 0]

(* Mutant: one slice short. *)
MaxSlicesShort == IF kind = "restart" THEN 31 ELSE 63

(* The most one-block slices runUntilExit allows. *)
MaxSlices == IF kind = "restart" THEN 32 ELSE 64

TypeOK ==
  /\ step \in {"create", "transfer", "boundary", "run", "restore", "replay",
               "import", "compare", "rerun", "closeSource", "close", "unwind",
               "passed", "threw"}
  /\ live \in BOOLEAN /\ s \in Session /\ export \in Session
  /\ k \in 0 .. count \cup 0 .. MaxSlices
  /\ seen \in [at : Nat, steps : Nat, slices : Nat, exitSteps : Nat]
  /\ rewound \in BOOLEAN /\ kept \in BOOLEAN /\ faults \in 0 .. MaxFaults

Init ==
  /\ step = "create" /\ kind \in Kinds /\ count \in Counts /\ guest \in Guests
  /\ live = FALSE /\ s = Entry /\ k = 0 /\ export = Entry
  /\ seen = NoEvidence /\ rewound = FALSE /\ kept = FALSE /\ faults = 0

-------------------------------------------------------------------------------
(* What the core makes of a session: n more blocks of the guest.  A wrong  *)
(* answer differs from the right one in one respect.                       *)

Advance(x, n) ==
  LET to == IF x.at + n < guest.exitAt THEN x.at + n ELSE guest.exitAt
  IN [at |-> to, steps |-> x.steps + (to - x.at),
      out |-> x.out \/ guest.outAt <= to,
      exit |-> IF to = guest.exitAt THEN "43" ELSE "none"]

Wrong(x) == {[x EXCEPT !.at = 0], [x EXCEPT !.steps = 0],
             [x EXCEPT !.out = ~@], [x EXCEPT !.exit = "other"],
             [x EXCEPT !.exit = "none"]}

(* The session becomes x, or something wrong in its place. *)
Becomes(x) == \/ s' = x /\ UNCHANGED faults
              \/ faults < MaxFaults /\ s' \in Wrong(x) /\ faults' = faults + 1

Exited == s.exit # "none"

-------------------------------------------------------------------------------
(* A refused count throws before an instance exists. *)
RefuseCount ==
  /\ step = "create"
  /\ count < 1 \/ (kind = "restart" /\ count > 64)
  /\ step' = "threw"
  /\ UNCHANGED <<setting, live, s, k, export, seen, rewound, kept, faults>>

(* Instantiate, validateModule, create the session, then checkpoint it at  *)
(* its entry (restart) or write the guest's workspace (snapshot).          *)
Create ==
  /\ step = "create"
  /\ count >= 1 /\ (kind = "restart" => count <= 64)
  /\ live' = TRUE /\ s' = Entry /\ k' = 0 /\ step' = "transfer"
  /\ UNCHANGED <<setting, export, seen, rewound, kept, faults>>

(* The restart gate runs one block per call and wants READY each time; the *)
(* snapshot gate runs all its blocks in one call.                          *)
Transfer ==
  /\ step = "transfer" /\ k < count
  /\ Becomes(Advance(s, IF kind = "restart" THEN 1 ELSE count))
  /\ k' = IF kind = "restart" THEN k + 1 ELSE count
  /\ step' = IF s'.exit # "none" THEN "unwind"
             ELSE IF k' = count THEN "boundary" ELSE "transfer"
  /\ UNCHANGED <<setting, live, export, seen, rewound, kept>>

(* The output at the boundary: the guest of the restart gate has printed,  *)
(* that of the snapshot gate has not.  Then export.                        *)
Boundary ==
  /\ step = "boundary"
  /\ s.out = (kind = "restart")
  /\ export' = s /\ seen' = [seen EXCEPT !.at = s.at, !.steps = s.steps]
  /\ k' = 0 /\ step' = "run"
  /\ UNCHANGED <<setting, live, s, rewound, kept, faults>>

(* Mutant: the output is polled until it is right. *)
BoundaryMismatchPolled ==
  /\ step = "boundary" /\ s.out # (kind = "restart")
  /\ step' = "boundary"
  /\ UNCHANGED <<setting, live, s, k, export, seen, rewound, kept, faults>>

BoundaryMismatch ==
  /\ step = "boundary" /\ s.out # (kind = "restart")
  /\ step' = "unwind"
  /\ UNCHANGED <<setting, live, s, k, export, seen, rewound, kept, faults>>

(* One iteration of runUntilExit, which loops only while there are slices. *)
Slice(from) ==
  /\ step = from /\ ~Exited /\ k < MaxSlices
  /\ Becomes(Advance(s, 1)) /\ k' = k + 1
  /\ UNCHANGED <<step, setting, live, export, seen, rewound, kept>>

SliceSource == Slice("run")
SliceReplay == Slice("replay")
SliceRestored == Slice("rerun")

(* Mutant: the `try` begins too late to destroy the session. *)
OutOfSlicesOutside ==
  /\ step \in {"run", "replay", "rerun"} /\ ~Exited /\ k = MaxSlices
  /\ step' = "threw"
  /\ UNCHANGED <<setting, live, s, k, export, seen, rewound, kept, faults>>

(* runUntilExit throws when the slices are used up. *)
OutOfSlices ==
  /\ step \in {"run", "replay", "rerun"} /\ ~Exited /\ k = MaxSlices
  /\ step' = "unwind"
  /\ UNCHANGED <<setting, live, s, k, export, seen, rewound, kept, faults>>

RunEnds ==
  /\ step = "run" /\ Exited
  /\ seen' = [seen EXCEPT !.slices = k, !.exitSteps = s.steps]
  /\ step' = IF ~(s.exit = "43" /\ s.out) THEN "unwind"
             ELSE IF kind = "restart" THEN "restore" ELSE "closeSource"
  /\ UNCHANGED <<setting, live, s, k, export, rewound, kept, faults>>

(* Rewind to the entry checkpoint: the step counter runs on.  The gate     *)
(* wants a session that is ready, at its entry, with no output.            *)
Restore ==
  /\ step = "restore"
  /\ Becomes([Entry EXCEPT !.steps = s.steps])
  /\ k' = 0
  /\ step' = IF s'.exit = "none" /\ s'.at = 0 /\ ~s'.out
             THEN "replay" ELSE "unwind"
  /\ UNCHANGED <<setting, live, export, seen, rewound, kept>>

ReplayEnds ==
  /\ step = "replay" /\ Exited
  /\ rewound' = (s.exit = "43" /\ s.out /\ s.steps > seen.exitSteps
                 /\ k > seen.slices)
  /\ step' = IF rewound' THEN "closeSource" ELSE "unwind"
  /\ UNCHANGED <<setting, live, s, k, export, seen, kept, faults>>

-------------------------------------------------------------------------------
(* The fresh instance. *)
Import ==
  /\ step = "import"
  /\ live' = TRUE /\ Becomes(export)
  /\ k' = 0 /\ step' = "compare"
  /\ UNCHANGED <<setting, export, seen, rewound, kept>>

(* Mutant: the step counter is not compared. *)
CompareLoosely ==
  /\ step = "compare"
  /\ step' = IF ~Exited /\ s.at = seen.at /\ s.out = (kind = "restart")
             THEN "rerun" ELSE "unwind"
  /\ UNCHANGED <<setting, live, s, k, export, seen, rewound, kept, faults>>

(* State, exit code, pc, steps and output at the boundary. *)
Compare ==
  /\ step = "compare"
  /\ step' = IF /\ ~Exited /\ s.at = seen.at /\ s.steps = seen.steps
                /\ s.out = (kind = "restart")
             THEN "rerun" ELSE "unwind"
  /\ UNCHANGED <<setting, live, s, k, export, seen, rewound, kept, faults>>

(* Mutant: the exit code of the import is not looked at. *)
RerunEndsAnyhow ==
  /\ step = "rerun" /\ Exited
  /\ step' = IF s.out THEN "close" ELSE "unwind"
  /\ UNCHANGED <<setting, live, s, k, export, seen, rewound, kept, faults>>

RerunEnds ==
  /\ step = "rerun" /\ Exited
  /\ step' = IF s.exit = "43" /\ s.out THEN "close" ELSE "unwind"
  /\ UNCHANGED <<setting, live, s, k, export, seen, rewound, kept, faults>>

(* Any core call may answer with an error, which `require` throws.         *)
CallThrows ==
  /\ faults < MaxFaults /\ faults' = faults + 1
  /\ \/ live /\ step \notin {"closeSource", "close", "unwind", "threw"}
        /\ step' = "unwind"
     \/ step \in {"create", "import"} /\ step' = "threw"
  /\ UNCHANGED <<setting, live, s, k, export, seen, rewound, kept>>

(* `finally`: destroy, and insist that no session is left, which shows a   *)
(* destroy that was refused and one that was only feigned.  Unless an      *)
(* exception was pending the caller goes on from source to import.         *)
Close ==
  /\ step \in {"closeSource", "close", "unwind"}
  /\ \/ live' = FALSE /\ UNCHANGED <<kept, faults>>
     \/ faults < MaxFaults /\ live' = TRUE /\ kept' = TRUE /\ faults' = faults + 1
  /\ step' = IF step = "unwind" \/ live' THEN "threw"
             ELSE IF step = "closeSource" THEN "import" ELSE "passed"
  /\ UNCHANGED <<setting, s, k, export, seen, rewound>>

Next == \/ RefuseCount \/ Create \/ Transfer \/ Boundary \/ BoundaryMismatch
        \/ SliceSource \/ SliceReplay \/ SliceRestored \/ OutOfSlices
        \/ RunEnds \/ Restore \/ ReplayEnds
        \/ Import \/ Compare \/ RerunEnds \/ CallThrows \/ Close

Spec == Init /\ [][Next]_vars
FairSpec == Spec /\ WF_vars(Next)

-------------------------------------------------------------------------------
(* The fresh instance starts its run where the source was when it was      *)
(* exported, as far as the gate can tell: with its state, exit code, pc,   *)
(* steps and output, the fields of Session (host.mjs 639-655, 779-790).    *)
ImportExact == step = "rerun" /\ k = 0 => s = export

(* The two together: states of their type, imports that are exact.         *)
TransferInv == TypeOK /\ ImportExact

(* A passed gate means that the import exited with 43 and the output, that *)
(* no instance still holds a session and, for a restart, that the source,  *)
(* rewound to its entry, exited with 43 and the output after a longer run  *)
(* than the one from the boundary.  Of a snapshot's source only the export *)
(* is known by then: how its own run ended was judged before.              *)
GateSound ==
  step = "passed" => /\ s.exit = "43" /\ s.out /\ ~live
                     /\ kind = "restart" => rewound /\ seen.slices < 32

(* A gate that is over has left a session only if the core refused or     *)
(* feigned a destroy, and then it has failed.  No other wrong answer or    *)
(* exception gets past the `finally` blocks (613, 678, 752, 816).          *)
NoSessionLeft == step \in {"passed", "threw"} /\ live => kept /\ step = "threw"

(* The guest prints on the right side of the boundary, is still running at *)
(* it, and exits within the slices that remain.                            *)
Fits ==
  /\ count < guest.exitAt /\ guest.exitAt - count <= MaxSlices
  /\ (guest.outAt <= count) = (kind = "restart")

(* On a core that does what it should the gate passes with every guest     *)
(* that fits and, for a restart, exits within 32 blocks of its entry.      *)
FittingGuestPasses ==
  faults = 0 /\ count >= 1 /\ Fits /\ (kind = "restart" => guest.exitAt <= 32) =>
    step # "threw"

(* host.mjs 518-520 rejects transferBlocks outside 1..64 as an "invalid    *)
(* restart transfer block count", so each count in 1..64 is a valid one:   *)
(* with a guest that fits, a core that does what it should passes it.      *)
ValidCountPasses ==
  faults = 0 /\ kind = "restart" /\ count \in 1 .. 64 /\ Fits => step # "threw"

(* The gate ends, whatever the core answers: a guest that never exits runs *)
(* out of slices.                                                          *)
GateEnds == <>(step \in {"passed", "threw"})
===============================================================================
