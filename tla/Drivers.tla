-------------------------------- MODULE Drivers --------------------------------
(***************************************************************************)
(* The programs that drive sessions of the core through host.mjs: the      *)
(* runner (run.mjs), self-test, benchmark, qualify-promotion, verify-cdn,  *)
(* explicit-workspace-gate and quality-gate.  Each is a script: a sequence *)
(* of steps, read by one set of actions.  `fin' is the distance to the     *)
(* finally block a step throws into, 0 outside of every try.               *)
(*                                                                         *)
(* All bounds on run calls (32, 100, 5000, 100000) are the one constant    *)
(* Bound; where a loop looks at it differs and is kept.  Of benchmark's,   *)
(* promotion's and verify-cdn's rounds Rounds are made, of explicit's five *)
(* cases three: two that are alike and the one that restores a snapshot.   *)
(* The core is external: faults of it are counted by MaxFaults.            *)
(*                                                                         *)
(* HostCallerProofs extends this module together with FetchBridge; names   *)
(* that both need start with Driver here.                                  *)
(***************************************************************************)
EXTENDS Naturals, Sequences, FiniteSets

CONSTANTS
  Program,       \* the programs of the run
  Bound,         \* run calls a guest may take
  Needs,         \* run calls that guests do take
  Codes,         \* exit codes of the guests given to the runner
  Rounds, MaxFaults

Programs ==
  {"run", "self-test", "benchmark", "promotion", "cdn", "explicit", "quality"}

ASSUME BoundAssumption ==
  /\ Program \subseteq Programs
  /\ {Bound, Rounds} \subseteq Nat \ {0} /\ MaxFaults \in Nat
  /\ Needs \subseteq Nat \ {0} /\ Codes \subseteq Nat

VARIABLES
  prog, deno,    \* the program, and whether Deno executes it
  fits,          \* is the core of ABI 5?
  needs, code,   \* the guests
  line, round,   \* the step; the round of a loop
  calls,         \* run calls in the loop
  live,          \* core: the sessions that exist
  exited, bad,   \* core: sessions whose guest has exited, or went wrong
  threw, failed, \* the pending exception; the failures recorded
  told,          \* what was printed
  exit,          \* process.exitCode
  status,        \* how the process ended
  faults,        \* faults of the core so far
  kept, wrong    \* history: sessions the core kept although it was told to
                 \* destroy them or gave no handle; sessions ever bad

args == <<prog, deno, fits, needs, code>>
core == <<live, exited, bad, kept, wrong>>
verdict == <<failed, told, exit>>
driverVars == <<args, line, round, calls, core, threw, verdict, status, faults>>

-------------------------------------------------------------------------------
(* The scripts. *)

Do(op, s, fin) == [op |-> op, s |-> s, fin |-> fin]

(* create; try { run; check } finally { destroy; ... }                     *)
Lifecycle(loop, s, finally) ==
  <<Do("create", s, 0), Do(loop, s, 2), Do("ask", s, 1), Do("destroy", s, 0)>>
  \o finally

Raise == Do("raise", "-", 0)
None == Do("none", "-", 0)

Runner ==
  <<Do("abi", "-", 0), Do("create", "a", 0), Do("run", "a", 3), Do("read", "a", 2),
    Do("leave", "a", 1), Do("destroy", "a", 0), Raise>>

SelfTest ==
  <<Do("abi", "-", 0), Do("create", "a", 0), Do("run", "a", 3), Do("ask", "a", 2),
    Do("tell", "a", 1), Do("destroy", "a", 0), None, Raise>>

Benchmark ==
  Lifecycle("run", "a", <<None, Raise>>)
  \o <<Do("again", "-", 0), Do("tell", "-", 0)>>

Promotion ==
  <<Do("create", "a", 0), Do("call", "a", 3), Do("run", "a", 2), Do("ask", "a", 1),
    Do("destroy", "a", 0), None, Raise, Do("again", "-", 0), Do("limits", "-", 0),
    Do("tell", "-", 0), Do("verdict", "-", 0)>>

Cdn ==
  <<Do("abi", "-", 0)>> \o Lifecycle("while", "a", <<Raise, None>>)
  \o <<Do("again", "-", 0), Do("seal", "-", 0), Do("verdict", "-", 0)>>

(* The case explicit-on: a snapshot is taken, the guest run, the snapshot  *)
(* restored into a second session, whose try is inside the first one's.    *)
SnapshotCase ==
  <<Do("create", "a", 0), Do("call", "a", 10), Do("while", "a", 9), Do("ask", "a", 8),
    Do("call", "a", 7), Do("create", "b", 6), Do("refuse", "b", 3),
    Do("while", "b", 2), Do("ask", "b", 1), Do("destroy", "b", 2),
    Do("raise", "-", 1), Do("destroy", "a", 0), None, Raise>>

Explicit ==
  <<Do("abi", "-", 0)>> \o Lifecycle("while", "a", <<None, Raise>>) \o SnapshotCase
  \o Lifecycle("while", "a", <<None, Raise>>)
  \o <<Do("refuse", "new", 0), None, Do("count", "-", 0), Do("verdict", "-", 0)>>

Quality ==
  <<Do("abi", "-", 0), Do("refuse", "new", 0), None,
    Do("create", "a", 0), Do("create", "b", 0), Do("for", "a", 4), Do("ask", "a", 3),
    Do("for", "b", 2), Do("ask", "b", 1), Do("destroy", "a", 0), Do("destroy", "b", 0),
    Raise, Do("refuse", "-", 0)>>
  \o Lifecycle("for", "c", <<Raise, None, Do("call", "-", 0)>>)
  \o Lifecycle("for", "d", <<Raise>>)
  \o <<Do("create", "e", 0), Do("while", "e", 2), Do("read", "e", 1),
       Do("destroy", "e", 0), Raise, Do("note", "e", 0),
       Do("create", "f", 0), Do("refuse", "f", 1), Do("destroy", "f", 0), Raise,
       None, Do("tell", "-", 0), Do("verdict", "-", 0)>>

ScriptOf(p) ==
  CASE p = "run" -> Runner
    [] p = "self-test" -> SelfTest
    [] p = "benchmark" -> Benchmark
    [] p = "promotion" -> Promotion
    [] p = "cdn" -> Cdn
    [] p = "explicit" -> Explicit
    [] p = "quality" -> Quality

Script == ScriptOf(prog)

Session == {"a", "b", "c", "d", "e", "f", "stray"}
Running == 1000

DriverTypeOK ==
  /\ prog \in Program /\ {deno, fits, threw, failed} \subseteq BOOLEAN
  /\ needs \in Needs /\ code \in Codes
  /\ line \in 1 .. Len(Script) + 1 /\ round \in 1 .. Rounds
  /\ calls \in 0 .. Bound
  /\ live \subseteq Session /\ {exited, bad, kept, wrong} \subseteq SUBSET Session
  /\ told \in {"nothing", "output", "ok", "failed"}
  /\ exit \in Nat /\ status \in 0 .. 255 \cup {Running}
  /\ faults \in 0 .. MaxFaults

DriverInit ==
  /\ prog \in Program /\ deno \in BOOLEAN /\ fits \in BOOLEAN
  /\ needs \in Needs /\ code \in Codes
  /\ line = 1 /\ round = 1 /\ calls = 0
  /\ live = {} /\ exited = {} /\ bad = {} /\ kept = {} /\ wrong = {}
  /\ threw = FALSE /\ failed = FALSE /\ told = "nothing"
  /\ exit = 0 /\ status = Running /\ faults = 0

-------------------------------------------------------------------------------
(* Control. *)

At(ops) == status = Running /\ line <= Len(Script) /\ Script[line].op \in ops
S == Script[line].s

Step == line' = line + 1 /\ calls' = 0 /\ UNCHANGED <<threw, status>>

(* Where explicit and verify-cdn catch what nothing else has caught: they  *)
(* note the error and write their receipt.                                 *)
Sealing == {i \in DOMAIN Script : i > line /\ Script[i].op \in {"seal", "count"}}

(* Mutant: an exception thrown in a try goes past its finally block. *)
ThrowPast ==
  /\ calls' = 0
  /\ IF Sealing # {}
       THEN line' \in Sealing /\ threw' = FALSE /\ failed' = TRUE /\ UNCHANGED status
       ELSE status' = 1 /\ threw' = TRUE /\ UNCHANGED <<line, failed>>
  /\ UNCHANGED <<told, exit>>

Throw ==
  /\ calls' = 0
  /\ IF Script[line].fin > 0
       THEN line' = line + Script[line].fin /\ threw' = TRUE /\ UNCHANGED <<failed, status>>
     ELSE IF Sealing # {}
       THEN line' \in Sealing /\ threw' = FALSE /\ failed' = TRUE /\ UNCHANGED status
       ELSE status' = 1 /\ threw' = TRUE /\ UNCHANGED <<line, failed>>
  /\ UNCHANGED <<told, exit>>

StepOrThrow(ok) == IF ok THEN Step /\ UNCHANGED verdict ELSE Throw

EndFinally ==
  /\ At({"raise"}) /\ StepOrThrow(~threw)
  /\ UNCHANGED <<args, round, core, faults>>

Again ==
  /\ At({"again"}) /\ calls' = 0
  /\ IF round < Rounds THEN line' = 1 /\ round' = round + 1
                       ELSE line' = line + 1 /\ UNCHANGED round
  /\ UNCHANGED <<args, core, threw, verdict, status, faults>>

Finish ==
  /\ status = Running /\ line = Len(Script) + 1
  /\ status' = exit % 256
  /\ UNCHANGED <<args, line, round, calls, core, threw, verdict, faults>>

-------------------------------------------------------------------------------
(* What the host is asked to do. *)

Create ==
  /\ At({"create"}) /\ Step
  /\ live' = live \cup {S} /\ exited' = exited \ {S} /\ bad' = bad \ {S}
  /\ UNCHANGED <<args, round, kept, wrong, verdict, faults>>

(* Mutant: the calls are not counted. *)
SliceUncounted ==
  /\ At({"run", "for", "while"})
  /\ exited' = IF calls + 1 = needs THEN exited \cup {S} ELSE exited
  /\ IF calls + 1 = needs THEN Step /\ UNCHANGED verdict
     ELSE UNCHANGED <<line, calls, threw, status, verdict>>
  /\ UNCHANGED <<args, round, live, bad, kept, wrong, faults>>

(* One run call.  `run' makes the call and then looks at the bound, even   *)
(* if the guest has just exited; `for' and `while' make no call beyond it, *)
(* and `while' leaves it to the checks that follow to tell.                *)
Slice ==
  /\ At({"run", "for", "while"})
  /\ exited' = IF calls + 1 = needs THEN exited \cup {S} ELSE exited
  /\ IF At({"run"}) /\ calls = Bound THEN Throw
     ELSE IF calls + 1 = needs THEN Step /\ UNCHANGED verdict
     ELSE IF calls + 1 < Bound \/ At({"run"})
       THEN calls' = calls + 1 /\ UNCHANGED <<line, threw, status, verdict>>
     ELSE StepOrThrow(At({"while"}))
  /\ UNCHANGED <<args, round, live, bad, kept, wrong, faults>>

(* Mutant: whether the guest has exited is not asked. *)
AskOutputOnly ==
  /\ At({"ask"}) /\ StepOrThrow(S \notin bad)
  /\ UNCHANGED <<args, round, core, faults>>

(* The guest has exited, and what the program checks of it (exit code and  *)
(* outputs, in some programs the step count as well) is as expected: a     *)
(* guest has gone wrong if that is not.                                    *)
Ask ==
  /\ At({"ask"}) /\ StepOrThrow(S \in exited \ bad)
  /\ UNCHANGED <<args, round, core, faults>>

(* What is judged without an exception: the entropy check of quality-gate. *)
Note ==
  /\ At({"note"}) /\ Step
  /\ failed' = (failed \/ S \notin exited \ bad)
  /\ UNCHANGED <<args, round, core, told, exit, faults>>

(* Calls without a result that is judged here: the instantiation's ABI,    *)
(* a write, an export, a portable gate, the runner's outputs, a refusal.   *)
Simple ==
  /\ At({"abi", "call", "read", "refuse", "limits"})
  /\ IF At({"abi"}) /\ ~fits THEN Throw
     ELSE /\ Step /\ UNCHANGED <<failed, exit>>
          /\ told' = IF At({"read"}) /\ prog = "run" THEN "output" ELSE told
  /\ UNCHANGED <<args, round, core, faults>>

Destroy ==
  /\ At({"destroy"}) /\ Step
  /\ live' = live \ {S}
  /\ UNCHANGED <<args, round, exited, bad, kept, wrong, verdict, faults>>

(* Mutant: the sessions are counted, and the count is not looked at. *)
NoneLeftIgnored ==
  /\ At({"none"}) /\ Step
  /\ UNCHANGED <<args, round, core, verdict, faults>>

NoneLeft ==
  /\ At({"none"}) /\ StepOrThrow(live = {})
  /\ UNCHANGED <<args, round, core, faults>>

-------------------------------------------------------------------------------
(* What the process says. *)

Tell ==
  /\ At({"tell", "seal", "count"}) /\ Step
  /\ failed' = (failed \/ (At({"count"}) /\ live # {}))
  /\ told' = IF failed' THEN "failed" ELSE "ok"
  /\ UNCHANGED <<args, round, core, exit, faults>>

(* A recorded failure ends the process with status 1.                      *)
Verdict ==
  /\ At({"verdict"}) /\ Step
  /\ exit' = IF failed THEN 1 ELSE exit
  /\ UNCHANGED <<args, round, core, failed, told, faults>>

(* Mutant: the code is clamped to a byte, as the native host does. *)
LeaveClamped ==
  /\ At({"leave"})
  /\ exit' = IF code > 255 THEN 255 ELSE code
  /\ IF deno THEN status' = exit' /\ UNCHANGED <<line, calls, threw>> ELSE Step
  /\ UNCHANGED <<args, round, core, failed, told, faults>>

(* setExit: Deno leaves at once, the others when the module has ended.     *)
Leave ==
  /\ At({"leave"})
  /\ exit' = code
  /\ IF deno THEN status' = code % 256 /\ UNCHANGED <<line, calls, threw>> ELSE Step
  /\ UNCHANGED <<args, round, core, failed, told, faults>>

-------------------------------------------------------------------------------
(* Faults of the core. *)

Fault == status = Running /\ faults < MaxFaults /\ faults' = faults + 1
         /\ UNCHANGED <<args, round>>

Judged == {"ask", "note", "none", "count", "tell"}

(* Any call may trap; a creation may have made its session by then.        *)
Trap ==
  /\ Fault
  /\ At({"create", "call", "read", "run", "for", "while"} \cup Judged)
  /\ At({"tell"}) => prog = "self-test"
  /\ Throw
  /\ IF At({"create"}) THEN live' \in {live, live \cup {"stray"}} ELSE UNCHANGED live
  /\ kept' = kept \cup (live' \ live)
  /\ UNCHANGED <<exited, bad, wrong>>

(* A guest that runs goes wrong, or another one whose session is open.     *)
GoWrong ==
  /\ Fault /\ At({"run", "for", "while"})
  /\ \E s \in live \ exited : bad' = bad \cup {s} /\ wrong' = wrong \cup {s}
  /\ UNCHANGED <<line, calls, live, exited, kept, threw, verdict, status>>

(* The core admits what it should refuse.  explicit destroys the session   *)
(* it should not have got, quality-gate has no handle of it.               *)
Admit ==
  /\ Fault /\ At({"refuse"}) /\ Throw
  /\ live' = IF S = "new" /\ prog = "quality" THEN live \cup {"stray"} ELSE live
  /\ kept' = kept \cup (live' \ live)
  /\ UNCHANGED <<exited, bad, wrong>>

(* The core refuses a destroy, or says that it did and did not.            *)
DestroyFault ==
  /\ Fault /\ At({"destroy"})
  /\ kept' = kept \cup {S}
  /\ Throw \/ (Step /\ UNCHANGED verdict)
  /\ UNCHANGED <<live, exited, bad, wrong>>

(* Promotion alone: a limit on time or memory is not met.                  *)
Slow ==
  /\ Fault /\ At({"limits"}) /\ Step
  /\ failed' = TRUE
  /\ UNCHANGED <<core, told, exit>>

DriverNext ==
  \/ EndFinally \/ Again \/ Finish
  \/ Create \/ Slice \/ Ask \/ Note \/ Simple \/ Destroy \/ NoneLeft
  \/ Tell \/ Verdict \/ Leave
  \/ Trap \/ GoWrong \/ Admit \/ DestroyFault \/ Slow

DriverSpec == DriverInit /\ [][DriverNext]_driverVars

(* The programs run on: every await in them is of the runtime itself.      *)
DriverFairSpec == DriverSpec /\ WF_driverVars(DriverNext)

-------------------------------------------------------------------------------
Ended == status # Running
Gate == prog # "run"
Sound == wrong = {} /\ live = {} /\ (prog \in {"benchmark", "promotion"} \/ fits)

(* Exit status 0 of a gate is all that the workflows look at: no guest of  *)
(* it went wrong, the core is of its ABI, and no session was left, feigned *)
(* destroys included.                                                      *)
PassSound == Gate /\ status = 0 => Sound

(* A receipt that says ok is kept as an artifact whatever happens later:   *)
(* no gate but self-test prints one and then fails, and none prints one    *)
(* over a guest that went wrong.                                           *)
ReceiptHonest ==
  told = "ok" => wrong = {} /\ (prog # "self-test" => status \in {Running, 0} /\ Sound)

(* Together, of states of their type: what a program says is true. *)
Honest == DriverTypeOK /\ PassSound /\ ReceiptHonest

(* The bound of each loop admits exactly the guests that need no more than *)
(* it, whether the loop looks at it before or after the call: all programs *)
(* accept the same guests.                                                 *)
FittingGuestPasses ==
  Ended /\ faults = 0 /\ fits =>
    IF needs > Bound THEN status = 1
    ELSE status = IF Gate THEN 0 ELSE code % 256

(* The runner's status is the guest's only if the guest has exited and its *)
(* outputs are written, and but for Deno after a destroy; else it is 1.    *)
RunnerFaithful ==
  prog = "run" /\ Ended =>
    \/ threw /\ status = 1
    \/ /\ told = "output" /\ "a" \in exited /\ status = code % 256
       /\ deno \/ live \subseteq kept

(* Every session a program made is destroyed however it ends, but for the  *)
(* ones the core keeps and three holes: Deno.exit inside the runner's try, *)
(* quality-gate's first session if the second cannot be created, and its   *)
(* second if the first cannot be destroyed.                                *)
SessionsDestroyed ==
  Ended =>
    LET left == live \ kept
    IN  \/ left = {}
        \/ prog = "run" /\ deno /\ left = {"a"}
        \/ prog = "quality" /\ left = {"a"} /\ Script[line].op = "create"
        \/ prog = "quality" /\ left = {"b"} /\ "a" \in kept

(* No loop outlasts its bound, whatever the core answers.                  *)
Ends == <>Ended
===============================================================================
