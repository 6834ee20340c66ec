------------------------------ MODULE NativeHost ------------------------------
(***************************************************************************)
(* src/glue/rust/agentvm-native-host/src/main.rs: the command line host    *)
(* over Wasmtime and Wasmi.  "run" executes one guest in a fresh instance; *)
(* "bench" executes every workload Warmups + Iterations times in one       *)
(* resident instance.                                                      *)
(*                                                                         *)
(* There is no finally here: buffers are released by hand on the way that  *)
(* succeeds, and `?` returns past the releases on every other.  run_guest  *)
(* runs the guest in a closure and destroys the session however the        *)
(* closure ended; run_one destroys it only after a good run.  The two      *)
(* engines' hosts make the same calls; the core is external.               *)
(***************************************************************************)
EXTENDS Naturals, FiniteSets, SequencesExt

CONSTANTS
  Pointer, Handle, None,  \* addresses, session handles, no handle
  MaxCalls,      \* MAX_RUN_CALLS (64), or the 100000 of run_guest
  Warmups,       \* 3 samples that do not count
  Iterations,    \* samples that do
  Plans          \* the command lines: [mode, load: a sequence of guests]

ASSUME NoneAssumption == None \notin Handle
ASSUME CountAssumption == {MaxCalls, Warmups} \subseteq Nat /\ Iterations \in Nat \ {0}

(* "run" takes one guest, whose name is its argv if no other is given;     *)
(* "bench" refuses a command line without a workload.  A guest runs for    *)
(* one call at least.                                                      *)
ASSUME PlanAssumption ==
  \A p \in Plans :
    /\ p.mode \in {"run", "bench"} /\ p.load # <<>>
    /\ p.load \in Seq([kind : {"plain", "argv", "tool"}, needs : Nat \ {0}])
    /\ p.mode = "run" => Len(p.load) = 1 /\ p.load[1].kind = "argv"

VARIABLES
  plan,          \* the command line; a guest is [kind, needs]: how it is
                 \* created, and how many run calls it takes to exit
  w, sample,     \* bench: the workload and the sample
  at, phase,     \* the driver's step; the phase of the host call
  held,          \* the buffers of that call
  answer,        \* did the core accept it?
  made,          \* the handle the core made in this sample
  calls,         \* run calls in this sample
  error,         \* run_guest: the closure has failed
  heap, sessions,\* core: buffers allocated, sessions that exist
  seen, counted, \* bench, per workload: the step counts, and how many
  faulted,       \* history: something outside the program went wrong
  kept           \* history: sessions no one could destroy

driver == <<plan, w, sample>>
results == <<seen, counted>>
vars == <<plan, w, sample, at, phase, held, answer, made, calls, error, heap,
          sessions, seen, counted, faulted, kept>>

mode == plan.mode
guest == plan.load[w]

SendSteps == {"entropy", "create", "workspace"}
ReadSteps == {"stdout", "stderr"}
Over == {"exited", "reported", "failed"}
Steps == SendSteps \cup ReadSteps \cup Over
         \cup {"run", "measure", "compare", "write", "destroy", "count"}

(* The steps inside run_guest's closure. *)
Closure == {"run", "stdout", "stderr", "write"}

Operands == IF at = "entropy" \/ (at = "create" /\ guest.kind = "plain")
            THEN 1 ELSE 2

TypeOK ==
  /\ plan \in Plans /\ w \in DOMAIN plan.load
  /\ sample \in 0 .. Warmups + Iterations - 1
  /\ at \in Steps /\ phase \in {"upload", "call", "release", "len", "alloc",
                                "copy", "single"}
  /\ held \in Seq(Pointer) /\ Len(held) <= 2
  /\ answer \in BOOLEAN /\ made \in Handle \cup {None}
  /\ calls \in 0 .. MaxCalls + 1 /\ error \in BOOLEAN
  /\ heap \subseteq Pointer /\ sessions \subseteq Handle
  /\ seen \in [DOMAIN plan.load -> SUBSET {1, 2}]
  /\ counted \in [DOMAIN plan.load -> 0 .. Iterations]
  /\ faulted \in BOOLEAN /\ kept \subseteq Handle

Init ==
  /\ plan \in Plans /\ w = 1 /\ sample = 0
  /\ at = "entropy" /\ phase = "upload" /\ held = <<>> /\ answer = TRUE
  /\ made = None /\ calls = 0 /\ error = FALSE
  /\ heap = {} /\ sessions = {}
  /\ seen = [i \in DOMAIN plan.load |-> {}]
  /\ counted = [i \in DOMAIN plan.load |-> 0]
  /\ faulted = FALSE /\ kept = {}

Goto(step) ==
  /\ at' = step
  /\ phase' = IF step \in SendSteps THEN "upload"
              ELSE IF step \in ReadSteps THEN "len" ELSE "single"

(* `?` and `bail!`: out of the closure to the destroy that follows it, or  *)
(* out of the program.  The buffers at hand are forgotten.                 *)
GiveUp ==
  LET closing == mode = "run" /\ at \in Closure
  IN  /\ Goto(IF closing THEN "destroy" ELSE "failed")
      /\ error' = (error \/ closing)
      /\ held' = <<>>

-------------------------------------------------------------------------------
(* supply_entropy, create, create_agent, write_workspace: upload the       *)
(* operands, call, release them in reverse, then look at the answer.       *)

Upload(p) ==
  /\ phase = "upload" /\ p \notin heap
  /\ heap' = heap \cup {p} /\ held' = Append(held, p)
  /\ phase' = IF Len(held) + 1 = Operands THEN "call" ELSE "upload"
  /\ UNCHANGED <<driver, at, answer, made, calls, error, sessions, results,
                 faulted, kept>>

Call ==
  /\ phase = "call" /\ at # "create"
  /\ answer' = TRUE /\ phase' = "release"
  /\ UNCHANGED <<driver, at, held, made, calls, error, heap, sessions, results,
                 faulted, kept>>

CreateOk(h) ==
  /\ phase = "call" /\ at = "create" /\ h \notin sessions
  /\ sessions' = sessions \cup {h} /\ made' = h
  /\ answer' = TRUE /\ phase' = "release"
  /\ UNCHANGED <<driver, at, held, calls, error, heap, results, faulted, kept>>

CallRefused ==
  /\ phase = "call"
  /\ answer' = FALSE /\ phase' = "release" /\ faulted' = TRUE
  /\ UNCHANGED <<driver, at, held, made, calls, error, heap, sessions, results,
                 kept>>

Following ==
  CASE at = "entropy" -> "create"
    [] at = "create" -> IF guest.kind = "tool" THEN "workspace" ELSE "run"
    [] at = "workspace" -> "run"
    [] at = "stdout" -> "stderr"
    [] at = "stderr" -> IF mode = "run" THEN "write" ELSE "compare"

(* Mutant: a second operand is not given back. *)
ReleaseOnlyLast ==
  /\ phase = "release"
  /\ heap' = heap \ {Last(held)}
  /\ IF answer THEN Goto(Following) /\ held' = <<>> /\ UNCHANGED error
               ELSE GiveUp
  /\ UNCHANGED <<driver, answer, made, calls, sessions, results, faulted, kept>>

Release ==
  /\ phase = "release"
  /\ heap' = heap \ {Last(held)}
  /\ IF Len(held) > 1
       THEN held' = Front(held) /\ UNCHANGED <<at, phase, error>>
     ELSE IF answer
       THEN Goto(Following) /\ held' = <<>> /\ UNCHANGED error
     ELSE GiveUp
  /\ UNCHANGED <<driver, answer, made, calls, sessions, results, faulted, kept>>

-------------------------------------------------------------------------------
(* output: ask the length, allocate, copy, read, release.                  *)

LenEmpty ==
  /\ phase = "len" /\ Goto(Following)
  /\ UNCHANGED <<driver, held, answer, made, calls, error, heap, sessions,
                 results, faulted, kept>>

LenSome ==
  /\ phase = "len" /\ phase' = "alloc"
  /\ UNCHANGED <<driver, at, held, answer, made, calls, error, heap, sessions,
                 results, faulted, kept>>

OutputAlloc(p) ==
  /\ phase = "alloc" /\ p \notin heap
  /\ heap' = heap \cup {p} /\ held' = <<p>> /\ phase' = "copy"
  /\ UNCHANGED <<driver, at, answer, made, calls, error, sessions, results,
                 faulted, kept>>

Copy ==
  /\ phase = "copy" /\ answer' = TRUE /\ phase' = "release"
  /\ UNCHANGED <<driver, at, held, made, calls, error, heap, sessions, results,
                 faulted, kept>>

-------------------------------------------------------------------------------
(* The loop of run_one and run_guest.  The bound is looked at after the    *)
(* call, whether or not the guest exited in it.                            *)

(* Mutant: the calls are not counted. *)
RunUncounted ==
  /\ at = "run"
  /\ UNCHANGED calls
  /\ IF calls >= guest.needs
       THEN /\ Goto(IF mode = "run" THEN "stdout" ELSE "measure")
            /\ UNCHANGED <<error, held>>
     ELSE UNCHANGED <<at, phase, error, held>>
  /\ UNCHANGED <<driver, answer, made, heap, sessions, results, faulted, kept>>

(* Mutant: the bound is reached one call early. *)
RunTooShort ==
  /\ at = "run"
  /\ calls' = calls + 1
  /\ IF calls' >= MaxCalls THEN GiveUp
     ELSE IF calls' >= guest.needs
       THEN /\ Goto(IF mode = "run" THEN "stdout" ELSE "measure")
            /\ UNCHANGED <<error, held>>
     ELSE UNCHANGED <<at, phase, error, held>>
  /\ UNCHANGED <<driver, answer, made, heap, sessions, results, faulted, kept>>

Run ==
  /\ at = "run"
  /\ calls' = calls + 1
  /\ IF calls' > MaxCalls THEN GiveUp
     ELSE IF calls' >= guest.needs
       THEN /\ Goto(IF mode = "run" THEN "stdout" ELSE "measure")
            /\ UNCHANGED <<error, held>>
     ELSE UNCHANGED <<at, phase, error, held>>
  /\ UNCHANGED <<driver, answer, made, heap, sessions, results, faulted, kept>>

Counts == sample >= Warmups

(* run_one: the step count and the exit code.  A count that drifts from    *)
(* one run to the next is a fault; warm-ups are not recorded.              *)
Measured(n) ==
  /\ at = "measure" /\ Goto("stdout")
  /\ seen' = IF Counts THEN [seen EXCEPT ![w] = @ \cup {n}] ELSE seen
  /\ faulted' = (faulted \/ n # 1)
  /\ UNCHANGED <<driver, held, answer, made, calls, error, heap, sessions,
                 counted, kept>>

(* run_one: exit code and outputs are the expected ones.                   *)
Compare ==
  /\ at = "compare" /\ Goto("destroy")
  /\ UNCHANGED <<driver, held, answer, made, calls, error, heap, sessions,
                 results, faulted, kept>>

(* run_guest: write both outputs and fetch the exit code.                  *)
WriteOut ==
  /\ at = "write" /\ Goto("destroy")
  /\ UNCHANGED <<driver, held, answer, made, calls, error, heap, sessions,
                 results, faulted, kept>>

Destroy ==
  /\ at = "destroy" /\ Goto("count")
  /\ sessions' = sessions \ {made}
  /\ UNCHANGED <<driver, held, answer, made, calls, error, heap, results,
                 faulted, kept>>

(* A core that says it destroyed the session and has not.                  *)
DestroyFeigned ==
  /\ at = "destroy" /\ Goto("count")
  /\ faulted' = TRUE /\ kept' = kept \cup {made}
  /\ UNCHANGED <<driver, held, answer, made, calls, error, heap, sessions,
                 results>>

(* No session may be left.  run_guest then returns what the closure did;   *)
(* the benchmark takes the next sample, or checks the step counts of the   *)
(* workload and takes the next workload, or reports.                       *)
NextSample ==
  LET last == sample + 1 = Warmups + Iterations
  IN  IF last /\ Cardinality(seen[w]) # 1
        THEN Goto("failed") /\ UNCHANGED <<w, sample>>
      ELSE IF ~last
        THEN Goto("create") /\ sample' = sample + 1 /\ UNCHANGED w
      ELSE IF w < Len(plan.load)
        THEN Goto("create") /\ w' = w + 1 /\ sample' = 0
      ELSE Goto("reported") /\ UNCHANGED <<w, sample>>

SampleDone ==
  /\ at = "count" /\ mode = "bench" /\ sessions = {}
  /\ counted' = [counted EXCEPT ![w] = IF Counts THEN @ + 1 ELSE @]
  /\ NextSample /\ made' = None /\ calls' = 0
  /\ UNCHANGED <<plan, held, answer, error, heap, sessions, seen, faulted, kept>>

GuestDone ==
  /\ at = "count" /\ mode = "run" /\ sessions = {}
  /\ Goto(IF error THEN "failed" ELSE "exited")
  /\ UNCHANGED <<driver, held, answer, made, calls, error, heap, sessions,
                 results, faulted, kept>>

SessionLeft ==
  /\ at = "count" /\ sessions # {} /\ Goto("failed")
  /\ UNCHANGED <<driver, held, answer, made, calls, error, heap, sessions,
                 results, faulted, kept>>

-------------------------------------------------------------------------------
(* Whatever can go wrong outside the program: argv that cannot be packed,  *)
(* an allocation, a copy, a release that is refused, a trap, an unexpected *)
(* status, a wrong output, a closed pipe.  An allocation may also succeed  *)
(* at an address that memory.write or memory.read then rejects.            *)

(* Mutant: run_guest without the closure. *)
FaultUnclosed(p) ==
  /\ at \notin Over
  /\ \/ UNCHANGED heap
     \/ phase \in {"upload", "alloc"} /\ p \notin heap /\ heap' = heap \cup {p}
  /\ faulted' = TRUE
  /\ kept' = IF at \in {"create", "destroy"} THEN kept \cup ({made} \ {None})
             ELSE kept
  /\ Goto("failed") /\ held' = <<>>
  /\ UNCHANGED <<driver, answer, made, calls, error, sessions, results>>

Fault(p) ==
  /\ at \notin Over
  /\ \/ UNCHANGED heap
     \/ phase \in {"upload", "alloc"} /\ p \notin heap /\ heap' = heap \cup {p}
  /\ faulted' = TRUE
  /\ kept' = IF at \in {"create", "destroy"} THEN kept \cup ({made} \ {None})
             ELSE kept
  /\ GiveUp
  /\ UNCHANGED <<driver, answer, made, calls, sessions, results>>

Own == \/ \E p \in Pointer : Upload(p) \/ OutputAlloc(p)
       \/ \E h \in Handle : CreateOk(h)
       \/ Call \/ Release \/ LenEmpty \/ LenSome \/ Copy
       \/ Run \/ Measured(1) \/ Compare \/ WriteOut
       \/ Destroy \/ SampleDone \/ GuestDone \/ SessionLeft

Next == Own \/ CallRefused \/ Measured(2) \/ DestroyFeigned
        \/ \E p \in Pointer : Fault(p)

Spec == Init /\ [][Next]_vars

(* The program goes on; nothing has to go wrong. *)
FairSpec == Spec /\ WF_vars(Own)

-------------------------------------------------------------------------------
(* Each sample meets the instance as the first one did, and a program that *)
(* succeeds leaves it so: no buffer and no session of an earlier sample.   *)
InstanceClean ==
  at \in {"exited", "reported"}
  \/ (at = "create" /\ phase = "upload" /\ held = <<>>) =>
    heap = {} /\ sessions = {}

(* However running a guest ends, its session is destroyed, unless the core *)
(* would not or the handle never reached run_guest.                        *)
GuestSessionDestroyed ==
  mode = "run" /\ at \in Over => sessions \subseteq kept

(* A guest that exits within the bound of run calls succeeds as long as    *)
(* nothing outside the program goes wrong.                                 *)
FittingGuestSucceeds ==
  ~faulted /\ (\A i \in DOMAIN plan.load : plan.load[i].needs <= MaxCalls) =>
    at # "failed"

(* A report rests on Iterations samples of each workload, all of which took *)
(* the same number of steps.                                               *)
ReportSound ==
  at = "reported" => \A i \in DOMAIN plan.load :
                       counted[i] = Iterations /\ Cardinality(seen[i]) = 1

(* The two, of states of their type. *)
NativeInv == TypeOK /\ InstanceClean /\ ReportSound

(* The program ends although the guest may never exit. *)
Ends == <>(at \in Over)
===============================================================================
