------------------------------- MODULE Admission -------------------------------
(***************************************************************************)
(* .github/workflows/source-free.yml: a lane of gates for every JavaScript *)
(* runtime and every native platform, each gate leaving a receipt file,    *)
(* and the aggregate job that admits or rejects the run by the results of  *)
(* the lanes (ci-summary.mjs) and by the receipts (receipt-policy.mjs).    *)
(* A gate fails in several ways, hangs until its job times out, or is      *)
(* cancelled with the run; an upload fails; all that counts as a fault.    *)
(*                                                                         *)
(* A receipt is "ok", "slow" (true, with a timing above a ceiling), "bad"  *)
(* (it says that the gate failed) or "torn": what `tee' or a redirection   *)
(* leaves of a gate that died before it had printed its receipt.  What     *)
(* makes a timing slow is in Timing.                                       *)
(***************************************************************************)
EXTENDS Timing, Sequences

CONSTANTS Runtime, Platform, MaxFaults

ASSUME LaneAssumption == Runtime \cap Platform = {} /\ MaxFaults \in Nat

VARIABLES
  profile,       \* does the channel's manifest have a capability profile?
  at,            \* per lane: the gate it has come to
  files,         \* per lane: the receipts in target/ci
  good,          \* history, per lane: the gates that ran and were passed
  broken,        \* lanes with a failed step
  hung,          \* lanes whose gate does not end
  cancelled,     \* lanes that were cancelled or timed out
  uploaded,      \* lanes whose receipts were uploaded
  job,           \* per lane: its result
  verdict,       \* the result of the aggregate job
  report,        \* verification-report.json
  died,          \* history: the aggregate job itself was cancelled or cut off
  faults

lanes == <<at, files, good, broken, hung, cancelled, uploaded, job>>
aggregate == <<verdict, report, died>>
vars == <<profile, lanes, aggregate, faults>>

Lane == Runtime \cup Platform

Gates(l) ==
  IF l \in Runtime
    THEN <<"cohort", "self", "quality", "explicit", "performance">>
    ELSE <<"cohort", "build", "native", "quality", "package", "relocated">>

Gate == {"cohort", "self", "quality", "explicit", "performance", "build", "native",
         "package", "relocated"}
Receipt == {"none", "torn", "bad", "slow", "ok"}

TypeOK ==
  /\ profile \in BOOLEAN
  /\ \A l \in Lane : at[l] \in 1 .. Len(Gates(l)) + 1
  /\ files \in [Lane -> [Gate -> Receipt]] /\ good \in [Lane -> SUBSET Gate]
  /\ broken \subseteq Lane /\ hung \subseteq Lane
  /\ cancelled \subseteq Lane /\ uploaded \subseteq Lane
  /\ job \in [Lane -> {"running", "success", "failure", "cancelled"}]
  /\ verdict \in {"none", "success", "failure"} /\ report \in {"none", "ok", "failed"}
  /\ died \in BOOLEAN /\ faults \in 0 .. MaxFaults

Init ==
  /\ profile \in BOOLEAN
  /\ at = [l \in Lane |-> 1] /\ files = [l \in Lane |-> [g \in Gate |-> "none"]]
  /\ good = [l \in Lane |-> {}] /\ broken = {} /\ hung = {}
  /\ cancelled = {} /\ uploaded = {}
  /\ job = [l \in Lane |-> "running"]
  /\ verdict = "none" /\ report = "none" /\ died = FALSE /\ faults = 0

Fault == faults < MaxFaults /\ faults' = faults + 1

-------------------------------------------------------------------------------
(* A lane. *)

Current(l) == Gates(l)[at[l]]
Gating(l) == job[l] = "running" /\ l \notin hung \cup cancelled /\ at[l] <= Len(Gates(l))

(* Mutant: the performance step has no condition of its own. *)
AlwaysExplicit == {"explicit"}

(* The steps with if: !cancelled(); a failure stops all the others.        *)
Always == {"explicit", "performance"}

Runs(l) == l \in broken => l \in Runtime /\ Current(l) \in Always

Unreceipted == {"build"} \cup IF profile THEN {} ELSE {"explicit"}

Piped == {"self", "quality", "performance", "native", "package", "relocated"}

(* What a failed gate leaves: nothing, if something in front of it failed  *)
(* or the directory was never made; a receipt that was cut off, for tee    *)
(* makes the file before the gate has run; a receipt that says so; and     *)
(* from self-test one that does not, printed before its last checks.       *)
Remains(l, g) ==
  (IF g \in Piped \ {"package", "relocated"} /\ files[l]["cohort"] # "none"
     THEN {} ELSE {"none"})
  \cup (IF g \in Piped \cup {"cohort"} THEN {"torn"} ELSE {})
  \cup (IF g \in {"quality", "explicit"} \ Unreceipted THEN {"bad"} ELSE {})
  \cup (IF g = "self" THEN {"ok"} ELSE {})

Leave(l, receipt) == files' = [files EXCEPT ![l][Current(l)] = receipt]

Pass(l) ==
  /\ Gating(l) /\ Runs(l)
  /\ Leave(l, IF Current(l) \in Unreceipted THEN "none" ELSE "ok")
  /\ good' = [good EXCEPT ![l] = @ \cup {Current(l)}]
  /\ at' = [at EXCEPT ![l] = @ + 1]
  /\ UNCHANGED <<profile, broken, hung, cancelled, uploaded, job, aggregate, faults>>

(* The gate that measures.                                                 *)
Timed(l) == IF l \in Runtime THEN "performance" ELSE "quality"

(* A benchmark is slow and says ok.                                        *)
Slow(l) ==
  /\ Gating(l) /\ Runs(l) /\ Fault
  /\ Current(l) = Timed(l)
  /\ Leave(l, "slow") /\ at' = [at EXCEPT ![l] = @ + 1]
  /\ UNCHANGED <<profile, good, broken, hung, cancelled, uploaded, job, aggregate>>

Fail(l) ==
  /\ Gating(l) /\ Runs(l) /\ Fault
  /\ \E r \in Remains(l, Current(l)) : Leave(l, r)
  /\ broken' = broken \cup {l} /\ at' = [at EXCEPT ![l] = @ + 1]
  /\ UNCHANGED <<profile, good, hung, cancelled, uploaded, job, aggregate>>

Skip(l) ==
  /\ Gating(l) /\ ~Runs(l)
  /\ at' = [at EXCEPT ![l] = @ + 1]
  /\ UNCHANGED <<profile, files, good, broken, hung, cancelled, uploaded, job,
                 aggregate, faults>>

Hang(l) ==
  /\ Gating(l) /\ Runs(l) /\ Fault
  /\ hung' = hung \cup {l}
  /\ UNCHANGED <<profile, at, files, good, broken, cancelled, uploaded, job, aggregate>>

(* The job's timeout-minutes, or the run is cancelled: by a later run of   *)
(* its concurrency group, or by hand.                                      *)
Cancel(l) ==
  /\ Gating(l) \/ (l \in hung /\ l \notin cancelled)
  /\ IF l \in hung THEN UNCHANGED faults ELSE Fault
  /\ cancelled' = cancelled \cup {l}
  /\ \E r \in {"none"} \cup (Remains(l, Current(l)) \cap {"torn"}) : Leave(l, r)
  /\ UNCHANGED <<profile, at, good, broken, hung, uploaded, job, aggregate>>

(* The upload is tried whatever happened; without a file it fails.         *)
Upload(l) ==
  /\ job[l] = "running" /\ (l \in cancelled \/ at[l] = Len(Gates(l)) + 1)
  /\ \/ /\ \E g \in Gate : files[l][g] # "none"
        /\ uploaded' = uploaded \cup {l} /\ UNCHANGED faults
     \/ /\ \A g \in Gate : files[l][g] = "none"
        /\ UNCHANGED <<uploaded, faults>>
     \/ Fault /\ UNCHANGED uploaded
  /\ job' = [job EXCEPT ![l] = IF l \in cancelled THEN "cancelled"
                               ELSE IF l \in broken \/ l \notin uploaded' THEN "failure"
                               ELSE "success"]
  /\ UNCHANGED <<profile, at, files, good, broken, hung, cancelled, aggregate>>

-------------------------------------------------------------------------------
(* The aggregate job, if: always(). *)

Finished == verdict = "none" /\ \A l \in Lane : job[l] # "running"
Succeeded == \A l \in Lane : job[l] = "success"

Collected(l, g) == IF l \in uploaded THEN files[l][g] ELSE "none"

(* Mutant: the explicit receipts are asked for without a profile too. *)
AdmissibleAlways ==
  /\ \A l \in Runtime : \A g \in {"quality", "performance", "explicit"} :
       Collected(l, g) = "ok"
  /\ \A l \in Platform : \A g \in {"quality", "package", "relocated"} :
       Collected(l, g) = "ok"

(* validateReceipts.  The profile's receipts are asked for only with it.   *)
Admissible ==
  /\ \A l \in Runtime : \A g \in {"quality", "performance", "explicit"} \ Unreceipted :
       Collected(l, g) = "ok"
  /\ \A l \in Platform : \A g \in {"quality", "package", "relocated"} :
       Collected(l, g) = "ok"

(* Mutant: the receipts alone decide. *)
AggregateReceipts ==
  /\ Finished
  /\ report' = IF Admissible THEN "ok" ELSE "failed"
  /\ verdict' = IF report' = "ok" THEN "success" ELSE "failure"
  /\ UNCHANGED <<profile, lanes, died, faults>>

(* Mutant: the job is skipped if a lane has not succeeded. *)
AggregateOnSuccess ==
  /\ Finished /\ Succeeded
  /\ report' = IF Admissible THEN "ok" ELSE "failed"
  /\ verdict' = IF report' = "ok" THEN "success" ELSE "failure"
  /\ UNCHANGED <<profile, lanes, died, faults>>

(* ci-summary.mjs: every receipt is parsed before any is judged.           *)
Aggregate ==
  /\ Finished
  /\ IF \E l \in Lane, g \in Gate : Collected(l, g) = "torn"
       THEN report' = "none"
       ELSE report' = IF Succeeded /\ Admissible THEN "ok" ELSE "failed"
  /\ verdict' = IF report' = "ok" THEN "success" ELSE "failure"
  /\ UNCHANGED <<profile, lanes, died, faults>>

AggregateDies ==
  /\ Finished /\ Fault
  /\ verdict' = "failure" /\ died' = TRUE
  /\ UNCHANGED <<profile, lanes, report>>

Next ==
  \/ \E l \in Lane :
       Pass(l) \/ Slow(l) \/ Fail(l) \/ Skip(l) \/ Hang(l) \/ Cancel(l) \/ Upload(l)
  \/ Aggregate \/ AggregateDies

Spec == Init /\ [][Next]_vars

(* The CI service executes what is due, and bounds every job's time.       *)
FairSpec == Spec /\ WF_vars(Next)

-------------------------------------------------------------------------------
(* A run that is admitted really passed every gate of every lane in time,  *)
(* whatever a receipt says that was left by a gate which failed later, and *)
(* whatever a lane says whose receipts are missing or slow.                *)
AdmitSound ==
  verdict = "success" =>
    \A l \in Lane : \A i \in DOMAIN Gates(l) : Gates(l)[i] \in good[l]

(* The same of states of their type. *)
AdmitInv == TypeOK /\ AdmitSound

(* The samples that an admitted receipt may rest on: a native one is a     *)
(* summary without them.                                                   *)
AdmittedJs == {s \in Samples : Valid(Size(s), JsP95(s), s)}
AdmittedNative == {s \in Samples : ValidSummary(Size(s), RustP95(s))}
Admitted(l) == IF l \in Runtime THEN AdmittedJs ELSE AdmittedNative

(* A benchmark in time: a count that benchmark.mjs takes, the first and    *)
(* the last included, and at most one sample in twenty above the ceiling.  *)
InTime ==
  {s \in Samples : Size(s) \in 7 .. 31 /\ 20 * (Size(s) - Upto(s, Ceiling)) <= Size(s)}

(* The timings of an admitted run are in time, all those that are in time  *)
(* could have been admitted, and the statistics mean what they are called, *)
(* in both languages alike.                                                *)
TimingExact ==
  verdict = "success" =>
    /\ \A l \in Lane : files[l][Timed(l)] = "ok" /\ Admitted(l) = InTime
    /\ P95NearestRank /\ ForgedRejected /\ CentreRobust

(* Nothing else than a fault makes the run fail: no receipt is asked for   *)
(* that no step writes, with a capability profile or without.              *)
HonestPasses == verdict = "failure" => faults > 0

(* "Record bounded performance even on semantic failure" (the name of the  *)
(* step): whatever gate failed, a lane of a runtime that was not cancelled *)
(* has tried its benchmark, unless it got no checkout to do it from.       *)
PerformanceTried ==
  \A l \in Runtime \ cancelled :
    job[l] # "running" => files[l]["performance"] # "none" \/ files[l]["cohort"] = "none"

(* Every run ends in a verdict, if a lane hangs or is cancelled too.       *)
Concludes == <>(verdict # "none")

(* "Fail closed and write aggregate receipt" (the name of the step): the   *)
(* summary of lanes that all ran to their end has written its report.      *)
ReportWritten == verdict # "none" /\ ~died /\ cancelled = {} => report # "none"
===============================================================================
