# Verification of the AgentVM release host

This directory specifies, in TLA+, the programs of this repository that carry
its own logic: the JavaScript host of the AgentVM Wasm core, the fetch bridge
built on it, the portable transfer gates, the runner and the gate programs,
the native host in Rust, the admission of a test run by its receipts, the
refresh and publication of a channel up to a consumer's acquisition of it, and
the publication of native packages. The core itself is a closed-source binary;
it appears only as what its callers require of it.

TLC checks every property on small instances. TLAPS proves the safety
properties of every module, and the two refinements, for every value of the
constants.

## Inventory

| Component | Source | State | Operations | Module |
| --- | --- | --- | --- | --- |
| Wasm host | `glue/js/host.mjs` 61-476 | the core's heap, sessions and prepared exports; one call's buffers | 10 that send bytes, 2 exports, 2 outputs, run/checkpoint/restore, destroy | HostTransfer, SessionService |
| Transfer gates | `glue/js/host.mjs` 490-859 | source session, export, fresh session, evidence | create and restore, restart and AgentSnapshot | PortableTransfer |
| Fetch bridge | `glue/js/fetch-bridge.mjs` | response body, reader lock, signal, bytes in hand | request, stream, take, push | FetchBridge (take and push: HostTransfer) |
| Runner | `glue/js/run.mjs` | one session, exit code | bounded run, outputs, exit | Drivers |
| Gates and benchmarks | `self-test`, `quality-gate`, `explicit-workspace-gate`, `benchmark`, `qualify-promotion` | up to two sessions, failures, receipt | fixed scripts over the host | Drivers, Timing |
| Native host | `glue/rust/agentvm-native-host` | as the Wasm host | run, bench, stats | NativeHost, Timing |
| Receipt admission | `scripts/receipt-policy.mjs`, `ci-summary.mjs` | receipts, results of jobs | collect, validate, report | Admission, Timing |
| Channel refresh | `scripts/sync-channel-core.mjs` | manifests, current Cores, staged files | one run of the script | SyncChannel, ChannelStore |
| Repository verification | `scripts/verify-repository-distribution.mjs`, `test-checkout-identity.mjs` | none | compare an index or a commit with its manifests | Publication |
| Acquisition | `glue/js/distribution.mjs`, `scripts/verify-cdn.mjs` | resolved commit, manifest, verified bytes | resolveChannel, downloadVerified | Acquisition, Publication, Drivers |
| Package verification | `scripts/verify-manifest`, `write-package-manifest`, `verify-package` | archives | write, verify | Packages |
| Workflows | `source-free.yml`, `build-dev.yml`, `cdn.yml` | lanes, receipts, release assets | jobs and steps | Admission, Packages, Publication |
| Core, manifests, fixtures, records | `channels`, `fixtures`, `*.md` | files | none | not modelled |

How they interact. The gates, the runner, the drivers and the fetch bridge
call the host synchronously, and the host calls the core's exports; an export
that answers 0 becomes an exception (`require`), and `finally` blocks clean
up. The bridge awaits the network and a caller's sink, so its calls interleave
with the timer, the abort and each other. The programs' exit statuses and
receipts are all that the workflow sees of them: its lanes stop or go on by
the first, the aggregate job admits by both. Refresh and acquisition meet in
the public repository: the refresh makes each channel's Core match its
manifest, a commit publishes both with the shared host, consumers verify them
against each other. The package workflow attaches archives to the release that
a commit's manifest names, and deletes assets of former names from release
`dev`; a later commit binds them, and lanes verify them.

What is hard in each, and what makes it right:

- *Host.* Any core call may fail between an allocation and its release, and a
  release may be refused in the very block that cleans up. Right: no double
  free, nothing left behind that a fault did not put out of reach, a handle
  for every session, and calls that do all or nothing, but where a fault of
  the memory spoils the result of what was done.
- *Gates.* A long protocol over two instances, with a core that may answer
  wrongly anywhere. Right: what passes is true, what is right passes, no
  session survives, and every loop ends.
- *Bridge.* Abort, timer, quota, slow sink and failing network meet at every
  await. Right: completions whole or absent, streams without gap, bounds met,
  reader and body always given up, calls that settle.
- *Drivers.* Seven programs, each with its own nesting of try, catch and
  finally, its own way to bound a loop and its own order of checking and
  telling. Right: an exit status and a receipt that are true, the same guests
  accepted by all, no session left on any path.
- *Native host.* The host's protocol again, with releases by hand and `?`
  past them. Right: an instance that is as new for each sample, a guest's
  session destroyed however it ran, a bound that is met exactly, an end.
- *Admission.* Gates die, hang, are cancelled or print too early; receipts are
  missing, torn, slow or untrue. Right: only a run whose gates all passed, in
  time, is admitted; an honest one always is; every run concludes.
- *Refresh.* Interrupted between any two file operations, and run again, for
  several channels at once. Right: never a torn Core, nothing replaced by a
  refused run, a repair by the next complete one.
- *Publication and acquisition.* Nothing orders the operator's edits,
  refreshes, staging, check and push; main moves during a download, the CDN
  may be stale or wrong; publisher and consumer check a manifest by different
  lists. Right: what was checked serves every consumer, as far as the check
  knows what consumers ask for, and a consumer gets exactly one generation,
  without false alarm.
- *Packages.* Assets are replaced one by one while lanes download them. Right:
  what all lanes accept is of one cohort, a complete run leaves the release to
  its own packages, and no run takes away what was verified in another release.

## Modules

`SessionService` is the abstract promise of the host to its caller: a set of
open sessions and a call that goes from *busy* (no effect yet) over *settled*
to its answer. A call that has settled may throw only over *spoilt*: a fault of
the memory keeps the result of its effect from the caller. A spoilt session is
in `lost`, out of the caller's reach; nothing else is lost.

`HostTransfer` takes one step of a host method per action. `pc` is the place
in the method: `upload`, `call` for the methods that send, `prepare`, `len`,
`alloc`, `copy`, `discard` for those that receive, `release` for the `finally`
blocks, `return` for the answer. `held` is the stack of buffers the method
will release, `threw` the pending exception, `made` the handle on its way to
the caller. Methods that differ only in how many operands they upload share
their actions (`Uploads`). `heap`, `sessions` and `prepared` belong to the
core. `HighPointer` are the addresses that JavaScript sees as negative
numbers: the view over such a buffer throws after the allocation.
The core may refuse any call, a dealloc, discard or destroy too. `take` reads
bytes but also removes them from the guest's stream (`applied`): over a high
pointer, or if the release is refused, the host throws when they are gone.
`leaked`, `lost`, `stuck` and `spoilt` are history variables: what a fault of
the core put out of reach.
The heap tells buffers apart by address alone; sizes and contents are left
out. Queries that change nothing (steps, pc, exit code) are not actions.

`PortableTransfer` walks through the four gate functions in order, both kinds
in one module since they differ in limits and in when the guest prints. The
guest is the block that exits and the block that prints. A wrong answer of the
core changes one aspect of the session after a call; `MaxFaults` bounds them.
A snapshot's workspace is not a separate piece of state: whether the guest
prints the content it was given stands for it. `kept` is a history variable: the core
has refused or feigned a destroy. A session is what the gates compare of it: its
exit code, position, step count and output.

`FetchBridge` has one action per stretch between two awaits and one per
outcome of an await. Bytes are counted in units. The signal is the one that
`openResponse` combines from the caller's and the timer's.

`ChannelStore` is the abstract promise of the refresh: a channel's Core
changes at once, whole, and only to what its qualified manifest names.

`SyncChannel` has one action per file operation of the script, and splits a
file write in two, since it is not atomic; a rename is. `Die` may come between
any two. Several runs may be under way: the staging path is per channel, not
per run, so they are runs for different channels, and the operators leave
alone what an active run has selected.

`Acquisition` is a consumer of a main that goes on meanwhile, a discovery API
that answers with any commit of main, and a CDN that may answer with any
manifest of the history and any bytes. It has no publisher: `Publication` gives
it the commits. Lengths and SHA-256 digests are taken to identify the content.
CORS checks are left out.

`Publication` composes it with what lies before: the working tree changes by
`ChannelStore`, by hand and by nothing else; `Add` stages one file; `Check` is
of the index, with the exception for a DEV candidate; `Push` makes the index a
commit, checked or not. There are three lists of checks on a manifest and they
are three operators: `Refreshable` (`sync-channel-core.mjs` 11-21), `Qualified`
in `RepositoryOk` (`verify-repository-distribution.mjs` 8-20) and `Resolvable`
(`distribution.mjs` 40-53). The state of a manifest and `LargeCore` tell apart
what the lists tell apart: a manifest that is *outsized* is over a limit of the
consumer's alone (its own length, the size or path of host and fixture).

`Drivers` reads seven programs as scripts: a sequence of steps, each with the
distance to the finally block that it throws into, interpreted by one set of
actions. Bounds on loops are one constant; whether a loop looks at its bound
before or after the call is kept, since that is where they differ. Rounds of
benchmarks are fewer than in the code, and of explicit-workspace-gate's five
cases the three that differ in control are made.

`Admission` is a run of source-free.yml: a lane per JavaScript runtime and per
native platform with its gates in order, the conditions of its steps, and what
each way of failing leaves in the lane's directory; then the aggregate job.
A receipt is its standing (true, slow, says that it failed, torn, missing).
What makes a timing slow is in `Timing`: the statistics of both languages and
the policy's `validTiming` as operators on the distribution of the samples, for
each value how many do not exceed it, which is what both `stats` make by sorting.

`Packages` follows build-dev.yml from the dispatch over the builds to the
upload, which deletes an asset and puts another, file by file; operators record
what is in the release, and lanes verify what they download. After its uploads a run
deletes the assets of former names, one by one, from release `dev` whatever its
own release, and ignores failures (`Sweep`); `former` is what is left of them.

`NativeHost` has one action per call of the core in `main.rs`: `at` is the
step of the driver (`run_guest` or `run_one` under `benchmark_host`), `phase`
the place in the host method it calls. The trait's two implementations, for
Wasmtime and for Wasmi, make the same calls and are one here. A guest is how
it is created and the number of run calls it takes to exit. `Fault` is every
`?` and `bail!` that something outside the program causes; it forgets the
buffers at hand, as the code does, and what follows depends on whether
`run_guest`'s closure catches it. `kept` is a history variable: the sessions
that no one could destroy.

`MC*` modules hold the instances. Operators introduced by a comment
`Mutant:` are variants of the definition after them with a plausible bug; they
document what each property would catch and are part of no specification.

## Runs

| Run | Instance | Shows |
| --- | --- | --- |
| HostTransfer | 4 addresses, 1 of them high; 2 handles; any refusal | `HeldBuffersLive`, `BuffersReclaimed`, `ExportsDiscarded`, `SessionsAccounted`, `ImplementsService` (all of a call or nothing, unless the memory spoilt it) |
| FetchBridge | 2 calls; body up to 5, request limit 3, parts of 2, quota 4, chunks up to 3; fair | `StreamInv` (streams exact, sink bounded), `CompletionsWhole`, `AbortedNeverAnswers`, `NothingHeld`, `Settles` |
| PortableTransfer | the code's limits 32 and 64, counts and guests around them, up to 2 wrong answers; fair | `TransferInv` (exact imports), `GateSound`, `NoSessionLeft`, `FittingGuestPasses`, `GateEnds` |
| PortableTransferCounts | counts 33 and 64, correct core | violates `ValidCountPasses`, see below |
| SyncChannel | 2 channels, 2 versions, 3 edits, 2 runs at once, any number in all | `SyncInv` (old or new Core, done repairs), `RefusedRunReplacesNothing`, `ImplementsStore` |
| NativeHost | bound of 2 run calls, guests that need 1, 2, 3 or 9; 1 or 2 workloads, 3 warm-ups and 2 samples; fair | `NativeInv` (clean instance, sound report), `GuestSessionDestroyed`, `FittingGuestSucceeds`, `Ends` |
| Drivers | 7 programs, bound of 3 run calls, guests that need 1, 3, 4 or 9, exit codes 0, 43, 299, 2 rounds, 2 faults; fair | `Honest` (true status, true receipt), `FittingGuestPasses`, `RunnerFaithful`, `SessionsDestroyed`, `Ends` |
| Admission | 2 runtimes, 1 platform, 2 faults; every distribution of 3 kinds of sample for 13 counts from 1 to 32; fair | `AdmitInv` (admitted only if all passed), `HonestPasses`, `PerformanceTried`, `TimingExact`, `Concludes` |
| AdmissionReport | 1 runtime, 1 platform, 1 fault | violates `ReportWritten`, see below |
| Publication | 2 channels, one of them DEV, 2 versions, one with a large Core, 2 edits, 2 commits | `PublicationInv` (checked commits serve but for a consumer's own limits, candidates withheld, the CDN check suffices), `CohortVerified`, `MovingMainIsHarmless` |
| Packages | 2 platforms, release `dev` and another, 2 versions, 2 runs, 3 commits | `PackagesInv` (accepted packages are one cohort), `PublishedWhole`, `VerifiedKept` (no verified package is taken away by a run for another release) |

Every passing run also checks its module's `TypeOK`; where it is not listed it
is a conjunct of the first property, with the others named in parentheses.

Why the bounds are enough. No host method holds more than three buffers, so
three addressable ones and a high one make every overlap happen, and a leak of
one call meets the next; two handles make a stale and a live one. The limits
of the bridge are chosen so that each is crossed by one unit, in the first and
in the middle of a chunk, before and after others were accepted; calls on one
bridge share only the guest's stream, so two of them suffice. The gates run
with the code's own limits. Two faults let a second wrong answer hide the
first. Two channels and two runs make a run with several channels, and one
beside another; two edits let a channel change between a run that dies and the
one that repairs, the third one during it. The native host meets guests on
both sides of its bound and two samples after the warm-ups, enough for the
step count to drift; no method holds more than two buffers. The drivers' bound
of three has guests that stay below it, meet it, pass it by one and never end;
two rounds meet what the first one left. Two runtimes and a platform make
every pair of lanes, and two faults a failure that meets a cancellation or a
late success. The counts of samples are the policy's first and last with
their neighbours, and those around 10, 20 and 30, where a tenth or a twentieth
becomes whole. Two commits give an old and a new generation; an operator who
edits twice can change host and manifest, or manifest and Core, and stage any
part. Three commits let packages be built from the first, bound by the second
and left behind by the third.

Symmetry is used for addresses, handles, runs, platforms and interchangeable
channels and versions, in runs without liveness only. Deadlock is checked in the runs of
HostTransfer and of SyncChannel, which never stop; the others model something
that ends or comes to its bound.

Fairness. `FetchBridge!FairSpec`: the event loop runs what is ready; the timer
made by `AbortSignal.timeout` fires, whatever the server does; a fetch whose
signal has fired rejects what is pending; the caller's sink and `onResponse`
settle. The server owes nothing. `PortableTransfer!FairSpec` and
`Drivers!DriverFairSpec`: programs that are synchronous but for the runtime's own
awaits go on. `NativeHost!FairSpec`: the same of the Rust program; a fault is
never owed. `Admission!FairSpec`: the CI service executes what is due and ends
a job at its `timeout-minutes`; a gate itself may hang.

### What the violations show

`createPortableRestart` accepts a `transferBlocks` of 1 to 64 and refuses
others as invalid (`host.mjs` 518-520). Later it rewinds the source and replays
it from the entry in at most 32 one-block slices (490, 571). A guest that is
still running after `transferBlocks` blocks needs at least one slice more than
that, so with 32 to 64 blocks the gate always throws "did not exit within 32
one-block slices". The default count is 1 and the repository's own guest exits
early, so no test of it meets this. `FittingGuestPasses` states what does hold.

The aggregate job's step is named "Fail closed and write aggregate receipt"
(`source-free.yml` 227). A gate that dies before it has printed leaves the
empty file that `tee` made, the lane uploads it, and `ci-summary.mjs` parses
every receipt before it judges any (19): it ends with a SyntaxError and writes
no report. It does fail closed, which `AdmitInv` states.

The model of the packages also tells what is *not* promised, and is therefore
no property: a second dispatch for the same release replaces packages that a
manifest has bound and lanes have verified, although `DISTRIBUTION.md` (7, 74)
calls them immutable. `VerifiedKept` states what does hold. And a run for
another release than `dev` takes the assets of former names out of `dev` without
putting new ones there: `VerifiedKept` says only that packages exist by then,
in the run's own release.
The model of the publication tells of limits that the publisher's check does not
have: a manifest with a Core above 8 MiB, a host or fixture above 1 MiB or a text
above 65536 bytes passes `verify-repository-distribution.mjs`, with a digest that
fits, and no consumer accepts it. `CheckedCommitServes` names these exceptions;
`CdnCheckSuffices` shows that the CDN workflow, which runs `verify-cdn.mjs` after
the push, finds them.
`SessionsDestroyed` names the three ways in which a program leaves a session.

## Proofs

Each component's theorems are in a module of its own, `<component>Proofs`; the
two callers of the host, FetchBridge and Drivers, share `HostCallerProofs`. What
they assume is what the component's module assumes of its constants, and TLC
evaluates on every run; sets may be infinite and numbers as large as one likes
unless it is said otherwise. The histories that the models are bounded by
(`MaxEdits`, `MaxCommit`, `MaxFaults`) are constants as well, so the theorems
hold for any number of edits, commits and faults.

No safety property of a run is inductive: each speaks of the end of something,
and says nothing of the steps before. Every module therefore has an inductive
invariant `IInv` (`DriverInv` for Drivers), a conjunction of named parts that TLC found true on the
instance of the run. One lemma per part (`TypeStep`, `ShapeStep`, ...) shows
that a step preserves it, action by action, from the parts it needs;
`Invariance` (`Spec => []IInv`) puts them together, and each property follows
from `IInv` in the state at hand. What the parts say, and why they are needed:

**HostTransferProofs** (`HighPointer` is a subset of `Pointer`, `None` is no
handle). `Shape`: what each `pc` says about the method, the stack and the
exception, e.g. that nothing is held at `alloc` and something is at `release`.
`Buffers`: the heap is at every step the buffers on the stack and those out of
reach, which are disjoint, and the stack has no duplicates. `Sessions`: the
sessions are at every step the caller's, the lost ones and the one whose handle
is on its way, which is lost exactly if an exception is pending. `Exports`: a
prepared export belongs to the running export, at a step from which the discard
still follows. `Settled`: a call that took effect has an exception pending
exactly if its result was spoilt, and one that did not is not spoilt. The
properties are these, between calls. `Refinement` maps each action to a step of
`SessionService` or to a stutter, for a core that may refuse anything; a refused
release of a call that took effect is `Spoil`, a take over a high pointer
`ActInVain`.

**SyncChannelProofs** (a torn and an absent file are no version). `Queues`: a
run's two lists hold no channel twice and, while it stages, share its selection
between them; without this a channel could be replaced twice, or be forgotten.
`Apart`: no two runs are about the same channel. `Staging`: what is staged is
what the manifest names and qualifies, still, although other runs stage and
operators edit meanwhile. `Progress`: which of its channels a run has replaced
at each point of it; a refusal comes before the first of them. `Refinement`
maps the rename to `ChannelStore`'s step, by `Staging`, the edits to its own
edits, and all else to stutters.

**HostCallerProofs**, the fetch bridge (sizes are natural numbers, a chunk is not empty).
`Body`: at each await, who has the body and the lock. `Units`: the units served
are those passed on and those in hand, and where a call may have some in hand.
`Completions`: a completion is that of a call that is over, and of all it
received. Calls share only the guest's stream, so all but the last are about one
call. `Steps` keeps a call that is done from having been aborted: its signal is
looked at after its last await, and nothing comes between that and its answer.

**HostCallerProofs**, the programs (the bound, the rounds and what a guest needs
are positive; exit codes are natural numbers). The scripts are data that a few
actions interpret, so the proof has two halves. The first is about the seven
scripts. `Lives` says of each session of a program which step makes it, runs it,
judges it, destroys it, ends its `finally` block and counts the sessions; from
this come the sessions that are open, due to be judged, judged, in doubt or
being closed at a step. `Proper` is what the annotation has to satisfy from one
step to those it can lead to: a throw lands in the block that destroys what is
open (`Flow`, `Keeps`), what can record a failure is followed by a verdict and a
receipt comes when nothing is left to judge (`Roles`), and a guest is run only
while it is due (`Judges`). It is proved for every step of every script. The
second half knows `Proper` and no script. Each of the 18 actions is one of six
moves: to throw, to go on, to wait, to see a guest go wrong, to return, to end
(`Moves`). `DriverInv` says where an exception can be pending (`Closings`), how
processes end (`Endings`), that what is open or kept is all that is left
(`Left`), that a session which may be left is still to be counted (`Counted`),
and that a guest which went wrong has been found out or is still to be judged
or counted (`Judging`, which needs `Counted` for the sessions that the core has
feigned to destroy and that go on to run). `Looping` and `Fitting` follow one
guest against the bound where each kind of loop looks at it. One lemma per part
takes it through the moves.

**PublicationProofs** (DEV is a channel, garbage is no version, a large Core is
one, at least one commit). `Checks`: an index or a commit that is marked as
checked would pass the check now. `Served`: what a consumer was served as the
manifest is the resolved commit's, unless the CDN cheated, and what each failure
says about it. `Kept`: each asset it has kept is what that manifest names. The
argument for a moving main is that history is only added to: `Unseen` shows that
an operator's step leaves the consumer's commit as it is, and `PushGrows` that a
push appends.

**PackagesProofs** (at least one commit, `None` is no run, `dev` is a release). `Alone`: the
concurrency group. `Latest` and `Standing`: who published to a release last,
and that what this run has put stays there; this makes a complete run's release
whole although assets are replaced one by one. `Origin`: every archive in a
release or in a manifest can be traced to the run that put it, hence to one
commit. `Accepted`: what a lane has accepted would pass its check now. `Kept`
and `FormerKept` are the parts of `VerifiedKept`.

**PortableTransferProofs** (a guest prints no later than it exits; the limits of
32 and 64 are the code's). `Holding`: in which steps an instance holds a
session; the `finally` blocks are on every way out of them. `BoundaryKept`: the
export has the step count and position that the caller was told of, and has not
exited. `Gated`: by what a restart gate comes to its import, and any gate to its
end. `OnCourse`: for a guest that fits and a core without fault, exactly where
the guest is at each step of the gate, counted in blocks; it is what shows that
no bound of a loop is met one block too early.

**AdmissionProofs** (a platform is no runtime; a benchmark has a sample, and the
ceiling is one of the values). `Ended`, `Passed`, `Tried`: of
each lane by itself, what its place among the gates, its results and its
receipts say of each other; a receipt that says "ok" need not be true, and an
admission rests on `Passed` through the lane's own status. `Receipted`: without
a fault every gate that was passed left what it has to. `Verdicts`: the
aggregate's verdict is of lanes that have ended and whose state is final.
`TimingSafety` adds the statistics, for any counts, any number of values and any
ceiling: `SortedFacts` turns a question about the k-th sample into one about how
many samples do not exceed a value, `Roundings` bounds the code's indices, and
with these a p95 is the nearest rank (`NearestRank`), and is admitted if and only
if at most one sample in twenty is above the ceiling (`AdmittedFacts`). The
trimmed mean adds its samples one after the other; that such sums exist and keep
a bound of the samples (`SumsExist`, `SumsBounded`) is an induction, done over the
set of counts for which it holds (`Climb`), and gives `CentreIsRobust`.

**NativeHostProofs** (`PlanAssumption`: `run` has one guest, `bench` at least one
workload, and a guest runs for at least one call; `Iterations` is positive).
`Shape` and `Buffers`: while no `?` has been taken, what is allocated is what
the host method at hand holds, and a method holds nothing when it is through.
`Modes`: `run` never takes a step of `bench` nor the reverse, and the error of
the closure is pending only up to the destroy. `Sessions`: the sample's session
is the only one, from its creation to its destroy; after that there is one only
if it could not be destroyed. `Counting`: how many samples of each workload have
been counted, and that each is of one step count; calls stay within their bound.
`Honest`: without a fault no step count drifts and no error is pending.

Only model-checked, and why. Liveness (`Settles`, `GateEnds`, `Ends`,
`Concludes`) is beyond the prover. The two violations are refuted on an instance
and have nothing to prove. Not checked at all: `Timing` computes in exact
fractions, and that the doubles of the code round like them, for the counts the
policy admits, is argued in its header.

## Not modelled, and why

The core's own semantics (a binary without source); the contents of argv
packs, entropy, JSON lines, headers and the constant fields of receipts (data
the properties do not tell apart); the scripts that start native processes and
compare their outputs (their outcome is a gate of `Admission`); versions of
tools and retention times in the workflows. That a sink which never settles
stops `stream()` is a choice of its contract (back pressure) and not a
property. Two operators who refresh the same channel at once are outside the
script's procedure. The native host clamps exit codes to 0..255; which codes
the core can report is not visible here.

## Plan

1. FetchBridge over HostTransfer: `push` as the steps of the host, with the
   stream's EOF.
