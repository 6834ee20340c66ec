-------------------------------- MODULE Packages --------------------------------
(***************************************************************************)
(* The native packages of the DEV channel.  .github/workflows/build-dev.yml*)
(* builds one archive per platform from a commit and the Core its manifest *)
(* names (write-package-manifest.mjs puts both inside), and attaches the   *)
(* archives to the release of that manifest, replacing what is there, and  *)
(* deletes what release `dev` has under the names of former times; an      *)
(* operator records the archives in a later commit's manifest; and a lane  *)
(* for each platform downloads and verifies them (verify-package.mjs).     *)
(*                                                                         *)
(* No two builds give the same bytes, as an archive holds file times: an   *)
(* archive is known by its run, and a digest stands for the archive.       *)
(***************************************************************************)
EXTENDS Naturals

CONSTANTS
  Platform, Run, Tag, Version,
  DevTag,        \* the release `dev`, meant by a manifest without release_tag too
  None,          \* no such package
  MaxCommit      \* bound on the commits of main

ASSUME PackagesAssumption ==
  MaxCommit \in Nat \ {0} /\ None \notin Run /\ DevTag \in Tag

VARIABLES
  commit,        \* the commits so far
  manifest,      \* dev.json of the last commit
  release,       \* per tag and platform: the asset of that name
  former,        \* the platforms whose asset is in release `dev` under its
                 \* former name, agentvm-dev-<platform>.tar.gz
  pc,            \* per run: "idle", "build", "publish", "sweep", "done" or "died"
  at, plan,      \* per run: its commit, and that commit's dev.json
  built, gone, put,   \* per run: the platforms built, the assets of them that
                 \* were deleted, and those that were uploaded
  swept,         \* per run: the platforms whose former name it has seen to
  accepted,      \* per platform: what its lane verified for the last commit
  latest,        \* history, per tag: the run that published to it last
  bound          \* history: the assets that were verified, with their tags

runs == <<pc, at, plan, built, gone, put, swept>>
vars == <<commit, manifest, release, former, runs, accepted, latest, bound>>

Archive == [platform : Platform, core : Version, glue : 1 .. MaxCommit, run : Run]
Optional == Archive \cup {None}
(* head is public_qualification.package_head, 0 if there is none.          *)
Manifest ==
  [tag : Tag, core : Version, packages : [Platform -> Optional], head : 0 .. MaxCommit]

NoPackages == [p \in Platform |-> None]

TypeOK ==
  /\ commit \in 1 .. MaxCommit /\ manifest \in Manifest
  /\ release \in [Tag -> [Platform -> Optional]]
  /\ pc \in [Run -> {"idle", "build", "publish", "sweep", "done", "died"}]
  /\ at \in [Run -> 1 .. MaxCommit] /\ plan \in [Run -> Manifest]
  /\ {built, gone, put, swept} \subseteq [Run -> SUBSET Platform]
  /\ former \subseteq Platform
  /\ \A r \in Run : put[r] \subseteq gone[r] /\ gone[r] \subseteq built[r]
  /\ accepted \in [Platform -> Optional] /\ latest \in [Tag -> Run \cup {None}]
  /\ bound \subseteq [tag : Tag, archive : Archive]

Init ==
  /\ commit = 1
  /\ \E t \in Tag, v \in Version :
       manifest = [tag |-> t, core |-> v, packages |-> NoPackages, head |-> 0]
  /\ release = [t \in Tag |-> NoPackages]
  /\ pc = [r \in Run |-> "idle"] /\ at = [r \in Run |-> 1]
  /\ plan = [r \in Run |-> manifest]
  /\ built = [r \in Run |-> {}] /\ gone = built /\ put = built /\ swept = built
  /\ former = Platform
  /\ accepted = NoPackages /\ latest = [t \in Tag |-> None] /\ bound = {}

-------------------------------------------------------------------------------
(* build-dev.yml.  Its concurrency group has one run at a time.            *)

Active(r) == pc[r] \in {"build", "publish", "sweep"}

(* Mutant: runs are not kept apart. *)
DispatchAlongside(r) ==
  /\ pc[r] = "idle"
  /\ pc' = [pc EXCEPT ![r] = "build"]
  /\ at' = [at EXCEPT ![r] = commit] /\ plan' = [plan EXCEPT ![r] = manifest]
  /\ UNCHANGED <<commit, manifest, release, former, built, gone, put, swept, accepted,
                 latest, bound>>

Dispatch(r) ==
  /\ pc[r] = "idle" /\ \A s \in Run : ~Active(s)
  /\ pc' = [pc EXCEPT ![r] = "build"]
  /\ at' = [at EXCEPT ![r] = commit] /\ plan' = [plan EXCEPT ![r] = manifest]
  /\ UNCHANGED <<commit, manifest, release, former, built, gone, put, swept, accepted,
                 latest, bound>>

(* A build passes its gates, with the Core that verify-manifest.mjs has    *)
(* compared with the manifest.                                             *)
Build(r, p) ==
  /\ pc[r] = "build" /\ p \notin built[r]
  /\ built' = [built EXCEPT ![r] = @ \cup {p}]
  /\ UNCHANGED <<commit, manifest, release, former, pc, at, plan, gone, put, swept,
                 accepted, latest, bound>>

(* A gate, an upload or the job fails, or it is cancelled.                 *)
Die(r) ==
  /\ Active(r) /\ pc' = [pc EXCEPT ![r] = "died"]
  /\ UNCHANGED <<commit, manifest, release, former, at, plan, built, gone, put, swept,
                 accepted, latest, bound>>

(* The publish job needs all builds, and counts their archives.            *)
Publish(r) ==
  /\ pc[r] = "build" /\ built[r] = Platform
  /\ pc' = [pc EXCEPT ![r] = "publish"] /\ latest' = [latest EXCEPT ![plan[r].tag] = r]
  /\ UNCHANGED <<commit, manifest, release, former, at, plan, built, gone, put, swept,
                 accepted, bound>>

Package(r, p) == [platform |-> p, core |-> plan[r].core, glue |-> at[r], run |-> r]

(* gh release upload --clobber deletes an asset of the same name ...       *)
Clobber(r, p) ==
  /\ pc[r] = "publish" /\ p \notin gone[r]
  /\ release' = [release EXCEPT ![plan[r].tag][p] = None]
  /\ gone' = [gone EXCEPT ![r] = @ \cup {p}]
  /\ UNCHANGED <<commit, manifest, former, pc, at, plan, built, put, swept, accepted,
                 latest, bound>>

(* ... and uploads the new one.                                            *)
Put(r, p) ==
  /\ pc[r] = "publish" /\ p \in gone[r] \ put[r]
  /\ release' = [release EXCEPT ![plan[r].tag][p] = Package(r, p)]
  /\ put' = [put EXCEPT ![r] = @ \cup {p}]
  /\ pc' = IF put'[r] = Platform THEN [pc EXCEPT ![r] = "sweep"] ELSE pc
  /\ UNCHANGED <<commit, manifest, former, at, plan, built, gone, swept, accepted,
                 latest, bound>>

(* Mutant: the loop has the names of today. *)
SweepToday(r, p) ==
  /\ pc[r] = "sweep" /\ p \notin swept[r]
  /\ swept' = [swept EXCEPT ![r] = @ \cup {p}]
  /\ release' = [release EXCEPT ![DevTag][p] = None]
  /\ pc' = IF swept'[r] = Platform THEN [pc EXCEPT ![r] = "done"] ELSE pc
  /\ UNCHANGED <<commit, manifest, former, at, plan, built, gone, put, accepted,
                 latest, bound>>

(* With all uploaded, the asset of the former name is deleted, from release *)
(* `dev` whatever the run's own release; a failure to do so is ignored.    *)
Sweep(r, p) ==
  /\ pc[r] = "sweep" /\ p \notin swept[r]
  /\ swept' = [swept EXCEPT ![r] = @ \cup {p}]
  /\ former' \in {former, former \ {p}}
  /\ pc' = IF swept'[r] = Platform THEN [pc EXCEPT ![r] = "done"] ELSE pc
  /\ UNCHANGED <<commit, manifest, release, at, plan, built, gone, put, accepted,
                 latest, bound>>

-------------------------------------------------------------------------------
(* The operator commits another dev.json: another release or Core, and the *)
(* packages as they were, or none, or as they can be downloaded just now.  *)
Commit ==
  /\ commit < MaxCommit /\ commit' = commit + 1
  /\ \E t \in Tag, v \in Version, h \in 0 .. commit :
       \E ps \in {manifest.packages, NoPackages, release[t]} :
         manifest' = [tag |-> t, core |-> v, packages |-> ps, head |-> h]
  /\ accepted' = NoPackages
  /\ UNCHANGED <<release, former, runs, latest, bound>>

(* Mutant: package_head is not compared. *)
GoodAnyGlue(p, archive) ==
  /\ manifest.packages[p] # None /\ archive = manifest.packages[p]
  /\ archive.platform = p /\ archive.core = manifest.core

(* verify-package.mjs *)
Good(p, archive) ==
  /\ manifest.packages[p] # None /\ archive = manifest.packages[p]
  /\ archive.platform = p /\ archive.core = manifest.core
  /\ manifest.head # 0 => archive.glue = manifest.head

(* The lane of the platform: download, verify.                             *)
Verify(p) ==
  /\ LET archive == release[manifest.tag][p]
     IN  /\ archive # None /\ Good(p, archive)
         /\ accepted' = [accepted EXCEPT ![p] = archive]
         /\ bound' = bound \cup {[tag |-> manifest.tag, archive |-> archive]}
  /\ UNCHANGED <<commit, manifest, release, former, runs, latest>>

Next ==
  \/ \E r \in Run :
       \/ Dispatch(r) \/ Publish(r) \/ Die(r)
       \/ \E p \in Platform : Build(r, p) \/ Clobber(r, p) \/ Put(r, p) \/ Sweep(r, p)
  \/ Commit \/ \E p \in Platform : Verify(p)

Spec == Init /\ [][Next]_vars

-------------------------------------------------------------------------------
(* When the lanes of all platforms have accepted a commit's packages, the  *)
(* packages are of its Core, and with a package_head of that one commit's  *)
(* glue, although the lanes download at different times, while another run *)
(* may be replacing assets or have died half way.                          *)
AcceptedCohort ==
  (\A p \in Platform : accepted[p] # None) =>
    \A p, q \in Platform :
      /\ accepted[p].core = manifest.core
      /\ manifest.head # 0 => accepted[p].glue = accepted[q].glue
      /\ accepted[p].platform = p

(* The same of states of their type. *)
PackagesInv == TypeOK /\ AcceptedCohort

(* A run that has made all its uploads leaves the whole release to its own *)
(* packages, whatever runs that died before had put or deleted there.      *)
PublishedWhole ==
  \A t \in Tag, r \in Run :
    latest[t] = r /\ pc[r] \in {"sweep", "done"} =>
      release[t] = [p \in Platform |-> Package(r, p)]

(* What runs for other releases delete, in their own and in `dev`, is none *)
(* of what a lane has verified: that stays until another run publishes to  *)
(* its release.  And what `dev` has under the former names goes only after *)
(* some run has made all its uploads (to its own release, not to `dev`).   *)
VerifiedKept ==
  /\ \A b \in bound :
       release[b.tag][b.archive.platform] = b.archive \/ latest[b.tag] # b.archive.run
  /\ \A p \in Platform \ former : \E r \in Run : p \in swept[r] /\ put[r] = Platform
===============================================================================
