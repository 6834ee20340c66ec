----------------------------- MODULE PackagesProofs -----------------------------
(***************************************************************************)
(* Proofs about Packages for any platforms, releases, versions and runs    *)
(* and any length of main: what the lanes accept is one cohort, a run that *)
(* completes leaves the whole release to its own packages, and no run      *)
(* deletes from the release of another what a lane has verified.           *)
(***************************************************************************)
EXTENDS Packages, TLAPS

(* The concurrency group.                                                  *)
Alone == \A r, s \in Run : Active(r) /\ Active(s) => r = s

(* What a run has done by each of its steps.                               *)
Lanes ==
  \A r \in Run :
    /\ pc[r] \in {"idle", "build"} => gone[r] = {}
    /\ pc[r] = "publish" => latest[plan[r].tag] = r /\ built[r] = Platform
    /\ pc[r] \in {"sweep", "done"} \/ swept[r] # {} => put[r] = Platform

(* A release was published to last by a run of its own manifest.           *)
Latest ==
  \A t \in Tag : latest[t] # None =>
    plan[latest[t]].tag = t /\ pc[latest[t]] \in {"publish", "sweep", "done", "died"}

(* What the last run to publish has put stays there.                       *)
Standing ==
  \A r \in Run : latest[plan[r].tag] = r =>
    \A p \in put[r] : release[plan[r].tag][p] = Package(r, p)

(* Where an archive in some release, or a verified one, came from.         *)
From(t, archive) ==
  /\ archive.run \in Run /\ archive.platform \in put[archive.run]
  /\ plan[archive.run].tag = t /\ archive = Package(archive.run, archive.platform)

Origin ==
  /\ \A t \in Tag, p \in Platform, x \in Archive \ {None} :
       release[t][p] = x => From(t, x) /\ x.platform = p
  /\ \A t \in Tag, x \in Archive : [tag |-> t, archive |-> x] \in bound => From(t, x)

(* What the lanes have accepted passes their check still.                  *)
Accepted == \A p \in Platform : accepted[p] # None => Good(p, accepted[p])

(* The parts of VerifiedKept: the verified packages, and the former names.  *)
Kept ==
  \A b \in bound :
    release[b.tag][b.archive.platform] = b.archive \/ latest[b.tag] # b.archive.run

FormerKept ==
  \A p \in Platform \ former : \E r \in Run : p \in swept[r] /\ put[r] = Platform

IInv == /\ TypeOK /\ Alone /\ Lanes /\ Latest /\ Standing /\ Origin /\ Accepted
        /\ Kept /\ FormerKept

-------------------------------------------------------------------------------
(* A run's package is an archive. *)
LEMMA PackageType ==
  ASSUME TypeOK, NEW r \in Run, NEW p \in Platform
  PROVE  /\ Package(r, p) \in Archive
         /\ Package(r, p).run = r /\ Package(r, p).platform = p
BY DEF TypeOK, Manifest, Package, Archive

(* What deleting or uploading one asset does to the releases. *)
LEMMA ReleaseUpdate ==
  ASSUME TypeOK, NEW t \in Tag, NEW p \in Platform, NEW x \in Optional,
         release' = [release EXCEPT ![t][p] = x]
  PROVE  /\ release' \in [Tag -> [Platform -> Optional]]
         /\ release'[t][p] = x
         /\ \A u \in Tag, q \in Platform :
              u # t \/ q # p => release'[u][q] = release[u][q]
BY DEF TypeOK

(* A run's packages depend on nothing that changes after its dispatch. *)
LEMMA PackageStays ==
  ASSUME NEW r, plan'[r] = plan[r], at'[r] = at[r], NEW p
  PROVE  Package(r, p)' = Package(r, p)
BY DEF Package

(* Every step keeps every variable in its type. *)
LEMMA TypeStep ==
  ASSUME TypeOK, Lanes, [Next]_vars
  PROVE  TypeOK'
<1> USE PackagesAssumption DEF TypeOK, vars, runs, Active
<1>0. NoPackages \in [Platform -> Optional] /\ None \in Optional
  BY DEF NoPackages, Optional
<1>1. ASSUME NEW r \in Run, Dispatch(r)
      PROVE  TypeOK'
  BY <1>1 DEF Dispatch
<1>2. ASSUME NEW r \in Run, Publish(r)
      PROVE  TypeOK'
  BY <1>2 DEF Publish, Manifest
<1>3. ASSUME NEW r \in Run, Die(r)
      PROVE  TypeOK'
  BY <1>3 DEF Die
<1>4. ASSUME NEW r \in Run, NEW p \in Platform, Build(r, p)
      PROVE  TypeOK'
  BY <1>4 DEF Build
<1>5. ASSUME NEW r \in Run, NEW p \in Platform, Clobber(r, p)
      PROVE  TypeOK'
  <2>1. plan[r].tag \in Tag
    BY DEF Manifest
  <2>2. release' \in [Tag -> [Platform -> Optional]]
    BY <1>0, <1>5, <2>1, ReleaseUpdate DEF Clobber
  <2>3. p \in built[r]
    BY <1>5 DEF Clobber, Lanes
  <2> QED  BY <1>5, <2>2, <2>3 DEF Clobber
<1>6. ASSUME NEW r \in Run, NEW p \in Platform, Put(r, p)
      PROVE  TypeOK'
  <2>1. plan[r].tag \in Tag /\ Package(r, p) \in Optional
    BY PackageType DEF Manifest, Optional
  <2>2. release' \in [Tag -> [Platform -> Optional]]
    BY <1>6, <2>1, ReleaseUpdate DEF Put
  <2>3. pc' \in [Run -> {"idle", "build", "publish", "sweep", "done", "died"}]
    BY <1>6 DEF Put
  <2> QED  BY <1>6, <2>2, <2>3 DEF Put
<1>7. CASE Commit
  <2>1. manifest' \in Manifest
    <3>1. PICK t \in Tag, v \in Version, h \in 0 .. commit :
            \E ps \in {manifest.packages, NoPackages, release[t]} :
              manifest' = [tag |-> t, core |-> v, packages |-> ps, head |-> h]
      BY <1>7 DEF Commit
    <3>2. h \in 0 .. MaxCommit /\ manifest.packages \in [Platform -> Optional]
      BY DEF Manifest
    <3> QED  BY <1>0, <3>1, <3>2 DEF Manifest
  <2> QED  BY <1>0, <1>7, <2>1 DEF Commit
<1>8. ASSUME NEW p \in Platform, Verify(p)
      PROVE  TypeOK'
  <2>1. /\ release[manifest.tag][p] \in Optional /\ release[manifest.tag][p] # None
        /\ manifest.tag \in Tag
    BY <1>8 DEF Verify, Manifest
  <2>2. release[manifest.tag][p] \in Archive
    BY <2>1 DEF Optional
  <2> QED  BY <1>8, <2>1, <2>2 DEF Verify
<1>9. ASSUME NEW r \in Run, NEW p \in Platform, Sweep(r, p)
      PROVE  TypeOK'
  BY <1>9 DEF Sweep
<1>10. CASE UNCHANGED vars
  BY <1>10
<1> QED  BY <1>1, <1>2, <1>3, <1>4, <1>5, <1>6, <1>7, <1>8, <1>9, <1>10 DEF Next

(* At most one run is at work, as a run starts only when none is.           *)
LEMMA AloneStep ==
  ASSUME TypeOK, Alone, [Next]_vars
  PROVE  Alone'
<1> USE DEF TypeOK, vars, runs, Active, Alone
<1>1. ASSUME NEW r \in Run, Dispatch(r)
      PROVE  Alone'
  BY <1>1 DEF Dispatch
<1>2. ASSUME NEW r \in Run, Publish(r)
      PROVE  Alone'
  BY <1>2 DEF Publish
<1>3. ASSUME NEW r \in Run, Die(r)
      PROVE  Alone'
  BY <1>3 DEF Die
<1>4. ASSUME NEW r \in Run, NEW p \in Platform, Put(r, p)
      PROVE  Alone'
  BY <1>4 DEF Put
<1>5. ASSUME NEW r \in Run, NEW p \in Platform, Sweep(r, p)
      PROVE  Alone'
  BY <1>5 DEF Sweep
<1>6. CASE UNCHANGED pc
  BY <1>6
<1> QED
  BY <1>1, <1>2, <1>3, <1>4, <1>5, <1>6 DEF Next, Build, Clobber, Commit, Verify

(* What a run has done by each of its steps; only the one at work publishes. *)
LEMMA LanesStep ==
  ASSUME TypeOK, Alone, Lanes, [Next]_vars
  PROVE  Lanes'
<1> USE DEF TypeOK, vars, runs, Active, Lanes, Manifest
<1>1. ASSUME NEW r \in Run, Dispatch(r)
      PROVE  Lanes'
  BY <1>1 DEF Dispatch
<1>2. ASSUME NEW r \in Run, Publish(r)
      PROVE  Lanes'
  <2>1. \A s \in Run \ {r} : pc[s] # "publish"
    BY <1>2 DEF Publish, Alone
  <2> QED  BY <1>2, <2>1 DEF Publish
<1>3. ASSUME NEW r \in Run, Die(r)
      PROVE  Lanes'
  BY <1>3 DEF Die
<1>4. ASSUME NEW r \in Run, NEW p \in Platform, Build(r, p)
      PROVE  Lanes'
  BY <1>4 DEF Build
<1>5. ASSUME NEW r \in Run, NEW p \in Platform, Clobber(r, p)
      PROVE  Lanes'
  BY <1>5 DEF Clobber
<1>6. ASSUME NEW r \in Run, NEW p \in Platform, Put(r, p)
      PROVE  Lanes'
  BY <1>6 DEF Put
<1>7. ASSUME NEW r \in Run, NEW p \in Platform, Sweep(r, p)
      PROVE  Lanes'
  BY <1>7 DEF Sweep
<1>8. CASE UNCHANGED <<latest, pc, plan, built, gone, put, swept>>
  BY <1>8
<1> QED
  BY <1>1, <1>2, <1>3, <1>4, <1>5, <1>6, <1>7, <1>8 DEF Next, Commit, Verify

(* A run publishes to the release of the manifest it was dispatched with.   *)
LEMMA LatestStep ==
  ASSUME TypeOK, Latest, [Next]_vars
  PROVE  Latest'
<1> USE PackagesAssumption DEF TypeOK, vars, runs, Active, Latest, Manifest
<1>1. ASSUME NEW r \in Run, Dispatch(r)
      PROVE  Latest'
  BY <1>1 DEF Dispatch
<1>2. ASSUME NEW r \in Run, Publish(r)
      PROVE  Latest'
  BY <1>2 DEF Publish
<1>3. ASSUME NEW r \in Run, Die(r)
      PROVE  Latest'
  BY <1>3 DEF Die
<1>4. ASSUME NEW r \in Run, NEW p \in Platform, Put(r, p)
      PROVE  Latest'
  BY <1>4 DEF Put
<1>5. ASSUME NEW r \in Run, NEW p \in Platform, Sweep(r, p)
      PROVE  Latest'
  BY <1>5 DEF Sweep
<1>6. CASE UNCHANGED <<latest, pc, plan>>
  BY <1>6
<1> QED
  BY <1>1, <1>2, <1>3, <1>4, <1>5, <1>6 DEF Next, Build, Clobber, Commit, Verify

(* What the last run to publish has put stays: no other run is at work on   *)
(* its release, and it does not delete what it has put.                     *)
LEMMA StandingStep ==
  ASSUME TypeOK, Lanes, Latest, Standing, [Next]_vars
  PROVE  Standing'
<1> USE PackagesAssumption DEF TypeOK, vars, runs
<1>0. \A r \in Run : plan[r].tag \in Tag
  BY DEF Manifest
<1>1. ASSUME NEW r \in Run, Dispatch(r)
      PROVE  Standing'
  <2>1. /\ pc[r] = "idle" /\ plan' = [plan EXCEPT ![r] = manifest] /\ manifest.tag \in Tag
        /\ \A s \in Run \ {r} : plan'[s] = plan[s] /\ at'[s] = at[s]
        /\ UNCHANGED <<release, latest, put>>
    BY <1>1 DEF Dispatch, Manifest
  <2>2. latest[manifest.tag] # r
    <3>1. latest[manifest.tag] # None =>
            pc[latest[manifest.tag]] \in {"publish", "sweep", "done", "died"}
      BY <2>1 DEF Latest
    <3>2. r # None
      BY PackagesAssumption
    <3> QED  BY ONLY <2>1, <3>1, <3>2
  <2>3. \A s \in Run \ {r}, p \in Platform : Package(s, p)' = Package(s, p)
    BY <2>1, PackageStays
  <2> QED  BY <1>0, <2>1, <2>2, <2>3 DEF Standing
<1>2. ASSUME NEW r \in Run, Publish(r)
      PROVE  Standing'
  <2>1. /\ put[r] = {} /\ UNCHANGED <<plan, at, put, release>>
        /\ latest' = [latest EXCEPT ![plan[r].tag] = r]
    BY <1>2 DEF Publish, Lanes
  <2>2. \A s \in Run \ {r} : latest'[plan[s].tag] = s => latest[plan[s].tag] = s
    BY <1>0, <2>1
  <2>3. \A s \in Run, p \in Platform : Package(s, p)' = Package(s, p)
    BY <2>1, PackageStays
  <2> QED  BY <2>1, <2>2, <2>3 DEF Standing
<1>3. ASSUME NEW r \in Run, NEW p \in Platform, Clobber(r, p)
      PROVE  Standing'
  <2>1. /\ UNCHANGED <<plan, at, put, latest>> /\ p \notin put[r] /\ pc[r] = "publish"
        /\ release' = [release EXCEPT ![plan[r].tag][p] = None] /\ None \in Optional
    BY <1>3 DEF Clobber, Optional
  <2>2. latest[plan[r].tag] = r
    BY <2>1 DEF Lanes
  <2>3. ASSUME NEW s \in Run, latest[plan[s].tag] = s, NEW q \in put[s]
        PROVE  release'[plan[s].tag][q] = release[plan[s].tag][q]
    <3>1. plan[s].tag # plan[r].tag \/ q # p
      BY <2>1, <2>2, <2>3
    <3>2. q \in Platform
      BY <2>3
    <3> QED  BY <1>0, <2>1, <3>1, <3>2, ReleaseUpdate
  <2>4. \A s \in Run, q \in Platform : Package(s, q)' = Package(s, q)
    BY <2>1, PackageStays
  <2> QED  BY <2>1, <2>3, <2>4 DEF Standing
<1>4. ASSUME NEW r \in Run, NEW p \in Platform, Put(r, p)
      PROVE  Standing'
  <2>1. /\ UNCHANGED <<plan, at, latest>> /\ p \notin put[r] /\ pc[r] = "publish"
        /\ release' = [release EXCEPT ![plan[r].tag][p] = Package(r, p)]
        /\ put' = [put EXCEPT ![r] = @ \cup {p}] /\ Package(r, p) \in Optional
    BY <1>4, PackageType DEF Put, Optional
  <2>2. latest[plan[r].tag] = r
    BY <2>1 DEF Lanes
  <2>3. \A s \in Run, q \in Platform : Package(s, q)' = Package(s, q)
    BY <2>1, PackageStays
  <2>4. ASSUME NEW s \in Run, latest[plan[s].tag] = s, NEW q \in put'[s]
        PROVE  release'[plan[s].tag][q] = Package(s, q)
    <3>1. CASE s = r /\ q = p
      BY <1>0, <2>1, <3>1, ReleaseUpdate
    <3>2. CASE s # r \/ q # p
      <4>1. q \in put[s] /\ q \in Platform
        BY <2>1, <2>4, <3>2
      <4>2. plan[s].tag # plan[r].tag \/ q # p
        BY <2>2, <2>4, <3>2
      <4>3. release'[plan[s].tag][q] = release[plan[s].tag][q]
        BY <1>0, <2>1, <4>1, <4>2, ReleaseUpdate
      <4> QED  BY <2>4, <4>1, <4>3 DEF Standing
    <3> QED  BY <3>1, <3>2
  <2> QED  BY <2>1, <2>3, <2>4 DEF Standing
<1>5. CASE UNCHANGED <<release, plan, at, put, latest>>
  BY <1>5, PackageStays DEF Standing
<1> QED
  BY <1>1, <1>2, <1>3, <1>4, <1>5 DEF Next, Build, Die, Sweep, Commit, Verify

(* An archive keeps its origin: its run never forgets what it has put.      *)
LEMMA OriginStays ==
  ASSUME TypeOK, Lanes, [Next]_vars, NEW t \in Tag, NEW x, From(t, x)
  PROVE  From(t, x)'
<1> USE DEF vars, runs
<1>0. /\ x.run \in Run /\ x.platform \in put[x.run] /\ plan[x.run].tag = t
      /\ x = Package(x.run, x.platform)
  BY DEF From
<1>1. ASSUME NEW r \in Run, Dispatch(r)
      PROVE  From(t, x)'
  <2>1. put[r] = {} /\ put' = put
    BY <1>1 DEF Dispatch, Lanes, TypeOK
  <2>2. x.run # r
    BY <1>0, <2>1
  <2>3. plan'[x.run] = plan[x.run] /\ at'[x.run] = at[x.run]
    BY <1>0, <1>1, <2>2 DEF Dispatch, TypeOK
  <2> QED  BY <1>0, <2>1, <2>3, PackageStays DEF From
<1>2. ASSUME UNCHANGED <<plan, at>>, \A r \in Run : put[r] \subseteq put'[r]
      PROVE  From(t, x)'
  BY <1>0, <1>2, PackageStays DEF From
<1>3. ASSUME NEW r \in Run, NEW p \in Platform, Put(r, p)
      PROVE  From(t, x)'
  BY <1>2, <1>3 DEF Put, TypeOK
<1>4. ASSUME UNCHANGED <<plan, at, put>>
      PROVE  From(t, x)'
  BY <1>2, <1>4
<1> QED
  BY <1>1, <1>3, <1>4 DEF Next, Publish, Die, Build, Clobber, Sweep, Commit, Verify

(* Only a run puts archives into releases, its own into that of its tag; the *)
(* lanes verify what is in the release.                                      *)
LEMMA OriginStep ==
  ASSUME TypeOK, Lanes, Origin, [Next]_vars
  PROVE  Origin'
<1> USE DEF vars, runs
<1>0. \A r \in Run : plan[r].tag \in Tag
  BY DEF TypeOK, Manifest
<1>1. \A t \in Tag, p \in Platform, x \in Archive \ {None} :
        release[t][p] = x => From(t, x)' /\ x.platform = p
  BY OriginStays DEF Origin
<1>2. \A t \in Tag, x \in Archive : [tag |-> t, archive |-> x] \in bound => From(t, x)'
  BY OriginStays DEF Origin
<1>3. ASSUME NEW r \in Run, NEW p \in Platform, Clobber(r, p)
      PROVE  Origin'
  <2>1. bound' = bound /\ release' = [release EXCEPT ![plan[r].tag][p] = None]
    BY <1>3 DEF Clobber
  <2>2. \A t \in Tag, q \in Platform :
          release'[t][q] # None => release'[t][q] = release[t][q]
    BY <1>0, <2>1, ReleaseUpdate DEF Optional
  <2> QED  BY <1>1, <1>2, <2>1, <2>2 DEF Origin
<1>4. ASSUME NEW r \in Run, NEW p \in Platform, Put(r, p)
      PROVE  Origin'
  <2> DEFINE a == Package(r, p)
  <2>1. /\ bound' = bound /\ UNCHANGED <<plan, at>> /\ p \in put'[r]
        /\ release' = [release EXCEPT ![plan[r].tag][p] = a]
    BY <1>4 DEF Put, TypeOK
  <2>2. a.run = r /\ a.platform = p /\ a \in Optional /\ Package(r, p)' = a
    BY <2>1, PackageType, PackageStays DEF Optional
  <2>3. \A t \in Tag, q \in Platform :
          IF t = plan[r].tag /\ q = p THEN release'[t][q] = a
                                      ELSE release'[t][q] = release[t][q]
    BY <1>0, <2>1, <2>2, ReleaseUpdate
  <2> HIDE DEF a
  <2>4. ASSUME NEW x, x = a
        PROVE  From(plan[r].tag, x)'
    BY <2>1, <2>2, <2>4 DEF From
  <2>5. ASSUME NEW t \in Tag, NEW q \in Platform, NEW x \in Archive \ {None},
               release'[t][q] = x
        PROVE  From(t, x)' /\ x.platform = q
    <3>1. CASE t = plan[r].tag /\ q = p
      BY <2>1, <2>2, <2>3, <2>4, <2>5, <3>1
    <3>2. CASE ~(t = plan[r].tag /\ q = p)
      BY <1>1, <2>3, <2>5, <3>2
    <3> QED  BY <3>1, <3>2
  <2> QED  BY <1>2, <2>1, <2>5 DEF Origin
<1>5. ASSUME NEW p \in Platform, Verify(p)
      PROVE  Origin'
  <2>1. /\ release' = release /\ manifest.tag \in Tag
        /\ release[manifest.tag][p] \in Archive \ {None}
        /\ bound' = bound \cup
             {[tag |-> manifest.tag, archive |-> release[manifest.tag][p]]}
    BY <1>5 DEF Verify, TypeOK, Manifest, Optional
  <2>2. ASSUME NEW t \in Tag, NEW x \in Archive, [tag |-> t, archive |-> x] \in bound'
        PROVE  From(t, x)'
    <3>1. CASE [tag |-> t, archive |-> x] \in bound
      BY <1>2, <3>1
    <3>2. CASE t = manifest.tag /\ x = release[manifest.tag][p]
      BY <1>1, <2>1, <3>2
    <3> QED  BY <2>1, <2>2, <3>1, <3>2
  <2> QED  BY <1>1, <2>1, <2>2 DEF Origin
<1>6. CASE UNCHANGED <<release, bound>>
  BY <1>1, <1>2, <1>6 DEF Origin
<1> QED
  BY <1>3, <1>4, <1>5, <1>6 DEF Next, Dispatch, Publish, Die, Build, Sweep, Commit

(* A verified asset is replaced only once another run publishes there.      *)
LEMMA KeptStep ==
  ASSUME TypeOK, Lanes, Origin, Kept, [Next]_vars
  PROVE  Kept'
<1> USE DEF vars, runs
<1>0. \A r \in Run : plan[r].tag \in Tag
  BY DEF TypeOK, Manifest
<1>1. ASSUME NEW b \in bound
      PROVE  /\ b.tag \in Tag /\ b.archive.run \in Run /\ b.archive.platform \in Platform
             /\ b.archive.platform \in put[b.archive.run]
             /\ release[b.tag][b.archive.platform] = b.archive
                \/ latest[b.tag] # b.archive.run
  <2>1. b.tag \in Tag /\ b.archive \in Archive /\ b = [tag |-> b.tag, archive |-> b.archive]
    BY DEF TypeOK
  <2>2. From(b.tag, b.archive)
    BY <2>1 DEF Origin
  <2> QED  BY <2>1, <2>2 DEF From, Kept, Archive
<1>2. ASSUME NEW r \in Run, Publish(r)
      PROVE  Kept'
  <2>1. /\ put[r] = {} /\ UNCHANGED <<release, bound>>
        /\ latest' = [latest EXCEPT ![plan[r].tag] = r]
    BY <1>2 DEF Publish, Lanes, TypeOK
  <2>2. ASSUME NEW b \in bound
        PROVE  /\ b.archive.run # r
               /\ latest'[b.tag] = latest[b.tag] \/ latest'[b.tag] = r
    BY <1>0, <1>1, <2>1 DEF TypeOK
  <2> QED  BY <1>1, <2>1, <2>2 DEF Kept
<1>3. ASSUME NEW r \in Run, NEW p \in Platform, NEW x \in Optional,
             p \notin put[r], pc[r] = "publish", UNCHANGED <<bound, latest>>,
             release' = [release EXCEPT ![plan[r].tag][p] = x]
      PROVE  Kept'
  <2>1. latest[plan[r].tag] = r
    BY <1>3 DEF Lanes
  <2>2. ASSUME NEW b \in bound
        PROVE  \/ release'[b.tag][b.archive.platform] = release[b.tag][b.archive.platform]
               \/ latest[b.tag] # b.archive.run
    <3>1. CASE b.tag = plan[r].tag /\ b.archive.platform = p
      BY <1>1, <1>3, <2>1, <3>1
    <3>2. CASE b.tag # plan[r].tag \/ b.archive.platform # p
      BY <1>0, <1>1, <1>3, <3>2, ReleaseUpdate
    <3> QED  BY <3>1, <3>2
  <2> QED  BY <1>1, <1>3, <2>2 DEF Kept
<1>4. ASSUME NEW r \in Run, NEW p \in Platform, Clobber(r, p)
      PROVE  Kept'
  BY <1>3, <1>4 DEF Clobber, TypeOK, Optional
<1>5. ASSUME NEW r \in Run, NEW p \in Platform, Put(r, p)
      PROVE  Kept'
  BY <1>3, <1>5, PackageType DEF Put, Optional
<1>6. ASSUME NEW p \in Platform, Verify(p)
      PROVE  Kept'
  <2>1. /\ UNCHANGED <<release, latest>> /\ release[manifest.tag][p].platform = p
        /\ bound' = bound \cup
             {[tag |-> manifest.tag, archive |-> release[manifest.tag][p]]}
    BY <1>6 DEF Verify, Good
  <2> QED  BY <1>1, <2>1 DEF Kept
<1>7. CASE UNCHANGED <<release, latest, bound>>
  BY <1>7 DEF Kept
<1> QED
  BY <1>2, <1>4, <1>5, <1>6, <1>7 DEF Next, Dispatch, Die, Build, Sweep, Commit

(* A former name is given up only by a run that has made all its uploads.   *)
LEMMA FormerStep ==
  ASSUME TypeOK, Lanes, FormerKept, [Next]_vars
  PROVE  FormerKept'
<1> USE DEF TypeOK, vars, runs
<1>1. ASSUME NEW r \in Run, NEW p \in Platform, Sweep(r, p)
      PROVE  FormerKept'
  <2>1. /\ put[r] = Platform /\ put' = put /\ p \in swept'[r]
        /\ former' \in {former, former \ {p}}
        /\ \A s \in Run : swept[s] \subseteq swept'[s]
    BY <1>1 DEF Sweep, Lanes
  <2> QED  BY <2>1 DEF FormerKept
<1>2. ASSUME NEW r \in Run, NEW p \in Platform, Put(r, p)
      PROVE  FormerKept'
  <2>1. /\ UNCHANGED <<former, swept>>
        /\ \A s \in Run : put[s] = Platform => put'[s] = Platform
    BY <1>2 DEF Put
  <2> QED  BY <2>1 DEF FormerKept
<1>3. CASE UNCHANGED <<former, swept, put>>
  BY <1>3 DEF FormerKept
<1> QED
  BY <1>1, <1>2, <1>3
  DEF Next, Dispatch, Publish, Die, Build, Clobber, Commit, Verify

(* What a lane has accepted for the last commit was good, and is.           *)
LEMMA AcceptedStep ==
  ASSUME TypeOK, Accepted, [Next]_vars
  PROVE  Accepted'
<1>1. ASSUME NEW p \in Platform, Verify(p)
      PROVE  Accepted'
  <2>1. /\ manifest' = manifest /\ Good(p, release[manifest.tag][p])
        /\ accepted' = [accepted EXCEPT ![p] = release[manifest.tag][p]]
    BY <1>1 DEF Verify
  <2> QED  BY <2>1 DEF Accepted, Good, TypeOK
<1>2. CASE Commit
  BY <1>2 DEF Commit, Accepted, NoPackages
<1>3. CASE UNCHANGED <<manifest, accepted>>
  BY <1>3 DEF Accepted, Good
<1> QED
  BY <1>1, <1>2, <1>3
  DEF Next, Dispatch, Publish, Die, Build, Clobber, Put, Sweep, vars

-------------------------------------------------------------------------------
(* Nothing is built, published or verified yet. *)
LEMMA InitIInv == Init => IInv
<1> SUFFICES ASSUME Init PROVE IInv
  OBVIOUS
<1> USE PackagesAssumption DEF Init
<1>1. NoPackages \in [Platform -> Optional] /\ NoPackages = [p \in Platform |-> None]
  BY DEF NoPackages, Optional
<1>2. manifest \in Manifest
  BY <1>1 DEF Manifest
<1>3. TypeOK
  <2>1. /\ release \in [Tag -> [Platform -> Optional]]
        /\ accepted \in [Platform -> Optional]
    BY <1>1
  <2>2. /\ commit \in 1 .. MaxCommit /\ at \in [Run -> 1 .. MaxCommit]
        /\ plan \in [Run -> Manifest]
    BY <1>2
  <2>3. {built, gone, put, swept} \subseteq [Run -> SUBSET Platform]
    OBVIOUS
  <2> QED  BY <1>2, <2>1, <2>2, <2>3 DEF TypeOK
<1>4. Alone /\ Lanes /\ Latest /\ Standing
  BY <1>2 DEF Alone, Active, Lanes, Latest, Standing, Manifest
<1>5. Origin /\ Accepted /\ Kept /\ FormerKept
  BY <1>1 DEF Origin, Accepted, Kept, FormerKept
<1> QED  BY <1>3, <1>4, <1>5 DEF IInv

(* The invariant holds throughout: whichever runs die where, whatever is    *)
(* committed and verified meanwhile.                                        *)
THEOREM Invariance == Spec => []IInv
<1>1. ASSUME IInv, [Next]_vars
      PROVE  IInv'
  BY <1>1, TypeStep, AloneStep, LanesStep, LatestStep, StandingStep, OriginStep,
     KeptStep, FormerStep, AcceptedStep DEF IInv
<1> QED
  BY <1>1, InitIInv, PTL DEF Spec

(* When the lanes of all platforms have accepted a commit's packages, these *)
(* are of its Core and of one commit's glue, although the lanes download at *)
(* different times (verify-package.mjs 12-48).                              *)
THEOREM AcceptedSafety == Spec => []PackagesInv
<1>1. IInv => PackagesInv
  BY DEF IInv, PackagesInv, AcceptedCohort, Accepted, Good
<1> QED
  BY <1>1, Invariance, PTL

(* A run that has made all its uploads leaves the whole release to its own  *)
(* packages, whatever the runs that died before it had put or deleted there *)
(* (build-dev.yml, the publish job).                                        *)
THEOREM PublishedSafety == Spec => []PublishedWhole
<1>1. ASSUME IInv PROVE PublishedWhole
  <2> SUFFICES ASSUME NEW t \in Tag, NEW r \in Run, latest[t] = r,
                      pc[r] \in {"sweep", "done"}
               PROVE  release[t] = [p \in Platform |-> Package(r, p)]
    BY DEF PublishedWhole
  <2>1. plan[r].tag = t /\ put[r] = Platform
    BY <1>1, PackagesAssumption DEF IInv, Latest, Lanes
  <2>2. \A p \in Platform : release[t][p] = Package(r, p)
    BY <1>1, <2>1 DEF IInv, Standing
  <2> QED  BY <1>1, <2>2 DEF IInv, TypeOK
<1> QED
  BY <1>1, Invariance, PTL

(* A verified package stays until another run publishes to its release,     *)
(* whatever runs for other releases delete there and in `dev`; and an asset *)
(* of a former name goes only after all uploads of some run.                *)
THEOREM VerifiedSafety == Spec => []VerifiedKept
<1>1. IInv => VerifiedKept
  BY DEF IInv, VerifiedKept, Kept, FormerKept
<1> QED
  BY <1>1, Invariance, PTL
===============================================================================
