--------------------------- MODULE PublicationProofs ---------------------------
(***************************************************************************)
(* Proofs about Publication, and through it about Acquisition, for any     *)
(* channels and versions, any number of edits and any length of main: that *)
(* what a consumer of a published repository instantiates is one qualified *)
(* cohort, that a moving main does it no harm, and what the check before a *)
(* push and the CDN workflow are worth.                                    *)
(***************************************************************************)
EXTENDS Publication, SequenceTheorems, TLAPS

Main == Seen(history)
Resolution == Main[revision]

(* What has passed the check satisfies it.                                 *)
Checks ==
  /\ checked # NotChecked => RepositoryOk(checked, TRUE)
  /\ \A k \in 1 .. Len(history) :
       history[k].checked => RepositoryOk(history[k].commit, TRUE)

(* How far the consumer is.                                                *)
Shape ==
  /\ pc \in {"start", "discover"} => revision = 0
  /\ pc \in {"manifest", "download", "ready"} => revision > 0
  /\ pc \in {"start", "discover", "manifest"} \/ revision = 0 => got = <<>>
  /\ pc = "ready" => Len(got) = 2
  /\ pc # "failed" => reason = "none"
  /\ reason \in {"invalid", "mismatch"} => revision > 0

(* What it was served as the manifest, and why that was not good enough.   *)
Served ==
  /\ pc \in {"download", "ready"} \/ reason \in {"invalid", "mismatch"} =>
       cheated \/ served = Resolution
  /\ pc \in {"download", "ready"} => served.valid
  /\ reason = "invalid" => ~served.valid
  /\ reason = "mismatch" => /\ served.valid
                            /\ cheated \/ Resolution.files # Resolution.ids

(* Each file it has kept is what that manifest names, and what an honest   *)
(* CDN holds for the resolved commit.                                      *)
Kept ==
  \A i \in 1 .. Len(got) :
    LET asset == <<"core", "host">>[i]
    IN  /\ got[i] = served.ids[asset]
        /\ cheated \/ got[i] = Resolution.files[asset]

IInv == TypeOK /\ Checks /\ Shape /\ Served /\ Kept

-------------------------------------------------------------------------------
(* The assets, in the order of their download. *)
LEMMA Assets ==
  /\ Consumer!Asset = {"core", "host"}
  /\ Len(<<"core", "host">>) = 2 /\ DOMAIN <<"core", "host">> = 1 .. 2
  /\ <<"core", "host">>[1] = "core" /\ <<"core", "host">>[2] = "host"
<1>1. /\ Len(<<"core", "host">>) = 2 /\ DOMAIN <<"core", "host">> = 1 .. 2
      /\ <<"core", "host">>[1] = "core" /\ <<"core", "host">>[2] = "host"
  OBVIOUS
<1>2. Consumer!Asset = {<<"core", "host">>[i] : i \in 1 .. 2}
  BY <1>1 DEF Consumer!Asset, Consumer!ToSet
<1>3. \A i \in 1 .. 2 : i = 1 \/ i = 2
  OBVIOUS
<1> QED  BY <1>1, <1>2, <1>3

(* What the consumer sees of one commit. *)
View(commit) ==
  LET m == commit.manifest[channel]
  IN  [files |-> [core |-> commit.core[channel], host |-> commit.host],
       ids |-> [core |-> m.core, host |-> m.host],
       valid |-> Resolvable(m)]

(* The view of a commit is one of the commits Acquisition speaks of.        *)
LEMMA ViewType ==
  ASSUME NEW commit \in Commit, channel \in Channel
  PROVE  /\ View(commit) \in Consumer!Commit
         /\ View(commit).valid = Resolvable(commit.manifest[channel])
         /\ View(commit).files["core"] = commit.core[channel]
         /\ View(commit).files["host"] = commit.host
         /\ View(commit).ids["core"] = commit.manifest[channel].core
         /\ View(commit).ids["host"] = commit.manifest[channel].host
<1>1. /\ commit.manifest[channel] \in Manifest /\ commit.core[channel] \in Version
      /\ commit.host \in Version
  BY DEF Commit
<1>2. /\ commit.manifest[channel].core \in Version
      /\ commit.manifest[channel].host \in Version
      /\ Resolvable(commit.manifest[channel]) \in BOOLEAN
  BY <1>1 DEF Manifest, Resolvable
<1>3. \A x, y \in Version : [core |-> x, host |-> y] \in [{"core", "host"} -> Version]
  OBVIOUS
<1> QED  BY <1>1, <1>2, <1>3, Assets DEF View, Consumer!Commit

(* What it sees of main, commit by commit. *)
LEMMA SeenFacts ==
  ASSUME NEW C, NEW h \in Seq([commit : C, checked : BOOLEAN])
  PROVE  /\ Len(Seen(h)) = Len(h) /\ DOMAIN Seen(h) = 1 .. Len(h)
         /\ \A k \in 1 .. Len(h) : Seen(h)[k] = View(h[k].commit)
         /\ Seen(h) \in Seq({View(c) : c \in C})
<1> DEFINE n == Len(h)
<1>1. n \in Nat /\ \A k \in 1 .. n : h[k] \in [commit : C, checked : BOOLEAN]
  BY LenProperties, ElementOfSeq
<1>2. Seen(h) = [k \in 1 .. n |-> View(h[k].commit)]
  BY DEF Seen, View
<1> HIDE DEF n
<1>3. Seen(h) \in [1 .. n -> {View(c) : c \in C}]
  BY <1>1, <1>2
<1>4. Len(Seen(h)) = n /\ Seen(h) \in Seq({View(c) : c \in C})
  BY <1>1, <1>3
<1> QED  BY <1>2, <1>4 DEF n

-------------------------------------------------------------------------------
(* A push adds a commit to what the consumer sees and changes none. *)
LEMMA PushGrows ==
  ASSUME TypeOK, Push
  PROVE  /\ View(index) \in Consumer!Commit /\ Main' = Append(Main, View(index))
         /\ Len(history') = Len(history) + 1 /\ Len(Main') = Len(Main) + 1
         /\ \A k \in 1 .. Len(history) : history'[k] = history[k] /\ Main'[k] = Main[k]
         /\ history'[Len(history) + 1] = [commit |-> index, checked |-> checked = index]
         /\ history' \in Seq([commit : Commit, checked : BOOLEAN])
<1> DEFINE E == [commit : Commit, checked : BOOLEAN]
           e == [commit |-> index, checked |-> checked = index]
<1>1. /\ history' = Append(history, e) /\ channel' = channel
      /\ history \in Seq(E) /\ e \in E /\ index \in Commit /\ channel \in Channel
  BY DEF TypeOK, Push, consumer
<1>2. e.commit = index
  OBVIOUS
<1> HIDE DEF E, e
<1>3. /\ history' \in Seq(E) /\ Len(history') = Len(history) + 1
      /\ \A k \in 1 .. Len(history) : history'[k] = history[k]
      /\ history'[Len(history) + 1] = e /\ Len(history) \in Nat
  BY <1>1
<1> DEFINE V == {View(c) : c \in Commit}
<1>4. View(index) \in V /\ View(index) \in Consumer!Commit
  BY <1>1, ViewType
<1>5. /\ Len(Main) = Len(history) /\ Main \in Seq(V)
      /\ \A k \in 1 .. Len(history) : Main[k] = View(history[k].commit)
  BY <1>1, SeenFacts DEF E, Main
<1>6. Seen(history') = Main'
  BY <1>1 DEF Main, Seen
<1>7. /\ Len(Main') = Len(history') /\ Main' \in Seq(V)
      /\ \A k \in 1 .. Len(history') : Main'[k] = View(history'[k].commit)
  BY <1>3, <1>6, SeenFacts DEF E
<1> HIDE DEF V
<1>8. \A k \in 1 .. Len(history) : k \in 1 .. Len(history') /\ Main'[k] = Main[k]
  BY <1>3, <1>5, <1>7
<1>9. Main'[Len(history) + 1] = View(index)
  BY <1>2, <1>3, <1>7
<1>10. Main' = Append(Main, View(index))
  <2> DEFINE A == Append(Main, View(index))
  <2>1. A \in Seq(V) /\ Len(A) = Len(Main')
    BY <1>3, <1>4, <1>5, <1>7, AppendProperties
  <2>2. \A k \in 1 .. Len(Main') : Main'[k] = A[k]
    BY <1>3, <1>4, <1>5, <1>7, <1>8, <1>9, AppendProperties
  <2> HIDE DEF A
  <2>3. Main' = A
    BY <1>7, <2>1, <2>2, SeqEqual
  <2> QED  BY <2>3 DEF A
<1> QED  BY <1>3, <1>4, <1>5, <1>7, <1>8, <1>10 DEF E, e

(* What the operator does besides pushing, the consumer does not see. *)
LEMMA Unseen ==
  ASSUME [Next]_vars
  PROVE  UNCHANGED <<history, consumer>> \/ Push \/ Consume
<1>1. ASSUME NEW c \in Channel, NEW m \in Manifest, EditManifest(c, m)
      PROVE  UNCHANGED <<history, consumer>>
  BY <1>1 DEF EditManifest, Editing
<1>2. ASSUME NEW v \in Version, EditHost(v) \/ \E c \in Channel : PlaceCore(c, v)
      PROVE  UNCHANGED <<history, consumer>>
  BY <1>2 DEF EditHost, PlaceCore, Editing
<1>3. ASSUME NEW c \in Channel, Refresh(c)
      PROVE  UNCHANGED <<history, consumer>>
  BY <1>3 DEF Refresh
<1>4. ASSUME Add \/ Check
      PROVE  UNCHANGED <<history, consumer>>
  BY <1>4 DEF Add, Check
<1>5. CASE UNCHANGED vars
  BY <1>5 DEF vars
<1> QED  BY <1>1, <1>2, <1>3, <1>4, <1>5 DEF Next

(* The types of the operator's own variables. *)
OperatorTypes ==
  /\ manifest \in [Channel -> Manifest] /\ core \in [Channel -> Version]
  /\ host \in Version /\ index \in Commit /\ checked \in Commit \cup {NotChecked}
  /\ history \in Seq([commit : Commit, checked : BOOLEAN])
  /\ edits \in 0 .. MaxEdits /\ channel \in Channel

(* They keep them. *)
LEMMA OperatorType ==
  ASSUME TypeOK, [Next]_vars
  PROVE  OperatorTypes'
<1>0. /\ manifest \in [Channel -> Manifest] /\ core \in [Channel -> Version]
      /\ host \in Version /\ index \in Commit
      /\ checked \in Commit \cup {NotChecked}
      /\ history \in Seq([commit : Commit, checked : BOOLEAN])
      /\ edits \in 0 .. MaxEdits /\ channel \in Channel /\ MaxEdits \in Nat
  BY PublicationAssumption DEF TypeOK
<1> USE DEF OperatorTypes
<1>1. ASSUME Editing
      PROVE  /\ edits' \in 0 .. MaxEdits
             /\ UNCHANGED <<index, checked, history, channel>>
  BY <1>0, <1>1 DEF Editing, consumer
<1>2. ASSUME NEW c \in Channel, NEW m \in Manifest, EditManifest(c, m)
      PROVE  OperatorTypes'
  BY <1>0, <1>1, <1>2 DEF EditManifest
<1>3. ASSUME NEW v \in Version, EditHost(v)
      PROVE  OperatorTypes'
  BY <1>0, <1>1, <1>3 DEF EditHost
<1>4. ASSUME NEW v \in Version, NEW c \in Channel, PlaceCore(c, v)
      PROVE  OperatorTypes'
  BY <1>0, <1>1, <1>4 DEF PlaceCore
<1>5. ASSUME NEW c \in Channel, Refresh(c)
      PROVE  OperatorTypes'
  <2>1. manifest[c].core \in Version
    BY <1>0 DEF Manifest
  <2>2. core' = [core EXCEPT ![c] = manifest[c].core]
    BY <1>5 DEF Refresh, Store!Refresh
  <2>3. UNCHANGED <<manifest, host, index, checked, history, edits, channel>>
    BY <1>5 DEF Refresh, consumer
  <2> QED  BY <1>0, <2>1, <2>2, <2>3
<1>6. CASE Add
  <2>1. UNCHANGED <<manifest, core, host, checked, history, edits, channel>>
    BY <1>6 DEF Add, tree, consumer
  <2>2. ASSUME NEW c \in Channel, index' = [index EXCEPT !.manifest[c] = manifest[c]]
        PROVE  index' \in Commit
    BY <1>0, <2>2 DEF Commit
  <2>3. ASSUME NEW c \in Channel, index' = [index EXCEPT !.core[c] = core[c]]
        PROVE  index' \in Commit
    BY <1>0, <2>3 DEF Commit
  <2>4. ASSUME index' = [index EXCEPT !.host = host]
        PROVE  index' \in Commit
    BY <1>0, <2>4 DEF Commit
  <2>5. index' \in Commit
    BY <1>6, <2>2, <2>3, <2>4 DEF Add
  <2> QED  BY <1>0, <2>1, <2>5
<1>7. CASE Check
  BY <1>0, <1>7 DEF Check, tree, consumer
<1>8. CASE Push
  BY <1>0, <1>8, PushGrows DEF Push, tree, consumer
<1>9. CASE Consume
  BY <1>0, <1>9 DEF Consume, tree
<1>10. CASE UNCHANGED vars
  BY <1>0, <1>10 DEF vars, tree, consumer
<1> HIDE DEF OperatorTypes
<1>11. CASE Next
  BY <1>2, <1>3, <1>4, <1>5, <1>6, <1>7, <1>8, <1>9, <1>11 DEF Next
<1> QED  BY <1>10, <1>11

(* The consumer's variables, and what it sees, keep their types. *)
LEMMA ConsumerType ==
  ASSUME TypeOK, Shape, [Next]_vars
  PROVE  Consumer!TypeOK'
<1>0. /\ Main \in Seq(Consumer!Commit) /\ Len(Main) \in 1 .. MaxCommit
      /\ pc \in {"start", "discover", "manifest", "download", "ready", "failed"}
      /\ revision \in 0 .. Len(Main)
      /\ served \in Consumer!Commit \cup {Consumer!NoManifest}
      /\ got \in Seq(Consumer!Bytes) /\ Len(got) <= 2
      /\ pc = "download" => Len(got) < 2
      /\ reason \in {"none", "unavailable", "invalid", "mismatch"} /\ cheated \in BOOLEAN
  BY Assets DEF TypeOK, Consumer!TypeOK, Main
<1> SUFFICES /\ Main' \in Seq(Consumer!Commit) /\ Len(Main') \in 1 .. MaxCommit
             /\ pc' \in {"start", "discover", "manifest", "download", "ready", "failed"}
             /\ revision' \in 0 .. Len(Main')
             /\ served' \in Consumer!Commit \cup {Consumer!NoManifest}
             /\ got' \in Seq(Consumer!Bytes) /\ Len(got') <= 2
             /\ pc' = "download" => Len(got') < 2
             /\ reason' \in {"none", "unavailable", "invalid", "mismatch"}
             /\ cheated' \in BOOLEAN
  BY Assets DEF Consumer!TypeOK, Main
<1>1. CASE UNCHANGED <<history, consumer>>
  BY <1>0, <1>1 DEF consumer, Main, Seen
<1>2. CASE Push
  <2>1. Len(Main) < MaxCommit /\ UNCHANGED <<pc, revision, served, got, reason, cheated>>
    BY <1>2, SeenFacts DEF Push, consumer, TypeOK, Main
  <2>2. Main' = Append(Main, View(index)) /\ View(index) \in Consumer!Commit
    BY <1>2, PushGrows
  <2>3. /\ Main' \in Seq(Consumer!Commit) /\ Len(Main') \in 1 .. MaxCommit
        /\ revision' \in 0 .. Len(Main')
    BY <1>0, <2>1, <2>2, PublicationAssumption
  <2> QED  BY <1>0, <2>1, <2>3
<1>3. CASE Consume
  <2>1. Main' = Main
    BY <1>3 DEF Consume, Main, Seen
  <2>2. CASE Consumer!Pin \/ Consumer!StartDiscovery \/ Consumer!Discover
    BY <1>0, <2>1, <2>2 DEF Consumer!Pin, Consumer!StartDiscovery, Consumer!Discover, Shape,
       Consumer!client, Main
  <2>3. CASE Consumer!Unavailable
    BY <1>0, <2>1, <2>3 DEF Consumer!Unavailable, Consumer!Fail, Main
  <2>4. ASSUME NEW k \in 1 .. Len(Main), Consumer!FetchManifest(Main[k])
        PROVE  /\ pc' \in {"download", "failed"}
               /\ served' \in Consumer!Commit /\ UNCHANGED <<revision, got>>
               /\ reason' \in {reason, "invalid"} /\ cheated' \in BOOLEAN
               /\ pc = "manifest"
    <3>1. Main[k] \in Consumer!Commit
      BY <1>0, ElementOfSeq
    <3>2. /\ pc = "manifest" /\ served' = Main[k] /\ UNCHANGED <<revision, got>>
          /\ pc' \in {"download", "failed"} /\ reason' \in {reason, "invalid"}
      BY <2>4 DEF Consumer!FetchManifest, Consumer!Fail
    <3>3. cheated' \in BOOLEAN
      BY <2>4 DEF Consumer!FetchManifest, Consumer!Serves
    <3> QED  BY <3>1, <3>2, <3>3
  <2>5. ASSUME NEW b \in Consumer!Bytes, Consumer!DownloadOk(b)
        PROVE  /\ pc' \in {"download", "ready"} /\ UNCHANGED <<revision, served, reason>>
               /\ got' \in Seq(Consumer!Bytes) /\ Len(got') <= 2
               /\ pc' = "download" => Len(got') < 2
               /\ cheated' \in BOOLEAN
    <3>1. /\ got' = Append(got, b) /\ pc = "download"
          /\ pc' = IF Len(got') = 2 THEN "ready" ELSE "download"
          /\ UNCHANGED <<revision, served, reason>> /\ cheated' \in BOOLEAN
      BY <2>5, Assets DEF Consumer!DownloadOk, Consumer!Serves
    <3>2. got' \in Seq(Consumer!Bytes) /\ Len(got') = Len(got) + 1 /\ Len(got) \in Nat
      BY <1>0, <3>1 DEF Consumer!Bytes
    <3> QED  BY <1>0, <3>1, <3>2
  <2>6. ASSUME NEW b \in Consumer!Bytes, Consumer!DownloadMismatch(b)
        PROVE  /\ pc' = "failed" /\ UNCHANGED <<revision, served, got>>
               /\ reason' = "mismatch" /\ cheated' \in BOOLEAN
    BY <2>6 DEF Consumer!DownloadMismatch, Consumer!Fail, Consumer!Serves
  <2> QED
    BY <1>0, <1>3, <2>1, <2>2, <2>3, <2>4, <2>5, <2>6 DEF Consume, Consumer!Next, Main, Shape
<1> QED  BY <1>1, <1>2, <1>3, Unseen

-------------------------------------------------------------------------------
(* Only an index that passes is recorded as checked; a push of another is   *)
(* not marked.                                                              *)
LEMMA ChecksStep ==
  ASSUME TypeOK, Checks, [Next]_vars
  PROVE  Checks'
<1>0. index # NotChecked
  BY PublicationAssumption DEF TypeOK, Commit, NotChecked
<1>1. CASE UNCHANGED <<checked, history>>
  BY <1>1 DEF Checks
<1>2. CASE Check
  <2>1. /\ RepositoryOk(index, TRUE) /\ checked' = index /\ history' = history
    BY <1>2 DEF Check
  <2> QED  BY <2>1 DEF Checks
<1>3. CASE Push
  <2>1. checked' = checked
    BY <1>3 DEF Push
  <2>2. /\ Len(history') = Len(history) + 1 /\ Len(history) \in Nat
        /\ \A k \in 1 .. Len(history) : history'[k] = history[k]
        /\ history'[Len(history) + 1] = [commit |-> index, checked |-> checked = index]
    BY <1>3, PushGrows DEF TypeOK
  <2>3. checked = index => RepositoryOk(index, TRUE)
    BY <1>0 DEF Checks
  <2>4. ASSUME NEW k \in 1 .. Len(history'), history'[k].checked
        PROVE  RepositoryOk(history'[k].commit, TRUE)
    <3>1. CASE k = Len(history) + 1
      <4>1. history'[k].commit = index /\ history'[k].checked = (checked = index)
        BY <2>2, <3>1
      <4>2. RepositoryOk(index, TRUE)
        BY <2>3, <2>4, <4>1
      <4> QED  BY <4>1, <4>2
    <3>2. CASE k \in 1 .. Len(history)
      BY <2>2, <2>4, <3>2 DEF Checks
    <3>3. k = Len(history) + 1 \/ k \in 1 .. Len(history)
      BY <2>2
    <3> QED  BY <3>1, <3>2, <3>3
  <2> QED  BY <2>1, <2>4 DEF Checks
<1>4. CASE Consume
  BY <1>1, <1>4 DEF Consume
<1>5. CASE UNCHANGED vars
  BY <1>1, <1>5 DEF vars
<1>6. CASE Next
  BY <1>1, <1>2, <1>3, <1>4, <1>6 DEF Next, EditManifest, EditHost, PlaceCore,
     Editing, Refresh, Add
<1> QED  BY <1>5, <1>6

(* What the consumer may do at each point. *)
LEMMA ShapeStep ==
  ASSUME TypeOK, Shape, [Next]_vars
  PROVE  Shape'
<1>0. revision \in Nat /\ Len(Main) \in Nat /\ got \in Seq(Consumer!Bytes)
  BY DEF TypeOK, Consumer!TypeOK, Main
<1>1. CASE UNCHANGED consumer
  BY <1>1 DEF consumer, Shape
<1>2. CASE Consume
  <2>1. CASE Consumer!Pin \/ Consumer!StartDiscovery \/ Consumer!Discover
    BY <1>0, <2>1 DEF Shape, Consumer!Pin, Consumer!StartDiscovery, Consumer!Discover,
       Consumer!client, Main
  <2>2. CASE Consumer!Unavailable
    BY <2>2 DEF Shape, Consumer!Unavailable, Consumer!Fail
  <2>3. ASSUME NEW k \in 1 .. Len(Main), Consumer!FetchManifest(Main[k])
        PROVE  Shape'
    BY <2>3 DEF Shape, Consumer!FetchManifest, Consumer!Fail
  <2>4. ASSUME NEW b \in Consumer!Bytes, Consumer!DownloadOk(b)
        PROVE  Shape'
    BY <1>0, <2>4, Assets DEF Shape, Consumer!DownloadOk
  <2>5. ASSUME NEW b \in Consumer!Bytes, Consumer!DownloadMismatch(b)
        PROVE  Shape'
    BY <2>5 DEF Shape, Consumer!DownloadMismatch, Consumer!Fail
  <2> QED
    BY <1>2, <2>1, <2>2, <2>3, <2>4, <2>5 DEF Consume, Consumer!Next, Main
<1> QED  BY <1>1, <1>2, Unseen DEF Push

(* What has been resolved stays what it is, whatever is pushed. *)
LEMMA ResolutionStays ==
  ASSUME TypeOK, Push \/ UNCHANGED <<history, consumer>>, revision > 0
  PROVE  Resolution' = Resolution /\ Len(history') >= Len(history)
<1>1. Len(Main) = Len(history) /\ Len(history) \in Nat
  BY SeenFacts, LenProperties DEF TypeOK, Main
<1>2. revision \in 1 .. Len(history)
  <2>1. revision \in 0 .. Len(Main)
    BY DEF TypeOK, Consumer!TypeOK, Main
  <2> QED  BY <1>1, <2>1
<1>3. CASE Push
  <2>1. revision' = revision
    BY <1>3 DEF Push, consumer
  <2> QED  BY <1>1, <1>2, <1>3, <2>1, PushGrows DEF Resolution
<1>4. CASE UNCHANGED <<history, consumer>>
  BY <1>1, <1>4 DEF Resolution, Main, Seen, consumer
<1> QED  BY <1>3, <1>4

(* What the consumer was served. *)
LEMMA ServedStep ==
  ASSUME TypeOK, Shape, Served, Kept, [Next]_vars
  PROVE  Served'
<1>1. CASE Push \/ UNCHANGED <<history, consumer>>
  <2>1. UNCHANGED <<pc, served, reason, cheated>>
    BY <1>1 DEF Push, consumer
  <2>2. CASE revision > 0
    BY <1>1, <2>1, <2>2, ResolutionStays DEF Served
  <2>3. CASE ~(revision > 0)
    BY <2>1, <2>3 DEF Served, Shape
  <2> QED  BY <2>2, <2>3
<1>2. CASE Consume
  <2>1. Main' = Main
    BY <1>2 DEF Consume, Main, Seen
  <2>2. CASE Consumer!Pin \/ Consumer!StartDiscovery \/ Consumer!Discover
    BY <2>2 DEF Served, Shape, Consumer!Pin, Consumer!StartDiscovery, Consumer!Discover,
       Consumer!client
  <2>3. CASE Consumer!Unavailable
    BY <2>1, <2>3 DEF Served, Resolution, Consumer!Unavailable, Consumer!Fail
  <2>4. ASSUME NEW k \in 1 .. Len(Main), Consumer!FetchManifest(Main[k])
        PROVE  Served'
    <3>1. /\ served' = Main[k] /\ revision' = revision /\ pc = "manifest"
          /\ cheated' = (cheated \/ Main[k] # Resolution)
          /\ \/ Main[k].valid /\ pc' = "download" /\ reason' = reason
             \/ ~Main[k].valid /\ pc' = "failed" /\ reason' = "invalid"
      BY <2>4 DEF Consumer!FetchManifest, Consumer!Fail, Consumer!Serves, Resolution, Main
    <3>2. Resolution' = Resolution /\ reason = "none"
      BY <2>1, <3>1 DEF Resolution, Shape
    <3> QED  BY <3>1, <3>2 DEF Served
  <2>5. ASSUME NEW b \in Consumer!Bytes, Consumer!DownloadOk(b)
        PROVE  Served'
    <3>1. /\ UNCHANGED <<revision, served, reason>> /\ pc = "download"
          /\ cheated => cheated'
      BY <2>5 DEF Consumer!DownloadOk, Consumer!Serves
    <3>2. Resolution' = Resolution /\ reason = "none"
      BY <2>1, <3>1 DEF Resolution, Shape
    <3> QED  BY <3>1, <3>2 DEF Served
  <2>6. ASSUME NEW b \in Consumer!Bytes, Consumer!DownloadMismatch(b)
        PROVE  Served'
    <3> DEFINE a == <<"core", "host">>[Len(got) + 1]
    <3>1. /\ UNCHANGED <<revision, served>> /\ pc = "download"
          /\ pc' = "failed" /\ reason' = "mismatch"
          /\ cheated' = (cheated \/ b # Resolution.files[a])
          /\ b # served.ids[a]
      BY <2>6 DEF Consumer!DownloadMismatch, Consumer!Fail, Consumer!Serves,
         Consumer!Accepts, Consumer!Served, Consumer!Wanted, Resolution, Main
    <3>2. Resolution' = Resolution
      BY <2>1, <3>1 DEF Resolution
    <3> HIDE DEF a
    <3>3. cheated \/ served = Resolution
      BY <3>1 DEF Served
    <3>4. cheated' \/ Resolution.files # Resolution.ids
      BY <3>1, <3>3
    <3> QED  BY <3>1, <3>2, <3>3, <3>4 DEF Served
  <2> QED
    BY <1>2, <2>2, <2>3, <2>4, <2>5, <2>6 DEF Consume, Consumer!Next, Main
<1> QED  BY <1>1, <1>2, Unseen

(* What the consumer has kept. *)
LEMMA KeptStep ==
  ASSUME TypeOK, Shape, Kept, [Next]_vars
  PROVE  Kept'
<1>0. got \in Seq(Consumer!Bytes) /\ Len(got) \in Nat /\ Len(<<>>) = 0
  BY DEF TypeOK, Consumer!TypeOK
<1>1. CASE Push \/ UNCHANGED <<history, consumer>>
  <2>1. UNCHANGED <<got, served, cheated>>
    BY <1>1 DEF Push, consumer
  <2>2. CASE revision > 0
    BY <1>1, <2>1, <2>2, ResolutionStays DEF Kept
  <2>3. CASE ~(revision > 0)
    <3>1. revision = 0
      BY <2>3 DEF TypeOK, Consumer!TypeOK
    <3> QED  BY <1>0, <2>1, <3>1 DEF Kept, Shape
  <2> QED  BY <2>2, <2>3
<1>2. CASE Consume
  <2>1. Main' = Main
    BY <1>2 DEF Consume, Main, Seen
  <2>2. CASE Consumer!Pin \/ Consumer!StartDiscovery \/ Consumer!Discover
    BY <1>0, <2>2 DEF Kept, Shape, Consumer!Pin, Consumer!StartDiscovery,
       Consumer!Discover, Consumer!client
  <2>3. CASE Consumer!Unavailable
    BY <2>1, <2>3 DEF Kept, Resolution, Consumer!Unavailable
  <2>4. ASSUME NEW k \in 1 .. Len(Main), Consumer!FetchManifest(Main[k])
        PROVE  Kept'
    BY <1>0, <2>4 DEF Kept, Shape, Consumer!FetchManifest
  <2>5. ASSUME NEW b \in Consumer!Bytes, Consumer!DownloadOk(b)
        PROVE  Kept'
    <3> DEFINE a == <<"core", "host">>[Len(got) + 1]
    <3>1. /\ UNCHANGED <<revision, served>> /\ got' = Append(got, b)
          /\ cheated' = (cheated \/ b # Resolution.files[a])
          /\ b = served.ids[a]
      BY <2>5 DEF Consumer!DownloadOk, Consumer!Serves, Consumer!Accepts,
         Consumer!Served, Consumer!Wanted, Resolution, Main
    <3>2. Resolution' = Resolution
      BY <2>1, <3>1 DEF Resolution
    <3>3. /\ Len(got') = Len(got) + 1 /\ got'[Len(got) + 1] = b
          /\ \A i \in 1 .. Len(got) : got'[i] = got[i]
      BY <1>0, <3>1, AppendProperties DEF Consumer!Bytes
    <3>4. \A i \in 1 .. Len(got') : i \in 1 .. Len(got) \/ i = Len(got) + 1
      BY <1>0, <3>3
    <3> QED  BY <3>1, <3>2, <3>3, <3>4 DEF Kept
  <2>6. ASSUME NEW b \in Consumer!Bytes, Consumer!DownloadMismatch(b)
        PROVE  Kept'
    BY <2>1, <2>6 DEF Kept, Resolution, Consumer!DownloadMismatch, Consumer!Serves
  <2> QED
    BY <1>2, <2>2, <2>3, <2>4, <2>5, <2>6 DEF Consume, Consumer!Next, Main
<1> QED  BY <1>1, <1>2, Unseen

-------------------------------------------------------------------------------
(* The first commit: every check accepts it, and the consumer sees it.      *)
LEMMA InitFacts ==
  ASSUME Init
  PROVE  /\ index \in Commit /\ history = <<[commit |-> index, checked |-> TRUE]>>
         /\ history \in Seq([commit : Commit, checked : BOOLEAN]) /\ Len(history) = 1
         /\ RepositoryOk(index, TRUE)
         /\ Main = <<View(index)>> /\ View(index) \in Consumer!Commit
<1>1. PICK v \in Version :
        /\ core = [c \in Channel |-> v] /\ host = v
        /\ manifest = [c \in Channel |->
                         [core |-> v, host |-> v, state |-> "pass"]]
  BY DEF Init
<1>2. /\ index = [manifest |-> manifest, core |-> core, host |-> host]
      /\ history = <<[commit |-> index, checked |-> TRUE]>> /\ channel \in Channel
  BY DEF Init
<1>3. [core |-> v, host |-> v, state |-> "pass"] \in Manifest
  BY DEF Manifest
<1>4. index \in Commit
  BY <1>1, <1>2, <1>3 DEF Commit
<1>5. RepositoryOk(index, TRUE)
  BY <1>1, <1>2 DEF RepositoryOk, Qualified
<1> DEFINE e == [commit |-> index, checked |-> TRUE]
           E == [commit : Commit, checked : BOOLEAN]
<1>6. e \in E /\ e.commit = index
  BY <1>4
<1> HIDE DEF e, E
<1>7. <<e>> \in Seq(E) /\ Len(<<e>>) = 1 /\ <<e>>[1] = e
  BY <1>6
<1>8. View(index) \in Consumer!Commit
  BY <1>2, <1>4, ViewType
<1>9. Main = <<View(index)>>
  <2> DEFINE V == {View(c) : c \in Commit}
  <2>1. /\ Len(Seen(<<e>>)) = 1 /\ Seen(<<e>>) \in Seq(V)
        /\ \A k \in 1 .. 1 : Seen(<<e>>)[k] = View(<<e>>[k].commit)
    BY <1>7, SeenFacts DEF E
  <2>2. View(index) \in V
    BY <1>4
  <2> HIDE DEF V
  <2>3. Seen(<<e>>)[1] = View(index)
    BY <1>6, <1>7, <2>1
  <2>4. Seen(<<e>>) = <<View(index)>>
    BY <2>1, <2>2, <2>3
  <2> QED  BY <1>2, <2>4 DEF Main, e
<1> QED  BY <1>2, <1>4, <1>5, <1>7, <1>8, <1>9 DEF e, E

(* The invariant holds at first. *)
LEMMA InitIInv == Init => IInv
<1> SUFFICES ASSUME Init PROVE IInv
  OBVIOUS
<1>1. /\ pc = "start" /\ revision = 0 /\ served = Consumer!NoManifest /\ got = <<>>
      /\ reason = "none" /\ cheated = FALSE /\ checked = NotChecked /\ edits = 0
      /\ channel \in Channel /\ Len(got) = 0 /\ got \in Seq(Consumer!Bytes)
  BY DEF Init, Consumer!Init
<1>2. /\ manifest \in [Channel -> Manifest] /\ core \in [Channel -> Version]
      /\ host \in Version
  BY DEF Init, Manifest
<1>3. Consumer!TypeOK
  <2>1. ASSUME NEW S, NEW x \in S
        PROVE  <<x>> \in Seq(S) /\ Len(<<x>>) = 1
    OBVIOUS
  <2>2. Main \in Seq(Consumer!Commit) /\ Len(Main) = 1
    BY <2>1, InitFacts
  <2>3. 1 \in 1 .. MaxCommit /\ 0 \in 0 .. 1 /\ 0 <= 2
    BY PublicationAssumption
  <2> QED  BY <1>1, <2>2, <2>3, Assets DEF Consumer!TypeOK, Main
<1>4. TypeOK
  <2>1. edits \in 0 .. MaxEdits
    BY <1>1, PublicationAssumption
  <2> QED  BY <1>1, <1>2, <1>3, <2>1, InitFacts DEF TypeOK
<1>5. Checks
  <2>1. \A k \in 1 .. 1 : k = 1
    OBVIOUS
  <2>2. history[1].commit = index
    BY InitFacts
  <2> QED  BY <1>1, <2>1, <2>2, InitFacts DEF Checks
<1>6. Shape /\ Served /\ Kept
  BY <1>1 DEF Shape, Served, Kept
<1> QED  BY <1>4, <1>5, <1>6 DEF IInv

(* The invariant holds throughout: however the working tree, the index and  *)
(* main go on while a consumer is at work.                                  *)
THEOREM Invariance == Spec => []IInv
<1>1. ASSUME IInv, [Next]_vars
      PROVE  IInv'
  <2>1. TypeOK'
    BY <1>1, OperatorType, ConsumerType DEF IInv, OperatorTypes, TypeOK
  <2> QED
    BY <1>1, <2>1, ChecksStep, ShapeStep, ServedStep, KeptStep DEF IInv
<1> QED
  BY <1>1, InitIInv, PTL DEF Spec

(* A commit that a consumer has resolved, and its view of it. *)
LEMMA ResolvedFacts ==
  ASSUME IInv, revision > 0
  PROVE  /\ revision \in 1 .. Len(history) /\ Resolved.commit \in Commit
         /\ Resolution = View(Resolved.commit) /\ channel \in Channel
         /\ Resolution.valid = Resolvable(Named)
<1>1. /\ history \in Seq([commit : Commit, checked : BOOLEAN]) /\ channel \in Channel
      /\ revision \in 0 .. Len(Main)
  BY DEF IInv, TypeOK, Consumer!TypeOK, Main
<1>2. Len(Main) = Len(history) /\ Len(history) \in Nat
  BY <1>1, SeenFacts, LenProperties DEF Main
<1>3. revision \in 1 .. Len(history)
  BY <1>1, <1>2
<1>4. Resolved \in [commit : Commit, checked : BOOLEAN]
  BY <1>1, <1>3, ElementOfSeq DEF Resolved
<1>5. Resolution = View(Resolved.commit)
  BY <1>1, <1>3, SeenFacts DEF Resolution, Main, Resolved
<1> QED  BY <1>1, <1>3, <1>4, <1>5, ViewType DEF Named

(* In a commit that passes the check, in either of its modes, a channel     *)
(* that a consumer can resolve agrees with itself.                          *)
LEMMA CheckedAgrees ==
  ASSUME IInv, revision > 0, NEW candidate \in BOOLEAN,
         RepositoryOk(Resolved.commit, candidate)
  PROVE  /\ Qualified(Named, channel, candidate)
         /\ Resolution.valid => Resolution.files = Resolution.ids
<1>1. /\ channel \in Channel /\ Resolution = View(Resolved.commit)
      /\ Resolution.valid = Resolvable(Named)
  BY ResolvedFacts
<1>2. /\ Qualified(Named, channel, candidate)
      /\ Named.core = Resolved.commit.core[channel]
      /\ Named.state = "outsized" \/ Named.host = Resolved.commit.host
  BY <1>1 DEF RepositoryOk, Named
<1>3. Resolvable(Named) => Named.state # "outsized"
  BY DEF Resolvable
<1> QED  BY <1>1, <1>2, <1>3 DEF View, Named

(* Over an honest CDN no consumer of such a commit meets a mismatch.        *)
LEMMA NoMismatch ==
  ASSUME IInv, revision > 0, NEW candidate \in BOOLEAN,
         RepositoryOk(Resolved.commit, candidate), ~cheated
  PROVE  reason # "mismatch"
<1>1. reason = "mismatch" =>
        served = Resolution /\ served.valid /\ Resolution.files # Resolution.ids
  BY DEF IInv, Served
<1> QED  BY <1>1, CheckedAgrees

(* An index that passed the check and is pushed unchanged serves all its    *)
(* channels, but a candidate's and what is over the consumer's own limits;  *)
(* no consumer gets a candidate; the CDN workflow accepts only what no      *)
(* honest consumer fails on (test-checkout-identity.mjs,                    *)
(* verify-repository-distribution.mjs, distribution.mjs 38-53,              *)
(* verify-cdn.mjs).                                                         *)
THEOREM PublicationSafety == Spec => []PublicationInv
<1>1. ASSUME IInv PROVE CheckedCommitServes
  <2> SUFFICES ASSUME revision > 0, Resolved.checked, ~cheated
               PROVE  /\ reason # "mismatch"
                      /\ reason = "invalid" =>
                           \/ channel = Dev /\ Named.state = "pending"
                           \/ Named.state = "outsized"
                           \/ Named.core \in LargeCore
    BY DEF CheckedCommitServes
  <2>1. RepositoryOk(Resolved.commit, TRUE)
    BY <1>1, ResolvedFacts DEF IInv, Checks, Resolved
  <2>2. Qualified(Named, channel, TRUE) /\ reason # "mismatch"
    BY <1>1, <2>1, CheckedAgrees, NoMismatch
  <2>3. reason = "invalid" => ~Resolvable(Named)
    BY <1>1, ResolvedFacts DEF IInv, Served
  <2> QED  BY <2>2, <2>3 DEF Qualified, Resolvable
<1>2. ASSUME IInv PROVE CandidateWithheld
  BY <1>2, ResolvedFacts DEF IInv, CandidateWithheld, Served, Shape, Resolvable
<1>3. ASSUME IInv PROVE CdnCheckSuffices
  <2> SUFFICES ASSUME revision > 0, CdnOk(Resolved.commit), ~cheated
               PROVE  reason \notin {"mismatch", "invalid"}
    BY DEF CdnCheckSuffices
  <2>1. RepositoryOk(Resolved.commit, FALSE) /\ Resolvable(Named)
    BY <1>3, ResolvedFacts DEF CdnOk, Named
  <2>2. reason # "mismatch"
    BY <1>3, <2>1, NoMismatch
  <2>3. reason = "invalid" => ~Resolvable(Named)
    BY <1>3, ResolvedFacts DEF IInv, Served
  <2> QED  BY <2>1, <2>2, <2>3
<1>4. IInv => PublicationInv
  BY <1>1, <1>2, <1>3 DEF PublicationInv, IInv
<1> QED
  BY <1>4, Invariance, PTL

(* What a consumer instantiates is, asset by asset, what one qualified      *)
(* manifest names, and over an honest CDN the resolved commit's own cohort, *)
(* however far main has moved (distribution.mjs 16-110).                    *)
THEOREM CohortSafety == Spec => []CohortVerified
<1>1. ASSUME IInv PROVE CohortVerified
  <2> SUFFICES ASSUME pc = "ready"
               PROVE  /\ served.valid
                      /\ got = [i \in 1 .. 2 |-> served.ids[<<"core", "host">>[i]]]
                      /\ \/ cheated
                         \/ got = [i \in 1 .. 2 |->
                                     Main[revision].files[<<"core", "host">>[i]]]
    BY Assets DEF CohortVerified, Consumer!CohortVerified, Main
  <2>1. Len(got) = 2 /\ served.valid
    BY <1>1 DEF IInv, Shape, Served
  <2>2. got = [i \in 1 .. 2 |-> got[i]]
    BY <1>1, <2>1, LenProperties DEF IInv, TypeOK, Consumer!TypeOK
  <2>3. \A i \in 1 .. 2 : /\ got[i] = served.ids[<<"core", "host">>[i]]
                          /\ cheated \/ got[i] = Main[revision].files[<<"core", "host">>[i]]
    BY <1>1, <2>1 DEF IInv, Kept, Resolution
  <2> QED  BY <2>1, <2>2, <2>3
<1> QED
  BY <1>1, Invariance, PTL

(* Over an honest CDN a consumer of a commit that agrees with itself never  *)
(* fails verification because main is published to meanwhile                *)
(* (DISTRIBUTION.md, "cannot mix its manifest and bytes").                  *)
THEOREM MovingMainSafety == Spec => []MovingMainIsHarmless
<1>1. IInv => MovingMainIsHarmless
  BY DEF IInv, Served, Resolution, Main, MovingMainIsHarmless,
     Consumer!MovingMainIsHarmless
<1> QED
  BY <1>1, Invariance, PTL
===============================================================================
