------------------------------ MODULE Publication ------------------------------
(***************************************************************************)
(* Publishing, from an operator's working tree to a consumer: manifests    *)
(* and Core files (ChannelStore, the promise of sync-channel-core.mjs) and *)
(* the one host.mjs that all channels share; `git add', file by file; the  *)
(* check of scripts/test-checkout-identity.mjs, which is of the index and  *)
(* runs verify-repository-distribution.mjs in it; the push; and a consumer *)
(* of one channel (Acquisition).  Nothing makes the operator check, stage  *)
(* everything, or not edit on.                                             *)
(***************************************************************************)
EXTENDS Naturals, Sequences

CONSTANTS
  Channel, Dev, Version,
  LargeCore,     \* the versions of a Core above 8 MiB
  Garbage,       \* bytes that are no version of any asset
  MaxEdits,      \* bound on what the operator edits by hand
  MaxCommit      \* bound on the commits of main

ASSUME PublicationAssumption ==
  /\ Dev \in Channel /\ Garbage \notin Version /\ LargeCore \subseteq Version
  /\ MaxEdits \in Nat /\ MaxCommit \in Nat \ {0}

VARIABLES
  manifest,      \* tree: channels/<channel>.json
  core,          \* tree: channels/<channel>/agentvm-core.wasm
  host,          \* tree: glue/js/host.mjs
  index,         \* what is staged
  checked,       \* history: the last index that passed the check, if any
  history,       \* the commits of main, and whether each was checked
  edits,
  channel,       \* what the consumer resolves
  pc, revision, served, got, reason, cheated     \* the consumer

tree == <<manifest, core, host>>
consumer == <<channel, pc, revision, served, got, reason, cheated>>
vars == <<tree, index, checked, history, edits, consumer>>

(* What a manifest says of itself: it is qualified, a DEV candidate that   *)
(* waits for it (state and result both say so), or neither.  "outsized" is *)
(* qualified too, but over a limit that only a consumer has: its own text  *)
(* above 65536 bytes, a host or a fixture that is empty, above 1 MiB or at *)
(* another path.                                                           *)
Manifest == [core : Version, host : Version,
             state : {"pass", "outsized", "pending", "refused"}]
Commit == [manifest : [Channel -> Manifest], core : [Channel -> Version], host : Version]
NotChecked == [manifest |-> <<>>, core |-> <<>>, host |-> Garbage]

-------------------------------------------------------------------------------
(* What the refresh asks of a manifest: a pass, and a Core up to 8 MiB.    *)
Refreshable(m) == m.state \in {"pass", "outsized"} /\ m.core \notin LargeCore

Store == INSTANCE ChannelStore WITH
  manifest <- [c \in Channel |->
                 [core |-> manifest[c].core, pass |-> Refreshable(manifest[c])]]

(* What resolveChannel asks of it. *)
Resolvable(m) == m.state = "pass" /\ m.core \notin LargeCore

(* What a consumer of the channel sees of the commits. *)
Seen(h) ==
  [k \in 1 .. Len(h) |->
     LET m == h[k].commit.manifest[channel]
     IN  [files |-> [core |-> h[k].commit.core[channel], host |-> h[k].commit.host],
          ids |-> [core |-> m.core, host |-> m.host],
          valid |-> Resolvable(m)]]

Consumer == INSTANCE Acquisition
  WITH Content <- Version, Order <- <<"core", "host">>, main <- Seen(history),
       manifest <- served

-------------------------------------------------------------------------------
(* verify-repository-distribution.mjs, with --candidate-dev or without.    *)
Qualified(m, c, candidate) ==
  \/ m.state \in {"pass", "outsized"}
  \/ candidate /\ c = Dev /\ m.state = "pending"

(* It reads the host wherever the manifest puts it: the digest that it     *)
(* compares need not be that of host.mjs in an outsized manifest.          *)
RepositoryOk(commit, candidate) ==
  \A c \in Channel :
    LET m == commit.manifest[c]
    IN  /\ Qualified(m, c, candidate) /\ m.core = commit.core[c]
        /\ m.state = "outsized" \/ m.host = commit.host

(* The CDN workflow: that check without the exception, and verify-cdn.mjs, *)
(* which resolves every channel of the commit as a consumer does.          *)
CdnOk(commit) ==
  /\ RepositoryOk(commit, FALSE)
  /\ \A c \in Channel : Resolvable(commit.manifest[c])

-------------------------------------------------------------------------------
TypeOK ==
  /\ manifest \in [Channel -> Manifest] /\ core \in [Channel -> Version]
  /\ host \in Version /\ index \in Commit /\ checked \in Commit \cup {NotChecked}
  /\ history \in Seq([commit : Commit, checked : BOOLEAN])
  /\ edits \in 0 .. MaxEdits /\ channel \in Channel
  /\ Consumer!TypeOK

(* One published commit that the check accepts: a consumer may yet refuse  *)
(* its Core for its size.                                                  *)
Init ==
  /\ \E v \in Version :
       /\ core = [c \in Channel |-> v] /\ host = v
       /\ manifest = [c \in Channel |->
                        [core |-> v, host |-> v, state |-> "pass"]]
  /\ index = [manifest |-> manifest, core |-> core, host |-> host]
  /\ checked = NotChecked
  /\ history = <<[commit |-> index, checked |-> TRUE]>>
  /\ edits = 0 /\ channel \in Channel
  /\ Consumer!Init

-------------------------------------------------------------------------------
(* The operator. *)

Editing ==
  /\ edits < MaxEdits /\ edits' = edits + 1
  /\ UNCHANGED <<index, checked, history, consumer>>

EditManifest(c, m) ==
  /\ Editing /\ m # manifest[c] /\ manifest' = [manifest EXCEPT ![c] = m]
  /\ UNCHANGED <<core, host>>

EditHost(v) == Editing /\ v # host /\ host' = v /\ UNCHANGED <<manifest, core>>

(* A candidate is not qualified, so that its Core is put there by hand.    *)
PlaceCore(c, v) ==
  /\ Editing /\ v # core[c] /\ core' = [core EXCEPT ![c] = v]
  /\ UNCHANGED <<manifest, host>>

(* A run of the refresh, or one that died half way, is some of these.      *)
Refresh(c) ==
  /\ UNCHANGED <<manifest, host, index, checked, history, edits, consumer>>
  /\ Store!Refresh(c)

(* git add <one file>                                                      *)
Add ==
  /\ \/ \E c \in Channel : index' = [index EXCEPT !.manifest[c] = manifest[c]]
     \/ \E c \in Channel : index' = [index EXCEPT !.core[c] = core[c]]
     \/ index' = [index EXCEPT !.host = host]
  /\ UNCHANGED <<tree, checked, history, edits, consumer>>

(* Mutant: the working tree is checked in place of the index. *)
CheckTree ==
  /\ RepositoryOk([manifest |-> manifest, core |-> core, host |-> host], TRUE)
  /\ checked' = index
  /\ UNCHANGED <<tree, index, history, edits, consumer>>

(* test-checkout-identity.mjs: git checkout-index into a directory of its  *)
(* own, the identities in it, and verify-repository --candidate-dev there. *)
Check ==
  /\ RepositoryOk(index, TRUE)
  /\ checked' = index
  /\ UNCHANGED <<tree, index, history, edits, consumer>>

Push ==
  /\ Len(history) < MaxCommit /\ index # history[Len(history)].commit
  /\ history' = Append(history, [commit |-> index, checked |-> checked = index])
  /\ UNCHANGED <<tree, index, checked, edits, consumer>>

(* The consumer, verify-cdn among them, for any revision and any CDN.      *)
Consume ==
  /\ UNCHANGED <<tree, index, checked, history, edits, channel>>
  /\ Consumer!Next

Next ==
  \/ \E c \in Channel, m \in Manifest : EditManifest(c, m)
  \/ \E v \in Version : EditHost(v) \/ \E c \in Channel : PlaceCore(c, v)
  \/ \E c \in Channel : Refresh(c)
  \/ Add \/ Check \/ Push \/ Consume

Spec == Init /\ [][Next]_vars

-------------------------------------------------------------------------------
Resolved == history[revision]
Named == Resolved.commit.manifest[channel]

(* An index that passed the check and is pushed unchanged serves all its   *)
(* channels, whatever the working tree held by then, whichever files were  *)
(* staged and whichever refresh died: no digest of it fails over an honest *)
(* CDN, and no manifest is refused but a DEV candidate's and one that is   *)
(* over a limit of the consumer's, which the check does not know.          *)
CheckedCommitServes ==
  revision > 0 /\ Resolved.checked /\ ~cheated =>
    /\ reason # "mismatch"
    /\ reason = "invalid" => \/ channel = Dev /\ Named.state = "pending"
                             \/ Named.state = "outsized"
                             \/ Named.core \in LargeCore

(* The exception is of the check alone: no consumer gets a candidate, and  *)
(* none of another channel is disturbed by one in the same commit.         *)
CandidateWithheld == pc = "ready" /\ ~cheated => Named.state = "pass"

(* The CDN workflow, which has the consumer's limits too, accepts only     *)
(* commits that no honest consumer of any channel fails on, with one host  *)
(* for the manifests of all of them.                                       *)
CdnCheckSuffices ==
  revision > 0 /\ CdnOk(Resolved.commit) /\ ~cheated =>
    reason \notin {"mismatch", "invalid"}

(* The three, of states of their type. *)
PublicationInv ==
  TypeOK /\ CheckedCommitServes /\ CandidateWithheld /\ CdnCheckSuffices

(* What is instantiated is, asset by asset, what one qualified manifest    *)
(* names and, over an honest CDN, the resolved commit's own cohort.        *)
CohortVerified == Consumer!CohortVerified

(* No consumer of a commit that agrees with itself fails because main is   *)
(* published to meanwhile (DISTRIBUTION.md: caching "cannot mix").         *)
MovingMainIsHarmless == Consumer!MovingMainIsHarmless
===============================================================================
