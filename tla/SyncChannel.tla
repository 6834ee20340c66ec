------------------------------ MODULE SyncChannel ------------------------------
(***************************************************************************)
(* src/scripts/sync-channel-core.mjs: refreshing the Core that each        *)
(* channel's directory holds from the immutable release its manifest       *)
(* names.  A run verifies and stages every selected channel before it      *)
(* replaces any; it may be refused at any channel, and the process may die *)
(* between any two file operations, in the middle of a staging write too.  *)
(* The operator then edits manifests or runs the script again.             *)
(*                                                                         *)
(* Several runs may be under way at once, and manifests be edited during   *)
(* them, but not for a channel that an active run has selected: the        *)
(* staging path belongs to the channel, not to the run.  Writing a file is *)
(* not atomic, renaming it is.                                             *)
(***************************************************************************)
EXTENDS Naturals, Sequences, FiniteSets, SequencesExt

CONSTANTS
  Channel,       \* dev, main, prod
  Run,           \* the runs that can be under way at once
  Version,       \* the contents a released Core can have
  Torn,          \* a damaged or half-written Core
  Absent,        \* no file
  MaxEdits       \* bound on how often the operator edits a manifest

ASSUME ContentAssumption ==
  /\ Torn \notin Version /\ Absent \notin Version /\ Torn # Absent
  /\ MaxEdits \in Nat

VARIABLES
  manifest,      \* per channel: the Core it names, and whether it is valid
                 \* and publicly qualified
  core,          \* per channel: channels/<channel>/agentvm-core.wasm
  temp,          \* per channel: release-input/repository-sync/<channel>.wasm
  pc,            \* per run: "idle", "check", "write" or "replace"
  todo,          \* per run: the selected channels still to be checked
  pending,       \* per run: the channels staged for replacement
  bytes,         \* per run: what it downloaded and verified last
  last,          \* per run: how it ended last
  chosen,        \* history: the channels that end was about, until someone
                 \* touches them again
  before,        \* history: each channel's Core when that began
  edits          \* edits of the manifests so far

files == <<manifest, core, temp>>
run == <<pc, todo, pending, bytes, last>>
history == <<before, chosen, edits>>
vars == <<files, run, history>>

Manifest == [core : Version, pass : BOOLEAN]

TypeOK ==
  /\ manifest \in [Channel -> Manifest]
  /\ core \in [Channel -> Version \cup {Torn}]
  /\ temp \in [Channel -> Version \cup {Torn, Absent}]
  /\ pc \in [Run -> {"idle", "check", "write", "replace"}]
  /\ todo \in [Run -> Seq(Channel)] /\ pending \in [Run -> Seq(Channel)]
  /\ bytes \in [Run -> Version \cup {Torn, Absent}]
  /\ last \in [Run -> {"none", "done", "threw", "died"}]
  /\ before \in [Channel -> Version \cup {Torn}] /\ chosen \in [Run -> SUBSET Channel]
  /\ edits \in 0 .. MaxEdits

(* Every channel starts out in agreement with a qualified manifest.        *)
Init ==
  /\ core \in [Channel -> Version]
  /\ manifest = [c \in Channel |-> [core |-> core[c], pass |-> TRUE]]
  /\ temp = [c \in Channel |-> Absent]
  /\ pc = [r \in Run |-> "idle"] /\ bytes = [r \in Run |-> Absent]
  /\ todo = [r \in Run |-> <<>>] /\ pending = [r \in Run |-> <<>>]
  /\ last = [r \in Run |-> "none"] /\ chosen = [r \in Run |-> {}]
  /\ before = core /\ edits = 0

-------------------------------------------------------------------------------
(* The operators.  They leave alone what an active run has selected.       *)

Untouched(C) == \A r \in Run : pc[r] = "idle" \/ chosen[r] \cap C = {}

Touch(C) == before' = [c \in Channel |-> IF c \in C THEN core[c] ELSE before[c]]

Edit(c, m) ==
  /\ edits < MaxEdits /\ m # manifest[c] /\ Untouched({c})
  /\ manifest' = [manifest EXCEPT ![c] = m]
  /\ edits' = edits + 1 /\ Touch({c})
  /\ chosen' = [r \in Run |-> chosen[r] \ {c}]
  /\ UNCHANGED <<core, temp, run>>

(* node scripts/sync-channel-core.mjs <selection>, each channel once       *)
Start(r, selection) ==
  /\ pc[r] = "idle" /\ Untouched(ToSet(selection))
  /\ pc' = [pc EXCEPT ![r] = "check"] /\ todo' = [todo EXCEPT ![r] = selection]
  /\ pending' = [pending EXCEPT ![r] = <<>>] /\ bytes' = [bytes EXCEPT ![r] = Absent]
  /\ last' = [last EXCEPT ![r] = "none"] /\ Touch(ToSet(selection))
  /\ chosen' = [x \in Run |-> IF x = r THEN ToSet(selection)
                                        ELSE chosen[x] \ ToSet(selection)]
  /\ UNCHANGED <<files, edits>>

-------------------------------------------------------------------------------
(* The first loop, for channel This(r): check its manifest, download the   *)
(* release, verify length, digest, ABI and imports, and stage it.          *)

This(r) == Head(todo[r])

(* Mutant: the download is not compared with the manifest. *)
VerifiedAnyhow(c, download) == TRUE

Verified(c, download) == download = manifest[c].core

(* Mutant: the manifest's qualification is not asked for. *)
CheckUnqualified(r, download) ==
  /\ pc[r] = "check" /\ Verified(This(r), download)
  /\ bytes' = [bytes EXCEPT ![r] = download] /\ pc' = [pc EXCEPT ![r] = "write"]
  /\ temp' = [temp EXCEPT ![This(r)] = Torn]
  /\ UNCHANGED <<manifest, core, todo, pending, last, history>>

(* writeFile first creates or truncates the staging file.                  *)
Check(r, download) ==
  /\ pc[r] = "check" /\ manifest[This(r)].pass /\ Verified(This(r), download)
  /\ bytes' = [bytes EXCEPT ![r] = download] /\ pc' = [pc EXCEPT ![r] = "write"]
  /\ temp' = [temp EXCEPT ![This(r)] = Torn]
  /\ UNCHANGED <<manifest, core, todo, pending, last, history>>

Stop(r, how) ==
  pc' = [pc EXCEPT ![r] = "idle"] /\ last' = [last EXCEPT ![r] = how]

(* An unqualified manifest, a failed or oversized download, a mismatch, a  *)
(* Core of another ABI.  Some of these can happen to any download.         *)
Refuse(r) ==
  /\ pc[r] = "check" /\ Stop(r, "threw")
  /\ UNCHANGED <<files, todo, pending, bytes, history>>

(* Mutant: each channel is replaced as soon as it is verified. *)
StagedReplacing(r) ==
  /\ pc[r] = "write"
  /\ temp' = [temp EXCEPT ![This(r)] = bytes[r]]
  /\ core' = [core EXCEPT ![This(r)] = bytes[r]]
  /\ pending' = [pending EXCEPT ![r] = Append(@, This(r))]
  /\ todo' = [todo EXCEPT ![r] = Tail(@)]
  /\ pc' = [pc EXCEPT ![r] = IF todo'[r] = <<>> THEN "replace" ELSE "check"]
  /\ UNCHANGED <<manifest, bytes, last, history>>

Staged(r) ==
  /\ pc[r] = "write"
  /\ temp' = [temp EXCEPT ![This(r)] = bytes[r]]
  /\ pending' = [pending EXCEPT ![r] = Append(@, This(r))]
  /\ todo' = [todo EXCEPT ![r] = Tail(@)]
  /\ pc' = [pc EXCEPT ![r] = IF todo'[r] = <<>> THEN "replace" ELSE "check"]
  /\ UNCHANGED <<manifest, core, bytes, last, history>>

(* The second loop: rename each staged file over the current one.          *)
Replace(r) ==
  /\ pc[r] = "replace"
  /\ LET c == Head(pending[r])
     IN  /\ core' = [core EXCEPT ![c] = temp[c]]
         /\ temp' = [temp EXCEPT ![c] = Absent]
  /\ pending' = [pending EXCEPT ![r] = Tail(@)]
  /\ IF pending'[r] = <<>> THEN Stop(r, "done") ELSE UNCHANGED <<pc, last>>
  /\ UNCHANGED <<manifest, todo, bytes, history>>

(* The process dies, or a file operation of it fails.                      *)
Die(r) ==
  /\ pc[r] # "idle" /\ Stop(r, "died")
  /\ UNCHANGED <<files, todo, pending, bytes, history>>

Selections ==
  {s \in SeqOf(Channel, Cardinality(Channel)) : s # <<>> /\ IsInjective(s)}

Next ==
  \/ \E c \in Channel, m \in Manifest : Edit(c, m)
  \/ \E r \in Run :
       \/ \E s \in Selections : Start(r, s)
       \/ \E d \in Version \cup {Torn} : Check(r, d)
       \/ Refuse(r) \/ Staged(r) \/ Replace(r) \/ Die(r)

Spec == Init /\ [][Next]_vars

-------------------------------------------------------------------------------
(* "All inputs verified before any current-channel replacement": a run     *)
(* that is refused, at whichever channel, has replaced no Core at all.     *)
RefusedRunReplacesNothing ==
  \A r \in Run : last[r] = "threw" => \A c \in chosen[r] : core[c] = before[c]

(* Wherever a run stops or dies, each channel holds the Core it held       *)
(* before or the one its manifest names, whole: never a torn staging file, *)
(* and never one that another run has staged.                              *)
OldOrNew == \A c \in Channel : core[c] \in {before[c], manifest[c].core} \ {Torn}

(* Whatever runs, deaths and edits: the script implements the store that   *)
(* changes one channel's Core at a time, whole, and only to what a         *)
(* qualified manifest names.                                               *)
Store == INSTANCE ChannelStore
ImplementsStore == Store!Spec

(* A run that completes leaves every selected channel with the Core of its *)
(* manifest, whatever the earlier runs that were refused or died left      *)
(* behind: running again is the repair.                                    *)
DoneRepairs ==
  \A r \in Run : last[r] = "done" => \A c \in chosen[r] : core[c] = manifest[c].core

(* Both, of states of their type. *)
SyncInv == TypeOK /\ OldOrNew /\ DoneRepairs
===============================================================================
