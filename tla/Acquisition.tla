------------------------------ MODULE Acquisition ------------------------------
(***************************************************************************)
(* src/glue/js/distribution.mjs with the order of use of DISTRIBUTION.md   *)
(* and src/scripts/verify-cdn.mjs: a consumer resolves a channel to one    *)
(* commit, reads that commit's manifest, downloads the assets it names     *)
(* from the same commit, and instantiates them only once every one is      *)
(* verified.  Meanwhile main moves on, the discovery API may answer with   *)
(* an older commit, and the CDN may serve the wrong bytes.  This is the    *)
(* consumer alone; what it sees of main is given by whoever instantiates   *)
(* the module (Publication).                                               *)
(*                                                                         *)
(* A digest is as good as the content it names: a length and a SHA-256     *)
(* that both agree are taken for the content itself.  The repository, the  *)
(* API and the CDN are external.                                           *)
(***************************************************************************)
EXTENDS Naturals, Sequences, SequencesExt

CONSTANTS
  Content,       \* the versions an asset can have
  Garbage,       \* bytes that are no version of any asset
  Order,         \* the assets, in the order the consumer downloads them
  MaxCommit      \* bound on the length of the history of main

Asset == ToSet(Order)
Bytes == Content \cup {Garbage}

VARIABLES
  main,          \* the commits of main as this consumer sees them, oldest
                 \* first: not the consumer's to change
  pc,            \* the consumer
  revision,      \* the commit it resolved, 0 before that
  manifest,      \* the manifest it was served
  got,           \* the downloads it verified, in Order
  reason,        \* why it gave up
  cheated        \* history: the CDN has served other bytes than the commit's

client == <<revision, manifest, got, reason>>

(* A commit: its files, the identities its manifest lists, and whether the *)
(* manifest is one that resolveChannel accepts.                            *)
Commit == [files : [Asset -> Content], ids : [Asset -> Content], valid : BOOLEAN]
NoManifest == [files |-> <<>>, ids |-> <<>>, valid |-> FALSE]

TypeOK ==
  /\ main \in Seq(Commit) /\ Len(main) \in 1 .. MaxCommit
  /\ pc \in {"start", "discover", "manifest", "download", "ready", "failed"}
  /\ revision \in 0 .. Len(main)
  /\ manifest \in Commit \cup {NoManifest}
  /\ got \in Seq(Bytes) /\ Len(got) <= Len(Order)
  /\ pc = "download" => Len(got) < Len(Order)
  /\ reason \in {"none", "unavailable", "invalid", "mismatch"}
  /\ cheated \in BOOLEAN

Init ==
  /\ pc = "start" /\ revision = 0 /\ manifest = NoManifest /\ got = <<>>
  /\ reason = "none" /\ cheated = FALSE

Fail(why) == pc' = "failed" /\ reason' = why

-------------------------------------------------------------------------------
(* resolveChannel(channel, {revision}) *)

(* An explicit commit bypasses discovery. *)
Pin ==
  /\ pc = "start"
  /\ revision' \in 1 .. Len(main) /\ pc' = "manifest"
  /\ UNCHANGED <<main, manifest, got, reason, cheated>>

StartDiscovery ==
  /\ pc = "start" /\ pc' = "discover"
  /\ UNCHANGED <<main, client, cheated>>

(* Caches can make the API answer with an older commit of main.            *)
Discover ==
  /\ pc = "discover"
  /\ revision' \in 1 .. Len(main) /\ pc' = "manifest"
  /\ UNCHANGED <<main, manifest, got, reason, cheated>>

(* HTTP error, timeout, no body, budget exceeded, no JSON, no 40-hex       *)
(* commit.                                                                 *)
Unavailable ==
  /\ pc \in {"discover", "manifest", "download"}
  /\ Fail("unavailable")
  /\ UNCHANGED <<main, revision, manifest, got, cheated>>

(* What the CDN answers for a path of the resolved commit: its bytes, or   *)
(* something else.                                                         *)
Serves(honest, answer) == cheated' = (cheated \/ answer # honest)

(* The manifest itself carries no digest: it is trusted for its commit.    *)
FetchManifest(c) ==
  /\ pc = "manifest" /\ c \in {main[i] : i \in 1 .. Len(main)}
  /\ Serves(main[revision], c)
  /\ manifest' = c
  /\ IF c.valid THEN pc' = "download" /\ UNCHANGED reason ELSE Fail("invalid")
  /\ UNCHANGED <<main, revision, got>>

-------------------------------------------------------------------------------
(* downloadVerified(url, identity), the url built from the same revision.  *)

Wanted == Order[Len(got) + 1]

(* Mutant: the url names main, not the resolved commit. *)
ServedFromMain == main[Len(main)].files[Wanted]

Served == main[revision].files[Wanted]

(* Mutant: the download is not compared with its identity. *)
AcceptsAny(bytes) == TRUE

Accepts(bytes) == bytes = manifest.ids[Wanted]

DownloadOk(bytes) ==
  /\ pc = "download" /\ Accepts(bytes)
  /\ Serves(Served, bytes)
  /\ got' = Append(got, bytes)
  /\ pc' = IF Len(got') = Len(Order) THEN "ready" ELSE "download"
  /\ UNCHANGED <<main, revision, manifest, reason>>

DownloadMismatch(bytes) ==
  /\ pc = "download" /\ ~Accepts(bytes)
  /\ Serves(Served, bytes)
  /\ Fail("mismatch")
  /\ UNCHANGED <<main, revision, manifest, got>>

Next ==
  \/ Pin \/ StartDiscovery \/ Discover \/ Unavailable
  \/ \E i \in 1 .. Len(main) : FetchManifest(main[i])
  \/ \E b \in Bytes : DownloadOk(b) \/ DownloadMismatch(b)

-------------------------------------------------------------------------------
(* What is instantiated is, asset by asset, what one qualified manifest    *)
(* names, so no mixture of two generations and no damaged bytes get        *)
(* through, whichever commit each file was really served from; and if the  *)
(* CDN was honest it is the resolved commit's own cohort, however far main *)
(* has moved on since.                                                     *)
CohortVerified ==
  pc = "ready" =>
    LET cohort(of) == [i \in DOMAIN Order |-> of[Order[i]]]
    IN  /\ manifest.valid
        /\ got = cohort(manifest.ids)
        /\ cheated \/ got = cohort(main[revision].files)

(* "CDN caching can serve an older discovered commit, but cannot mix its   *)
(* manifest and bytes" (DISTRIBUTION.md): over an honest CDN a consistent  *)
(* commit never fails verification, however far main moves meanwhile.      *)
MovingMainIsHarmless ==
  reason = "mismatch" =>
    cheated \/ main[revision].files # main[revision].ids
===============================================================================
