------------------------------ MODULE ChannelStore ------------------------------
(***************************************************************************)
(* What src/scripts/sync-channel-core.mjs promises of the repository: each *)
(* channel's directory holds one whole Core, the manifests are the         *)
(* operator's to edit, and the only other thing that ever happens is that  *)
(* a channel's Core becomes, in one step, the one that its qualified       *)
(* manifest names at that moment.                                          *)
(***************************************************************************)
CONSTANTS Channel, Version

VARIABLES
  manifest,      \* per channel: [core, pass]
  core           \* per channel: channels/<channel>/agentvm-core.wasm

Init ==
  /\ core \in [Channel -> Version]
  /\ manifest = [c \in Channel |-> [core |-> core[c], pass |-> TRUE]]

Edit(c, m) ==
  /\ manifest' = [manifest EXCEPT ![c] = m]
  /\ UNCHANGED core

Refresh(c) ==
  /\ manifest[c].pass
  /\ core' = [core EXCEPT ![c] = manifest[c].core]
  /\ UNCHANGED manifest

Next ==
  \E c \in Channel :
    \/ \E m \in [core : Version, pass : BOOLEAN] : Edit(c, m)
    \/ Refresh(c)

Spec == Init /\ [][Next]_<<manifest, core>>
===============================================================================
