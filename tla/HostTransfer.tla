----------------------------- MODULE HostTransfer -----------------------------
(***************************************************************************)
(* AgentVmWasmHost, src/glue/js/host.mjs, with FetchBridge's take and push  *)
(* of src/glue/js/fetch-bridge.mjs: how the JavaScript host moves bytes    *)
(* into and out of the AgentVM Wasm core.                                  *)
(*                                                                         *)
(* The core owns the linear memory.  The host allocates a buffer in it     *)
(* (agentvm_wasm_alloc), fills or reads it, and must give it back          *)
(* (agentvm_wasm_dealloc) whatever happens in between: any core call may   *)
(* answer 0, which `require` turns into an exception, and `finally` blocks *)
(* do the cleaning up.  A release that is itself refused throws from the   *)
(* `finally` and skips the rest of the block.                              *)
(*                                                                         *)
(* JavaScript is single threaded and every method is synchronous, so one   *)
(* call is in progress at a time; the interleaving is between the steps of *)
(* the call and the answers of the core.  The core is closed source: its   *)
(* exports are modelled from what the host requires of them.               *)
(***************************************************************************)
EXTENDS Naturals, FiniteSets, SequencesExt

CONSTANTS
  Pointer,        \* addresses the core may allocate
  HighPointer,    \* those at or above 2^31: negative numbers in JavaScript
  Handle,         \* session handles
  None            \* no handle

ASSUME HighPointerAssumption == HighPointer \subseteq Pointer
ASSUME NoneAssumption == None \notin Handle

VARIABLES
  heap,           \* core: buffers allocated and not given back
  sessions,       \* core: sessions that exist
  prepared,       \* core: the export held ready for each session
  pc, op, target, \* host: the step, the method and its handle argument
  held,           \* host: buffers of this call, the last uploaded at the end
  part,           \* host: which half of an AgentSnapshot is being copied
  threw,          \* host: an exception is pending
  made,           \* host: the handle the core answered
  applied,        \* core: this call has changed what a guest can tell
  owned,          \* caller: the handles it was given and has not destroyed
  outcome,        \* caller: how the latest call ended
  leaked, lost,   \* history: the buffers, and the sessions, out of reach after
                  \* a fault of the core
  stuck,          \* history: the sessions that keep an export because the
                  \* core refused to discard it
  spoilt          \* history: this call took effect, and a fault of the memory
                  \* it used keeps the result from the caller

core == <<heap, sessions, prepared>>
frame == <<op, target, part, made>>
caller == <<owned, outcome>>
faults == <<leaked, lost, stuck, spoilt>>
vars == <<heap, sessions, prepared, pc, op, target, held, part, threw, made,
          applied, owned, outcome, leaked, lost, stuck, spoilt>>

(* How many buffers each sending method uploads before its core call.      *)
Uploads == [supplyEntropy |-> 1, createSession |-> 1, createAgentSession |-> 1,
            createSessionWithArgv |-> 2, createAgentSessionWithArgv |-> 2,
            createAgentSessionWithCapabilities |-> 3,
            createSessionFromRestart |-> 2,
            createAgentSessionFromSnapshot |-> 3,
            writeWorkspace |-> 2, push |-> 1]
SendOps == DOMAIN Uploads
WriteOps == {"writeWorkspace", "push"}
CreateOps == SendOps \ ({"supplyEntropy"} \cup WriteOps)
ArgvOps == {"createSessionWithArgv", "createAgentSessionWithArgv",
            "createAgentSessionWithCapabilities"}
ExportOps == {"exportRestart", "exportAgentSnapshot"}
ReadOps == {"stdout", "stderr", "take"}
Ops == SendOps \cup ExportOps \cup ReadOps

Steps == {"idle", "upload", "call", "prepare", "len", "alloc", "copy",
          "discard", "release", "return"}

TypeOK ==
  /\ heap \subseteq Pointer
  /\ sessions \subseteq Handle
  /\ prepared \in [Handle -> {"none"} \cup ExportOps]
  /\ pc \in Steps
  /\ op \in Ops \cup {"none"}
  /\ target \in Handle \cup {None}
  /\ held \in Seq(Pointer)
  /\ part \in {1, 2}
  /\ threw \in BOOLEAN
  /\ made \in Handle \cup {None}
  /\ applied \in BOOLEAN
  /\ owned \subseteq Handle
  /\ outcome \in {"none", "ok", "threw"}
  /\ leaked \subseteq Pointer /\ lost \subseteq Handle /\ stuck \subseteq Handle
  /\ spoilt \in BOOLEAN

Init ==
  /\ heap = {} /\ sessions = {} /\ prepared = [h \in Handle |-> "none"]
  /\ pc = "idle" /\ op = "none" /\ target = None /\ held = <<>> /\ part = 1
  /\ threw = FALSE /\ made = None /\ applied = FALSE
  /\ owned = {} /\ outcome = "none"
  /\ leaked = {} /\ lost = {} /\ stuck = {} /\ spoilt = FALSE

-------------------------------------------------------------------------------
(* A method is called.  The caller may pass any handle, a stale one too.   *)

Enter(o, h, step) ==
  /\ pc = "idle"
  /\ op' = o /\ target' = h /\ pc' = step
  /\ UNCHANGED <<core, held, part, threw, made, applied, caller, faults>>

BeginSend == \/ \E o \in SendOps \ WriteOps : Enter(o, None, "upload")
             \/ \E o \in WriteOps, h \in Handle : Enter(o, h, "upload")

(* push of no bytes, a bare EOF, passes pointer 0 and uploads nothing.     *)
BeginEmptyPush == \E h \in Handle : Enter("push", h, "call")

BeginExport == \E o \in ExportOps, h \in Handle : Enter(o, h, "prepare")

(* An output is measured first; take offers the core a buffer of 8192.     *)
BeginRead == \E o \in ReadOps, h \in Handle :
               Enter(o, h, IF o = "take" THEN "alloc" ELSE "len")

(* createAgentSessionWithCapabilities checks the export, the type and the  *)
(* length of the capability text before it touches the core.               *)
RejectCapabilities ==
  /\ pc = "idle"
  /\ outcome' = "threw"
  /\ UNCHANGED <<core, pc, frame, held, threw, applied, owned, faults>>

-------------------------------------------------------------------------------
(* Sending: upload every operand, call the core, release in `finally`.     *)

(* Where an exception in the `try` leads: to the release of what is held.  *)
(* The first upload is outside the `try`, and then nothing is held.        *)
Unwind(buffers) == IF buffers = <<>> THEN "return" ELSE "release"

Upload(p) ==
  /\ pc = "upload" /\ p \notin heap /\ p \notin HighPointer
  /\ heap' = heap \cup {p}
  /\ held' = Append(held, p)
  /\ pc' = IF Len(held) + 1 = Uploads[op] THEN "call" ELSE "upload"
  /\ UNCHANGED <<sessions, prepared, frame, threw, applied, caller, faults>>

UploadFails ==
  /\ pc = "upload"
  /\ threw' = TRUE /\ pc' = Unwind(held)
  /\ UNCHANGED <<core, frame, held, applied, caller, faults>>

(* The Uint8Array constructor rejects a negative offset after the buffer   *)
(* was allocated and before anything remembers it.                         *)
UploadUnaddressable(p) ==
  /\ pc = "upload" /\ p \notin heap /\ p \in HighPointer
  /\ heap' = heap \cup {p}
  /\ leaked' = leaked \cup {p}
  /\ threw' = TRUE /\ pc' = Unwind(held)
  /\ UNCHANGED <<sessions, prepared, frame, held, applied, caller, lost, stuck,
                 spoilt>>

(* Mutant: encodeArgv outside the `try`. *)
EncodeFailsOutside ==
  /\ pc = "upload" /\ op \in ArgvOps /\ Len(held) = 1
  /\ threw' = TRUE /\ pc' = "return"
  /\ UNCHANGED <<core, frame, held, applied, caller, faults>>

(* encodeArgv runs between the first upload and the second.                *)
EncodeFails ==
  /\ pc = "upload" /\ op \in ArgvOps /\ Len(held) = 1
  /\ threw' = TRUE /\ pc' = "release"
  /\ UNCHANGED <<core, frame, held, applied, caller, faults>>

(* Mutant: the handle is not returned. *)
CreateOkDropped(h) ==
  /\ pc = "call" /\ op \in CreateOps /\ h \notin sessions
  /\ sessions' = sessions \cup {h}
  /\ prepared' = [prepared EXCEPT ![h] = "none"]
  /\ made' = None /\ applied' = TRUE /\ pc' = Unwind(held)
  /\ stuck' = stuck \ {h}
  /\ UNCHANGED <<heap, op, target, held, part, threw, caller, leaked, lost,
                 spoilt>>

CreateOk(h) ==
  /\ pc = "call" /\ op \in CreateOps /\ h \notin sessions
  /\ sessions' = sessions \cup {h}
  /\ prepared' = [prepared EXCEPT ![h] = "none"]
  /\ made' = h /\ applied' = TRUE /\ pc' = Unwind(held)
  /\ stuck' = stuck \ {h}
  /\ UNCHANGED <<heap, op, target, held, part, threw, caller, leaked, lost,
                 spoilt>>

(* Mutant: an answer of a call that took effect is read as a failure. *)
SupplyOkMisread ==
  /\ pc = "call"
  /\ \/ op = "supplyEntropy"
     \/ op \in WriteOps /\ target \in sessions
  /\ applied' = TRUE /\ threw' = TRUE /\ pc' = Unwind(held)
  /\ UNCHANGED <<core, frame, held, caller, faults>>

SupplyOk ==
  /\ pc = "call"
  /\ \/ op = "supplyEntropy"
     \/ op \in WriteOps /\ target \in sessions
  /\ applied' = TRUE /\ pc' = Unwind(held)
  /\ UNCHANGED <<core, frame, held, threw, caller, faults>>

CallFails ==
  /\ pc = "call"
  /\ threw' = TRUE /\ pc' = Unwind(held)
  /\ UNCHANGED <<core, frame, held, applied, caller, faults>>

-------------------------------------------------------------------------------
(* Receiving: prepare an export or ask an output's length, allocate, let   *)
(* the core copy, slice the bytes out, release.                            *)

(* What the session kept prepared for an earlier export is replaced.       *)
PrepareOk ==
  /\ pc = "prepare" /\ target \in sessions
  /\ prepared' = [prepared EXCEPT ![target] = op]
  /\ stuck' = stuck \ {target}
  /\ pc' = IF op = "exportRestart" THEN "alloc" ELSE "len"
  /\ UNCHANGED <<heap, sessions, frame, held, threw, applied, caller, leaked,
                 lost, spoilt>>

PrepareFails ==
  /\ pc = "prepare"
  /\ threw' = TRUE /\ pc' = "return"
  /\ UNCHANGED <<core, frame, held, applied, caller, faults>>

LenSome ==
  /\ pc = "len" /\ target \in sessions
  /\ pc' = "alloc"
  /\ UNCHANGED <<core, frame, held, threw, applied, caller, faults>>

(* #copyOutput: length 0 with no error text is an empty output.            *)
LenEmpty ==
  /\ pc = "len" /\ op \in ReadOps /\ target \in sessions
  /\ pc' = "return"
  /\ UNCHANGED <<core, frame, held, threw, applied, caller, faults>>

LenFails ==
  /\ pc = "len"
  /\ threw' = TRUE
  /\ pc' = IF op = "exportAgentSnapshot" THEN "discard" ELSE "return"
  /\ UNCHANGED <<core, frame, held, applied, caller, faults>>

AllocOk(p) ==
  /\ pc = "alloc" /\ p \notin heap
  /\ heap' = heap \cup {p} /\ held' = <<p>> /\ pc' = "copy"
  /\ UNCHANGED <<sessions, prepared, frame, threw, applied, caller, faults>>

(* Mutant: the allocation outside the `try`. *)
AllocFailsOutside ==
  /\ pc = "alloc"
  /\ threw' = TRUE /\ pc' = "return"
  /\ UNCHANGED <<core, frame, held, applied, caller, faults>>

AllocFails ==
  /\ pc = "alloc"
  /\ threw' = TRUE /\ pc' = IF op \in ExportOps THEN "discard" ELSE "return"
  /\ UNCHANGED <<core, frame, held, applied, caller, faults>>

(* The restart copy consumes what was prepared; the snapshot copies do not.*)
AfterCopy == IF op = "exportRestart"
             THEN [prepared EXCEPT ![target] = "none"] ELSE prepared

(* A take removes the bytes from the guest's stream, if there were any; an *)
(* output or an export can be read again.  A pointer the host cannot view  *)
(* makes the slice throw, with the copy already done: the export is marked *)
(* consumed by then, and what a take removed is out of everyone's reach.   *)
CopyOk ==
  /\ pc = "copy" /\ target \in sessions
  /\ prepared' = AfterCopy
  /\ applied' \in BOOLEAN /\ (applied' => op = "take")
  /\ threw' = (Last(held) \in HighPointer)
  /\ spoilt' = (threw' /\ applied')
  /\ pc' = "release"
  /\ UNCHANGED <<heap, sessions, frame, held, caller, leaked, lost, stuck>>

(* The core copied another length than it announced, or refused a take.    *)
(* Whether that used up the prepared restart is the core's affair.         *)
CopyMismatch ==
  /\ pc = "copy"
  /\ prepared' \in {prepared, AfterCopy}
  /\ threw' = TRUE
  /\ pc' = IF op = "exportRestart" THEN "discard" ELSE "release"
  /\ UNCHANGED <<heap, sessions, frame, held, applied, caller, faults>>

(* exportRestart discards what it did not consume and ignores the answer.  *)
DiscardRestart ==
  /\ pc = "discard" /\ op = "exportRestart"
  /\ prepared' = [prepared EXCEPT ![target] = "none"]
  /\ stuck' = stuck \ {target}
  /\ pc' = Unwind(held)
  /\ UNCHANGED <<heap, sessions, frame, held, threw, applied, caller, leaked,
                 lost, spoilt>>

(* exportAgentSnapshot always discards and requires that it worked.        *)
DiscardSnapshot ==
  /\ pc = "discard" /\ op = "exportAgentSnapshot"
  /\ prepared' = [prepared EXCEPT ![target] = "none"]
  /\ stuck' = stuck \ {target}
  /\ pc' = "return"
  /\ UNCHANGED <<heap, sessions, frame, held, threw, applied, caller, leaked,
                 lost, spoilt>>

DiscardRefused ==
  /\ pc = "discard"
  /\ stuck' = stuck \cup {target}
  /\ threw' = TRUE /\ pc' = Unwind(held)
  /\ UNCHANGED <<core, frame, held, applied, caller, leaked, lost, spoilt>>

-------------------------------------------------------------------------------
(* The `finally` block: release in reverse order of allocation.  After the *)
(* first half of a snapshot the second is copied, and the discard of the   *)
(* enclosing `finally` follows whichever way #copyPrepared ends.           *)

AfterRelease(failed) ==
  IF op # "exportAgentSnapshot" THEN "return"
  ELSE IF part = 1 /\ ~failed THEN "len" ELSE "discard"

(* Mutant: the same buffer is released again and again. *)
ReleaseOkTwice ==
  /\ pc = "release"
  /\ heap' = heap \ {Head(held)}
  /\ held' = Front(held)
  /\ pc' = IF Len(held) = 1 THEN AfterRelease(threw) ELSE "release"
  /\ part' = IF pc' = "len" THEN 2 ELSE part
  /\ UNCHANGED <<sessions, prepared, op, target, made, threw, applied, caller,
                 faults>>

ReleaseOk ==
  /\ pc = "release"
  /\ heap' = heap \ {Last(held)}
  /\ held' = Front(held)
  /\ pc' = IF Len(held) = 1 THEN AfterRelease(threw) ELSE "release"
  /\ part' = IF pc' = "len" THEN 2 ELSE part
  /\ UNCHANGED <<sessions, prepared, op, target, made, threw, applied, caller,
                 faults>>

(* The refused release throws: the releases behind it never run, and the   *)
(* value the `try` block was returning, a new handle perhaps, is dropped.  *)
ReleaseRefused ==
  /\ pc = "release"
  /\ leaked' = leaked \cup ToSet(held)
  /\ lost' = lost \cup ({made} \ {None})
  /\ spoilt' = applied
  /\ threw' = TRUE /\ held' = <<>>
  /\ pc' = AfterRelease(TRUE)
  /\ UNCHANGED <<core, frame, applied, caller, stuck>>

(* Mutant: whatever was made is taken for a handle. *)
ReturnUnchecked ==
  /\ pc = "return"
  /\ outcome' = IF threw THEN "threw" ELSE "ok"
  /\ owned' = IF threw THEN owned ELSE owned \cup {made}
  /\ pc' = "idle" /\ op' = "none" /\ target' = None /\ part' = 1
  /\ threw' = FALSE /\ made' = None /\ applied' = FALSE /\ spoilt' = FALSE
  /\ UNCHANGED <<core, held, leaked, lost, stuck>>

Return ==
  /\ pc = "return"
  /\ outcome' = IF threw THEN "threw" ELSE "ok"
  /\ owned' = IF threw \/ made = None THEN owned ELSE owned \cup {made}
  /\ pc' = "idle" /\ op' = "none" /\ target' = None /\ part' = 1
  /\ threw' = FALSE /\ made' = None /\ applied' = FALSE /\ spoilt' = FALSE
  /\ UNCHANGED <<core, held, leaked, lost, stuck>>

-------------------------------------------------------------------------------
(* destroy(handle) is a single core call.  The core refuses a handle it    *)
(* does not know, and may refuse one it does.                              *)

DestroyOk(h) ==
  /\ pc = "idle" /\ h \in sessions
  /\ sessions' = sessions \ {h} /\ owned' = owned \ {h}
  /\ prepared' = [prepared EXCEPT ![h] = "none"]
  /\ outcome' = "ok"
  /\ lost' = lost \ {h} /\ stuck' = stuck \ {h}
  /\ UNCHANGED <<heap, pc, frame, held, threw, applied, leaked, spoilt>>

DestroyFails(h) ==
  /\ pc = "idle"
  /\ outcome' = "threw"
  /\ UNCHANGED <<core, pc, frame, held, threw, applied, owned, faults>>

Next ==
  \/ BeginSend \/ BeginEmptyPush \/ BeginExport \/ BeginRead
  \/ RejectCapabilities
  \/ \E p \in Pointer : Upload(p) \/ UploadUnaddressable(p) \/ AllocOk(p)
  \/ UploadFails \/ EncodeFails \/ SupplyOk \/ CallFails
  \/ PrepareOk \/ PrepareFails \/ LenSome \/ LenEmpty \/ LenFails \/ AllocFails
  \/ CopyOk \/ CopyMismatch \/ DiscardRestart \/ DiscardSnapshot
  \/ DiscardRefused \/ ReleaseOk \/ ReleaseRefused \/ Return
  \/ \E h \in Handle : CreateOk(h) \/ DestroyOk(h) \/ DestroyFails(h)

Spec == Init /\ [][Next]_vars

-------------------------------------------------------------------------------
(* Every buffer the host still means to release is allocated, and it means *)
(* to release it once: no double free and no copy into freed memory, even  *)
(* with a core that refuses cleanups (host.mjs 105-120 and every finally). *)
HeldBuffersLive == ToSet(held) \subseteq heap /\ IsInjective(held)

(* Between calls the core's memory holds no transfer buffer of a finished  *)
(* call, however it ended, but the ones a refused release abandoned or a   *)
(* view could not reach; one fault never makes a later call leak.          *)
BuffersReclaimed == pc = "idle" => heap = leaked

(* Between calls no session holds a prepared export that nobody will copy, *)
(* but where the core refused the discard (exportRestart 332-363,          *)
(* exportAgentSnapshot 365-391).                                           *)
ExportsDiscarded ==
  pc = "idle" => \A h \in Handle : prepared[h] # "none" => h \in stuck

(* Between calls the sessions of the core are the ones whose handles the   *)
(* caller holds, plus the created sessions whose handle a refused release  *)
(* dropped: no other exception loses a handle, and no handle outlives its  *)
(* session.                                                                *)
SessionsAccounted ==
  pc = "idle" => /\ sessions = owned \cup lost
                 /\ owned \cap lost = {}

(* The host implements the abstract service, which calls are atomic for:   *)
(* one that throws has had no effect, or its result was lost to a fault of *)
(* the memory it used, and then nothing but that result is lost (the try   *)
(* and finally blocks of host.mjs 120-296 and 332-476 and of take and push *)
(* in fetch-bridge.mjs 13-26).                                             *)
Service == INSTANCE SessionService WITH
  open <- sessions,
  phase <- IF pc = "idle" THEN "idle"
           ELSE IF ~applied THEN "busy"
           ELSE IF spoilt THEN "spoilt" ELSE "settled"

ImplementsService == Service!Spec
===============================================================================
