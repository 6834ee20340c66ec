---------------------------- MODULE SessionService ----------------------------
(***************************************************************************)
(* What AgentVmWasmHost (src/glue/js/host.mjs) promises its caller, with   *)
(* the linear memory of the core, its transfer buffers and its prepared    *)
(* exports left out: a set of open sessions and calls that are atomic.  A  *)
(* call takes effect at one instant or not at all.  It answers only with   *)
(* the result of that effect in hand, and it throws only if it had none,   *)
(* or if a fault of the memory spoilt the result: then the caller cannot   *)
(* reach what the call made, and all else is as the effect left it.        *)
(***************************************************************************)
CONSTANT Handle            \* the session handles the core can issue

VARIABLES open,            \* the sessions that exist
          owned,           \* the sessions whose handle the caller holds
          lost,            \* the sessions whose handle was spoilt
          phase,           \* of the call in progress
          outcome          \* how the latest call ended

vars == <<open, owned, lost, phase, outcome>>

TypeOK == /\ open \subseteq Handle /\ owned \subseteq Handle
          /\ lost \subseteq Handle
          /\ phase \in {"idle", "busy", "settled", "spoilt"}
          /\ outcome \in {"none", "ok", "threw"}

Init == /\ open = {} /\ owned = {} /\ lost = {}
        /\ phase = "idle"
        /\ outcome = "none"

(* A call that moves bytes over the boundary begins. *)
Call == /\ phase = "idle"
        /\ phase' = "busy"
        /\ UNCHANGED <<open, owned, lost, outcome>>

(* The one instant at which a call takes effect: it opens one session ...  *)
Open(h) == /\ phase = "busy" /\ phase' = "settled"
           /\ h \notin open
           /\ open' = open \cup {h}
           /\ UNCHANGED <<owned, lost, outcome>>

(* ... or changes a session or the core, ...                               *)
Act == /\ phase = "busy" /\ phase' = "settled"
       /\ UNCHANGED <<open, owned, lost, outcome>>

(* ... or takes bytes out of a session to where the caller cannot see them.*)
ActInVain == /\ phase = "busy" /\ phase' = "spoilt"
             /\ UNCHANGED <<open, owned, lost, outcome>>

(* A fault of the memory spoils the result of a call that took effect.     *)
Spoil == /\ phase = "settled" /\ phase' = "spoilt"
         /\ lost' = open \ owned
         /\ UNCHANGED <<open, owned, outcome>>

(* A read may answer without ever settling.  What was opened is handed out.*)
Answer == /\ phase \in {"busy", "settled"} /\ phase' = "idle"
          /\ owned' = open \ lost
          /\ outcome' = "ok"
          /\ UNCHANGED <<open, lost>>

(* A call whose effect is done and whose result is whole may not throw.    *)
Throw == /\ phase \in {"busy", "spoilt"} /\ phase' = "idle"
         /\ outcome' = "threw"
         /\ UNCHANGED <<open, owned, lost>>

(* A call refused by a check of its arguments, or by the core.             *)
Refuse == /\ phase = "idle"
          /\ outcome' = "threw"
          /\ UNCHANGED <<open, owned, lost, phase>>

Destroy(h) == /\ phase = "idle"
              /\ h \in open
              /\ open' = open \ {h}
              /\ owned' = owned \ {h} /\ lost' = lost \ {h}
              /\ outcome' = "ok"
              /\ UNCHANGED phase

Next == \/ Call \/ Act \/ ActInVain \/ Spoil \/ Answer \/ Throw \/ Refuse
        \/ \E h \in Handle : Open(h) \/ Destroy(h)

Spec == Init /\ [][Next]_vars
===============================================================================
