--------------------------- MODULE HostCallerProofs ---------------------------
(***************************************************************************)
(* Proofs about the callers of the host.                                   *)
(*                                                                         *)
(* The fetch bridge, for any set of calls, aborted and restarted as the    *)
(* callers like, and any limits: what a completion in the guest's stream   *)
(* is, what the sink of stream() is given, that an aborted call does not   *)
(* answer, and that no call leaves a lock or a flowing body.               *)
(*                                                                         *)
(* The seven programs of Drivers, for any bound of their loops, any guests *)
(* and exit codes, any number of rounds and of faults of the core: that    *)
(* their status and their receipts are true, that they pass a guest that   *)
(* fits, and that they destroy their sessions.                             *)
(***************************************************************************)
EXTENDS FetchBridge, Drivers, TLAPS

-------------------------------------------------------------------------------
(* The fetch bridge.                                                       *)


(* The body and its lock.  A reader holds the lock as long as the body is  *)
(* open; only a body without the byte reader that was asked for is         *)
(* cancelled directly.                                                     *)
Body(j) ==
  /\ pc[j] \in {"idle", "fetch"} => body[j] = "none" /\ ~locked[j]
  /\ pc[j] = "onResponse" => body[j] = IF locked[j] THEN "open" ELSE "none"
  /\ pc[j] \in {"check", "read", "deliver", "sink"} => body[j] = "open" /\ locked[j]
  /\ pc[j] \in {"finish", "done"} => body[j] \in {"none", "closed"}
  /\ pc[j] \in Over => ~locked[j] /\ body[j] # "open"
  /\ pc[j] = "finish" /\ kind[j] = "request" => ~locked[j]

(* The steps of a call are those of its kind.                              *)
Steps(j) ==
  /\ pc[j] \in {"onResponse", "check", "deliver", "sink"} => kind[j] = "stream"
  /\ pc[j] \in {"idle", "done"} => ~aborted[j]

(* Where the units are that the network has delivered.                     *)
Units(j) ==
  /\ size[j] + rest[j] = served[j]
  /\ kind[j] = "request" => rest[j] = 0
  /\ pc[j] \in {"idle", "fetch", "onResponse"} => served[j] = 0
  /\ pc[j] \in {"check", "read", "finish", "done"} => rest[j] = 0
  /\ pc[j] = "deliver" => rest[j] > 0
  /\ pc[j] = "sink" => /\ 0 < part[j] /\ part[j] <= rest[j]
                       /\ size[j] + part[j] <= MaxBodyBytes
  /\ kind[j] = "request" /\ pc[j] \in {"read", "finish", "done"} =>
       size[j] <= RequestLimit

Local == \A j \in Job : Body(j) /\ Steps(j) /\ Units(j)

(* A completion is that of a call that is over, and of all it received.    *)
Completions ==
  \A c \in published :
    pc[c.job] = "done" /\ kind[c.job] = "request" /\ c.bytes = size[c.job]

IInv == TypeOK /\ Local /\ Completions
-------------------------------------------------------------------------------
(* Every step keeps every variable in its type. *)
LEMMA TypeStep ==
  ASSUME TypeOK, Local, [Next]_vars
  PROVE  TypeOK'
<1> USE SizeAssumption
<1> USE DEF TypeOK, Local, Units, Modes, Over, Busy, Goto, job, vars
<1>1. ASSUME NEW j \in Job, Refuse(j)
      PROVE  TypeOK'
  BY <1>1 DEF Refuse
<1>2. ASSUME NEW j \in Job, Start(j)
      PROVE  TypeOK'
  BY <1>2 DEF Start
<1>3. ASSUME NEW j \in Job, Abort(j)
      PROVE  TypeOK'
  BY <1>3 DEF Abort
<1>4. ASSUME NEW j \in Job, FetchFails(j)
      PROVE  TypeOK'
  BY <1>4 DEF FetchFails
<1>5. ASSUME NEW j \in Job, FetchEmpty(j)
      PROVE  TypeOK'
  BY <1>5 DEF FetchEmpty
<1>6. ASSUME NEW j \in Job, FetchBody(j)
      PROVE  TypeOK'
  BY <1>6 DEF FetchBody
<1>7. ASSUME NEW j \in Job, RespondOk(j)
      PROVE  TypeOK'
  BY <1>7 DEF RespondOk
<1>8. ASSUME NEW j \in Job, RespondFails(j)
      PROVE  TypeOK'
  BY <1>8 DEF RespondFails
<1>9. ASSUME NEW j \in Job, Check(j)
      PROVE  TypeOK'
  BY <1>9 DEF Check
<1>10. ASSUME NEW j \in Job, Read(j)
      PROVE  TypeOK'
  <2>1. PICK n \in 1 .. MaxChunk : /\ served[j] + n <= MaxServed
                                   /\ ReadRequest(j, n) \/ ReadStream(j, n)
    BY <1>10 DEF Read
  <2>2. served[j] + n \in 0 .. MaxServed /\ n \in 0 .. MaxChunk
    BY <2>1
  <2>3. CASE ReadRequest(j, n)
    BY <2>2, <2>3 DEF ReadRequest
  <2>4. CASE ReadStream(j, n)
    BY <2>2, <2>4 DEF ReadStream
  <2> QED  BY <2>1, <2>3, <2>4
<1>11. ASSUME NEW j \in Job, ReadDone(j)
      PROVE  TypeOK'
  BY <1>11 DEF ReadDone
<1>12. ASSUME NEW j \in Job, ReadFails(j)
      PROVE  TypeOK'
  BY <1>12 DEF ReadFails
<1>13. ASSUME NEW j \in Job, Deliver(j)
      PROVE  TypeOK'
  BY <1>13 DEF Deliver, NextPart
<1>14. ASSUME NEW j \in Job, DeliverRefused(j)
      PROVE  TypeOK'
  BY <1>14 DEF DeliverRefused, NextPart
<1>15. ASSUME NEW j \in Job, SinkOk(j)
      PROVE  TypeOK'
  BY <1>15 DEF SinkOk
<1>16. ASSUME NEW j \in Job, SinkFails(j)
      PROVE  TypeOK'
  BY <1>16 DEF SinkFails
<1>17. ASSUME NEW j \in Job, FinishAborted(j)
      PROVE  TypeOK'
  BY <1>17 DEF FinishAborted
<1>18. ASSUME NEW j \in Job, Publish(j)
      PROVE  TypeOK'
  BY <1>18 DEF Publish
<1>19. ASSUME NEW j \in Job, PublishRefused(j)
      PROVE  TypeOK'
  BY <1>19 DEF PublishRefused
<1>20. ASSUME NEW j \in Job, StreamDone(j)
      PROVE  TypeOK'
  BY <1>20 DEF StreamDone
<1>21. ASSUME NEW j \in Job, Cancel(j)
      PROVE  TypeOK'
  BY <1>21 DEF Cancel
<1>22. CASE UNCHANGED vars
  BY <1>22
<1> HIDE DEF TypeOK, Local, Body, Steps, Units, Completions, vars
<1> QED
  BY <1>1, <1>2, <1>3, <1>4, <1>5, <1>6, <1>7, <1>8, <1>9, <1>10, <1>11,
     <1>12, <1>13, <1>14, <1>15, <1>16, <1>17, <1>18, <1>19, <1>20,
     <1>21, <1>22
  DEF Next, Own, Callback, Network

(* Every step of a call leaves its body, its kind and its units in order,   *)
(* and the other calls alone.                                               *)
LEMMA LocalStep ==
  ASSUME TypeOK, Local, [Next]_vars
  PROVE  Local'
<1> USE SizeAssumption
<1> USE DEF TypeOK, Local, Body, Steps, Units, Modes, Over, Busy, Goto, job, vars
<1>1. ASSUME NEW j \in Job, Refuse(j)
      PROVE  Local'
  BY <1>1 DEF Refuse
<1>2. ASSUME NEW j \in Job, Start(j)
      PROVE  Local'
  BY <1>2 DEF Start
<1>3. ASSUME NEW j \in Job, Abort(j)
      PROVE  Local'
  BY <1>3 DEF Abort
<1>4. ASSUME NEW j \in Job, FetchFails(j)
      PROVE  Local'
  BY <1>4 DEF FetchFails
<1>5. ASSUME NEW j \in Job, FetchEmpty(j)
      PROVE  Local'
  BY <1>5 DEF FetchEmpty
<1>6. ASSUME NEW j \in Job, FetchBody(j)
      PROVE  Local'
  <2>1. PICK refused \in BOOLEAN :
          /\ refused => kind[j] = "stream"
          /\ locked' = [locked EXCEPT ![j] = ~refused]
          /\ pc' = [pc EXCEPT ![j] =
                     IF refused THEN "cancel"
                     ELSE IF kind[j] = "stream" THEN "onResponse" ELSE "read"]
    BY <1>6 DEF FetchBody
  <2>2. /\ pc[j] = "fetch" /\ body' = [body EXCEPT ![j] = "open"]
        /\ UNCHANGED <<kind, aborted, served, size, rest, part>>
    BY <1>6 DEF FetchBody
  <2>3. Body(j)' /\ Steps(j)' /\ Units(j)'
    <3>1. CASE refused
      BY <2>1, <2>2, <3>1
    <3>2. CASE ~refused
      <4>1. /\ locked'[j] = TRUE /\ body'[j] = "open"
            /\ \/ kind[j] = "stream" /\ pc'[j] = "onResponse"
               \/ kind[j] = "request" /\ pc'[j] = "read"
        BY <2>1, <2>2, <3>2
      <4>2. size[j] = 0 /\ rest[j] = 0 /\ served[j] = 0 /\ RequestLimit \in Nat
        BY <2>2
      <4> QED  BY <2>2, <4>1, <4>2
    <3> QED  BY <3>1, <3>2
  <2>4. ASSUME NEW i \in Job \ {j}
        PROVE  Body(i)' /\ Steps(i)' /\ Units(i)'
    BY <2>1, <2>2
  <2> QED  BY <2>3, <2>4
<1>7. ASSUME NEW j \in Job, RespondOk(j)
      PROVE  Local'
  BY <1>7 DEF RespondOk
<1>8. ASSUME NEW j \in Job, RespondFails(j)
      PROVE  Local'
  BY <1>8 DEF RespondFails
<1>9. ASSUME NEW j \in Job, Check(j)
      PROVE  Local'
  BY <1>9 DEF Check
<1>10. ASSUME NEW j \in Job, Read(j)
      PROVE  Local'
  BY <1>10 DEF Read, ReadRequest, ReadStream
<1>11. ASSUME NEW j \in Job, ReadDone(j)
      PROVE  Local'
  BY <1>11 DEF ReadDone
<1>12. ASSUME NEW j \in Job, ReadFails(j)
      PROVE  Local'
  BY <1>12 DEF ReadFails
<1>13. ASSUME NEW j \in Job, Deliver(j)
      PROVE  Local'
  BY <1>13 DEF Deliver, NextPart
<1>14. ASSUME NEW j \in Job, DeliverRefused(j)
      PROVE  Local'
  BY <1>14 DEF DeliverRefused, NextPart
<1>15. ASSUME NEW j \in Job, SinkOk(j)
      PROVE  Local'
  BY <1>15 DEF SinkOk
<1>16. ASSUME NEW j \in Job, SinkFails(j)
      PROVE  Local'
  BY <1>16 DEF SinkFails
<1>17. ASSUME NEW j \in Job, FinishAborted(j)
      PROVE  Local'
  BY <1>17 DEF FinishAborted
<1>18. ASSUME NEW j \in Job, Publish(j)
      PROVE  Local'
  BY <1>18 DEF Publish
<1>19. ASSUME NEW j \in Job, PublishRefused(j)
      PROVE  Local'
  BY <1>19 DEF PublishRefused
<1>20. ASSUME NEW j \in Job, StreamDone(j)
      PROVE  Local'
  BY <1>20 DEF StreamDone
<1>21. ASSUME NEW j \in Job, Cancel(j)
      PROVE  Local'
  BY <1>21 DEF Cancel
<1>22. CASE UNCHANGED vars
  BY <1>22
<1> HIDE DEF TypeOK, Local, Body, Steps, Units, Completions, vars
<1> QED
  BY <1>1, <1>2, <1>3, <1>4, <1>5, <1>6, <1>7, <1>8, <1>9, <1>10, <1>11,
     <1>12, <1>13, <1>14, <1>15, <1>16, <1>17, <1>18, <1>19, <1>20,
     <1>21, <1>22
  DEF Next, Own, Callback, Network

(* No step touches the answer of a call that has answered, and only one     *)
(* that has all of its body, in time, adds one.                             *)
LEMMA CompletionsStep ==
  ASSUME TypeOK, Local, Completions, [Next]_vars
  PROVE  Completions'
<1> USE DEF TypeOK, Completions, Busy, Over, Goto, job, vars
<1>1. ASSUME NEW j \in Job, Publish(j)
      PROVE  Completions'
  BY <1>1 DEF Publish
<1>2. ASSUME NEW j \in Job, pc[j] # "done", published' = published, kind' = kind,
             \A i \in Job \ {j} : pc'[i] = pc[i] /\ size'[i] = size[i]
      PROVE  Completions'
  BY <1>2
<1>3. ASSUME NEW j \in Job, Refuse(j) \/ Start(j) \/ Abort(j)
      PROVE  Completions'
  BY <1>2, <1>3 DEF Refuse, Start, Abort
<1>4. ASSUME NEW j \in Job, Callback(j)
      PROVE  Completions'
  BY <1>2, <1>4 DEF Callback, RespondOk, RespondFails, SinkOk, SinkFails
<1>5. ASSUME NEW j \in Job, Network(j)
      PROVE  Completions'
  BY <1>2, <1>5 DEF Network, FetchFails, FetchEmpty, FetchBody, Read, ReadRequest,
     ReadStream, ReadDone, ReadFails
<1>6. ASSUME NEW j \in Job, Own(j), ~Publish(j)
      PROVE  Completions'
  BY <1>2, <1>6 DEF Own, Check, Deliver, DeliverRefused, FinishAborted,
     PublishRefused, StreamDone, Cancel
<1>7. CASE UNCHANGED vars
  BY <1>7
<1> HIDE DEF TypeOK, Completions, vars
<1> QED
  BY <1>1, <1>3, <1>4, <1>5, <1>6, <1>7 DEF Next

-------------------------------------------------------------------------------
(* No call has started yet. *)
LEMMA InitIInv == Init => IInv
BY SizeAssumption DEF Init, IInv, TypeOK, Local, Body, Steps, Units, Completions,
   Modes, Over, Busy

(* The invariant holds throughout: whatever the network, the sinks, the     *)
(* timers and the callers of the bridge do between two awaits of a call.    *)
THEOREM Invariance == Spec => []IInv
<1>1. ASSUME IInv, [Next]_vars
      PROVE  IInv'
  BY <1>1, TypeStep, LocalStep, CompletionsStep DEF IInv
<1> QED
  BY <1>1, InitIInv, PTL DEF Spec

(* The sink of stream() is given, in order and within its quota, what the   *)
(* network delivered, and all of it when stream() returns                   *)
(* (fetch-bridge.mjs 22-78).                                                *)
THEOREM StreamSafety == Spec => []StreamInv
<1>1. IInv => StreamInv
  BY SizeAssumption
    DEF IInv, StreamInv, StreamExact, SinkBounded, TypeOK, Local, Body,
     Steps, Units
<1> QED
  BY <1>1, Invariance, PTL

(* A completion in the guest's stream is a whole response within the bound  *)
(* of request(), from a call that succeeded: an oversize, torn or failed    *)
(* one publishes nothing (fetch-bridge.mjs 80-109).                         *)
THEOREM CompletionSafety == Spec => []CompletionsWhole
<1>1. ASSUME IInv PROVE CompletionsWhole
  <2> SUFFICES ASSUME NEW c \in published
               PROVE  /\ pc[c.job] = "done" /\ kind[c.job] = "request"
                      /\ body[c.job] \in {"none", "closed"}
                      /\ c.bytes = served[c.job] /\ c.bytes <= RequestLimit
    BY DEF CompletionsWhole
  <2>1. c.job \in Job
    BY <1>1 DEF IInv, TypeOK
  <2>2. pc[c.job] = "done" /\ kind[c.job] = "request" /\ c.bytes = size[c.job]
    BY <1>1 DEF IInv, Completions
  <2>3. Body(c.job) /\ Units(c.job) /\ size[c.job] \in Nat /\ served[c.job] \in Nat
    BY <1>1, <2>1, SizeAssumption DEF IInv, Local, TypeOK
  <2> QED  BY <2>2, <2>3 DEF Body, Units
<1> QED
  BY <1>1, Invariance, PTL

(* A call whose signal fired while it ran has neither succeeded nor left a  *)
(* completion, however late the network settles: request() looks at the     *)
(* signal after its last await and publishes without another.               *)
THEOREM AbortSafety == Spec => []AbortedNeverAnswers
<1>1. IInv => AbortedNeverAnswers
  BY DEF IInv, AbortedNeverAnswers, Local, Steps, Completions
<1> QED
  BY <1>1, Invariance, PTL

(* A call that is over, by whichever of its exits, holds no reader lock and *)
(* leaves no body flowing.                                                  *)
THEOREM ReleaseSafety == Spec => []NothingHeld
<1>1. IInv => NothingHeld
  BY DEF IInv, NothingHeld, Local, Body
<1> QED
  BY <1>1, Invariance, PTL

-------------------------------------------------------------------------------
(* The programs: what a script is annotated with.                          *)

(* The operation of step i of program p, the session it is about, the      *)
(* distance to its finally block; the number of the steps.                 *)
Op(p, i) == ScriptOf(p)[i].op
Of(p, i) == ScriptOf(p)[i].s
Fin(p, i) == ScriptOf(p)[i].fin
Last(p) == Len(ScriptOf(p))

(* The life of a session: the lines that create it, run it, judge it and   *)
(* destroy it, the one that ends the finally block it is destroyed in, and *)
(* the one that looks whether it is gone.  Lives collects what L says of   *)
(* each life of a program.                                                 *)
Lives(p, L(_, _, _, _, _, _, _)) ==
  CASE p = "run" -> L("a", 2, 3, 3, 6, 7, 8)
    [] p = "self-test" -> L("a", 2, 3, 4, 6, 8, 7)
    [] p = "benchmark" -> L("a", 1, 2, 3, 4, 6, 5)
    [] p = "promotion" -> L("a", 1, 3, 4, 5, 7, 6)
    [] p = "cdn" -> L("a", 2, 3, 4, 5, 6, 7)
    [] p = "explicit" -> L("a", 2, 3, 4, 5, 7, 6) \cup L("a", 8, 10, 11, 19, 21, 20)
         \cup L("b", 13, 15, 16, 17, 18, 20) \cup L("a", 22, 23, 24, 25, 27, 26)
    [] p = "quality" -> L("a", 4, 6, 7, 10, 12, 19) \cup L("b", 5, 8, 9, 11, 12, 19)
         \cup L("c", 14, 15, 16, 17, 18, 19) \cup L("d", 21, 22, 23, 24, 25, 36)
         \cup L("e", 26, 27, 31, 29, 30, 36) \cup L("f", 32, 32, 32, 34, 35, 36)

(* At step i: the sessions that are open, still to be judged, run but not  *)
(* judged, judged but not destroyed, destroyed but not counted, and in the *)
(* finally block that destroys them.                                       *)
Open(p, i) ==
  LET L(s, made, ran, judged, gone, closed, counted) ==
        IF made < i /\ i <= gone THEN {s} ELSE {}
  IN  Lives(p, L)
Due(p, i) ==
  LET L(s, made, ran, judged, gone, closed, counted) ==
        IF made < i /\ i <= judged THEN {s} ELSE {}
  IN  Lives(p, L)
Ran(p, i) ==
  LET L(s, made, ran, judged, gone, closed, counted) ==
        IF ran < i /\ i <= judged THEN {s} ELSE {}
  IN  Lives(p, L)
Tested(p, i) ==
  LET L(s, made, ran, judged, gone, closed, counted) ==
        IF made < ran /\ judged < i /\ i <= gone THEN {s} ELSE {}
  IN  Lives(p, L)
Doubt(p, i) ==
  LET L(s, made, ran, judged, gone, closed, counted) ==
        IF gone < i /\ i <= counted THEN {s} ELSE {}
  IN  Lives(p, L)
ToClose(p, i) ==
  LET L(s, made, ran, judged, gone, closed, counted) ==
        IF gone <= i /\ i <= closed THEN {s} ELSE {}
  IN  Lives(p, L)
Closing(p, i) == ToClose(p, i) # {}

(* The first step that runs a guest, those that do, and those at which     *)
(* cdn and explicit catch what nothing else has caught.                    *)
FirstLoop(p) == IF p = "quality" THEN 6 ELSE IF p = "benchmark" THEN 2 ELSE 3

Loops == {"run", "for", "while"}
Seals == {"seal", "count"}
(* The steps that may throw, of themselves or by a fault. *)
MayThrow(p, i) ==
  /\ Op(p, i) \notin {"again", "seal", "verdict", "leave", "limits"}
  /\ Op(p, i) = "tell" => p = "self-test"

(* The session that step i is about, if it is of the operation. *)
About(p, i, ops) == IF Op(p, i) \in ops THEN {Of(p, i)} ELSE {}
(* The open sessions that it is not asked to destroy. *)
Gone(p, i) == Open(p, i) \ About(p, i, {"destroy"})

-------------------------------------------------------------------------------
(* What the annotation says of each step of a script.  A throw lands in    *)
(* the finally block of an open session; while an exception is pending     *)
(* only the steps of such a block follow.                                  *)
Flow(p, i) ==
  /\ Fin(p, i) \in Nat /\ i + Fin(p, i) <= Last(p)
  /\ Op(p, i) \in {"abi", "create", "run", "for", "while", "ask", "note", "call",
       "read", "refuse", "limits", "destroy", "none", "raise", "again", "tell",
       "seal", "count", "verdict", "leave"}
  /\ Op(p, i) \in Loops \cup {"create", "destroy"} => Of(p, i) \in Session
  /\ Fin(p, i) > 0 => Closing(p, i + Fin(p, i))
  /\ Closing(p, i) => /\ Op(p, i) \in {"destroy", "none", "raise"}
                      /\ Op(p, i) # "raise" => Closing(p, i + 1)

(* Where the steps of each kind are: the ABI comes first, what can record  *)
(* a failure is followed by a verdict, and a program speaks when nothing   *)
(* is left to be judged.                                                   *)
Roles(p, i) ==
  /\ i = 1 => Op(p, i) = "abi" \/ p \in {"benchmark", "promotion"}
  /\ Op(p, i) = "abi" => i = 1 /\ Fin(p, i) = 0
  /\ Op(p, i) \in Loops => i >= FirstLoop(p)
  /\ Op(p, i) \in {"seal", "count", "note", "limits"} =>
       i < Last(p) /\ Op(p, Last(p)) = "verdict"
  /\ Op(p, i) \in Seals => p \notin {"run", "quality"}
  /\ Op(p, i) = "verdict" => i = Last(p)
  /\ Op(p, i) \in {"tell", "seal", "count"} =>
       /\ Due(p, i) = {} /\ Doubt(p, i) = {}
       /\ IF p = "self-test" THEN Op(p, i) = "tell" /\ i = 5
          ELSE /\ Open(p, i) = {}
               /\ i = Last(p) \/ (i = Last(p) - 1 /\ Op(p, Last(p)) = "verdict")
  /\ p = "self-test" =>
       /\ Op(p, i) \in Loops => i < 5
       /\ Op(p, i) # "again"
  /\ Op(p, i) = "leave" => p = "run"
  /\ p = "run" =>
       /\ Op(p, i) \notin {"again", "note", "limits", "tell", "verdict"}
       /\ Op(p, i) = "create" => i = 2
       /\ i = 3 => Op(p, i) = "run" /\ Of(p, i) = "a"
       /\ Op(p, i) = "read" <=> i = 4
       /\ Op(p, i) = "leave" <=> i = 5

(* A step loses no open session, wherever it leads, but in the two places  *)
(* that SessionsDestroyed names.                                           *)
Keeps(p, i) ==
  /\ Gone(p, i) \cup About(p, i, {"create"}) \subseteq Open(p, i + 1)
  /\ Fin(p, i) > 0 => Gone(p, i) \subseteq Open(p, i + Fin(p, i))
  /\ Fin(p, i) = 0 /\ MayThrow(p, i) =>
       \/ Gone(p, i) = {}
       \/ p = "quality" /\ Op(p, i) = "create" /\ Gone(p, i) \subseteq {"a"}
       \/ /\ p = "quality" /\ Op(p, i) = "destroy" /\ Of(p, i) = "a"
          /\ Gone(p, i) \subseteq {"b"}
  /\ Op(p, i) \in {"none", "again"} => Open(p, i) = {}

(* No session is run that is not to be judged, none is judged that has not *)
(* been run, and one leaves the sessions in doubt only when they are       *)
(* counted.                                                                *)
Judges(p, i) ==
  /\ Op(p, i) # "none" =>
       Doubt(p, i) \cup About(p, i, {"destroy"}) \subseteq Doubt(p, i + 1)
  /\ Op(p, i) \in {"create", "destroy"} => Of(p, i) \notin Doubt(p, i)
  /\ Op(p, i) = "create" => Of(p, i) \notin Due(p, i)
  /\ Op(p, i) = "again" => Due(p, i) = {} /\ Doubt(p, i) = {}
  /\ p # "run" =>
       /\ Due(p, i) \ About(p, i, {"ask", "note"}) \subseteq Due(p, i + 1)
       /\ Tested(p, i + 1) \subseteq Tested(p, i) \cup About(p, i, {"ask"})
       /\ Op(p, i) = "create" => Of(p, i) \notin Tested(p, i + 1)
       /\ Op(p, i) \in Loops => Open(p, i) \subseteq Due(p, i) \cup Tested(p, i)
  /\ Op(p, i) \in {"ask", "note"} => Of(p, i) \in Ran(p, i)
  /\ Ran(p, i + 1) \subseteq Ran(p, i) \cup About(p, i, Loops)
  /\ Op(p, i) = "create" => Of(p, i) \notin Ran(p, i + 1)

Proper(p, i) == Flow(p, i) /\ Roles(p, i) /\ Keeps(p, i) /\ Judges(p, i)

(* The first step, the first loop and the end of a script.                 *)
Bounds(p) ==
  /\ Last(p) \in Nat /\ FirstLoop(p) + 1 < Last(p)
  /\ Open(p, 1) = {} /\ Due(p, 1) = {} /\ Tested(p, 1) = {} /\ Doubt(p, 1) = {}
  /\ Ran(p, 1) = {}
  /\ Open(p, Last(p) + 1) = {} /\ Due(p, Last(p) + 1) = {}
  /\ ~Closing(p, Last(p) + 1)
  /\ p # "run" => Doubt(p, Last(p) + 1) = {}
  /\ Op(p, FirstLoop(p)) \in Loops
  /\ Op(p, FirstLoop(p)) = "while" => Op(p, FirstLoop(p) + 1) = "ask"

-------------------------------------------------------------------------------
(* The inductive invariant. *)

(* A loop ends with the call that its guest exits in.                      *)
Looping ==
  /\ calls < needs
  /\ status = Running /\ line <= Last(prog) =>
       (Op(prog, line) \in {"for", "while"} => calls < Bound)

(* An exception is pending only in a finally block.                        *)
Closings == status = Running /\ threw => Closing(prog, line)

(* How the process ends: by an exception outside of every try, at the end  *)
(* of the script, or by Deno.exit.                                         *)
Endings ==
  status # Running =>
    \/ /\ threw /\ status = 1 /\ line <= Last(prog)
       /\ MayThrow(prog, line) /\ Fin(prog, line) = 0
       /\ Op(prog, line) = "destroy" => Of(prog, line) \in kept
    \/ ~threw /\ line = Last(prog) + 1 /\ status = exit % 256
    \/ ~threw /\ prog = "run" /\ deno /\ line = 5 /\ status = code % 256

(* A session is open where the annotation says so, or the core has kept    *)
(* it.                                                                     *)
Left == live \ kept \subseteq Open(prog, line)

(* Until it is counted, a session may be left without a failure.           *)
Counted == threw \/ failed \/ live \subseteq Open(prog, line) \cup Doubt(prog, line)

(* A guest that went wrong is found out, has found its end in an exception *)
(* or a failure, or is still to be judged or counted.                      *)
Judging ==
  Gate =>
    /\ status = Running => threw \/ failed \/ Tested(prog, line) \subseteq exited
    /\ \A s \in wrong :
         \/ threw \/ failed
         \/ s \in bad \cap Due(prog, line)
         \/ s \in live \cap Doubt(prog, line)

(* Only a program that has a verdict records failures, and its exit code   *)
(* is theirs.                                                              *)
Verdicts ==
  /\ failed => Gate /\ Op(prog, Last(prog)) = "verdict"
  /\ Gate => exit = IF failed /\ line = Last(prog) + 1 THEN 1 ELSE 0

(* After the first step the core is of its ABI, where it is looked at.     *)
Abi == line > 1 => fits \/ failed \/ prog \in {"benchmark", "promotion"}

(* A receipt that says ok stays true: nothing that follows it can fail.    *)
Receipts ==
  told = "ok" =>
    /\ wrong = {}
    /\ prog = "self-test" => line > 5
    /\ prog # "self-test" =>
         /\ ~failed /\ ~threw /\ live = {}
         /\ Gate
         /\ \/ line = Last(prog) + 1
            \/ line = Last(prog) /\ Op(prog, line) = "verdict"

(* The runner writes the outputs of a guest that has exited.               *)
RunnerSays ==
  prog = "run" /\ ~threw =>
    /\ line > 3 => "a" \in exited
    /\ line > 4 => told = "output"
    /\ line > 5 => ~deno /\ exit = code

(* Without a fault, a guest that fits gets through every step and one that *)
(* does not never gets past the check after the first loop.                *)
Fitting ==
  faults = 0 /\ fits =>
    /\ kept = {} /\ bad = {}
    /\ needs <= Bound => ~threw /\ ~failed /\ Ran(prog, line) \subseteq exited
    /\ needs > Bound =>
         \/ threw \/ failed
         \/ line <= FirstLoop(prog) /\ exited = {}
         \/ /\ line = FirstLoop(prog) + 1 /\ exited = {}
            /\ Op(prog, FirstLoop(prog)) = "while"

DriverInv ==
  /\ DriverTypeOK
  /\ Looping /\ Closings /\ Endings /\ Left /\ Counted /\ Judging
  /\ Verdicts /\ Abi /\ Receipts /\ RunnerSays /\ Fitting

-------------------------------------------------------------------------------
(* The annotation holds of each script.                                    *)
LEMMA RunnerProper ==
  /\ Last("run") = 7 /\ Bounds("run")
  /\ \A i \in 1 .. 7 : Proper("run", i)
<1> USE DEF Runner, Do, Raise
<1>1. Last("run") = 7 /\ ScriptOf("run") = Runner
  BY SMTT(30) DEF Last, ScriptOf
<1> USE DEF Op, Of, Fin, Lives, Open, Due, Ran, Tested, Doubt, ToClose, Closing
<1>2. Bounds("run")
  BY <1>1, SMTT(30) DEF Bounds, FirstLoop, Loops
<1>3. ASSUME NEW i \in 1 .. 7
      PROVE  Proper("run", i)
  <2>1. /\ i \in Nat /\ i + 1 \in Nat
        /\ Fin("run", i) \in Nat /\ i + Fin("run", i) <= 7
    BY <1>1, SMTT(30)
  <2>2. Flow("run", i)
    BY <1>1, <2>1, SMTT(30) DEF Flow, Loops, Session
  <2>3. Roles("run", i)
    BY <1>1, <2>1, SMTT(30) DEF Roles, FirstLoop, Loops, Seals
  <2>4. Keeps("run", i)
    BY <1>1, <2>1, SMTT(30) DEF Keeps, Gone, About, MayThrow
  <2>5. Judges("run", i)
    BY <1>1, <2>1, SMTT(30) DEF Judges, About, Loops
  <2> QED
    BY <2>2, <2>3, <2>4, <2>5 DEF Proper
<1> QED
  BY <1>1, <1>2, <1>3

LEMMA SelfTestProper ==
  /\ Last("self-test") = 8 /\ Bounds("self-test")
  /\ \A i \in 1 .. 8 : Proper("self-test", i)
<1> USE DEF SelfTest, Do, Raise, None
<1>1. Last("self-test") = 8 /\ ScriptOf("self-test") = SelfTest
  BY SMTT(30) DEF Last, ScriptOf
<1> USE DEF Op, Of, Fin, Lives, Open, Due, Ran, Tested, Doubt, ToClose, Closing
<1>2. Bounds("self-test")
  BY <1>1, SMTT(30) DEF Bounds, FirstLoop, Loops
<1>3. ASSUME NEW i \in 1 .. 8
      PROVE  Proper("self-test", i)
  <2>1. /\ i \in Nat /\ i + 1 \in Nat
        /\ Fin("self-test", i) \in Nat /\ i + Fin("self-test", i) <= 8
    BY <1>1, SMTT(30)
  <2>2. Flow("self-test", i)
    BY <1>1, <2>1, SMTT(30) DEF Flow, Loops, Session
  <2>3. Roles("self-test", i)
    BY <1>1, <2>1, SMTT(30) DEF Roles, FirstLoop, Loops, Seals
  <2>4. Keeps("self-test", i)
    BY <1>1, <2>1, SMTT(30) DEF Keeps, Gone, About, MayThrow
  <2>5. Judges("self-test", i)
    BY <1>1, <2>1, SMTT(30) DEF Judges, About, Loops
  <2> QED
    BY <2>2, <2>3, <2>4, <2>5 DEF Proper
<1> QED
  BY <1>1, <1>2, <1>3

LEMMA BenchmarkProper ==
  /\ Last("benchmark") = 8 /\ Bounds("benchmark")
  /\ \A i \in 1 .. 8 : Proper("benchmark", i)
<1> USE DEF Benchmark, Lifecycle, Do, Raise, None
<1>1. Last("benchmark") = 8 /\ ScriptOf("benchmark") = Benchmark
  BY SMTT(30) DEF Last, ScriptOf
<1> USE DEF Op, Of, Fin, Lives, Open, Due, Ran, Tested, Doubt, ToClose, Closing
<1>2. Bounds("benchmark")
  BY <1>1, SMTT(30) DEF Bounds, FirstLoop, Loops
<1>3. ASSUME NEW i \in 1 .. 8
      PROVE  Proper("benchmark", i)
  <2>1. /\ i \in Nat /\ i + 1 \in Nat
        /\ Fin("benchmark", i) \in Nat /\ i + Fin("benchmark", i) <= 8
    BY <1>1, SMTT(30)
  <2>2. Flow("benchmark", i)
    BY <1>1, <2>1, SMTT(30) DEF Flow, Loops, Session
  <2>3. Roles("benchmark", i)
    BY <1>1, <2>1, SMTT(30) DEF Roles, FirstLoop, Loops, Seals
  <2>4. Keeps("benchmark", i)
    BY <1>1, <2>1, SMTT(30) DEF Keeps, Gone, About, MayThrow
  <2>5. Judges("benchmark", i)
    BY <1>1, <2>1, SMTT(30) DEF Judges, About, Loops
  <2> QED
    BY <2>2, <2>3, <2>4, <2>5 DEF Proper
<1> QED
  BY <1>1, <1>2, <1>3

LEMMA PromotionProper ==
  /\ Last("promotion") = 11 /\ Bounds("promotion")
  /\ \A i \in 1 .. 11 : Proper("promotion", i)
<1> USE DEF Promotion, Do, Raise, None
<1>1. Last("promotion") = 11 /\ ScriptOf("promotion") = Promotion
  BY SMTT(30) DEF Last, ScriptOf
<1> USE DEF Op, Of, Fin, Lives, Open, Due, Ran, Tested, Doubt, ToClose, Closing
<1>2. Bounds("promotion")
  BY <1>1, SMTT(30) DEF Bounds, FirstLoop, Loops
<1>3. ASSUME NEW i \in 1 .. 11
      PROVE  Proper("promotion", i)
  <2>1. /\ i \in Nat /\ i + 1 \in Nat
        /\ Fin("promotion", i) \in Nat /\ i + Fin("promotion", i) <= 11
    BY <1>1, SMTT(30)
  <2>2. Flow("promotion", i)
    BY <1>1, <2>1, SMTT(30) DEF Flow, Loops, Session
  <2>3. Roles("promotion", i)
    BY <1>1, <2>1, SMTT(30) DEF Roles, FirstLoop, Loops, Seals
  <2>4. Keeps("promotion", i)
    BY <1>1, <2>1, SMTT(30) DEF Keeps, Gone, About, MayThrow
  <2>5. Judges("promotion", i)
    BY <1>1, <2>1, SMTT(30) DEF Judges, About, Loops
  <2> QED
    BY <2>2, <2>3, <2>4, <2>5 DEF Proper
<1> QED
  BY <1>1, <1>2, <1>3

LEMMA CdnProper ==
  /\ Last("cdn") = 10 /\ Bounds("cdn")
  /\ \A i \in 1 .. 10 : Proper("cdn", i)
<1> USE DEF Cdn, Lifecycle, Do, Raise, None
<1>1. Last("cdn") = 10 /\ ScriptOf("cdn") = Cdn
  BY SMTT(30) DEF Last, ScriptOf
<1> USE DEF Op, Of, Fin, Lives, Open, Due, Ran, Tested, Doubt, ToClose, Closing
<1>2. Bounds("cdn")
  BY <1>1, SMTT(30) DEF Bounds, FirstLoop, Loops
<1>3. ASSUME NEW i \in 1 .. 10
      PROVE  Proper("cdn", i)
  <2>1. /\ i \in Nat /\ i + 1 \in Nat
        /\ Fin("cdn", i) \in Nat /\ i + Fin("cdn", i) <= 10
    BY <1>1, SMTT(30)
  <2>2. Flow("cdn", i)
    BY <1>1, <2>1, SMTT(30) DEF Flow, Loops, Session
  <2>3. Roles("cdn", i)
    BY <1>1, <2>1, SMTT(30) DEF Roles, FirstLoop, Loops, Seals
  <2>4. Keeps("cdn", i)
    BY <1>1, <2>1, SMTT(30) DEF Keeps, Gone, About, MayThrow
  <2>5. Judges("cdn", i)
    BY <1>1, <2>1, SMTT(30) DEF Judges, About, Loops
  <2> QED
    BY <2>2, <2>3, <2>4, <2>5 DEF Proper
<1> QED
  BY <1>1, <1>2, <1>3

LEMMA ExplicitProper ==
  /\ Last("explicit") = 31 /\ Bounds("explicit")
  /\ \A i \in 1 .. 31 : Proper("explicit", i)
<1> USE DEF Explicit, Lifecycle, SnapshotCase, Do, Raise, None
<1>1. Last("explicit") = 31 /\ ScriptOf("explicit") = Explicit
  BY SMTT(30) DEF Last, ScriptOf
<1> USE DEF Op, Of, Fin, Lives, Open, Due, Ran, Tested, Doubt, ToClose, Closing
<1>2. Bounds("explicit")
  BY <1>1, SMTT(30) DEF Bounds, FirstLoop, Loops
<1>3. ASSUME NEW i \in 1 .. 31
      PROVE  Proper("explicit", i)
  <2>1. /\ i \in Nat /\ i + 1 \in Nat
        /\ Fin("explicit", i) \in Nat /\ i + Fin("explicit", i) <= 31
    BY <1>1, SMTT(30)
  <2>2. Flow("explicit", i)
    BY <1>1, <2>1, SMTT(30) DEF Flow, Loops, Session
  <2>3. Roles("explicit", i)
    BY <1>1, <2>1, SMTT(30) DEF Roles, FirstLoop, Loops, Seals
  <2>4. Keeps("explicit", i)
    BY <1>1, <2>1, SMTT(30) DEF Keeps, Gone, About, MayThrow
  <2>5. Judges("explicit", i)
    BY <1>1, <2>1, SMTT(30) DEF Judges, About, Loops
  <2> QED
    BY <2>2, <2>3, <2>4, <2>5 DEF Proper
<1> QED
  BY <1>1, <1>2, <1>3

LEMMA QualityProper ==
  /\ Last("quality") = 38 /\ Bounds("quality")
  /\ \A i \in 1 .. 38 : Proper("quality", i)
<1> USE DEF Quality, Lifecycle, Do, Raise, None
<1>1. Last("quality") = 38 /\ ScriptOf("quality") = Quality
  BY SMTT(30) DEF Last, ScriptOf
<1> USE DEF Op, Of, Fin, Lives, Open, Due, Ran, Tested, Doubt, ToClose, Closing
<1>2. Bounds("quality")
  BY <1>1, SMTT(30) DEF Bounds, FirstLoop, Loops
<1>3. ASSUME NEW i \in 1 .. 38
      PROVE  Proper("quality", i)
  <2>1. /\ i \in Nat /\ i + 1 \in Nat
        /\ Fin("quality", i) \in Nat /\ i + Fin("quality", i) <= 38
    BY <1>1, SMTT(30)
  <2>2. Flow("quality", i)
    BY <1>1, <2>1, SMTT(30) DEF Flow, Loops, Session
  <2>3. Roles("quality", i)
    BY <1>1, <2>1, SMTT(30) DEF Roles, FirstLoop, Loops, Seals
  <2>4. Keeps("quality", i)
    BY <1>1, <2>1, SMTT(30) DEF Keeps, Gone, About, MayThrow
  <2>5. Judges("quality", i)
    BY <1>1, <2>1, SMTT(30) DEF Judges, About, Loops
  <2> QED
    BY <2>2, <2>3, <2>4, <2>5 DEF Proper
<1> QED
  BY <1>1, <1>2, <1>3

(* Hence of all of them. *)
LEMMA ProperAt ==
  ASSUME NEW p \in Programs, NEW i \in 1 .. Last(p)
  PROVE  Proper(p, i)
BY RunnerProper, SelfTestProper, BenchmarkProper, PromotionProper, CdnProper,
   ExplicitProper, QualityProper DEF Programs

(* And of its ends. *)
LEMMA BoundsOf ==
  ASSUME NEW p \in Programs
  PROVE  Bounds(p)
BY RunnerProper, SelfTestProper, BenchmarkProper, PromotionProper, CdnProper,
   ExplicitProper, QualityProper DEF Programs

(* The running program has a script, and its step a place in it.           *)
LEMMA AtHere ==
  ASSUME DriverTypeOK
  PROVE  /\ prog \in Programs /\ Bounds(prog)
         /\ line <= Last(prog) => line \in 1 .. Last(prog) /\ Proper(prog, line)
<1>1. prog \in Programs /\ line \in 1 .. Last(prog) + 1
  BY BoundAssumption DEF DriverTypeOK, Script, Last
<1>2. Last(prog) \in Nat
  BY <1>1, BoundsOf DEF Bounds
<1> QED
  BY <1>1, <1>2, ProperAt, BoundsOf

-------------------------------------------------------------------------------
(* The moves: what a step does to the control and to the sessions.         *)

(* A throw ends in the finally block, at the step that seals the failure,  *)
(* or in the end of the process.                                           *)
Falls ==
  /\ status = Running /\ line \in 1 .. Last(prog) /\ MayThrow(prog, line)
  /\ calls' = 0 /\ told' = told /\ exit' = exit
  /\ \/ /\ Fin(prog, line) > 0 /\ line' = line + Fin(prog, line)
        /\ threw' = TRUE /\ failed' = failed /\ status' = status
     \/ /\ Fin(prog, line) = 0 /\ line' \in line + 1 .. Last(prog)
        /\ Op(prog, line') \in Seals
        /\ threw' = FALSE /\ failed' = TRUE /\ status' = status
     \/ /\ Fin(prog, line) = 0 /\ line' = line
        /\ threw' = TRUE /\ failed' = failed /\ status' = 1

(* That is what Throw does where the code may throw. *)
LEMMA ThrowFalls ==
  ASSUME DriverTypeOK, status = Running, line <= Last(prog), MayThrow(prog, line),
         Throw
  PROVE  Falls
<1>1. prog \in Programs /\ line \in 1 .. Last(prog)
  BY BoundAssumption DEF DriverTypeOK, Script, Last
<1>2. Last(prog) \in Nat /\ Fin(prog, line) \in Nat
  BY <1>1, ProperAt, BoundsOf DEF Proper, Flow, Bounds
<1>3. ASSUME NEW j \in Sealing
      PROVE  j \in line + 1 .. Last(prog) /\ Op(prog, j) \in Seals
  BY <1>1, <1>2, <1>3 DEF Sealing, Script, Last, Op, Seals
<1> QED
  BY <1>1, <1>2, <1>3 DEF Throw, Falls, Script, Fin

(* The next step, with or without an exception pending. *)
Advances ==
  /\ status = Running /\ line \in 1 .. Last(prog)
  /\ line' = line + 1 /\ calls' = 0 /\ threw' = threw /\ status' = status

(* That is what Step does. *)
LEMMA StepAdvances ==
  ASSUME DriverTypeOK, status = Running, line <= Last(prog), Step
  PROVE  Advances
BY AtHere DEF Advances, Step, Running

(* The step is not left. *)
Waits == UNCHANGED <<line, threw, failed, told, exit, status>>

(* One run call: the guest exits, or the loop gives up, or it goes on.     *)
LEMMA SliceDoes ==
  ASSUME DriverTypeOK, Slice
  PROVE  /\ line \in 1 .. Last(prog) /\ status = Running /\ Op(prog, line) \in Loops
         /\ \/ /\ Falls
               /\ \/ Op(prog, line) = "run" /\ calls = Bound
                  \/ /\ Op(prog, line) = "for"
                     /\ Bound <= calls + 1 /\ calls + 1 # needs
            \/ /\ Advances /\ UNCHANGED <<failed, told, exit>>
               /\ calls + 1 = needs /\ exited' = exited \cup {Of(prog, line)}
               /\ Op(prog, line) = "run" => calls < Bound
            \/ /\ Advances /\ UNCHANGED <<failed, told, exit>>
               /\ Op(prog, line) = "while"
               /\ Bound <= calls + 1 /\ calls + 1 # needs /\ exited' = exited
            \/ /\ Waits /\ calls' = calls + 1 /\ calls' # needs /\ exited' = exited
               /\ calls < Bound
               /\ Op(prog, line) \in {"for", "while"} => calls' < Bound
<1>1. /\ line \in 1 .. Last(prog) /\ status = Running /\ Op(prog, line) \in Loops
  BY AtHere DEF Slice, At, Script, Op, Last, Loops
<1>2. calls \in 0 .. Bound /\ Bound \in Nat /\ needs \in Nat
  BY BoundAssumption DEF DriverTypeOK
<1>3. MayThrow(prog, line)
  BY <1>1 DEF MayThrow, Loops
<1>4. CASE Op(prog, line) = "run" /\ calls = Bound
  <2>1. Throw
    BY <1>1, <1>4 DEF Slice, At, Script, Op, Last
  <2> QED BY <1>1, <1>3, <1>4, <2>1, ThrowFalls
<1>5. CASE calls + 1 = needs /\ ~(Op(prog, line) = "run" /\ calls = Bound)
  <2>1. Step /\ UNCHANGED verdict /\ exited' = exited \cup {Of(prog, line)}
    BY <1>1, <1>5 DEF Slice, At, Script, Op, Last, S, Of
  <2> QED BY <1>1, <1>2, <1>5, <2>1, StepAdvances DEF verdict
<1>6. CASE /\ calls + 1 # needs /\ ~(Op(prog, line) = "run" /\ calls = Bound)
           /\ calls + 1 < Bound \/ Op(prog, line) = "run"
  <2>1. calls' = calls + 1 /\ Waits /\ exited' = exited
    BY <1>1, <1>6 DEF Slice, At, Script, Op, Last, Waits, verdict
  <2> QED BY <1>1, <1>2, <1>6, <2>1
<1>7. CASE /\ calls + 1 # needs /\ ~(Op(prog, line) = "run" /\ calls = Bound)
           /\ ~(calls + 1 < Bound \/ Op(prog, line) = "run")
  <2>1. StepOrThrow(Op(prog, line) = "while") /\ exited' = exited
    BY <1>1, <1>7 DEF Slice, At, Script, Op, Last
  <2>2. CASE Op(prog, line) = "while"
    <3>1. Step /\ UNCHANGED verdict
      BY <2>1, <2>2 DEF StepOrThrow
    <3> QED BY <1>1, <1>2, <1>7, <2>1, <2>2, <3>1, StepAdvances DEF verdict
  <2>3. CASE Op(prog, line) = "for"
    <3>1. Throw
      BY <2>1, <2>3 DEF StepOrThrow
    <3> QED BY <1>1, <1>2, <1>3, <1>7, <2>3, <3>1, ThrowFalls
  <2> QED BY <1>1, <1>7, <2>2, <2>3 DEF Loops
<1> QED
  BY <1>4, <1>5, <1>6, <1>7

(* What is given to a program does not change. *)
Same == UNCHANGED <<prog, deno, fits, needs, code>>

(* Why a step throws that the core had no part in. *)
Reason ==
  \/ Op(prog, line) = "raise" /\ threw
  \/ Op(prog, line) = "run" /\ calls = Bound
  \/ Op(prog, line) = "for" /\ Bound <= calls + 1 /\ calls + 1 # needs
  \/ Op(prog, line) = "ask" /\ Of(prog, line) \notin exited \ bad
  \/ Op(prog, line) = "abi" /\ ~fits
  \/ Op(prog, line) = "none" /\ live # {}

(* A throw loses no handle of a session that is not being destroyed, and   *)
(* without a fault it has one of those reasons.                            *)
FallMove ==
  /\ Falls
  /\ live' \ kept' \subseteq (live \ kept) \ About(prog, line, {"destroy"})
  /\ UNCHANGED <<bad, wrong>>
  /\ Op(prog, line) = "destroy" => Of(prog, line) \in kept'
  /\ faults' = 0 => faults = 0 /\ kept' = kept /\ Reason

(* What it takes to come to the next step, and what that changes. *)
AdvanceMove ==
  /\ Advances
  /\ live \ About(prog, line, {"destroy"}) \subseteq live'
  /\ live' \subseteq live \cup About(prog, line, {"create"})
  /\ live' \ kept' \subseteq
       ((live \ kept) \ About(prog, line, {"destroy"}))
       \cup About(prog, line, {"create"})
  /\ UNCHANGED wrong
  /\ bad' = bad \ About(prog, line, {"create"})
  /\ exited \ About(prog, line, {"create"}) \subseteq exited'
  /\ exited' \subseteq exited \cup About(prog, line, Loops)
  /\ Op(prog, line) \in Loops =>
       \/ calls + 1 = needs /\ Of(prog, line) \in exited'
       \/ Op(prog, line) = "while" /\ Bound <= calls + 1 /\ calls + 1 # needs
  /\ Op(prog, line) \in Loops /\ exited' # exited => calls + 1 = needs
  /\ Op(prog, line) = "run" => calls < Bound
  /\ Op(prog, line) = "raise" => ~threw
  /\ Op(prog, line) = "ask" => Of(prog, line) \in exited \ bad
  /\ Op(prog, line) = "note" => failed \/ failed' \/ Of(prog, line) \in exited \ bad
  /\ Op(prog, line) = "abi" => fits
  /\ Op(prog, line) = "none" => live = {}
  /\ Op(prog, line) = "leave" => ~deno
  /\ failed => failed'
  /\ ~failed /\ failed' =>
       \/ Op(prog, line) = "note" /\ Of(prog, line) \notin exited \ bad
       \/ Op(prog, line) = "count" /\ live # {}
       \/ Op(prog, line) = "limits" /\ faults' # 0
  /\ exit' = CASE Op(prog, line) = "verdict" -> IF failed THEN 1 ELSE exit
               [] Op(prog, line) = "leave" -> code
               [] OTHER -> exit
  /\ told' = CASE Op(prog, line) \in {"tell", "seal", "count"} ->
                    IF failed' THEN "failed" ELSE "ok"
               [] Op(prog, line) = "read" /\ prog = "run" -> "output"
               [] OTHER -> told
  /\ faults' = 0 => faults = 0 /\ kept' = kept

(* Between two calls of a loop. *)
Stays ==
  /\ status = Running /\ line \in 1 .. Last(prog) /\ Op(prog, line) \in Loops
  /\ Waits /\ UNCHANGED <<live, kept, exited>>

(* A run call after which the guest has not exited. *)
WaitMove ==
  /\ Stays /\ UNCHANGED <<bad, wrong, faults>>
  /\ calls' = calls + 1 /\ calls' # needs /\ calls < Bound
  /\ Op(prog, line) \in {"for", "while"} => calls' < Bound

(* A guest goes wrong. *)
WrongMove ==
  /\ Stays /\ calls' = calls /\ faults' # 0
  /\ \E s \in live \ exited : bad' = bad \cup {s} /\ wrong' = wrong \cup {s}

(* Another round, or the end of the last one. *)
ReturnMove ==
  /\ status = Running /\ line \in 1 .. Last(prog) /\ Op(prog, line) = "again"
  /\ line' \in {1, line + 1} /\ calls' = 0
  /\ UNCHANGED <<threw, failed, told, exit, status>>
  /\ UNCHANGED <<live, kept, exited, bad, wrong, faults>>

(* The process ends by itself. *)
EndMove ==
  /\ status = Running /\ UNCHANGED <<line, threw, calls, failed, told>>
  /\ UNCHANGED <<live, kept, exited, bad, wrong, faults>>
  /\ \/ line = Last(prog) + 1 /\ exit' = exit /\ status' = exit % 256
     \/ /\ line \in 1 .. Last(prog) /\ Op(prog, line) = "leave" /\ deno
        /\ exit' = code /\ status' = code % 256

Move == FallMove \/ AdvanceMove \/ WaitMove \/ WrongMove \/ ReturnMove \/ EndMove

(* Every action is one of the moves.                                       *)
LEMMA Moves ==
  ASSUME DriverTypeOK, DriverNext
  PROVE  Same /\ Move
<1>0. Last(prog) \in Nat /\ (line <= Last(prog) => line \in 1 .. Last(prog))
  BY AtHere DEF Bounds, Proper, Last
<1>b. faults \in Nat
  BY BoundAssumption DEF DriverTypeOK
<1>s. Same
  BY DEF DriverNext, EndFinally, Again, Finish, Create, Slice, Ask, Note, Simple,
     Destroy, NoneLeft, Tell, Verdict, Leave, Trap, GoWrong, Admit, DestroyFault,
     Slow, Fault, Same, args
<1> USE <1>0, <1>b, <1>s, ThrowFalls, StepAdvances
<1> USE DEF At, Script, Op, Of, Last, StepOrThrow, verdict, core, MayThrow, About,
            Loops, Move
<1>1. CASE EndFinally
  BY <1>1 DEF EndFinally, FallMove, AdvanceMove, Reason
<1>2. CASE Again
  BY <1>2 DEF Again, ReturnMove
<1>3. CASE Finish
  BY <1>3 DEF Finish, EndMove
<1>4. CASE Create
  BY <1>4 DEF Create, AdvanceMove, S
<1>5. CASE Slice
  <2>1. /\ line \in 1 .. Last(prog) /\ status = Running
        /\ Op(prog, line) \in Loops
        /\ UNCHANGED <<live, bad, kept, wrong, faults>>
    BY <1>5, SliceDoes DEF Slice
  <2>2. CASE /\ Falls
             /\ \/ Op(prog, line) = "run" /\ calls = Bound
                \/ Op(prog, line) = "for" /\ Bound <= calls + 1 /\ calls + 1 # needs
    BY <2>1, <2>2 DEF FallMove, Reason
  <2>3. CASE /\ Advances /\ UNCHANGED <<failed, told, exit>>
             /\ calls + 1 = needs /\ exited' = exited \cup {Of(prog, line)}
             /\ Op(prog, line) = "run" => calls < Bound
    BY <2>1, <2>3 DEF AdvanceMove
  <2>4. CASE /\ Advances /\ UNCHANGED <<failed, told, exit>>
             /\ Op(prog, line) = "while" /\ Bound <= calls + 1 /\ calls + 1 # needs
             /\ exited' = exited
    BY <2>1, <2>4 DEF AdvanceMove
  <2>5. CASE /\ Waits /\ calls' = calls + 1 /\ calls' # needs /\ exited' = exited
             /\ calls < Bound
             /\ Op(prog, line) \in {"for", "while"} => calls' < Bound
    BY <2>1, <2>5 DEF WaitMove, Waits, Stays
  <2> QED
    BY <1>5, <2>2, <2>3, <2>4, <2>5, SliceDoes
<1>6. CASE Ask
  BY <1>6 DEF Ask, FallMove, AdvanceMove, Reason, S
<1>7. CASE Note
  BY <1>7 DEF Note, AdvanceMove, S
<1>8. CASE Simple
  BY <1>8 DEF Simple, FallMove, AdvanceMove, Reason
<1>9. CASE Destroy
  BY <1>9 DEF Destroy, AdvanceMove, S
<1>10. CASE NoneLeft
  BY <1>10 DEF NoneLeft, FallMove, AdvanceMove, Reason
<1>11. CASE Tell
  BY <1>11 DEF Tell, AdvanceMove
<1>12. CASE Verdict
  BY <1>12 DEF Verdict, AdvanceMove
<1>13. CASE Leave
  BY <1>13 DEF Leave, AdvanceMove, EndMove
<1>14. CASE Trap
  <2>1. Falls
    BY <1>14 DEF Trap, Fault, Judged
  <2>2. live' \subseteq live \cup kept' /\ kept \subseteq kept' /\ faults' # 0
    BY <1>14 DEF Trap, Fault
  <2>3. Op(prog, line) # "destroy" /\ UNCHANGED <<bad, wrong>>
    BY <1>14 DEF Trap, Fault, Judged
  <2> QED
    BY <2>1, <2>2, <2>3 DEF FallMove
<1>15. CASE GoWrong
  BY <1>15 DEF GoWrong, Fault, WrongMove, Stays, Waits
<1>16. CASE Admit
  <2>1. Falls
    BY <1>16 DEF Admit, Fault
  <2>2. live' \subseteq live \cup kept' /\ kept \subseteq kept' /\ faults' # 0
    BY <1>16 DEF Admit, Fault
  <2>3. Op(prog, line) # "destroy" /\ UNCHANGED <<bad, wrong>>
    BY <1>16 DEF Admit, Fault
  <2> QED
    BY <2>1, <2>2, <2>3 DEF FallMove
<1>17. CASE DestroyFault
  BY <1>17 DEF DestroyFault, Fault, FallMove, AdvanceMove, S
<1>18. CASE Slow
  BY <1>18 DEF Slow, Fault, AdvanceMove
<1> QED
  BY <1>1, <1>2, <1>3, <1>4, <1>5, <1>6, <1>7, <1>8, <1>9, <1>10, <1>11, <1>12,
     <1>13, <1>14, <1>15, <1>16, <1>17, <1>18 DEF DriverNext

-------------------------------------------------------------------------------
(* Types.                                                                  *)

(* The control variables after a step.                                     *)
Moved ==
  /\ line' \in 1 .. Last(prog) + 1 /\ calls' \in 0 .. Bound
  /\ threw' \in BOOLEAN /\ failed' \in BOOLEAN
  /\ told' \in {"nothing", "output", "ok", "failed"}
  /\ exit' \in Nat /\ status' \in 0 .. 255 \cup {Running}

(* They have their types after a throw. *)
LEMMA FallsMoved ==
  ASSUME DriverTypeOK, Falls
  PROVE  Moved
<1>1. /\ Last(prog) \in Nat /\ Fin(prog, line) \in Nat
      /\ line + Fin(prog, line) <= Last(prog)
  BY AtHere DEF Bounds, Proper, Flow, Falls
<1>2. line \in Nat
  BY DEF DriverTypeOK
<1>3. Bound \in Nat BY BoundAssumption
<1>4. /\ calls' \in 0 .. Bound /\ exit' \in Nat
      /\ told' \in {"nothing", "output", "ok", "failed"}
  BY <1>3 DEF Falls, DriverTypeOK
<1>5. line' \in 1 .. Last(prog) + 1
  BY <1>1, <1>2 DEF Falls
<1>6. threw' \in BOOLEAN
  BY DEF Falls
<1>7. failed' \in BOOLEAN
  BY DEF Falls, DriverTypeOK
<1>8. status' \in 0 .. 255 \cup {Running}
  BY DEF Falls, DriverTypeOK
<1> QED BY <1>4, <1>5, <1>6, <1>7, <1>8 DEF Moved

(* And after a step. *)
LEMMA AdvancesMoved ==
  ASSUME DriverTypeOK, Advances, failed' \in BOOLEAN, exit' \in Nat,
         told' \in {"nothing", "output", "ok", "failed"}
  PROVE  Moved
<1>1. Last(prog) \in Nat
  BY AtHere DEF Bounds
<1>3. Bound \in Nat BY BoundAssumption
<1> QED BY <1>1, <1>3 DEF Advances, Moved, DriverTypeOK

(* Every action leaves the control variables in their types.               *)
LEMMA MovedStep ==
  ASSUME DriverTypeOK, DriverNext
  PROVE  Moved
<1>1. Last(prog) \in Nat /\ (line <= Last(prog) => line \in 1 .. Last(prog))
  BY AtHere DEF Bounds
<1>2. Bound \in Nat \ {0} /\ code \in Nat
  BY BoundAssumption DEF DriverTypeOK
<1>3. /\ threw \in BOOLEAN /\ failed \in BOOLEAN /\ exit \in Nat
      /\ told \in {"nothing", "output", "ok", "failed"}
  BY DEF DriverTypeOK
<1> USE <1>1, <1>2, <1>3, ThrowFalls, StepAdvances, FallsMoved, AdvancesMoved
<1> USE DEF At, Script, Op, Last, StepOrThrow, verdict, MayThrow
<1>4. CASE EndFinally
  BY <1>4 DEF EndFinally
<1>5. CASE Again
  BY <1>5 DEF Again, Moved, DriverTypeOK
<1>6. CASE Finish
  BY <1>6 DEF Finish, Moved, DriverTypeOK
<1>7. CASE Create
  BY <1>7 DEF Create
<1>8. CASE Slice
  <2>1. CASE Waits /\ calls' = calls + 1 /\ calls < Bound
    BY <2>1 DEF Waits, Moved, DriverTypeOK
  <2> QED BY <1>8, <2>1, SliceDoes
<1>9. CASE Ask
  BY <1>9 DEF Ask
<1>10. CASE Note
  BY <1>10 DEF Note
<1>11. CASE Simple
  BY <1>11 DEF Simple
<1>12. CASE Destroy
  BY <1>12 DEF Destroy
<1>13. CASE NoneLeft
  BY <1>13 DEF NoneLeft
<1>14. CASE Tell
  BY <1>14 DEF Tell
<1>15. CASE Verdict
  BY <1>15 DEF Verdict
<1>16. CASE Leave
  <2>1. code % 256 \in 0 .. 255 /\ line \in 1 .. Last(prog)
    BY <1>16 DEF Leave
  <2>2. CASE deno
    BY <1>16, <2>1, <2>2 DEF Leave, Moved, DriverTypeOK
  <2>3. CASE ~deno
    BY <1>16, <2>3 DEF Leave
  <2> QED
    BY <2>2, <2>3
<1>17. CASE Trap
  BY <1>17 DEF Trap, Judged
<1>18. CASE GoWrong
  BY <1>18 DEF GoWrong, Moved, DriverTypeOK
<1>19. CASE Admit
  BY <1>19 DEF Admit
<1>20. CASE DestroyFault
  BY <1>20 DEF DestroyFault
<1>21. CASE Slow
  BY <1>21 DEF Slow
<1> QED
  BY <1>4, <1>5, <1>6, <1>7, <1>8, <1>9, <1>10, <1>11, <1>12, <1>13, <1>14, <1>15,
     <1>16, <1>17, <1>18, <1>19, <1>20, <1>21 DEF DriverNext

(* The rounds, the faults and the sessions. *)
DataOK ==
  /\ round \in 1 .. Rounds /\ faults \in 0 .. MaxFaults
  /\ live \subseteq Session /\ exited \subseteq Session /\ bad \subseteq Session
  /\ kept \subseteq Session /\ wrong \subseteq Session

(* Every step keeps the data in its types. *)
LEMMA DataStep ==
  ASSUME DriverTypeOK, DriverNext
  PROVE  DataOK'
<1>1. DataOK
  BY DEF DriverTypeOK, DataOK
<1>2. ASSUME line <= Len(Script)
      PROVE  Script[line].op \in Loops \cup {"create", "destroy"} => S \in Session
  BY <1>2, AtHere DEF Proper, Flow, Op, Of, Script, Last, S
<1>3. "stray" \in Session
  BY DEF Session
<1>4. Rounds \in Nat /\ MaxFaults \in Nat
  BY BoundAssumption
<1> USE <1>1, <1>2, <1>3, <1>4 DEF DataOK, At, Loops, core
<1>5. CASE EndFinally \/ Again \/ Finish \/ Ask \/ Note \/ Simple \/ NoneLeft \/ Tell
           \/ Verdict \/ Leave
  BY <1>5
    DEF EndFinally, Again, Finish, Ask, Note, Simple, NoneLeft, Tell, Verdict, Leave
<1>6. CASE Create
  BY <1>6 DEF Create
<1>7. CASE Slice
  BY <1>7 DEF Slice
<1>8. CASE Destroy
  BY <1>8 DEF Destroy
<1>9. CASE Trap
  BY <1>9 DEF Trap, Fault
<1>10. CASE GoWrong
  BY <1>10 DEF GoWrong, Fault
<1>11. CASE Admit
  BY <1>11 DEF Admit, Fault
<1>12. CASE DestroyFault
  BY <1>12 DEF DestroyFault, Fault
<1>13. CASE Slow
  BY <1>13 DEF Slow, Fault
<1> QED
  BY <1>5, <1>6, <1>7, <1>8, <1>9, <1>10, <1>11, <1>12, <1>13 DEF DriverNext

(* Every step keeps every variable of the programs in its type. *)
LEMMA DriverTypeStep ==
  ASSUME DriverTypeOK, [DriverNext]_driverVars
  PROVE  DriverTypeOK'
<1>1. CASE UNCHANGED driverVars
  BY <1>1 DEF driverVars, args, core, verdict, DriverTypeOK, Script
<1>2. CASE DriverNext
  <2>1. Moved /\ DataOK' /\ Same
    BY <1>2, MovedStep, DataStep, Moves
  <2>2. /\ prog' \in Program /\ needs' \in Needs /\ code' \in Codes
        /\ deno' \in BOOLEAN /\ fits' \in BOOLEAN
        /\ line' \in 1 .. Len(ScriptOf(prog')) + 1
    BY <2>1 DEF Same, DriverTypeOK, Moved, Last
  <2> QED
    BY <2>1, <2>2 DEF Moved, DataOK, DriverTypeOK, Script
<1> QED
  BY <1>1, <1>2

-------------------------------------------------------------------------------
(* Each part of the invariant, move by move.                               *)

(* A loop is entered with no calls made, and a call less is left after     *)
(* each.                                                                   *)
LEMMA LoopingMove ==
  ASSUME DriverTypeOK, Looping, Same, Move
  PROVE  Looping'
<1>1. calls \in Nat /\ needs \in Nat \ {0} /\ Bound \in Nat \ {0}
  BY BoundAssumption DEF DriverTypeOK
<1>2. CASE FallMove \/ AdvanceMove \/ ReturnMove
  BY <1>1, <1>2
    DEF FallMove, Falls, AdvanceMove, Advances, ReturnMove, Same, Looping
<1>3. CASE WaitMove
  BY <1>1, <1>3 DEF WaitMove, Stays, Waits, Same, Looping, Loops
<1>4. CASE WrongMove
  BY <1>4 DEF WrongMove, Stays, Waits, Same, Looping
<1>5. CASE EndMove
  BY <1>5 DEF EndMove, Same, Looping, DriverTypeOK, Running
<1> QED
  BY <1>2, <1>3, <1>4, <1>5 DEF Move

(* A finally block is left by rethrowing.                                  *)
LEMMA ClosingsMove ==
  ASSUME DriverTypeOK, Closings, Same, Move
  PROVE  Closings'
<1>1. line \in 1 .. Last(prog) => Flow(prog, line)
  BY AtHere DEF Proper
<1>2. CASE FallMove
  BY <1>1, <1>2 DEF FallMove, Falls, Same, Closings, Flow, Running
<1>3. CASE AdvanceMove
  BY <1>1, <1>3 DEF AdvanceMove, Advances, Same, Closings, Flow
<1>4. CASE ReturnMove
  BY <1>1, <1>4 DEF ReturnMove, Same, Closings, Flow
<1>5. CASE WaitMove \/ WrongMove
  BY <1>5 DEF WaitMove, WrongMove, Stays, Waits, Same, Closings
<1>6. CASE EndMove
  BY <1>6 DEF EndMove, Same, Closings
<1> QED
  BY <1>2, <1>3, <1>4, <1>5, <1>6 DEF Move

(* Nothing is pending where a process ends by itself.                      *)
LEMMA EndingsMove ==
  ASSUME DriverTypeOK, Closings, Endings, Same, Move
  PROVE  Endings'
<1>1. /\ line \in 1 .. Last(prog) => Flow(prog, line) /\ Roles(prog, line)
      /\ ~Closing(prog, Last(prog) + 1)
  BY AtHere DEF Proper, Bounds
<1>2. CASE FallMove
  BY <1>1, <1>2 DEF FallMove, Falls, Same, Endings
<1>3. CASE AdvanceMove \/ ReturnMove \/ WaitMove \/ WrongMove
  BY <1>3
    DEF AdvanceMove, Advances, ReturnMove, WaitMove, WrongMove, Stays, Waits, Same, Endings
<1>4. CASE EndMove
  <2>1. ~threw
    BY <1>1, <1>4 DEF EndMove, Closings, Flow
  <2> QED
    BY <1>1, <1>4, <2>1 DEF EndMove, Same, Endings, Roles
<1> QED
  BY <1>2, <1>3, <1>4 DEF Move

(* A step that leaves a try leads into the block that destroys what is     *)
(* open, or nothing is.                                                    *)
LEMMA LeftMove ==
  ASSUME DriverTypeOK, Left, Same, Move
  PROVE  Left'
<1>1. line \in 1 .. Last(prog) => Keeps(prog, line)
  BY AtHere DEF Proper
<1>2. ASSUME NEW j \in line + 1 .. Last(prog), Op(prog, j) \in Seals, line \in Nat
      PROVE  prog # "quality"
  <2>1. Last(prog) \in Nat
    BY AtHere DEF Bounds
  <2>2. j \in 1 .. Last(prog)
    BY <1>2, <2>1
  <2> QED
    BY <1>2, <2>2, AtHere, ProperAt DEF Proper, Roles
<1>3. CASE FallMove
  BY <1>1, <1>2, <1>3 DEF FallMove, Falls, Same, Left, Keeps, Gone
<1>4. CASE AdvanceMove
  BY <1>1, <1>4 DEF AdvanceMove, Advances, Same, Left, Keeps, Gone
<1>5. CASE ReturnMove
  BY <1>1, <1>5 DEF ReturnMove, Same, Left, Keeps
<1>6. CASE WaitMove \/ WrongMove \/ EndMove
  BY <1>6 DEF WaitMove, WrongMove, EndMove, Stays, Waits, Same, Left
<1> QED
  BY <1>3, <1>4, <1>5, <1>6 DEF Move

(* A session that is not open any more is in doubt until it is counted.    *)
LEMMA CountedMove ==
  ASSUME DriverTypeOK, Counted, Same, Move
  PROVE  Counted'
<1>1. line \in 1 .. Last(prog) => Keeps(prog, line) /\ Judges(prog, line)
  BY AtHere DEF Proper
<1>3. CASE FallMove
  BY <1>3 DEF FallMove, Falls, Counted
<1>4. CASE AdvanceMove
  BY <1>1, <1>4 DEF AdvanceMove, Advances, Same, Counted, Keeps, Gone, Judges, About
<1>5. CASE ReturnMove
  BY <1>1, <1>5 DEF ReturnMove, Same, Counted, Keeps, Judges
<1>6. CASE WaitMove \/ WrongMove \/ EndMove
  BY <1>6 DEF WaitMove, WrongMove, EndMove, Stays, Waits, Same, Counted
<1> QED
  BY <1>3, <1>4, <1>5, <1>6 DEF Move

(* A guest can go wrong only where it is still to be judged, or where a    *)
(* session the core has kept is still to be counted.                       *)
LEMMA JudgingMove ==
  ASSUME DriverTypeOK, Closings, Counted, Judging, Same, Move
  PROVE  Judging'
<1>1. line \in 1 .. Last(prog) =>
        Flow(prog, line) /\ Keeps(prog, line) /\ Judges(prog, line)
  BY AtHere DEF Proper
<1>2. Tested(prog, 1) = {}
  BY AtHere DEF Bounds
<1>3. CASE FallMove
  BY <1>3 DEF FallMove, Falls, Judging
<1>4. CASE AdvanceMove
  BY <1>1, <1>4
    DEF AdvanceMove, Advances, Same, Gate, Judging, Keeps, Gone, Judges, About
<1>5. CASE ReturnMove
  <2>1. /\ Due(prog, line) = {} /\ Doubt(prog, line) = {}
        /\ Gate => Tested(prog, line') \subseteq Tested(prog, line)
    BY <1>1, <1>2, <1>5 DEF ReturnMove, Judges, Gate, About
  <2> QED
    BY <1>5, <2>1 DEF ReturnMove, Same, Gate, Judging
<1>6. CASE WrongMove
  BY <1>1, <1>6 DEF WrongMove, Stays, Waits, Same, Gate, Judging, Counted, Judges
<1>7. CASE WaitMove \/ EndMove
  BY <1>7 DEF WaitMove, EndMove, Stays, Waits, Same, Gate, Judging
<1> QED
  BY <1>3, <1>4, <1>5, <1>6, <1>7 DEF Move

(* A failure is recorded before the verdict.                               *)
LEMMA VerdictsMove ==
  ASSUME DriverTypeOK, Verdicts, Same, Move
  PROVE  Verdicts'
<1>1. /\ line \in 1 .. Last(prog) => Flow(prog, line) /\ Roles(prog, line)
      /\ Last(prog) \in Nat /\ Last(prog) > 1 /\ line \in Nat
  BY AtHere DEF Proper, Bounds, FirstLoop, DriverTypeOK
<1>2. ASSUME NEW j \in line + 1 .. Last(prog), Op(prog, j) \in Seals
      PROVE  Gate /\ Op(prog, Last(prog)) = "verdict"
  <2>1. j \in 1 .. Last(prog)
    BY <1>1
  <2> QED
    BY <1>2, <2>1, AtHere, ProperAt DEF Proper, Roles, Seals, Gate
<1>3. CASE FallMove
  <2>1. /\ line' <= Last(prog) /\ line <= Last(prog) /\ exit' = exit
    BY <1>1, <1>3 DEF FallMove, Falls, Flow
  <2>2. failed' = failed \/ (Gate /\ Op(prog, Last(prog)) = "verdict")
    BY <1>2, <1>3 DEF FallMove, Falls
  <2> QED
    BY <1>1, <2>1, <2>2 DEF Same, Gate, Verdicts
<1>4. CASE AdvanceMove
  <2>1. failed' => Gate /\ Op(prog, Last(prog)) = "verdict"
    <3>1. CASE failed
      BY <3>1 DEF Verdicts
    <3>2. CASE ~failed
      <4>1. failed' => Op(prog, line) \in {"note", "count", "limits"}
        BY <1>4, <3>2 DEF AdvanceMove
      <4> QED
        BY <1>1, <1>4, <4>1 DEF AdvanceMove, Advances, Roles, Seals, Gate
    <3> QED
      BY <3>1, <3>2
  <2>2. CASE line = Last(prog)
    BY <1>1, <1>4, <2>1, <2>2 DEF AdvanceMove, Advances, Same, Gate, Verdicts, Roles
  <2>3. CASE line < Last(prog)
    BY <1>1, <1>4, <2>1, <2>3 DEF AdvanceMove, Advances, Same, Gate, Verdicts, Roles
  <2> QED
    BY <1>1, <1>4, <2>2, <2>3 DEF AdvanceMove, Advances
<1>5. CASE ReturnMove
  BY <1>1, <1>5 DEF ReturnMove, Same, Gate, Verdicts
<1>6. CASE WrongMove \/ WaitMove \/ EndMove
  BY <1>1, <1>6
    DEF WrongMove, WaitMove, EndMove, Stays, Waits, Same, Gate, Verdicts, Roles
<1> QED
  BY <1>3, <1>4, <1>5, <1>6 DEF Move

(* The ABI is the first thing a program looks at.                          *)
LEMMA AbiMove ==
  ASSUME DriverTypeOK, Abi, Same, Move
  PROVE  Abi'
<1>1. line \in 1 .. Last(prog) => Flow(prog, line) /\ Roles(prog, line)
  BY AtHere DEF Proper
<1>3. CASE FallMove
  BY <1>1, <1>3 DEF FallMove, Falls, Same, Abi, Flow, Roles
<1>4. CASE AdvanceMove
  BY <1>1, <1>4 DEF AdvanceMove, Advances, Same, Abi, Roles
<1>5. CASE ReturnMove
  BY <1>1, <1>5 DEF ReturnMove, Same, Abi, Roles
<1>6. CASE WrongMove \/ WaitMove \/ EndMove
  BY <1>6 DEF WrongMove, WaitMove, EndMove, Stays, Waits, Same, Abi
<1> QED
  BY <1>3, <1>4, <1>5, <1>6 DEF Move

(* A program says ok when all is judged and counted.                       *)
LEMMA ReceiptsMove ==
  ASSUME DriverTypeOK, Closings, Counted, Judging, Receipts, Same, Move
  PROVE  Receipts'
<1>1. /\ line \in 1 .. Last(prog) => Flow(prog, line) /\ Roles(prog, line)
      /\ Last(prog) \in Nat /\ line \in Nat
  BY AtHere DEF Proper, Bounds, DriverTypeOK
<1>3. CASE FallMove
  <2>1. /\ told' = told /\ wrong' = wrong /\ line \in 1 .. Last(prog) /\ line' >= line
        /\ Op(prog, line) # "verdict"
    BY <1>1, <1>3 DEF FallMove, Falls, MayThrow, Flow
  <2>2. told = "ok" => prog = "self-test" /\ line > 5 /\ wrong = {}
    BY <1>1, <2>1 DEF Receipts
  <2>3. told = "ok" => line' > 5
    BY <1>1, <1>3, <2>1, <2>2 DEF FallMove, Falls, Flow
  <2> QED
    BY <2>1, <2>2, <2>3 DEF Same, Receipts
<1>4. CASE AdvanceMove
  <2>1. CASE Op(prog, line) \in {"tell", "seal", "count"}
    <3>1. ~threw /\ Gate
      BY <1>1, <1>4, <2>1
        DEF AdvanceMove, Advances, Closings, Flow, Roles, Seals, Gate
    <3>2. Due(prog, line) = {} /\ Doubt(prog, line) = {}
      BY <1>1, <1>4, <2>1 DEF AdvanceMove, Advances, Roles
    <3>3. ~failed => wrong = {}
      BY <3>1, <3>2 DEF Judging
    <3>4. ~failed /\ prog # "self-test" => live = {}
      BY <1>1, <1>4, <2>1, <3>1, <3>2 DEF AdvanceMove, Advances, Counted, Roles
    <3> QED
      BY <1>1, <1>4, <2>1, <3>1, <3>3, <3>4
      DEF AdvanceMove, Advances, Same, Receipts, Roles, Gate, About
  <2>2. CASE Op(prog, line) \notin {"tell", "seal", "count"}
    BY <1>1, <1>4, <2>2
      DEF AdvanceMove, Advances, Same, Receipts, Roles, Gate, About
  <2> QED
    BY <2>1, <2>2
<1>5. CASE ReturnMove
  BY <1>1, <1>5 DEF ReturnMove, Same, Receipts, Roles
<1>6. CASE WrongMove \/ WaitMove
  BY <1>1, <1>6 DEF WrongMove, WaitMove, Stays, Waits, Same, Receipts, Roles, Loops
<1>7. CASE EndMove
  BY <1>7 DEF EndMove, Same, Gate, Receipts
<1> QED
  BY <1>3, <1>4, <1>5, <1>6, <1>7 DEF Move

(* The runner's steps follow each other.                                   *)
LEMMA RunnerMove ==
  ASSUME DriverTypeOK, RunnerSays, Same, Move
  PROVE  RunnerSays'
<1>1. /\ line \in 1 .. Last(prog) => Roles(prog, line)
      /\ Last(prog) \in Nat /\ line \in Nat
  BY AtHere DEF Proper, Bounds, DriverTypeOK
<1>2. ASSUME NEW j \in line + 1 .. Last(prog), Op(prog, j) \in Seals,
             line \in 1 .. Last(prog)
      PROVE  prog # "run"
  <2>1. j \in 1 .. Last(prog)
    BY <1>1, <1>2
  <2> QED
    BY <1>2, <2>1, AtHere, ProperAt DEF Proper, Roles
<1>3. CASE FallMove
  BY <1>2, <1>3 DEF FallMove, Falls, Same, RunnerSays
<1>4. CASE AdvanceMove
  <2>1. ASSUME prog = "run"
        PROVE  /\ line = 3 => "a" \in exited'
               /\ line # 2 => exited \subseteq exited'
               /\ told' = IF line = 4 THEN "output" ELSE told
               /\ line = 5 => ~deno
               /\ exit' = IF line = 5 THEN code ELSE exit
    BY <1>1, <1>4, <2>1 DEF AdvanceMove, Advances, Roles, Seals, Loops, About
  <2> QED
    BY <1>1, <1>4, <2>1 DEF AdvanceMove, Advances, Same, RunnerSays
<1>5. CASE ReturnMove
  BY <1>1, <1>5 DEF ReturnMove, Same, RunnerSays, Roles
<1>6. CASE WrongMove \/ WaitMove
  BY <1>6 DEF WrongMove, WaitMove, Stays, Waits, Same, RunnerSays
<1>7. CASE EndMove
  BY <1>1, <1>7 DEF EndMove, Same, RunnerSays, Roles
<1> QED
  BY <1>3, <1>4, <1>5, <1>6, <1>7 DEF Move

(* No bound is met too early, and none too late.                           *)
LEMMA FittingMove ==
  ASSUME DriverTypeOK, Looping, Left, Fitting, Same, Move
  PROVE  Fitting'
<1>1. /\ line \in 1 .. Last(prog) =>
           Roles(prog, line) /\ Keeps(prog, line) /\ Judges(prog, line)
      /\ Last(prog) \in Nat /\ line \in Nat /\ FirstLoop(prog) \in Nat
  BY AtHere DEF Proper, Bounds, DriverTypeOK, FirstLoop
<1>2. calls \in Nat /\ needs \in Nat /\ Bound \in Nat /\ calls < needs
  BY BoundAssumption DEF DriverTypeOK, Looping
<1>3. Ran(prog, 1) = {}
  BY AtHere DEF Bounds
<1>s. SUFFICES ASSUME faults' = 0, fits'
               PROVE  /\ kept' = {} /\ bad' = {}
                      /\ needs' <= Bound =>
                           ~threw' /\ ~failed' /\ Ran(prog', line') \subseteq exited'
                      /\ needs' > Bound =>
                           \/ threw' \/ failed'
                           \/ line' <= FirstLoop(prog') /\ exited' = {}
                           \/ /\ line' = FirstLoop(prog') + 1 /\ exited' = {}
                              /\ Op(prog', FirstLoop(prog')) = "while"
  BY DEF Fitting
<1>4. faults = 0 /\ fits /\ kept' = kept /\ kept = {} /\ bad = {}
  BY <1>s DEF Move, FallMove, AdvanceMove, WaitMove, WrongMove, ReturnMove, EndMove,
     Stays, Same, Fitting
<1>5. CASE FallMove
  <2>1. needs > Bound
    <3>1. SUFFICES ASSUME needs <= Bound PROVE FALSE
      BY <1>2
    <3>2. ~threw /\ Ran(prog, line) \subseteq exited
      BY <1>4, <3>1 DEF Fitting
    <3>3. Reason /\ line \in 1 .. Last(prog)
      BY <1>s, <1>5 DEF FallMove, Falls
    <3>4. Op(prog, line) = "none" => live = {}
      BY <1>1, <1>4, <3>3 DEF Left, Keeps
    <3>5. Op(prog, line) = "ask" => Of(prog, line) \in exited \ bad
      BY <1>1, <1>4, <3>2, <3>3 DEF Judges
    <3> QED
      BY <1>2, <1>4, <3>1, <3>2, <3>3, <3>4, <3>5 DEF Reason
  <2> QED
    BY <1>2, <1>4, <1>5, <2>1 DEF FallMove, Falls, Same
<1>6. CASE AdvanceMove
  <2>0. line \in 1 .. Last(prog) /\ line' = line + 1 /\ bad' = {}
    BY <1>4, <1>6 DEF AdvanceMove, Advances
  <2>1. ASSUME needs <= Bound
        PROVE  ~threw' /\ ~failed' /\ Ran(prog, line + 1) \subseteq exited'
    <3>1. ~threw /\ ~failed /\ Ran(prog, line) \subseteq exited
      BY <1>4, <2>1 DEF Fitting
    <3>2. Op(prog, line) = "note" => Of(prog, line) \in exited \ bad
      BY <1>1, <1>4, <2>0, <3>1 DEF Judges
    <3>3. Op(prog, line) = "count" => live = {}
      BY <1>1, <1>4, <2>0 DEF Left, Roles, Seals
    <3>4. ~threw' /\ ~failed'
      BY <1>s, <1>6, <3>1, <3>2, <3>3 DEF AdvanceMove, Advances
    <3>5. Op(prog, line) \in Loops => Of(prog, line) \in exited'
      BY <1>2, <1>6, <2>1 DEF AdvanceMove
    <3> QED
      BY <1>1, <1>6, <2>0, <3>1, <3>4, <3>5 DEF AdvanceMove, Judges, About, Loops
  <2>2. ASSUME needs > Bound
        PROVE  \/ threw' \/ failed'
               \/ line' <= FirstLoop(prog) /\ exited' = {}
               \/ /\ line' = FirstLoop(prog) + 1 /\ exited' = {}
                  /\ Op(prog, FirstLoop(prog)) = "while"
    <3>1. CASE threw \/ failed
      BY <1>6, <3>1 DEF AdvanceMove, Advances
    <3>2. Op(prog, line) \in Loops => calls + 1 # needs
      BY <1>2, <1>6, <2>0, <2>2 DEF AdvanceMove, Advances, Looping, Loops
    <3>3. exited = {} => exited' = {}
      BY <1>6, <3>2 DEF AdvanceMove, About
    <3>4. CASE line < FirstLoop(prog) /\ exited = {}
      BY <1>1, <2>0, <3>3, <3>4
    <3>5. CASE line = FirstLoop(prog) /\ exited = {}
      BY <1>6, <2>0, <3>2, <3>3, <3>5, AtHere DEF AdvanceMove, Bounds
    <3>6. CASE /\ line = FirstLoop(prog) + 1 /\ exited = {}
               /\ Op(prog, FirstLoop(prog)) = "while"
      BY <1>6, <3>6, AtHere DEF AdvanceMove, Bounds
    <3> QED
      BY <1>1, <1>4, <2>2, <3>1, <3>4, <3>5, <3>6 DEF Fitting
  <2> QED
    BY <1>4, <2>0, <2>1, <2>2 DEF Same
<1>7. CASE ReturnMove
  BY <1>1, <1>2, <1>3, <1>4, <1>7, AtHere
     DEF ReturnMove, Same, Fitting, Judges, About, Bounds, Loops
<1>8. CASE WrongMove \/ WaitMove \/ EndMove
  BY <1>s, <1>4, <1>8 DEF WrongMove, WaitMove, EndMove, Stays, Waits, Same, Fitting
<1> QED
  BY <1>5, <1>6, <1>7, <1>8 DEF Move

-------------------------------------------------------------------------------
(* The invariant holds when a program starts. *)
LEMMA DriverInitInv ==
  ASSUME DriverInit
  PROVE  DriverInv
<1>1. prog \in Programs /\ Bounds(prog)
  BY BoundAssumption, BoundsOf DEF DriverInit
<1>2. DriverTypeOK
  <2>1. line \in 1 .. Len(Script) + 1
    BY <1>1 DEF DriverInit, Bounds, Last, Script
  <2>2. round \in 1 .. Rounds /\ calls \in 0 .. Bound /\ faults \in 0 .. MaxFaults
    BY BoundAssumption DEF DriverInit
  <2> QED
    BY <2>1, <2>2 DEF DriverInit, DriverTypeOK
<1>3. Looping /\ Closings /\ Endings /\ Left /\ Counted
  BY <1>1, BoundAssumption
    DEF DriverInit, Looping, Closings, Endings, Left, Counted, Bounds
<1>4. Judging /\ Verdicts /\ Abi /\ Receipts /\ RunnerSays
  BY <1>1 DEF DriverInit, Judging, Verdicts, Abi, Receipts, RunnerSays, Bounds
<1>5. Fitting
  BY <1>1 DEF DriverInit, Fitting, Bounds, FirstLoop
<1> QED
  BY <1>2, <1>3, <1>4, <1>5 DEF DriverInv

(* Every step preserves it. *)
LEMMA DriverStep ==
  ASSUME DriverInv, [DriverNext]_driverVars
  PROVE  DriverInv'
<1>1. CASE UNCHANGED driverVars
  <2>1. DriverTypeOK'
    BY <1>1, DriverTypeStep DEF DriverInv
  <2> USE <1>1 DEF DriverInv, driverVars, args, core, verdict
  <2>2. Looping' /\ Closings' /\ Endings' /\ Left' /\ Counted'
    BY DEF Looping, Closings, Endings, Left, Counted
  <2>3. Judging' /\ Verdicts' /\ Abi' /\ Receipts' /\ RunnerSays' /\ Fitting'
    BY DEF Judging, Gate, Verdicts, Abi, Receipts, RunnerSays, Fitting
  <2> QED
    BY <2>1, <2>2, <2>3
<1>2. CASE DriverNext
  <2>1. Same /\ Move /\ DriverTypeOK'
    BY <1>2, Moves, DriverTypeStep DEF DriverInv
  <2> QED
    BY <2>1, LoopingMove, ClosingsMove, EndingsMove, LeftMove, CountedMove, JudgingMove,
       VerdictsMove, AbiMove, ReceiptsMove, RunnerMove, FittingMove DEF DriverInv
<1> QED
  BY <1>1, <1>2

(* Throughout a program, whatever the core does, the sessions, the         *)
(* exceptions and the failures noted are what its script says of the place *)
(* it has come to.                                                         *)
THEOREM DriverInvariance == DriverSpec => []DriverInv
<1> QED
  BY DriverInitInv, DriverStep, PTL DEF DriverSpec

(* What the invariant says of a status and of a receipt.                   *)
LEMMA InvHonest ==
  ASSUME DriverInv
  PROVE  Honest
<1>1. /\ Bounds(prog) /\ Last(prog) \in Nat /\ Last(prog) > 1
      /\ line \in 1 .. Last(prog) => Roles(prog, line) /\ Flow(prog, line)
  BY AtHere DEF DriverInv, Bounds, FirstLoop, Proper
<1>2. PassSound
  <2>1. SUFFICES ASSUME Gate, status = 0 PROVE Sound
    BY DEF PassSound
  <2>2. ~threw /\ line = Last(prog) + 1 /\ status = exit % 256
    BY <2>1 DEF DriverInv, Endings, Running, Gate
  <2>3. ~failed
    BY <2>1, <2>2 DEF DriverInv, Verdicts
  <2> QED
    BY <1>1, <2>1, <2>2, <2>3
      DEF DriverInv, Judging, Counted, Abi, Bounds, Sound, Gate
<1>3. ReceiptHonest
  <2>1. SUFFICES ASSUME told = "ok", prog # "self-test"
                 PROVE  status \in {Running, 0} /\ Sound
    BY DEF ReceiptHonest, DriverInv, Receipts
  <2>2. wrong = {} /\ live = {} /\ ~failed /\ ~threw /\ Gate /\ line > 1
    BY <1>1, <2>1 DEF DriverInv, Receipts
  <2>3. exit = 0
    BY <2>2 DEF DriverInv, Verdicts
  <2>4. status \in {Running, 0}
    BY <2>2, <2>3 DEF DriverInv, Endings, Gate
  <2> QED
    BY <2>2, <2>4 DEF DriverInv, Abi, Sound
<1> QED
  BY <1>2, <1>3 DEF Honest, DriverInv

(* Exit status 0 of a gate, and a receipt that says ok, are true: no guest *)
(* of it went wrong, the core is of its ABI, and no session was left,      *)
(* feigned destroys included (quality-gate.mjs, explicit-workspace-        *)
(* gate.mjs, self-test.mjs, benchmark.mjs, qualify-promotion.mjs, verify-  *)
(* cdn.mjs).                                                               *)
THEOREM HonestSafety == DriverSpec => []Honest
<1> QED
  BY DriverInvariance, InvHonest, PTL

(* What it says of the end of a program without a fault.                   *)
LEMMA InvFitting ==
  ASSUME DriverInv
  PROVE  FittingGuestPasses
<1>1. SUFFICES ASSUME Ended, faults = 0, fits
               PROVE  IF needs > Bound THEN status = 1
                      ELSE status = IF Gate THEN 0 ELSE code % 256
  BY DEF FittingGuestPasses
<1>2. /\ Bounds(prog) /\ needs \in Nat /\ Bound \in Nat
  BY AtHere, BoundAssumption DEF DriverInv, DriverTypeOK
<1>3. CASE needs > Bound
  <2>1. threw \/ failed
    BY <1>1, <1>2, <1>3 DEF DriverInv, Fitting, Endings, Ended, Bounds, FirstLoop
  <2> QED
    BY <1>1, <1>2, <1>3, <2>1 DEF DriverInv, Endings, Ended, Verdicts, Gate
<1>4. CASE needs <= Bound
  <2>1. ~threw /\ ~failed
    BY <1>1, <1>4 DEF DriverInv, Fitting
  <2>2. CASE Gate
    BY <1>1, <1>2, <1>4, <2>1, <2>2 DEF DriverInv, Endings, Ended, Verdicts, Gate
  <2>3. CASE ~Gate
    <3>1. prog = "run" /\ Last(prog) = 7
      BY <2>3, RunnerProper DEF Gate
    <3> QED
      BY <1>1, <1>2, <1>4, <2>1, <2>3, <3>1
        DEF DriverInv, Endings, Ended, RunnerSays
  <2> QED
    BY <2>2, <2>3
<1> QED
  BY <1>2, <1>3, <1>4

(* With a core that does its part, every program passes the guests that    *)
(* need no more calls than its bound, and fails for the others, wherever   *)
(* its loop looks at the bound.                                            *)
THEOREM FittingSafety == DriverSpec => []FittingGuestPasses
<1> QED
  BY DriverInvariance, InvFitting, PTL

(* What it says of the runner's end.                                       *)
LEMMA InvRunner ==
  ASSUME DriverInv
  PROVE  RunnerFaithful
<1>1. SUFFICES ASSUME prog = "run", Ended, ~threw
               PROVE  /\ told = "output" /\ "a" \in exited /\ status = code % 256
                      /\ deno \/ live \subseteq kept
  BY DEF RunnerFaithful, DriverInv, Endings, Ended
<1>2. Last(prog) = 7 /\ Bounds(prog)
  BY <1>1, RunnerProper, AtHere DEF DriverInv
<1>3. CASE line = Last(prog) + 1 /\ status = exit % 256
  <2>1. told = "output" /\ "a" \in exited /\ exit = code
    BY <1>1, <1>2, <1>3 DEF DriverInv, RunnerSays
  <2>2. live \ kept = {}
    BY <1>2, <1>3 DEF DriverInv, Left, Bounds
  <2> QED
    BY <1>3, <2>1, <2>2
<1>4. CASE deno /\ line = 5 /\ status = code % 256
  BY <1>1, <1>4 DEF DriverInv, RunnerSays
<1> QED
  BY <1>1, <1>3, <1>4 DEF DriverInv, Endings, Ended

(* The runner's status is its guest's exit code only if the guest has      *)
(* exited and its outputs are written; in every other case it is 1         *)
(* (run.mjs).                                                              *)
THEOREM RunnerSafety == DriverSpec => []RunnerFaithful
<1> QED
  BY DriverInvariance, InvRunner, PTL

(* What it says of the sessions that are left.                             *)
LEMMA InvSessions ==
  ASSUME DriverInv
  PROVE  SessionsDestroyed
<1>1. SUFFICES ASSUME Ended
               PROVE  LET left == live \ kept
                      IN  \/ left = {}
                          \/ prog = "run" /\ deno /\ left = {"a"}
                          \/ prog = "quality" /\ left = {"a"} /\ Op(prog, line) = "create"
                          \/ prog = "quality" /\ left = {"b"} /\ "a" \in kept
  BY DEF SessionsDestroyed, Op, Script
<1>2. /\ line \in 1 .. Last(prog) => Keeps(prog, line)
      /\ line \in 1 .. Last(prog) + 1 /\ Bounds(prog)
  BY AtHere DEF Proper, DriverInv, DriverTypeOK, Script, Last
<1>3. live \ kept \subseteq Open(prog, line)
  BY DEF DriverInv, Left
<1>4. CASE threw /\ line <= Last(prog) /\ MayThrow(prog, line) /\ Fin(prog, line) = 0
        /\ (Op(prog, line) = "destroy" => Of(prog, line) \in kept)
  BY <1>2, <1>3, <1>4 DEF Keeps, Gone, About, Bounds
<1>5. CASE line = Last(prog) + 1
  BY <1>2, <1>3, <1>5 DEF Bounds
<1>6. CASE prog = "run" /\ deno /\ line = 5
  BY <1>3, <1>6 DEF Open, Lives
<1> QED
  BY <1>1, <1>4, <1>5, <1>6 DEF DriverInv, Endings, Ended

(* However a program ends, it has destroyed the sessions that it made, but *)
(* for those that the core keeps and the three holes that the property     *)
(* names.                                                                  *)
THEOREM SessionSafety == DriverSpec => []SessionsDestroyed
<1> QED
  BY DriverInvariance, InvSessions, PTL
===============================================================================
