------------------------------ MODULE FetchBridge ------------------------------
(***************************************************************************)
(* FetchBridge, src/glue/js/fetch-bridge.mjs: the host performs an HTTP    *)
(* exchange for the guest.  request() collects a bounded body and pushes   *)
(* one completion, with EOF, into the guest's stream; stream() hands the   *)
(* body to a sink chunk by chunk and leaves the framing to its owner.      *)
(*                                                                         *)
(* Every await is a point where the timer, the caller's abort, the network *)
(* and the other calls on the same bridge run.  A caller that aborts a     *)
(* call may start the next one before the first has settled.  The network, *)
(* the sink and the core's stream are external.  Bytes are counted in      *)
(* units; the contents of requests and headers are left out.               *)
(***************************************************************************)
EXTENDS Naturals, FiniteSets

CONSTANTS
  Job,           \* the calls made on the bridge
  RequestLimit,  \* the body request() accepts (32768 bytes)
  ChunkBytes,    \* the largest part a sink is given (chunkBytes)
  MaxBodyBytes,  \* the quota of stream()
  MaxChunk,      \* the largest chunk the network delivers
  MaxServed      \* bound on the body the server sends

ASSUME SizeAssumption ==
  /\ {RequestLimit, MaxBodyBytes, MaxChunk, MaxServed} \subseteq Nat
  /\ ChunkBytes \in Nat \ {0}

VARIABLES
  pc, kind,      \* the await (or the synchronous stretch) each call is at
  mode,          \* stream: readerMode, the kind of reader asked for
  byob,          \* the reader is a byte reader, whose chunks are bounded
  aborted,       \* the combined signal has fired
  body, locked,  \* the response body, and whether a reader holds its lock
  served,        \* units the network has delivered to the reader
  size,          \* units collected, or handed to the sink and accepted
  rest, part,    \* stream: units of the chunk in hand; those with the sink
  published      \* core: the completions in the guest's stream, with EOF

job == <<kind, mode>>
vars == <<pc, kind, mode, byob, aborted, body, locked, served, size, rest,
          part, published>>

Modes == {"auto", "default", "byob"}
Over == {"done", "failed"}
Busy == {"fetch", "onResponse", "check", "read", "deliver", "sink", "finish",
         "cancel"}

TypeOK ==
  /\ pc \in [Job -> {"idle"} \cup Busy \cup Over]
  /\ kind \in [Job -> {"request", "stream"}]
  /\ mode \in [Job -> Modes] /\ byob \in [Job -> BOOLEAN]
  /\ aborted \in [Job -> BOOLEAN]
  /\ body \in [Job -> {"none", "open", "closed", "errored", "cancelled"}]
  /\ locked \in [Job -> BOOLEAN]
  /\ served \in [Job -> 0 .. MaxServed] /\ size \in [Job -> 0 .. MaxServed]
  /\ rest \in [Job -> 0 .. MaxChunk] /\ part \in [Job -> 0 .. ChunkBytes]
  /\ published \subseteq [job : Job, bytes : 0 .. MaxServed]

Init ==
  /\ pc = [j \in Job |-> "idle"] /\ kind \in [Job -> {"request", "stream"}]
  /\ mode \in [Job -> Modes]
  /\ byob = [j \in Job |-> FALSE] /\ aborted = [j \in Job |-> FALSE]
  /\ body = [j \in Job |-> "none"] /\ locked = [j \in Job |-> FALSE]
  /\ served = [j \in Job |-> 0] /\ size = [j \in Job |-> 0]
  /\ rest = [j \in Job |-> 0] /\ part = [j \in Job |-> 0]
  /\ published = {}

Goto(j, step) == pc' = [pc EXCEPT ![j] = step]

-------------------------------------------------------------------------------
(* A request line, a URL or a streaming policy is refused before fetch.    *)
Refuse(j) ==
  /\ pc[j] = "idle" /\ Goto(j, "failed")
  /\ UNCHANGED <<job, byob, aborted, body, locked, served, size, rest, part,
                 published>>

(* The signal passed in may have fired already. *)
Start(j) ==
  /\ pc[j] = "idle" /\ Goto(j, "fetch")
  /\ \E fired \in BOOLEAN : aborted' = [aborted EXCEPT ![j] = fired]
  /\ UNCHANGED <<job, byob, body, locked, served, size, rest, part, published>>

(* AbortSignal.timeout, or the caller's signal. *)
Abort(j) ==
  /\ pc[j] \in Busy /\ ~aborted[j]
  /\ aborted' = [aborted EXCEPT ![j] = TRUE]
  /\ UNCHANGED <<pc, job, byob, body, locked, served, size, rest, part,
                 published>>

(* Mutant: the combined signal is not passed to fetch. *)
FetchFailsUnsignalled(j) ==
  /\ pc[j] = "fetch" /\ ~aborted[j] /\ Goto(j, "failed")
  /\ UNCHANGED <<job, byob, aborted, body, locked, served, size, rest, part,
                 published>>

FetchFails(j) ==
  /\ pc[j] = "fetch" /\ Goto(j, "failed")
  /\ UNCHANGED <<job, byob, aborted, body, locked, served, size, rest, part,
                 published>>

(* A response without a body (HEAD, 204) has no reader. *)
FetchEmpty(j) ==
  /\ pc[j] = "fetch"
  /\ Goto(j, IF kind[j] = "request" THEN "finish" ELSE "onResponse")
  /\ UNCHANGED <<job, byob, aborted, body, locked, served, size, rest, part,
                 published>>

(* A body is a byte stream or not.  stream() takes a byte reader if it can *)
(* and falls back to a default reader unless the caller insisted.          *)
FetchBody(j) ==
  /\ pc[j] = "fetch"
  /\ body' = [body EXCEPT ![j] = "open"]
  /\ \E bytes \in BOOLEAN :
       LET stream  == kind[j] = "stream"
           refused == stream /\ mode[j] = "byob" /\ ~bytes
       IN /\ byob' = [byob EXCEPT ![j] = stream /\ bytes
                                         /\ mode[j] # "default"]
          /\ locked' = [locked EXCEPT ![j] = ~refused]
          /\ Goto(j, IF refused THEN "cancel"
                     ELSE IF stream THEN "onResponse" ELSE "read")
  /\ UNCHANGED <<job, aborted, served, size, rest, part, published>>

RespondOk(j) ==
  /\ pc[j] = "onResponse"
  /\ Goto(j, IF locked[j] THEN "check" ELSE "finish")
  /\ UNCHANGED <<job, byob, aborted, body, locked, served, size, rest, part,
                 published>>

(* Mutant: onResponse outside the `try`. *)
RespondFailsOutside(j) ==
  /\ pc[j] = "onResponse" /\ Goto(j, "failed")
  /\ UNCHANGED <<job, byob, aborted, body, locked, served, size, rest, part,
                 published>>

RespondFails(j) ==
  /\ pc[j] = "onResponse" /\ Goto(j, "cancel")
  /\ UNCHANGED <<job, byob, aborted, body, locked, served, size, rest, part,
                 published>>

-------------------------------------------------------------------------------
(* The head of stream()'s loop.  request() has none: it reads on, and the  *)
(* aborted fetch makes the read fail.                                      *)
Check(j) ==
  /\ pc[j] = "check"
  /\ Goto(j, IF aborted[j] THEN "cancel" ELSE "read")
  /\ UNCHANGED <<job, byob, aborted, body, locked, served, size, rest, part,
                 published>>

ReadRequest(j, n) ==
  /\ pc[j] = "read" /\ kind[j] = "request"
  /\ served' = [served EXCEPT ![j] = @ + n]
  /\ size' = [size EXCEPT ![j] = @ + n]
  /\ Goto(j, IF size[j] + n > RequestLimit THEN "cancel" ELSE "read")
  /\ UNCHANGED <<job, byob, aborted, body, locked, rest, part, published>>

ReadStream(j, n) ==
  /\ pc[j] = "read" /\ kind[j] = "stream"
  /\ byob[j] => n <= ChunkBytes
  /\ served' = [served EXCEPT ![j] = @ + n]
  /\ rest' = [rest EXCEPT ![j] = n]
  /\ Goto(j, "deliver")
  /\ UNCHANGED <<job, byob, aborted, body, locked, size, part, published>>

(* MaxServed bounds the body: nothing else does before the caps apply.     *)
Read(j) == \E n \in 1 .. MaxChunk :
             /\ served[j] + n <= MaxServed
             /\ ReadRequest(j, n) \/ ReadStream(j, n)

(* request()'s finally releases the lock here, stream()'s at its own end.  *)
ReadDone(j) ==
  /\ pc[j] = "read"
  /\ body' = [body EXCEPT ![j] = "closed"]
  /\ locked' = [locked EXCEPT ![j] = kind[j] = "stream"]
  /\ Goto(j, "finish")
  /\ UNCHANGED <<job, byob, aborted, served, size, rest, part, published>>

(* Mutant: a failed read is taken for the end of the body. *)
ReadFailsAsEnd(j) ==
  /\ pc[j] = "read"
  /\ body' = [body EXCEPT ![j] = "errored"]
  /\ Goto(j, "finish")
  /\ UNCHANGED <<job, byob, aborted, locked, served, size, rest, part,
                 published>>

ReadFails(j) ==
  /\ pc[j] = "read"
  /\ body' = [body EXCEPT ![j] = "errored"]
  /\ Goto(j, "cancel")
  /\ UNCHANGED <<job, byob, aborted, locked, served, size, rest, part,
                 published>>

-------------------------------------------------------------------------------
(* stream() cuts the chunk into parts and awaits the sink for each.        *)
NextPart(j) == IF rest[j] < ChunkBytes THEN rest[j] ELSE ChunkBytes

Deliver(j) ==
  /\ pc[j] = "deliver"
  /\ ~aborted[j] /\ size[j] + NextPart(j) <= MaxBodyBytes
  /\ part' = [part EXCEPT ![j] = NextPart(j)]
  /\ Goto(j, "sink")
  /\ UNCHANGED <<job, byob, aborted, body, locked, served, size, rest,
                 published>>

DeliverRefused(j) ==
  /\ pc[j] = "deliver"
  /\ aborted[j] \/ size[j] + NextPart(j) > MaxBodyBytes
  /\ Goto(j, "cancel")
  /\ UNCHANGED <<job, byob, aborted, body, locked, served, size, rest, part,
                 published>>

(* Mutant: one part per chunk. *)
SinkOkFirstPart(j) ==
  /\ pc[j] = "sink"
  /\ size' = [size EXCEPT ![j] = @ + part[j]]
  /\ rest' = [rest EXCEPT ![j] = 0]
  /\ part' = [part EXCEPT ![j] = 0]
  /\ Goto(j, "check")
  /\ UNCHANGED <<job, byob, aborted, body, locked, served, published>>

SinkOk(j) ==
  /\ pc[j] = "sink"
  /\ size' = [size EXCEPT ![j] = @ + part[j]]
  /\ rest' = [rest EXCEPT ![j] = @ - part[j]]
  /\ part' = [part EXCEPT ![j] = 0]
  /\ Goto(j, IF rest[j] = part[j] THEN "check" ELSE "deliver")
  /\ UNCHANGED <<job, byob, aborted, body, locked, served, published>>

SinkFails(j) ==
  /\ pc[j] = "sink" /\ Goto(j, "cancel")
  /\ UNCHANGED <<job, byob, aborted, body, locked, served, size, rest, part,
                 published>>

-------------------------------------------------------------------------------
(* The body is complete.  The check of the signal and what follows it run  *)
(* without an await between them.                                          *)
FinishAborted(j) ==
  /\ pc[j] = "finish" /\ aborted[j]
  /\ Goto(j, IF kind[j] = "request" THEN "failed" ELSE "cancel")
  /\ UNCHANGED <<job, byob, aborted, body, locked, served, size, rest, part,
                 published>>

(* Mutant: the signal is not looked at after the last read. *)
PublishLate(j) ==
  /\ pc[j] = "finish" /\ kind[j] = "request"
  /\ published' = published \cup {[job |-> j, bytes |-> size[j]]}
  /\ Goto(j, "done")
  /\ UNCHANGED <<job, byob, aborted, body, locked, served, size, rest, part>>

(* push(wire, true): one core call carries header, body and EOF. *)
Publish(j) ==
  /\ pc[j] = "finish" /\ kind[j] = "request" /\ ~aborted[j]
  /\ published' = published \cup {[job |-> j, bytes |-> size[j]]}
  /\ Goto(j, "done")
  /\ UNCHANGED <<job, byob, aborted, body, locked, served, size, rest, part>>

(* The core refuses: no session, no room, or the stream is at its end.     *)
PublishRefused(j) ==
  /\ pc[j] = "finish" /\ kind[j] = "request" /\ ~aborted[j]
  /\ Goto(j, "failed")
  /\ UNCHANGED <<job, byob, aborted, body, locked, served, size, rest, part,
                 published>>

StreamDone(j) ==
  /\ pc[j] = "finish" /\ kind[j] = "stream" /\ ~aborted[j]
  /\ locked' = [locked EXCEPT ![j] = FALSE]
  /\ Goto(j, "done")
  /\ UNCHANGED <<job, byob, aborted, body, served, size, rest, part, published>>

(* cancel() the reader, or the body no reader was obtained for; its own    *)
(* failure is swallowed; `finally` releases the lock.                      *)
Cancel(j) ==
  /\ pc[j] = "cancel"
  /\ body' = [body EXCEPT ![j] = IF @ = "open" THEN "cancelled" ELSE @]
  /\ locked' = [locked EXCEPT ![j] = FALSE]
  /\ Goto(j, "failed")
  /\ UNCHANGED <<job, byob, aborted, served, size, rest, part, published>>

Own(j) == \/ Check(j) \/ Deliver(j) \/ DeliverRefused(j) \/ FinishAborted(j)
          \/ Publish(j) \/ PublishRefused(j) \/ StreamDone(j) \/ Cancel(j)
Callback(j) == RespondOk(j) \/ RespondFails(j) \/ SinkOk(j) \/ SinkFails(j)
Network(j) == \/ FetchFails(j) \/ FetchEmpty(j) \/ FetchBody(j)
              \/ Read(j) \/ ReadDone(j) \/ ReadFails(j)

Next == \E j \in Job : \/ Refuse(j) \/ Start(j) \/ Abort(j)
                       \/ Own(j) \/ Callback(j) \/ Network(j)

Spec == Init /\ [][Next]_vars

(* The event loop runs what is ready; AbortSignal.timeout always fires; a  *)
(* fetch whose signal fired rejects what is pending; the caller's sink and *)
(* onResponse settle.  The server owes nothing at all.                     *)
Fairness ==
  \A j \in Job : /\ WF_vars(Own(j)) /\ WF_vars(Callback(j)) /\ WF_vars(Abort(j))
                 /\ WF_vars(aborted[j] /\ (FetchFails(j) \/ ReadFails(j)))

FairSpec == Spec /\ Fairness

-------------------------------------------------------------------------------
(* A completion in the guest's stream is a whole response within the bound *)
(* of request(), from a call that succeeded ("oversize ... publishes no    *)
(* completion", fetch-bridge.test.mjs 26).                                 *)
CompletionsWhole ==
  \A c \in published :
    /\ pc[c.job] = "done" /\ kind[c.job] = "request"
    /\ body[c.job] \in {"none", "closed"}
    /\ c.bytes = served[c.job] /\ c.bytes <= RequestLimit

(* A call whose signal fired while it ran never answers, however late the  *)
(* network settles ("cancellation publishes no completion", test 32).      *)
AbortedNeverAnswers ==
  \A j \in Job : aborted[j] => pc[j] # "done" /\ \A c \in published : c.job # j

(* The sink has been given, in order and without a gap, what the network   *)
(* delivered: all of it when stream() returns.                             *)
StreamExact ==
  \A j \in Job : kind[j] = "stream" =>
    /\ size[j] + rest[j] = served[j]
    /\ pc[j] = "done" => size[j] = served[j] /\ body[j] \in {"none", "closed"}

(* No sink call exceeds chunkBytes, or takes the total beyond the quota.   *)
SinkBounded ==
  \A j \in Job : pc[j] = "sink" => /\ part[j] \in 1 .. ChunkBytes
                                   /\ part[j] <= rest[j]
                                   /\ size[j] + part[j] <= MaxBodyBytes

(* stream() is exact and within its bounds, and every variable of its type. *)
StreamInv == TypeOK /\ StreamExact /\ SinkBounded

(* A call that is over holds no reader lock and leaves no body flowing.    *)
NothingHeld ==
  \A j \in Job : pc[j] \in Over => ~locked[j] /\ body[j] # "open"

(* A call settles although the server may stall at any point.              *)
Settles == \A j \in Job : pc[j] = "fetch" ~> pc[j] \in Over
===============================================================================
