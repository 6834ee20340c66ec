--------------------------- MODULE NativeHostProofs ---------------------------
(***************************************************************************)
(* Proofs about NativeHost for any command line, any bounds on calls and   *)
(* samples and any supply of addresses and handles: that every sample      *)
(* meets a clean instance, what a report rests on, that the session of a   *)
(* guest is destroyed, and which guests succeed.                           *)
(***************************************************************************)
EXTENDS NativeHost, TLAPS, FiniteSetTheorems, SequenceTheorems

(* A phase belongs to its steps, and has the buffers it needs.             *)
Shape ==
  /\ phase \in {"upload", "call"} => at \in SendSteps
  /\ phase \in {"len", "alloc", "copy"} => at \in ReadSteps
  /\ phase = "release" => at \in SendSteps \cup ReadSteps
  /\ phase = "single" => at \notin SendSteps \cup ReadSteps
  /\ phase = "upload" => Len(held) < Operands
  /\ phase \in {"len", "alloc", "single"} => held = <<>>
  /\ phase \in {"call", "copy", "release"} => held # <<>>
  /\ Len(held) = 2 => held[1] # held[2]

(* As long as no `?` has been taken the host holds what is allocated.      *)
Buffers == ~error /\ at # "failed" => heap = ToSet(held)

(* What the two command lines have in common and what they have not.       *)
Modes ==
  /\ error => mode = "run" /\ at \in {"destroy", "count", "failed"}
  /\ mode = "run" => at \notin {"workspace", "measure", "compare", "reported"}
  /\ mode = "bench" => at \notin {"write", "exited"}

(* The session of the sample is the only one.  Once run_guest may have     *)
(* returned without destroying it, it is one that could not be destroyed.  *)
Sessions ==
  /\ at = "entropy" \/ (at = "create" /\ phase \in {"upload", "call"}) =>
       sessions = {} /\ made = None
  /\ at = "create" /\ phase = "release" =>
       IF answer THEN made \in Handle /\ sessions = {made} ELSE sessions = {}
  /\ at \in {"workspace", "run", "measure", "stdout", "stderr", "compare",
             "write", "destroy"} => made \in Handle /\ sessions = {made}
  /\ at = "count" => sessions \subseteq kept
  /\ at \in {"exited", "reported"} => sessions = {}
  /\ mode = "run" /\ at = "failed" => sessions \subseteq kept

(* The calls of the sample, and the samples of the workloads so far.       *)
Counting ==
  /\ at \in SendSteps => calls = 0
  /\ at = "run" => calls <= MaxCalls /\ (calls = 0 \/ calls < guest.needs)
  /\ at \notin Over => counted[w] = IF Counts THEN sample - Warmups ELSE 0
  /\ \A i \in DOMAIN plan.load :
       /\ i > w => counted[i] = 0
       /\ i < w => counted[i] = Iterations /\ Cardinality(seen[i]) = 1
  /\ mode = "bench" /\ Counts
       /\ at \in {"stdout", "stderr", "compare", "destroy", "count"} => seen[w] # {}
  /\ ReportSound

(* As long as nothing outside has gone wrong.                              *)
Honest ==
  /\ ~faulted => /\ kept = {} /\ answer
                 /\ \A i \in DOMAIN plan.load : seen[i] \subseteq {1}
  /\ ~faulted /\ (\A i \in DOMAIN plan.load : plan.load[i].needs <= MaxCalls) =>
       ~error /\ at # "failed"

IInv == TypeOK /\ Shape /\ Buffers /\ Modes /\ Sessions /\ Counting /\ Honest
-------------------------------------------------------------------------------
(* The guest at hand. *)
LEMMA GuestFacts ==
  ASSUME TypeOK
  PROVE  /\ mode \in {"run", "bench"}
         /\ Len(plan.load) \in Nat /\ DOMAIN plan.load = 1 .. Len(plan.load)
         /\ w \in 1 .. Len(plan.load)
         /\ guest.kind \in {"plain", "argv", "tool"} /\ guest.needs \in Nat \ {0}
         /\ mode = "run" => Len(plan.load) = 1 /\ w = 1 /\ guest.kind = "argv"
<1>1. /\ plan \in Plans /\ w \in DOMAIN plan.load
      /\ plan.load \in Seq([kind : {"plain", "argv", "tool"}, needs : Nat \ {0}])
      /\ plan.mode \in {"run", "bench"}
      /\ plan.mode = "run" => Len(plan.load) = 1 /\ plan.load[1].kind = "argv"
  BY PlanAssumption DEF TypeOK
<1>2. Len(plan.load) \in Nat /\ DOMAIN plan.load = 1 .. Len(plan.load)
  BY <1>1
<1>3. w \in 1 .. Len(plan.load)
  BY <1>1, <1>2
<1>4. plan.load[w] \in [kind : {"plain", "argv", "tool"}, needs : Nat \ {0}]
  BY <1>1, <1>3, ElementOfSeq
<1> QED
  BY <1>1, <1>2, <1>3, <1>4 DEF mode, guest

(* A buffer more. *)
LEMMA Appending ==
  ASSUME NEW q \in Seq(Pointer), Len(q) <= 1, NEW p \in Pointer, p \notin ToSet(q)
  PROVE  /\ Append(q, p) \in Seq(Pointer) /\ Append(q, p) # <<>>
         /\ Len(Append(q, p)) = Len(q) + 1
         /\ ToSet(Append(q, p)) = ToSet(q) \cup {p}
         /\ Len(Append(q, p)) = 2 => Append(q, p)[1] # Append(q, p)[2]
<1>1. Len(q) \in {0, 1} /\ DOMAIN q = 1 .. Len(q)
  <2>1. Len(q) \in Nat /\ DOMAIN q = 1 .. Len(q)
    BY LenProperties
  <2> QED  BY <2>1
<1>2. /\ Append(q, p) \in Seq(Pointer) /\ Append(q, p) # <<>>
      /\ Len(Append(q, p)) = Len(q) + 1
      /\ DOMAIN Append(q, p) = 1 .. Len(q) + 1
      /\ \A i \in 1 .. Len(q) : Append(q, p)[i] = q[i]
      /\ Append(q, p)[Len(q) + 1] = p
  BY <1>1, AppendProperties
<1>3. CASE Len(q) = 0
  BY <1>1, <1>2, <1>3 DEF ToSet
<1>4. CASE Len(q) = 1
  BY <1>1, <1>2, <1>4 DEF ToSet
<1> QED
  BY <1>1, <1>3, <1>4

(* A buffer less. *)
LEMMA Fronting ==
  ASSUME NEW q \in Seq(Pointer), Len(q) <= 2, q # <<>>, Len(q) = 2 => q[1] # q[2]
  PROVE  /\ Len(q) \in {1, 2}
         /\ Len(q) = 1 => ToSet(q) \ {Last(q)} = {}
         /\ Len(q) = 2 => /\ Front(q) \in Seq(Pointer) /\ Front(q) # <<>>
                          /\ Len(Front(q)) = 1
                          /\ ToSet(Front(q)) = ToSet(q) \ {Last(q)}
<1>1. Len(q) \in {1, 2} /\ DOMAIN q = 1 .. Len(q)
  <2>1. Len(q) \in Nat \ {0} /\ DOMAIN q = 1 .. Len(q)
    BY LenProperties, EmptySeq
  <2> QED  BY <2>1
<1>2. CASE Len(q) = 1
  BY <1>1, <1>2 DEF ToSet, Last
<1>3. CASE Len(q) = 2
  <2>1. /\ Front(q) \in Seq(Pointer) /\ Len(Front(q)) = 1 /\ Front(q)[1] = q[1]
    BY <1>1, <1>3 DEF Front
  <2>2. ToSet(q) = {q[1], q[2]} /\ Last(q) = q[2]
    BY <1>1, <1>3 DEF ToSet, Last
  <2>3. ToSet(Front(q)) = {q[1]}
    BY <2>1, LenProperties DEF ToSet
  <2>4. Front(q) # <<>>
    BY <2>1
  <2> QED  BY <1>3, <2>1, <2>2, <2>3, <2>4
<1> QED
  BY <1>1, <1>2, <1>3

(* Between two calls of the core the host holds nothing. *)
LEMMA NothingInHand ==
  ASSUME held' = <<>>, NEW x \in Steps, Goto(x)
  PROVE  Shape'
<1>1. Len(<<>>) = 0 /\ 0 < Operands'
  BY DEF Operands
<1>2. CASE x \in SendSteps
  BY <1>1, <1>2 DEF Shape, Goto, SendSteps, ReadSteps
<1>3. CASE x \in ReadSteps
  BY <1>1, <1>3 DEF Shape, Goto, SendSteps, ReadSteps
<1>4. CASE x \notin SendSteps \cup ReadSteps
  BY <1>1, <1>4 DEF Shape, Goto
<1> QED
  BY <1>2, <1>3, <1>4

(* Every phase keeps to its steps and to the buffers it needs.              *)
LEMMA ShapeStep ==
  ASSUME TypeOK, Shape, Modes, Buffers, [Next]_vars
  PROVE  Shape'
<1>a. /\ mode \in {"run", "bench"}
      /\ Len(plan.load) \in Nat /\ DOMAIN plan.load = 1 .. Len(plan.load)
      /\ w \in 1 .. Len(plan.load)
      /\ guest.kind \in {"plain", "argv", "tool"} /\ guest.needs \in Nat \ {0}
      /\ mode = "run" => Len(plan.load) = 1 /\ w = 1 /\ guest.kind = "argv"
  BY GuestFacts
<1>c. /\ Operands \in {1, 2} /\ Len(held) \in Nat
      /\ held \in Seq(Pointer) /\ Len(held) <= 2
  BY LenProperties DEF Operands, TypeOK
<1>d. Len(<<>>) = 0 /\ 0 < Operands'
  BY DEF Operands
<1> USE DEF Shape, TypeOK, SendSteps, ReadSteps, Over, driver
<1>1. ASSUME NEW p \in Pointer, Upload(p)
      PROVE  Shape'
  <2>1. /\ Len(held) + 1 <= Operands /\ p \notin ToSet(held)
    BY <1>a, <1>c, <1>1 DEF Upload, Buffers, Modes
  <2>2. /\ Append(held, p) # <<>> /\ Len(Append(held, p)) = Len(held) + 1
        /\ Len(Append(held, p)) = 2 => Append(held, p)[1] # Append(held, p)[2]
    BY <1>c, <2>1, Appending
  <2>3. Operands' = Operands
    BY <1>1 DEF Upload, Operands, guest
  <2> QED  BY <1>c, <1>1, <2>1, <2>2, <2>3 DEF Upload
<1>2. ASSUME NEW p \in Pointer, OutputAlloc(p)
      PROVE  Shape'
  <2>1. Len(<<p>>) = 1 /\ <<p>> # <<>>
    OBVIOUS
  <2> QED  BY <1>2, <2>1 DEF OutputAlloc
<1>3. ASSUME NEW h \in Handle, CreateOk(h)
      PROVE  Shape'
  BY <1>3, <1>a, <1>c, <1>d DEF CreateOk
<1>4. CASE Call
  BY <1>4, <1>a, <1>c, <1>d DEF Call
<1>5. CASE Release
  <2>1. /\ Len(held) \in {1, 2}
        /\ Len(held) = 2 => Front(held) # <<>> /\ Len(Front(held)) = 1
    BY <1>c, <1>5, Fronting DEF Release
  <2>2. CASE Len(held) = 2
    BY <1>c, <1>5, <2>1, <2>2 DEF Release
  <2>3. CASE Len(held) = 1
    <3>1. held' = <<>> /\ (Goto(Following) \/ GiveUp)
      BY <1>5, <2>3 DEF Release, GiveUp
    <3>2. Following \in Steps \ {"entropy"}
      BY <1>5 DEF Release, Following, Steps
    <3>3. {"destroy", "failed"} \subseteq Steps
      BY DEF Steps
    <3> QED  BY <3>1, <3>2, <3>3, NothingInHand DEF GiveUp
  <2> QED  BY <2>1, <2>2, <2>3
<1>6. CASE LenEmpty
  BY <1>6, <1>a, <1>c, <1>d DEF LenEmpty, Following, Goto
<1>7. CASE LenSome
  BY <1>7, <1>a, <1>c, <1>d DEF LenSome
<1>8. CASE Copy
  BY <1>8, <1>a, <1>c, <1>d DEF Copy
<1>9. CASE Run
  BY <1>9, <1>a, <1>c, <1>d DEF Run, GiveUp, Goto
<1>10. ASSUME NEW n \in {1, 2}, Measured(n)
      PROVE  Shape'
  BY <1>10, <1>a, <1>c, <1>d DEF Measured, Goto
<1>11. CASE Compare
  BY <1>11, <1>a, <1>c, <1>d DEF Compare, Goto
<1>12. CASE WriteOut
  BY <1>12, <1>a, <1>c, <1>d DEF WriteOut, Goto
<1>13. CASE Destroy
  BY <1>13, <1>a, <1>c, <1>d DEF Destroy, Goto
<1>14. CASE SampleDone
  <2>1. held' = <<>> /\ \E x \in {"failed", "create", "reported"} : Goto(x)
    BY <1>14 DEF SampleDone, NextSample
  <2>2. {"failed", "create", "reported"} \subseteq Steps
    BY DEF Steps
  <2> QED  BY <2>1, <2>2, NothingInHand
<1>15. CASE GuestDone
  BY <1>15, <1>a, <1>c, <1>d DEF GuestDone, Goto
<1>16. CASE SessionLeft
  BY <1>16, <1>a, <1>c, <1>d DEF SessionLeft, Goto
<1>17. CASE CallRefused
  BY <1>17, <1>a, <1>c, <1>d DEF CallRefused
<1>18. CASE DestroyFeigned
  BY <1>18, <1>a, <1>c, <1>d DEF DestroyFeigned, Goto
<1>19. ASSUME NEW p \in Pointer, Fault(p)
      PROVE  Shape'
  BY <1>19, <1>a, <1>c, <1>d DEF Fault, GiveUp, Goto
<1>20. CASE UNCHANGED vars
  <2>1. Operands' = Operands
    BY <1>20 DEF vars, Operands, guest
  <2> QED  BY <1>20, <2>1 DEF vars
<1> QED
  BY <1>1, <1>2, <1>3, <1>4, <1>5, <1>6, <1>7, <1>8, <1>9, <1>10,
     <1>11, <1>12, <1>13, <1>14, <1>15, <1>16, <1>17, <1>18, <1>19, <1>20 DEF Next, Own

(* The two command lines take their own steps.                              *)
LEMMA ModesStep ==
  ASSUME TypeOK, Shape, Modes, [Next]_vars
  PROVE  Modes'
<1>a. /\ mode \in {"run", "bench"}
      /\ Len(plan.load) \in Nat /\ DOMAIN plan.load = 1 .. Len(plan.load)
      /\ w \in 1 .. Len(plan.load)
      /\ guest.kind \in {"plain", "argv", "tool"} /\ guest.needs \in Nat \ {0}
      /\ mode = "run" => Len(plan.load) = 1 /\ w = 1 /\ guest.kind = "argv"
  BY GuestFacts
<1> USE DEF Modes, Shape, TypeOK, SendSteps, ReadSteps, Closure, driver, mode
<1>1. ASSUME NEW p \in Pointer, Upload(p)
      PROVE  Modes'
  BY <1>1, <1>a DEF Upload
<1>2. ASSUME NEW p \in Pointer, OutputAlloc(p)
      PROVE  Modes'
  BY <1>2, <1>a DEF OutputAlloc
<1>3. ASSUME NEW h \in Handle, CreateOk(h)
      PROVE  Modes'
  BY <1>3, <1>a DEF CreateOk
<1>4. CASE Call
  BY <1>4, <1>a DEF Call
<1>5. CASE Release
  BY <1>5, <1>a DEF Release, GiveUp, Following, Goto
<1>6. CASE LenEmpty
  BY <1>6, <1>a DEF LenEmpty, Following, Goto
<1>7. CASE LenSome
  BY <1>7, <1>a DEF LenSome
<1>8. CASE Copy
  BY <1>8, <1>a DEF Copy
<1>9. CASE Run
  BY <1>9, <1>a DEF Run, GiveUp, Goto
<1>10. ASSUME NEW n \in {1, 2}, Measured(n)
      PROVE  Modes'
  BY <1>10, <1>a DEF Measured, Goto
<1>11. CASE Compare
  BY <1>11, <1>a DEF Compare, Goto
<1>12. CASE WriteOut
  BY <1>12, <1>a DEF WriteOut, Goto
<1>13. CASE Destroy
  BY <1>13, <1>a DEF Destroy, Goto
<1>14. CASE SampleDone
  BY <1>14, <1>a DEF SampleDone, NextSample, Goto
<1>15. CASE GuestDone
  BY <1>15, <1>a DEF GuestDone, Goto
<1>16. CASE SessionLeft
  BY <1>16, <1>a DEF SessionLeft, Goto
<1>17. CASE CallRefused
  BY <1>17, <1>a DEF CallRefused
<1>18. CASE DestroyFeigned
  BY <1>18, <1>a DEF DestroyFeigned, Goto
<1>19. ASSUME NEW p \in Pointer, Fault(p)
      PROVE  Modes'
  BY <1>19, <1>a DEF Fault, GiveUp, Goto
<1>20. CASE UNCHANGED vars
  BY <1>20, <1>a DEF vars
<1> QED
  BY <1>1, <1>2, <1>3, <1>4, <1>5, <1>6, <1>7, <1>8, <1>9, <1>10,
     <1>11, <1>12, <1>13, <1>14, <1>15, <1>16, <1>17, <1>18, <1>19, <1>20 DEF Next, Own

(* The session of a sample is the only one.                                 *)
LEMMA SessionsStep ==
  ASSUME TypeOK, Shape, Modes, Sessions, [Next]_vars
  PROVE  Sessions'
<1>a. /\ mode \in {"run", "bench"}
      /\ Len(plan.load) \in Nat /\ DOMAIN plan.load = 1 .. Len(plan.load)
      /\ w \in 1 .. Len(plan.load)
      /\ guest.kind \in {"plain", "argv", "tool"} /\ guest.needs \in Nat \ {0}
      /\ mode = "run" => Len(plan.load) = 1 /\ w = 1 /\ guest.kind = "argv"
  BY GuestFacts
<1>b. /\ MaxCalls \in Nat /\ Warmups \in Nat /\ Iterations \in Nat \ {0}
      /\ None \notin Handle
  BY CountAssumption, NoneAssumption
<1> USE DEF Sessions, Modes, Shape, TypeOK, SendSteps, ReadSteps, Closure, driver, mode
<1>1. ASSUME NEW p \in Pointer, Upload(p)
      PROVE  Sessions'
  BY <1>1, <1>a, <1>b DEF Upload
<1>2. ASSUME NEW p \in Pointer, OutputAlloc(p)
      PROVE  Sessions'
  BY <1>2, <1>a, <1>b DEF OutputAlloc
<1>3. ASSUME NEW h \in Handle, CreateOk(h)
      PROVE  Sessions'
  BY <1>3, <1>a, <1>b DEF CreateOk
<1>4. CASE Call
  BY <1>4, <1>a, <1>b DEF Call
<1>5. CASE Release
  BY <1>5, <1>a, <1>b DEF Release, GiveUp, Following, Goto
<1>6. CASE LenEmpty
  BY <1>6, <1>a, <1>b DEF LenEmpty, Following, Goto
<1>7. CASE LenSome
  BY <1>7, <1>a, <1>b DEF LenSome
<1>8. CASE Copy
  BY <1>8, <1>a, <1>b DEF Copy
<1>9. CASE Run
  BY <1>9, <1>a, <1>b DEF Run, GiveUp, Goto
<1>10. ASSUME NEW n \in {1, 2}, Measured(n)
      PROVE  Sessions'
  BY <1>10, <1>a, <1>b DEF Measured, Goto
<1>11. CASE Compare
  BY <1>11, <1>a, <1>b DEF Compare, Goto
<1>12. CASE WriteOut
  BY <1>12, <1>a, <1>b DEF WriteOut, Goto
<1>13. CASE Destroy
  BY <1>13, <1>a, <1>b DEF Destroy, Goto
<1>14. CASE SampleDone
  BY <1>14, <1>a, <1>b DEF SampleDone, NextSample, Goto
<1>15. CASE GuestDone
  BY <1>15, <1>a, <1>b DEF GuestDone, Goto
<1>16. CASE SessionLeft
  BY <1>16, <1>a, <1>b DEF SessionLeft, Goto
<1>17. CASE CallRefused
  BY <1>17, <1>a, <1>b DEF CallRefused
<1>18. CASE DestroyFeigned
  BY <1>18, <1>a, <1>b DEF DestroyFeigned, Goto
<1>19. ASSUME NEW p \in Pointer, Fault(p)
      PROVE  Sessions'
  <2>1. UNCHANGED <<plan, sessions, made>> /\ kept \subseteq kept'
    BY <1>19 DEF Fault
  <2>2. CASE mode = "run" /\ at \in Closure
    BY <1>a, <1>b, <1>19, <2>1, <2>2 DEF Fault, GiveUp, Goto
  <2>3. CASE ~(mode = "run" /\ at \in Closure)
    <3>1. at' = "failed"
      BY <1>19, <2>3, Zenon DEF Fault, GiveUp, Goto
    <3>2. mode = "run" => sessions \subseteq kept'
      <4>1. CASE at \in {"create", "destroy"}
        <5>1. kept' = kept \cup ({made} \ {None})
          BY <1>19, <4>1 DEF Fault
        <5> QED  BY <1>b, <1>19, <4>1, <5>1 DEF Fault
      <4>2. CASE at \notin {"create", "destroy"}
        BY <1>a, <1>b, <1>19, <2>1, <2>3, <4>2 DEF Fault, Steps
      <4> QED  BY <4>1, <4>2
    <3> QED  BY <2>1, <3>1, <3>2
  <2> QED  BY <2>2, <2>3
<1>20. CASE UNCHANGED vars
  BY <1>20, <1>a, <1>b DEF vars
<1> QED
  BY <1>1, <1>2, <1>3, <1>4, <1>5, <1>6, <1>7, <1>8, <1>9, <1>10,
     <1>11, <1>12, <1>13, <1>14, <1>15, <1>16, <1>17, <1>18, <1>19, <1>20 DEF Next, Own

(* Every step keeps every variable in its type.                             *)
LEMMA TypeStep ==
  ASSUME TypeOK, Shape, Buffers, Modes, Sessions, Counting, [Next]_vars
  PROVE  TypeOK'
<1>a. /\ mode \in {"run", "bench"}
      /\ Len(plan.load) \in Nat /\ DOMAIN plan.load = 1 .. Len(plan.load)
      /\ w \in 1 .. Len(plan.load)
      /\ guest.kind \in {"plain", "argv", "tool"} /\ guest.needs \in Nat \ {0}
      /\ mode = "run" => Len(plan.load) = 1 /\ w = 1 /\ guest.kind = "argv"
  BY GuestFacts
<1>b. /\ MaxCalls \in Nat /\ Warmups \in Nat /\ Iterations \in Nat \ {0}
      /\ None \notin Handle
  BY CountAssumption, NoneAssumption
<1>c. /\ Operands \in {1, 2} /\ Len(held) \in Nat
      /\ held \in Seq(Pointer) /\ Len(held) <= 2
  BY LenProperties DEF Operands, TypeOK
<1>d. Len(<<>>) = 0 /\ <<>> \in Seq(Pointer)
  OBVIOUS
<1>e. ASSUME NEW x \in Steps, Goto(x)
      PROVE  at' \in Steps /\ phase' \in {"upload", "len", "single"}
  BY <1>e DEF Goto
<1>f. ASSUME GiveUp
      PROVE  /\ at' \in Steps /\ phase' \in {"upload", "len", "single"}
             /\ error' \in BOOLEAN /\ held' = <<>>
  <2>1. /\ Goto(IF mode = "run" /\ at \in Closure THEN "destroy" ELSE "failed")
        /\ error' = (error \/ (mode = "run" /\ at \in Closure)) /\ held' = <<>>
    BY <1>f DEF GiveUp
  <2>2. (IF mode = "run" /\ at \in Closure THEN "destroy" ELSE "failed") \in Steps
    BY DEF Steps, Over
  <2>3. error' \in BOOLEAN
    BY <2>1
  <2> QED  BY <1>e, <2>1, <2>2, <2>3
<1> USE DEF TypeOK, driver, results, Steps, Over, SendSteps, ReadSteps
<1>1. ASSUME NEW p \in Pointer, Upload(p)
      PROVE  TypeOK'
  <2>1. Len(held) + 1 <= Operands /\ p \notin ToSet(held)
    BY <1>a, <1>c, <1>1 DEF Upload, Buffers, Modes, Shape, SendSteps
  <2>2. Append(held, p) \in Seq(Pointer) /\ Len(Append(held, p)) <= 2
    BY <1>c, <2>1, Appending
  <2> QED  BY <1>c, <1>1, <2>2 DEF Upload
<1>2. ASSUME NEW p \in Pointer, OutputAlloc(p)
      PROVE  TypeOK'
  <2>1. <<p>> \in Seq(Pointer) /\ Len(<<p>>) = 1
    OBVIOUS
  <2> QED  BY <1>2, <2>1 DEF OutputAlloc
<1>3. ASSUME NEW h \in Handle, CreateOk(h)
      PROVE  TypeOK'
  BY <1>3, <1>a, <1>b, <1>c DEF CreateOk
<1>4. CASE Call
  BY <1>4, <1>a, <1>b, <1>c DEF Call
<1>5. CASE Release
  <2>1. /\ Len(held) \in {1, 2}
        /\ Len(held) = 2 => Front(held) \in Seq(Pointer) /\ Len(Front(held)) = 1
    BY <1>c, <1>5, Fronting DEF Release, Shape
  <2>2. CASE Len(held) = 2
    <3>1. /\ held' = Front(held) /\ heap' \subseteq Pointer
          /\ UNCHANGED <<at, phase, error>>
      BY <1>5, <2>2 DEF Release
    <3>2. held' \in Seq(Pointer) /\ Len(held') <= 2
      <4>1. Front(held) \in Seq(Pointer) /\ Len(Front(held)) <= 2
        BY ONLY <2>1, <2>2
      <4>2. held' = Front(held)
        BY <3>1
      <4> QED  BY ONLY <4>1, <4>2
    <3> QED  BY <1>5, <3>1, <3>2 DEF Release
  <2>3. CASE Len(held) = 1
    <3>1. held' = <<>> /\ \E x \in Steps : Goto(x)
      <4>1. Following \in Steps /\ {"destroy", "failed"} \subseteq Steps
        BY <1>5 DEF Release, Following, Shape, SendSteps, ReadSteps
      <4> QED  BY <1>5, <2>3, <4>1 DEF Release, GiveUp
    <3>2. at' \in Steps /\ phase' \in {"upload", "len", "single"}
      BY <3>1 DEF Goto
    <3>3. error' \in BOOLEAN
      BY <1>5 DEF Release, GiveUp
    <3>4. <<>> \in Seq(Pointer) /\ Len(<<>>) = 0
      OBVIOUS
    <3>5. heap' \subseteq Pointer
      BY <1>5 DEF Release
    <3> QED  BY <1>5, <3>1, <3>2, <3>3, <3>4, <3>5 DEF Release
  <2> QED  BY <2>1, <2>2, <2>3
<1>6. CASE LenEmpty
  <2>1. at \in ReadSteps
    BY <1>6 DEF LenEmpty, Shape
  <2>2. Following \in Steps /\ Goto(Following)
    BY <1>6, <2>1 DEF LenEmpty, Following, ReadSteps
  <2>3. at' \in Steps /\ phase' \in {"upload", "len", "single"}
    BY <1>e, <2>2
  <2> QED  BY <1>6, <2>3 DEF LenEmpty
<1>7. CASE LenSome
  BY <1>7, <1>a, <1>b, <1>c DEF LenSome
<1>8. CASE Copy
  BY <1>8, <1>a, <1>b, <1>c DEF Copy
<1>9. CASE Run
  <2>1. calls' \in 0 .. MaxCalls + 1
    BY <1>b, <1>9 DEF Run, Counting
  <2>2. /\ at' \in Steps /\ error' \in BOOLEAN
        /\ phase' \in {"upload", "call", "release", "len", "alloc", "copy", "single"}
        /\ held' \in Seq(Pointer) /\ Len(held') <= 2
    <3>1. CASE GiveUp
      BY <1>d, <1>f, <3>1
    <3>2. CASE \E x \in {"stdout", "measure"} : Goto(x) /\ UNCHANGED <<error, held>>
      BY <1>e, <3>2
    <3>3. CASE UNCHANGED <<at, phase, error, held>>
      BY <3>3
    <3> QED  BY <1>9, <3>1, <3>2, <3>3 DEF Run
  <2> QED  BY <1>9, <2>1, <2>2 DEF Run
<1>10. ASSUME NEW n \in {1, 2}, Measured(n)
      PROVE  TypeOK'
  <2>1. seen[w] \in SUBSET {1, 2}
    OBVIOUS
  <2>2. seen[w] \cup {n} \in SUBSET {1, 2}
    BY <2>1
  <2>3. [seen EXCEPT ![w] = @ \cup {n}] \in [DOMAIN plan.load -> SUBSET {1, 2}]
    BY <2>2
  <2>4. seen' \in [DOMAIN plan.load -> SUBSET {1, 2}]
    BY <1>10, <2>3 DEF Measured
  <2>5. at' \in Steps /\ phase' \in {"upload", "len", "single"}
    BY <1>e, <1>10 DEF Measured
  <2>6. faulted' \in BOOLEAN
    BY <1>10 DEF Measured
  <2> QED  BY <1>10, <2>4, <2>5, <2>6 DEF Measured
<1>11. CASE Compare
  BY <1>11, <1>a, <1>b, <1>c DEF Compare, Goto
<1>12. CASE WriteOut
  BY <1>12, <1>a, <1>b, <1>c DEF WriteOut, Goto
<1>13. CASE Destroy
  BY <1>13, <1>a, <1>b, <1>c DEF Destroy, Goto
<1>14. CASE SampleDone
  <2>1. counted' \in [DOMAIN plan.load -> 0 .. Iterations]
    <3>1. /\ counted[w] = IF Counts THEN sample - Warmups ELSE 0
          /\ sample \in 0 .. Warmups + Iterations - 1 /\ (Counts => sample >= Warmups)
      BY <1>14 DEF SampleDone, Counting, Counts
    <3>2. (IF Counts THEN counted[w] + 1 ELSE counted[w]) \in 0 .. Iterations
      BY <1>b, <3>1
    <3> QED  BY <1>14, <3>2 DEF SampleDone
  <2>2. /\ \E x \in {"failed", "create", "reported"} : Goto(x)
        /\ \/ UNCHANGED <<w, sample>>
           \/ sample + 1 # Warmups + Iterations /\ sample' = sample + 1 /\ w' = w
           \/ w < Len(plan.load) /\ w' = w + 1 /\ sample' = 0
    BY <1>14 DEF SampleDone, NextSample
  <2>3. w' \in DOMAIN plan.load /\ sample' \in 0 .. Warmups + Iterations - 1
    <3>1. w \in 1 .. Len(plan.load) /\ sample \in 0 .. Warmups + Iterations - 1
      BY <1>a
    <3>2. w' \in 1 .. Len(plan.load)
      BY ONLY <1>a, <2>2, <3>1
    <3>3. sample' \in 0 .. Warmups + Iterations - 1
      BY ONLY <1>b, <2>2, <3>1
    <3> QED  BY ONLY <1>a, <3>2, <3>3
  <2>4. at' \in Steps /\ phase' \in {"upload", "len", "single"}
    BY <1>e, <2>2
  <2>5. 0 \in 0 .. MaxCalls + 1
    BY <1>b
  <2> QED  BY <1>14, <2>1, <2>3, <2>4, <2>5 DEF SampleDone
<1>15. CASE GuestDone
  BY <1>15, <1>a, <1>b, <1>c DEF GuestDone, Goto
<1>16. CASE SessionLeft
  BY <1>16, <1>a, <1>b, <1>c DEF SessionLeft, Goto
<1>17. CASE CallRefused
  BY <1>17, <1>a, <1>b, <1>c DEF CallRefused
<1>18. CASE DestroyFeigned
  BY <1>18, <1>a, <1>b, <1>c DEF DestroyFeigned, Goto, Sessions
<1>19. ASSUME NEW p \in Pointer, Fault(p)
      PROVE  TypeOK'
  <2>1. /\ at' \in Steps /\ phase' \in {"upload", "len", "single"}
        /\ error' \in BOOLEAN /\ held' = <<>>
    BY <1>f, <1>19 DEF Fault
  <2>2. heap' \subseteq Pointer /\ kept' \subseteq Handle /\ faulted' = TRUE
    BY <1>19 DEF Fault
  <2> QED  BY <1>d, <1>19, <2>1, <2>2 DEF Fault
<1>20. CASE UNCHANGED vars
  BY <1>20, <1>a, <1>b, <1>c DEF vars
<1> QED
  BY <1>1, <1>2, <1>3, <1>4, <1>5, <1>6, <1>7, <1>8, <1>9, <1>10,
     <1>11, <1>12, <1>13, <1>14, <1>15, <1>16, <1>17, <1>18, <1>19, <1>20 DEF Next, Own

(* What is allocated is in hand, until a `?` is taken.                      *)
LEMMA BuffersStep ==
  ASSUME TypeOK, Shape, Modes, Buffers, [Next]_vars
  PROVE  Buffers'
<1>a. /\ mode \in {"run", "bench"}
      /\ Len(plan.load) \in Nat /\ DOMAIN plan.load = 1 .. Len(plan.load)
      /\ w \in 1 .. Len(plan.load)
      /\ guest.kind \in {"plain", "argv", "tool"} /\ guest.needs \in Nat \ {0}
      /\ mode = "run" => Len(plan.load) = 1 /\ w = 1 /\ guest.kind = "argv"
  BY GuestFacts
<1>c. /\ Operands \in {1, 2} /\ Len(held) \in Nat /\ held \in Seq(Pointer)
      /\ Len(held) <= 2 /\ ToSet(<<>>) = {} /\ at \in Steps
  BY LenProperties DEF Operands, TypeOK, ToSet
<1> USE DEF Buffers, driver
<1>1. ASSUME NEW p \in Pointer, Upload(p)
      PROVE  Buffers'
  <2>1. /\ Len(held) <= 1 /\ p \notin ToSet(held) /\ heap = ToSet(held)
    BY <1>a, <1>c, <1>1 DEF Upload, Modes, Shape, SendSteps
  <2>2. ToSet(Append(held, p)) = ToSet(held) \cup {p}
    BY <1>c, <2>1, Appending
  <2> QED  BY <1>1, <2>1, <2>2 DEF Upload
<1>2. ASSUME NEW p \in Pointer, OutputAlloc(p)
      PROVE  Buffers'
  <2>1. ToSet(<<p>>) = {p}
    BY DEF ToSet
  <2>2. ~error' /\ at' # "failed" => heap = {}
    BY <1>c, <1>2 DEF OutputAlloc, Shape
  <2> QED  BY <1>2, <2>1, <2>2 DEF OutputAlloc
<1>3. ASSUME NEW h \in Handle, CreateOk(h)
      PROVE  Buffers'
  BY <1>3, <1>a, <1>c DEF CreateOk
<1>4. CASE Call
  BY <1>4, <1>a, <1>c DEF Call
<1>5. CASE Release
  <2>1. /\ Len(held) \in {1, 2} /\ ~error /\ at # "failed"
        /\ heap = ToSet(held) /\ heap' = heap \ {Last(held)}
        /\ Len(held) = 1 => ToSet(held) \ {Last(held)} = {}
        /\ Len(held) = 2 => ToSet(Front(held)) = ToSet(held) \ {Last(held)}
    BY <1>c, <1>5, Fronting DEF Release, Shape, Modes, SendSteps, ReadSteps
  <2>2. Len(held) = 1 => held' = <<>>
    BY <1>5 DEF Release, GiveUp
  <2>3. Len(held) = 2 => held' = Front(held)
    BY <1>5 DEF Release
  <2> QED  BY <1>c, <2>1, <2>2, <2>3
<1>6. CASE LenEmpty
  <2>1. at \in ReadSteps /\ UNCHANGED <<heap, held, error>> /\ Goto(Following)
    BY <1>6 DEF LenEmpty, Shape
  <2> QED  BY <2>1 DEF ReadSteps
<1>7. CASE LenSome
  BY <1>7, <1>a, <1>c DEF LenSome
<1>8. CASE Copy
  BY <1>8, <1>a, <1>c DEF Copy
<1>9. CASE Run
  <2>1. held = <<>> /\ heap' = heap /\ ~error /\ at # "failed"
    <3>1. phase \in {"upload", "call", "release", "len", "alloc", "copy", "single"}
      BY DEF TypeOK
    <3> QED  BY <1>9, <3>1 DEF Run, Shape, Modes, SendSteps, ReadSteps
  <2>2. held' = <<>>
    BY <1>9, <2>1 DEF Run, GiveUp
  <2> QED  BY <1>c, <2>1, <2>2
<1>10. ASSUME NEW n \in {1, 2}, Measured(n)
      PROVE  Buffers'
  BY <1>10, <1>a, <1>c DEF Measured, Goto
<1>11. CASE Compare
  BY <1>11, <1>a, <1>c DEF Compare, Goto
<1>12. CASE WriteOut
  BY <1>12, <1>a, <1>c DEF WriteOut, Goto
<1>13. CASE Destroy
  BY <1>13, <1>a, <1>c DEF Destroy, Goto
<1>14. CASE SampleDone
  BY <1>14, <1>a, <1>c DEF SampleDone, NextSample, Goto
<1>15. CASE GuestDone
  BY <1>15, <1>a, <1>c DEF GuestDone, Goto
<1>16. CASE SessionLeft
  BY <1>16, <1>a, <1>c DEF SessionLeft, Goto
<1>17. CASE CallRefused
  BY <1>17, <1>a, <1>c DEF CallRefused
<1>18. CASE DestroyFeigned
  BY <1>18, <1>a, <1>c DEF DestroyFeigned, Goto
<1>19. ASSUME NEW p \in Pointer, Fault(p)
      PROVE  Buffers'
  <2>1. mode = "run" /\ at \in Closure => error'
    BY <1>19 DEF Fault, GiveUp
  <2>2. ~(mode = "run" /\ at \in Closure) => at' = "failed"
    BY <1>19, Zenon DEF Fault, GiveUp, Goto
  <2> QED  BY <2>1, <2>2
<1>20. CASE UNCHANGED vars
  BY <1>20, <1>a, <1>c DEF vars
<1> QED
  BY <1>1, <1>2, <1>3, <1>4, <1>5, <1>6, <1>7, <1>8, <1>9, <1>10,
     <1>11, <1>12, <1>13, <1>14, <1>15, <1>16, <1>17, <1>18, <1>19, <1>20 DEF Next, Own

(* The calls of a sample and the samples of a workload are counted.         *)
LEMMA CountingStep ==
  ASSUME TypeOK, Shape, Modes, Counting, [Next]_vars
  PROVE  Counting'
<1>a. /\ mode \in {"run", "bench"}
      /\ Len(plan.load) \in Nat /\ DOMAIN plan.load = 1 .. Len(plan.load)
      /\ w \in 1 .. Len(plan.load)
      /\ guest.kind \in {"plain", "argv", "tool"} /\ guest.needs \in Nat \ {0}
      /\ mode = "run" => Len(plan.load) = 1 /\ w = 1 /\ guest.kind = "argv"
  BY GuestFacts
<1>b. /\ MaxCalls \in Nat /\ Warmups \in Nat /\ Iterations \in Nat \ {0}
      /\ None \notin Handle
  BY CountAssumption, NoneAssumption
<1>c. /\ phase \in {"upload", "call", "release", "len", "alloc", "copy", "single"}
      /\ calls \in 0 .. MaxCalls + 1 /\ sample \in 0 .. Warmups + Iterations - 1
      /\ w \in DOMAIN plan.load
      /\ seen \in [DOMAIN plan.load -> SUBSET {1, 2}]
      /\ counted \in [DOMAIN plan.load -> 0 .. Iterations]
  BY DEF TypeOK
<1> USE DEF Counting, ReportSound, Counts, guest, Shape, Modes, SendSteps, ReadSteps,
           Over, driver, results, mode
<1>1. ASSUME NEW p \in Pointer, Upload(p)
      PROVE  Counting'
  BY <1>1, <1>a, <1>b, <1>c DEF Upload
<1>2. ASSUME NEW p \in Pointer, OutputAlloc(p)
      PROVE  Counting'
  BY <1>2, <1>a, <1>b, <1>c DEF OutputAlloc
<1>3. ASSUME NEW h \in Handle, CreateOk(h)
      PROVE  Counting'
  BY <1>3, <1>a, <1>b, <1>c DEF CreateOk
<1>4. CASE Call
  BY <1>4, <1>a, <1>b, <1>c DEF Call
<1>5. CASE Release
  <2>1. UNCHANGED <<plan, w, sample, calls, seen, counted>> /\ at \in SendSteps \cup ReadSteps
    BY <1>5, <1>c DEF Release
  <2>2. CASE UNCHANGED at
    BY <1>a, <2>1, <2>2
  <2>3. CASE Goto(Following)
    <3>1. \/ at \in SendSteps /\ at' \in {"create", "workspace", "run"}
          \/ at = "stdout" /\ at' = "stderr"
          \/ at = "stderr" /\ at' = (IF mode = "run" THEN "write" ELSE "compare")
      BY <2>1, <2>3 DEF Following, Goto
    <3> QED  BY <1>a, <1>b, <2>1, <3>1
  <2>4. CASE GiveUp
    <3>1. \/ mode = "run" /\ at' = "destroy"
          \/ at' = "failed"
      BY <2>4, Zenon DEF GiveUp, Goto
    <3>2. mode = "run" /\ at' = "destroy" => at \in Closure
      BY <2>4, Zenon DEF GiveUp, Goto
    <3> QED  BY <1>a, <2>1, <3>1, <3>2 DEF Closure
  <2> QED  BY <1>5, <2>2, <2>3, <2>4 DEF Release
<1>6. CASE LenEmpty
  <2>1. at \in {"stdout", "stderr"}
    BY <1>6 DEF LenEmpty
  <2> QED  BY <1>6, <1>a, <2>1 DEF LenEmpty, Following, Goto
<1>7. CASE LenSome
  BY <1>7, <1>a, <1>b, <1>c DEF LenSome
<1>8. CASE Copy
  BY <1>8, <1>a, <1>b, <1>c DEF Copy
<1>9. CASE Run
  BY <1>9, <1>a, <1>b, <1>c DEF Run, GiveUp, Goto
<1>10. ASSUME NEW n \in {1, 2}, Measured(n)
      PROVE  Counting'
  <2>1. seen' \in [DOMAIN plan.load -> SUBSET {1, 2}] /\ (Counts => seen'[w] # {})
        /\ \A i \in DOMAIN plan.load : i # w => seen'[i] = seen[i]
    BY <1>c, <1>10 DEF Measured
  <2>2. UNCHANGED <<plan, w, sample, counted>> /\ at = "measure" /\ at' = "stdout"
    BY <1>10 DEF Measured, Goto
  <2> QED  BY <1>a, <1>c, <2>1, <2>2
<1>11. CASE Compare
  BY <1>11, <1>a, <1>b, <1>c DEF Compare, Goto
<1>12. CASE WriteOut
  BY <1>12, <1>a, <1>b, <1>c DEF WriteOut, Goto
<1>13. CASE Destroy
  BY <1>13, <1>a, <1>b, <1>c DEF Destroy, Goto
<1>14. CASE SampleDone
  <2>1. /\ at = "count" /\ mode = "bench" /\ calls' = 0 /\ UNCHANGED <<plan, seen>>
        /\ counted[w] = IF Counts THEN sample - Warmups ELSE 0
    BY <1>14 DEF SampleDone
  <2>2. /\ counted'[w] = IF Counts THEN counted[w] + 1 ELSE counted[w]
        /\ \A i \in DOMAIN plan.load : i # w => counted'[i] = counted[i]
    BY <1>c, <1>14 DEF SampleDone
  <2>3. CASE sample + 1 # Warmups + Iterations
    <3>1. w' = w /\ sample' = sample + 1 /\ at' = "create"
      BY <1>14, <2>3 DEF SampleDone, NextSample, Goto
    <3> QED  BY <1>a, <1>b, <1>c, <2>1, <2>2, <2>3, <3>1
  <2>4. CASE sample + 1 = Warmups + Iterations
    <3>1. Counts /\ counted'[w] = Iterations
      BY <1>b, <1>c, <2>1, <2>2, <2>4
    <3>2. CASE Cardinality(seen[w]) # 1
      <4>1. UNCHANGED <<w, sample>> /\ at' = "failed"
        BY <1>14, <2>4, <3>2 DEF SampleDone, NextSample, Goto
      <4>2. \A i \in DOMAIN plan.load :
              /\ i > w => counted'[i] = 0
              /\ i < w => counted'[i] = Iterations /\ Cardinality(seen[i]) = 1
        BY <1>a, <2>2
      <4> QED  BY ONLY <2>1, <4>1, <4>2 DEF Counting, ReportSound, mode, SendSteps, Over
    <3>3. CASE Cardinality(seen[w]) = 1 /\ w < Len(plan.load)
      <4>1. w' = w + 1 /\ sample' = 0 /\ at' = "create"
        BY <1>14, <2>4, <3>3 DEF SampleDone, NextSample, Goto
      <4>2. ~Counts' \/ Warmups = 0
        BY <1>b, <4>1
      <4>3. counted'[w'] = 0
        <5>1. w + 1 \in DOMAIN plan.load /\ w + 1 # w /\ w + 1 > w
          BY <1>a, <3>3
        <5> QED  BY <2>2, <4>1, <5>1
      <4>4. \A i \in DOMAIN plan.load :
              /\ i > w' => counted'[i] = 0
              /\ i < w' => counted'[i] = Iterations /\ Cardinality(seen[i]) = 1
        <5> TAKE i \in DOMAIN plan.load
        <5>1. i \in Nat /\ w \in Nat
          BY <1>a
        <5>2. (i > w' => i > w /\ i # w) /\ (i < w' => i < w \/ i = w)
          BY ONLY <4>1, <5>1
        <5>3. i > w => counted[i] = 0 /\ i # w
          BY <5>1
        <5>4. i < w => counted[i] = Iterations /\ Cardinality(seen[i]) = 1 /\ i # w
          BY <5>1
        <5> QED  BY ONLY <2>2, <3>1, <3>3, <5>2, <5>3, <5>4
      <4>5. counted'[w'] = IF Counts' THEN sample' - Warmups ELSE 0
        BY ONLY <1>b, <4>1, <4>2, <4>3 DEF Counts
      <4> QED  BY ONLY <2>1, <4>1, <4>4, <4>5 DEF Counting, ReportSound, mode, SendSteps, Over
    <3>4. CASE Cardinality(seen[w]) = 1 /\ ~(w < Len(plan.load))
      <4>1. UNCHANGED <<w, sample>> /\ at' = "reported"
        BY <1>14, <2>4, <3>4 DEF SampleDone, NextSample, Goto
      <4>2. \A i \in DOMAIN plan.load :
              /\ i > w => counted'[i] = 0
              /\ i < w => counted'[i] = Iterations /\ Cardinality(seen[i]) = 1
        BY <1>a, <2>2
      <4>3. \A i \in DOMAIN plan.load : counted'[i] = Iterations /\ Cardinality(seen[i]) = 1
        BY ONLY <1>a, <3>1, <3>4, <4>2
      <4> QED  BY ONLY <2>1, <4>1, <4>2, <4>3 DEF Counting, ReportSound, mode, SendSteps, Over
    <3> QED  BY <3>2, <3>3, <3>4
  <2> QED  BY <2>3, <2>4
<1>15. CASE GuestDone
  BY <1>15, <1>a, <1>b, <1>c DEF GuestDone, Goto
<1>16. CASE SessionLeft
  BY <1>16, <1>a, <1>b, <1>c DEF SessionLeft, Goto
<1>17. CASE CallRefused
  BY <1>17, <1>a, <1>b, <1>c DEF CallRefused
<1>18. CASE DestroyFeigned
  BY <1>18, <1>a, <1>b, <1>c DEF DestroyFeigned, Goto
<1>19. ASSUME NEW p \in Pointer, Fault(p)
      PROVE  Counting'
  BY <1>19, <1>a, <1>b, <1>c DEF Fault, GiveUp, Goto
<1>20. CASE UNCHANGED vars
  BY <1>20, <1>a, <1>b, <1>c DEF vars
<1> QED
  BY <1>1, <1>2, <1>3, <1>4, <1>5, <1>6, <1>7, <1>8, <1>9, <1>10,
     <1>11, <1>12, <1>13, <1>14, <1>15, <1>16, <1>17, <1>18, <1>19, <1>20 DEF Next, Own

(* Nothing inside the program makes it fail.                                *)
LEMMA HonestStep ==
  ASSUME TypeOK, Shape, Modes, Sessions, Counting, Honest, [Next]_vars
  PROVE  Honest'
<1>a. /\ mode \in {"run", "bench"}
      /\ Len(plan.load) \in Nat /\ DOMAIN plan.load = 1 .. Len(plan.load)
      /\ w \in 1 .. Len(plan.load)
      /\ guest.kind \in {"plain", "argv", "tool"} /\ guest.needs \in Nat \ {0}
      /\ mode = "run" => Len(plan.load) = 1 /\ w = 1 /\ guest.kind = "argv"
  BY GuestFacts
<1>b. /\ MaxCalls \in Nat /\ Warmups \in Nat /\ Iterations \in Nat \ {0}
      /\ None \notin Handle
  BY CountAssumption, NoneAssumption
<1>c. /\ phase \in {"upload", "call", "release", "len", "alloc", "copy", "single"}
      /\ calls \in 0 .. MaxCalls + 1 /\ sample \in 0 .. Warmups + Iterations - 1
      /\ w \in DOMAIN plan.load
      /\ seen \in [DOMAIN plan.load -> SUBSET {1, 2}]
      /\ counted \in [DOMAIN plan.load -> 0 .. Iterations]
  BY DEF TypeOK
<1> USE DEF Honest, Sessions, Counting, Counts, guest, Shape, Modes, SendSteps, ReadSteps,
           Over, driver, results, mode
<1>1. ASSUME NEW p \in Pointer, Upload(p)
      PROVE  Honest'
  BY <1>1, <1>a, <1>b, <1>c DEF Upload
<1>2. ASSUME NEW p \in Pointer, OutputAlloc(p)
      PROVE  Honest'
  BY <1>2, <1>a, <1>b, <1>c DEF OutputAlloc
<1>3. ASSUME NEW h \in Handle, CreateOk(h)
      PROVE  Honest'
  BY <1>3, <1>a, <1>b, <1>c DEF CreateOk
<1>4. CASE Call
  BY <1>4, <1>a, <1>b, <1>c DEF Call
<1>5. CASE Release
  BY <1>5, <1>a, <1>b, <1>c DEF Release, GiveUp, Following, Goto
<1>6. CASE LenEmpty
  BY <1>6, <1>a, <1>b, <1>c DEF LenEmpty, Following, Goto
<1>7. CASE LenSome
  BY <1>7, <1>a, <1>b, <1>c DEF LenSome
<1>8. CASE Copy
  BY <1>8, <1>a, <1>b, <1>c DEF Copy
<1>9. CASE Run
  <2>1. UNCHANGED <<plan, w, answer, seen, faulted, kept>> /\ at = "run"
    BY <1>9 DEF Run
  <2>2. CASE calls' > MaxCalls
    <3>1. calls = MaxCalls /\ (calls = 0 \/ calls < guest.needs)
      BY <1>b, <1>c, <1>9, <2>2 DEF Run
    <3>2. ~(guest.needs <= MaxCalls)
      BY <1>a, <1>b, <3>1
    <3>3. ~(\A i \in DOMAIN plan.load : plan.load[i].needs <= MaxCalls)
      BY <1>c, <3>2
    <3>4. ~(\A i \in DOMAIN plan'.load : plan'.load[i].needs <= MaxCalls)
      BY <2>1, <3>3
    <3> QED  BY <2>1, <3>4
  <2>3. CASE ~(calls' > MaxCalls)
    <3>1. UNCHANGED error /\ at' # "failed"
      BY <1>9, <2>3 DEF Run, Goto
    <3> QED  BY <2>1, <3>1
  <2> QED  BY <2>2, <2>3
<1>10. ASSUME NEW n \in {1, 2}, Measured(n)
      PROVE  Honest'
  BY <1>10, <1>a, <1>b, <1>c DEF Measured, Goto
<1>11. CASE Compare
  BY <1>11, <1>a, <1>b, <1>c DEF Compare, Goto
<1>12. CASE WriteOut
  BY <1>12, <1>a, <1>b, <1>c DEF WriteOut, Goto
<1>13. CASE Destroy
  BY <1>13, <1>a, <1>b, <1>c DEF Destroy, Goto
<1>14. CASE SampleDone
  <2>1. /\ UNCHANGED <<plan, answer, error, seen, faulted, kept>>
        /\ at = "count" /\ mode = "bench"
    BY <1>14 DEF SampleDone
  <2>2. ~faulted => at' # "failed"
    <3> SUFFICES ASSUME ~faulted, at' = "failed"  PROVE FALSE
      OBVIOUS
    <3>1. sample + 1 = Warmups + Iterations /\ Cardinality(seen[w]) # 1
      BY <1>14 DEF SampleDone, NextSample, Goto
    <3>2. Counts
      BY <1>b, <1>c, <3>1
    <3>3. seen[w] = {1}
      BY <1>c, <2>1, <3>2
    <3> QED  BY <3>1, <3>3, FS_Singleton
  <2> QED  BY <2>1, <2>2
<1>15. CASE GuestDone
  BY <1>15, <1>a, <1>b, <1>c DEF GuestDone, Goto
<1>16. CASE SessionLeft
  <2>1. faulted
    BY <1>16 DEF SessionLeft
  <2> QED  BY <1>16, <2>1 DEF SessionLeft
<1>17. CASE CallRefused
  BY <1>17, <1>a, <1>b, <1>c DEF CallRefused
<1>18. CASE DestroyFeigned
  BY <1>18, <1>a, <1>b, <1>c DEF DestroyFeigned, Goto
<1>19. ASSUME NEW p \in Pointer, Fault(p)
      PROVE  Honest'
  BY <1>19, <1>a, <1>b, <1>c DEF Fault, GiveUp, Goto
<1>20. CASE UNCHANGED vars
  BY <1>20, <1>a, <1>b, <1>c DEF vars
<1> QED
  BY <1>1, <1>2, <1>3, <1>4, <1>5, <1>6, <1>7, <1>8, <1>9, <1>10,
     <1>11, <1>12, <1>13, <1>14, <1>15, <1>16, <1>17, <1>18, <1>19, <1>20 DEF Next, Own

-------------------------------------------------------------------------------
(* A command line starts with nothing allocated and nothing counted. *)
LEMMA InitIInv ==
  ASSUME Init
  PROVE  IInv
<1>1. plan \in Plans /\ plan.load # <<>> /\ w = 1
      /\ plan.load \in Seq([kind : {"plain", "argv", "tool"}, needs : Nat \ {0}])
      /\ plan.mode \in {"run", "bench"}
  BY PlanAssumption DEF Init
<1>2. DOMAIN plan.load = 1 .. Len(plan.load) /\ Len(plan.load) \in Nat \ {0}
  BY <1>1, LenProperties, EmptySeq
<1>3. 1 \in DOMAIN plan.load /\ \A i \in DOMAIN plan.load : ~(i < 1)
  BY <1>2
<1>4. MaxCalls \in Nat /\ Warmups \in Nat /\ Iterations \in Nat \ {0}
  BY CountAssumption
<1>5. /\ held = <<>> /\ heap = {} /\ ToSet(<<>>) = {} /\ 0 < Operands
      /\ <<>> \in Seq(Pointer) /\ Len(<<>>) = 0
  BY DEF Init, ToSet, Operands
<1>6. TypeOK
  <2>1. /\ seen \in [DOMAIN plan.load -> SUBSET {1, 2}]
        /\ counted \in [DOMAIN plan.load -> 0 .. Iterations]
    BY <1>4 DEF Init
  <2>2. /\ sample \in 0 .. Warmups + Iterations - 1
        /\ calls \in 0 .. MaxCalls + 1
    BY <1>4 DEF Init
  <2>3. plan \in Plans /\ w \in DOMAIN plan.load
    BY <1>1, <1>3
  <2>4. held \in Seq(Pointer) /\ Len(held) <= 2
    BY ONLY <1>5
  <2>5. at \in Steps
    BY DEF Init, Steps, SendSteps
  <2> QED  BY <2>1, <2>2, <2>3, <2>4, <2>5 DEF Init, TypeOK
<1>7. Shape /\ Buffers
  BY <1>5 DEF Init, Shape, Buffers, SendSteps, ReadSteps
<1>8. Modes /\ Sessions
  BY DEF Init, Modes, Sessions
<1>9. Counting
  BY <1>3, <1>4 DEF Init, Counting, ReportSound, Counts, SendSteps, Over
<1>10. Honest
  BY DEF Init, Honest
<1> QED
  BY <1>6, <1>7, <1>8, <1>9, <1>10 DEF IInv

(* The conjuncts say of a state what the runs check. *)
LEMMA IInvImplies ==
  ASSUME IInv
  PROVE  NativeInv /\ GuestSessionDestroyed /\ FittingGuestSucceeds
<1>1. InstanceClean
  <2>1. at \in {"exited", "reported"} => heap = {} /\ sessions = {}
    <3> SUFFICES ASSUME at \in {"exited", "reported"}
                 PROVE  heap = {} /\ sessions = {}
      OBVIOUS
    <3>1. held = <<>> /\ ~error
      BY DEF IInv, TypeOK, Shape, Modes, SendSteps, ReadSteps
    <3>2. ToSet(<<>>) = {}
      BY DEF ToSet
    <3> QED  BY <3>1, <3>2 DEF IInv, Buffers, Sessions
  <2>2. at = "create" /\ phase = "upload" /\ held = <<>> =>
          heap = {} /\ sessions = {}
    <3>1. ToSet(<<>>) = {}
      BY DEF ToSet
    <3> QED  BY <3>1 DEF IInv, Buffers, Sessions, Modes
  <2> QED  BY <2>1, <2>2 DEF InstanceClean
<1>2. GuestSessionDestroyed
  BY DEF IInv, TypeOK, Modes, Sessions, GuestSessionDestroyed, Over
<1>3. FittingGuestSucceeds
  BY DEF IInv, Honest, FittingGuestSucceeds
<1> QED
  BY <1>1, <1>2, <1>3 DEF IInv, NativeInv, Counting

(* Every reachable state of any command line is one the conjuncts describe. *)
THEOREM Invariance == Spec => []IInv
<1>1. Init => IInv
  BY InitIInv
<1>2. IInv /\ [Next]_vars => IInv'
  <2> SUFFICES ASSUME IInv, [Next]_vars  PROVE IInv'
    OBVIOUS
  <2>1. TypeOK /\ Shape /\ Buffers /\ Modes /\ Sessions /\ Counting /\ Honest
    BY DEF IInv
  <2>2. TypeOK' /\ Shape' /\ Buffers' /\ Modes'
    BY <2>1, TypeStep, ShapeStep, BuffersStep, ModesStep
  <2>3. Sessions' /\ Counting' /\ Honest'
    BY <2>1, SessionsStep, CountingStep, HonestStep
  <2> QED  BY <2>2, <2>3 DEF IInv
<1> QED
  BY <1>1, <1>2, PTL DEF Spec

(* Every sample and every success finds the instance without a buffer and   *)
(* without a session, and a report rests on as many samples of each         *)
(* workload as were asked for, all of the same step count: run_one and      *)
(* run_guest by hand do what a finally would.                               *)
THEOREM NativeSafety == Spec => []NativeInv
<1>1. IInv => NativeInv
  BY IInvImplies
<1> QED
  BY <1>1, Invariance, PTL

(* However running a guest ends, the session run_guest made is destroyed,   *)
(* unless the core refused to or never handed it over.                      *)
THEOREM DestroySafety == Spec => []GuestSessionDestroyed
<1>1. IInv => GuestSessionDestroyed
  BY IInvImplies
<1> QED
  BY <1>1, Invariance, PTL

(* The program itself fails no guest that exits within MAX_RUN_CALLS.       *)
THEOREM FittingSafety == Spec => []FittingGuestSucceeds
<1>1. IInv => FittingGuestSucceeds
  BY IInvImplies
<1> QED
  BY <1>1, Invariance, PTL
===============================================================================
