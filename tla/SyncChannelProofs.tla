--------------------------- MODULE SyncChannelProofs ---------------------------
(***************************************************************************)
(* Proofs about SyncChannel for any channels, any number of runs under way *)
(* at once, any Core versions and any number of edits: that a channel only *)
(* ever holds its old Core or the one its manifest names, that a refused   *)
(* run has replaced nothing, that a finished one has repaired its          *)
(* selection, and that the script implements ChannelStore.                 *)
(***************************************************************************)
EXTENDS SyncChannel, TLAPS

Waiting(r) == ToSet(todo[r])
Ready(r) == ToSet(pending[r])

(* The two lists a run works through hold no channel twice, and while it   *)
(* stages, they share its selection between them.                          *)
Queues ==
  \A r \in Run :
    /\ IsInjective(todo[r]) /\ IsInjective(pending[r])
    /\ pc[r] \in {"check", "write"} =>
         /\ todo[r] # <<>>
         /\ Waiting(r) \cap Ready(r) = {} /\ Waiting(r) \cup Ready(r) = chosen[r]
    /\ pc[r] = "replace" => pending[r] # <<>> /\ Ready(r) \subseteq chosen[r]

(* No two ends, and no two runs under way, are about the same channel.     *)
Apart == \A r, s \in Run : r # s => chosen[r] \cap chosen[s] = {}

(* A run that is under way has not ended.                                  *)
Verdicts == \A r \in Run : pc[r] # "idle" => last[r] = "none"

(* What a run has staged is what the manifest names and qualifies, still.  *)
Staging ==
  \A r \in Run :
    /\ pc[r] # "idle" =>
         \A c \in Ready(r) : manifest[c].pass /\ temp[c] = manifest[c].core
    /\ pc[r] = "write" =>
         manifest[This(r)].pass /\ bytes[r] = manifest[This(r)].core

(* Which of its channels a run has replaced, at each point of it.          *)
Progress ==
  \A r \in Run : \A c \in chosen[r] :
    /\ pc[r] \in {"check", "write"} => core[c] = before[c]
    /\ pc[r] = "replace" =>
         core[c] = IF c \in Ready(r) THEN before[c] ELSE manifest[c].core

IInv == /\ TypeOK /\ Queues /\ Apart /\ Verdicts /\ Staging /\ Progress
        /\ OldOrNew /\ RefusedRunReplacesNothing /\ DoneRepairs

-------------------------------------------------------------------------------
(* Appending a staged channel to the ready ones. *)
LEMMA AppendFacts ==
  ASSUME NEW S, NEW s \in Seq(S), NEW e \in S
  PROVE  /\ Append(s, e) \in Seq(S) /\ Append(s, e) # <<>>
         /\ ToSet(Append(s, e)) = ToSet(s) \cup {e}
         /\ e \notin ToSet(s) /\ IsInjective(s) => IsInjective(Append(s, e))
<1> DEFINE t == Append(s, e)
<1>1. /\ t \in Seq(S) /\ Len(t) = Len(s) + 1 /\ t # <<>>
      /\ DOMAIN s = 1 .. Len(s) /\ DOMAIN t = 1 .. Len(t) /\ Len(s) \in Nat
      /\ \A i \in 1 .. Len(s) : t[i] = s[i]
      /\ t[Len(s) + 1] = e
  OBVIOUS
<1> HIDE DEF t
<1>2. ToSet(t) = ToSet(s) \cup {e}
  BY <1>1 DEF ToSet
<1>3. ASSUME e \notin ToSet(s), IsInjective(s) PROVE IsInjective(t)
  BY <1>1, <1>3 DEF ToSet, IsInjective
<1> QED  BY <1>1, <1>2, <1>3 DEF t

(* Taking the next channel off a list. *)
LEMMA TailFacts ==
  ASSUME NEW S, NEW s \in Seq(S), s # <<>>
  PROVE  /\ Head(s) \in S /\ Tail(s) \in Seq(S)
         /\ ToSet(s) = {Head(s)} \cup ToSet(Tail(s))
         /\ IsInjective(s) => Head(s) \notin ToSet(Tail(s)) /\ IsInjective(Tail(s))
<1> DEFINE t == Tail(s)
           h == Head(s)
           n == Len(s)
<1>1. /\ n \in Nat \ {0} /\ DOMAIN s = 1 .. n /\ s[1] = h /\ h \in S
      /\ t \in Seq(S) /\ Len(t) = n - 1 /\ DOMAIN t = 1 .. n - 1
      /\ \A i \in 1 .. n - 1 : t[i] = s[i + 1]
  OBVIOUS
<1> HIDE DEF t, h, n
<1>2. /\ 1 \in 1 .. n
      /\ \A i \in 1 .. n : i = 1 \/ (i - 1 \in 1 .. n - 1 /\ t[i - 1] = s[i])
      /\ \A i \in 1 .. n - 1 : i + 1 \in 1 .. n /\ i + 1 # 1
  BY <1>1
<1>3. ToSet(s) = {h} \cup ToSet(t)
  <2>1. \A x : x \in ToSet(s) <=> \E i \in 1 .. n : s[i] = x
    BY <1>1 DEF ToSet
  <2>2. \A x : x \in ToSet(t) <=> \E i \in 1 .. n - 1 : t[i] = x
    BY <1>1 DEF ToSet
  <2>3. \A x \in ToSet(s) : x = h \/ x \in ToSet(t)
    BY <1>1, <1>2, <2>1, <2>2
  <2>4. h \in ToSet(s) /\ \A x \in ToSet(t) : x \in ToSet(s)
    BY <1>1, <1>2, <2>1, <2>2
  <2> QED  BY <2>3, <2>4
<1>4. ASSUME IsInjective(s) PROVE h \notin ToSet(t) /\ IsInjective(t)
  <2>1. \A i, j \in 1 .. n : s[i] = s[j] => i = j
    BY <1>1, <1>4 DEF IsInjective
  <2>2. h \notin ToSet(t)
    BY <1>1, <1>2, <2>1 DEF ToSet
  <2>3. IsInjective(t)
    <3> SUFFICES ASSUME NEW i \in 1 .. n - 1, NEW j \in 1 .. n - 1, t[i] = t[j]
                 PROVE  i = j
      BY <1>1 DEF IsInjective
    <3>1. i + 1 = j + 1
      BY <1>1, <1>2, <2>1
    <3> QED  BY <3>1
  <2> QED  BY <2>2, <2>3
<1> QED  BY <1>1, <1>3, <1>4 DEF t, h

(* The empty list holds nothing. *)
LEMMA EmptyFacts == ToSet(<<>>) = {} /\ IsInjective(<<>>)
BY DEF ToSet, IsInjective

(* A list of channels holds channels. *)
LEMMA ToSetType == ASSUME NEW S, NEW s \in Seq(S) PROVE ToSet(s) \subseteq S
BY DEF ToSet

(* What can be selected: some channels, each once. *)
LEMMA SelectionFacts ==
  ASSUME NEW s \in Selections
  PROVE  /\ s \in Seq(Channel) /\ s # <<>> /\ IsInjective(s)
         /\ ToSet(s) \subseteq Channel
<1>1. PICK m \in 0 .. Cardinality(Channel) : s \in [1 .. m -> Channel]
  BY DEF Selections, SeqOf
<1>2. m \in Nat
  BY <1>1
<1>3. s \in Seq(Channel)
  BY <1>1, <1>2
<1> QED  BY <1>3, ToSetType DEF Selections

(* Every step keeps every variable in its type. *)
LEMMA TypeStep ==
  ASSUME TypeOK, Queues, Staging, [Next]_vars
  PROVE  TypeOK'
<1> USE ContentAssumption
<1> USE DEF TypeOK, Queues, vars, files, run, history, Touch, Stop, Manifest
<1>1. ASSUME NEW c \in Channel, NEW m \in Manifest, Edit(c, m)
      PROVE  TypeOK'
  BY <1>1 DEF Edit
<1>2. ASSUME NEW r \in Run, NEW s \in Selections, Start(r, s)
      PROVE  TypeOK'
  BY <1>2, SelectionFacts DEF Start
<1>3. ASSUME NEW r \in Run, NEW d \in Version \cup {Torn}, Check(r, d)
      PROVE  TypeOK'
  BY <1>3, TailFacts DEF Check, This
<1>4. ASSUME NEW r \in Run, Refuse(r)
      PROVE  TypeOK'
  BY <1>4 DEF Refuse
<1>5. ASSUME NEW r \in Run, Staged(r)
      PROVE  TypeOK'
  <2>1. This(r) \in Channel /\ Tail(todo[r]) \in Seq(Channel)
    BY <1>5, TailFacts DEF Staged, This
  <2>2. Append(pending[r], This(r)) \in Seq(Channel)
    BY <2>1
  <2> QED  BY <1>5, <2>1, <2>2 DEF Staged
<1>6. ASSUME NEW r \in Run, Replace(r)
      PROVE  TypeOK'
  <2>1. Head(pending[r]) \in Channel /\ Tail(pending[r]) \in Seq(Channel)
    BY <1>6, TailFacts DEF Replace
  <2>2. temp[Head(pending[r])] \in Version
    BY <1>6, <2>1, TailFacts DEF Replace, Staging, Ready
  <2> QED  BY <1>6, <2>1, <2>2 DEF Replace
<1>7. ASSUME NEW r \in Run, Die(r)
      PROVE  TypeOK'
  BY <1>7 DEF Die
<1>8. CASE UNCHANGED vars
  BY <1>8
<1> QED  BY <1>1, <1>2, <1>3, <1>4, <1>5, <1>6, <1>7, <1>8 DEF Next

-------------------------------------------------------------------------------
(* What the steps that move channels between the lists do to them. *)

(* Staging moves one channel of the selection from the waiting to the ready. *)
LEMMA StagedMoves ==
  ASSUME TypeOK, Queues, NEW r \in Run, Staged(r)
  PROVE  /\ This(r) \in chosen[r] /\ This(r) \in Channel /\ This(r) \notin Ready(r)
         /\ This(r) \in Waiting(r)
         /\ Waiting(r)' = Waiting(r) \ {This(r)} /\ Ready(r)' = Ready(r) \cup {This(r)}
         /\ IsInjective(todo'[r]) /\ IsInjective(pending'[r]) /\ pending'[r] # <<>>
         /\ \A s \in Run \ {r} : todo'[s] = todo[s] /\ pending'[s] = pending[s]
<1> DEFINE h == This(r)
<1>1. /\ todo[r] \in Seq(Channel) /\ pending[r] \in Seq(Channel) /\ todo[r] # <<>>
      /\ IsInjective(todo[r]) /\ IsInjective(pending[r])
      /\ Waiting(r) \cap Ready(r) = {} /\ Waiting(r) \cup Ready(r) = chosen[r]
      /\ todo'[r] = Tail(todo[r]) /\ pending'[r] = Append(pending[r], h)
      /\ \A s \in Run \ {r} : todo'[s] = todo[s] /\ pending'[s] = pending[s]
  BY DEF TypeOK, Queues, Staged
<1>2. /\ h \in Channel /\ Waiting(r) = {h} \cup ToSet(Tail(todo[r]))
      /\ h \notin ToSet(Tail(todo[r])) /\ IsInjective(Tail(todo[r]))
  BY <1>1, TailFacts DEF This, Waiting
<1>3. h \notin Ready(r)
  BY <1>1, <1>2
<1>4. /\ ToSet(pending'[r]) = Ready(r) \cup {h} /\ IsInjective(pending'[r])
      /\ pending'[r] # <<>>
  BY <1>1, <1>2, <1>3, AppendFacts DEF Ready
<1> QED  BY <1>1, <1>2, <1>3, <1>4 DEF Waiting, Ready

(* Replacing takes one channel of the selection off the ready ones. *)
LEMMA ReplaceMoves ==
  ASSUME TypeOK, Queues, NEW r \in Run, Replace(r)
  PROVE  /\ Head(pending[r]) \in Ready(r) /\ Head(pending[r]) \in Channel
         /\ Head(pending[r]) \in chosen[r]
         /\ Ready(r)' = Ready(r) \ {Head(pending[r])} /\ IsInjective(pending'[r])
         /\ pending'[r] = <<>> => Ready(r)' = {}
         /\ \A s \in Run \ {r} : pending'[s] = pending[s]
<1>1. /\ pending[r] \in Seq(Channel) /\ pending[r] # <<>> /\ IsInjective(pending[r])
      /\ Ready(r) \subseteq chosen[r] /\ pending'[r] = Tail(pending[r])
      /\ \A s \in Run \ {r} : pending'[s] = pending[s]
  BY DEF TypeOK, Queues, Replace
<1> DEFINE h == Head(pending[r])
<1>2. /\ h \in Channel /\ Ready(r) = {h} \cup ToSet(Tail(pending[r]))
      /\ h \notin ToSet(Tail(pending[r])) /\ IsInjective(Tail(pending[r]))
  BY <1>1, TailFacts DEF Ready
<1>3. Ready(r)' = ToSet(Tail(pending[r]))
  BY <1>1 DEF Ready
<1>4. pending'[r] = <<>> => Ready(r)' = {}
  BY EmptyFacts DEF Ready
<1> HIDE DEF h
<1>5. Ready(r)' = Ready(r) \ {h} /\ IsInjective(pending'[r]) /\ h \in Ready(r)
      /\ h \in chosen[r]
  BY <1>1, <1>2, <1>3
<1> QED  BY <1>1, <1>2, <1>4, <1>5 DEF h

(* The lists of a run. *)
LEMMA QueuesStep ==
  ASSUME TypeOK, Queues, Apart, [Next]_vars
  PROVE  Queues'
<1> USE DEF vars, files, run, history, Stop
<1>1. ASSUME NEW c \in Channel, NEW m \in Manifest, Edit(c, m)
      PROVE  Queues'
  <2> SUFFICES ASSUME NEW r \in Run
               PROVE  /\ pc[r] \in {"check", "write"} => chosen'[r] = chosen[r]
                      /\ pc[r] = "replace" => chosen'[r] = chosen[r]
    BY <1>1 DEF Edit, Queues, Waiting, Ready
  <2> QED  BY <1>1 DEF Edit, Untouched, TypeOK
<1>2. ASSUME NEW r \in Run, NEW s \in Selections, Start(r, s)
      PROVE  Queues'
  <2>1. /\ s # <<>> /\ IsInjective(s)
        /\ todo'[r] = s /\ pending'[r] = <<>> /\ pc'[r] = "check"
        /\ chosen'[r] = ToSet(s)
    BY <1>2, SelectionFacts DEF Start, TypeOK
  <2>2. ASSUME NEW x \in Run, x # r
        PROVE  /\ todo'[x] = todo[x] /\ pending'[x] = pending[x] /\ pc'[x] = pc[x]
               /\ pc[x] # "idle" => chosen'[x] = chosen[x]
    BY <1>2, <2>2 DEF Start, TypeOK, Untouched
  <2> QED  BY <2>1, <2>2, EmptyFacts DEF Queues, Waiting, Ready
<1>3. ASSUME NEW r \in Run, NEW d \in Version \cup {Torn}, Check(r, d)
      PROVE  Queues'
  BY <1>3 DEF Check, Queues, Waiting, Ready, TypeOK
<1>4. ASSUME NEW r \in Run, Refuse(r)
      PROVE  Queues'
  BY <1>4 DEF Refuse, Queues, Waiting, Ready, TypeOK
<1>5. ASSUME NEW r \in Run, Staged(r)
      PROVE  Queues'
  <2>1. /\ pc'[r] = IF todo'[r] = <<>> THEN "replace" ELSE "check"
        /\ chosen' = chosen /\ pc[r] = "write"
        /\ \A s \in Run \ {r} : pc'[s] = pc[s]
    BY <1>5 DEF Staged, TypeOK
  <2>2. Waiting(r) \cap Ready(r) = {} /\ Waiting(r) \cup Ready(r) = chosen[r]
    BY <2>1 DEF Queues
  <2>3. /\ Waiting(r)' \cap Ready(r)' = {} /\ Waiting(r)' \cup Ready(r)' = chosen[r]
    BY <1>5, <2>2, StagedMoves
  <2>4. ASSUME NEW s \in Run \ {r}
        PROVE  Waiting(s)' = Waiting(s) /\ Ready(s)' = Ready(s)
    BY <1>5, StagedMoves DEF Waiting, Ready
  <2> QED  BY <1>5, <2>1, <2>3, <2>4, StagedMoves DEF Queues
<1>6. ASSUME NEW r \in Run, Replace(r)
      PROVE  Queues'
  <2>1. /\ pc'[r] \in {"idle", "replace"}
        /\ pending'[r] = <<>> => pc'[r] = "idle"
        /\ chosen' = chosen /\ todo' = todo /\ pc[r] = "replace"
        /\ \A s \in Run \ {r} : pc'[s] = pc[s]
    BY <1>6 DEF Replace, TypeOK
  <2>2. Ready(r)' \subseteq chosen[r]
    BY <1>6, <2>1, ReplaceMoves DEF Queues
  <2>3. ASSUME NEW s \in Run \ {r}
        PROVE  Waiting(s)' = Waiting(s) /\ Ready(s)' = Ready(s)
    BY <1>6, <2>1, ReplaceMoves DEF Waiting, Ready
  <2>4. IsInjective(pending'[r])
    BY <1>6, ReplaceMoves
  <2>5. \A s \in Run \ {r} : pending'[s] = pending[s]
    BY <1>6, ReplaceMoves
  <2>6. /\ Ready(r)' \subseteq chosen'[r] /\ IsInjective(todo'[r])
        /\ pc'[r] = "replace" => pending'[r] # <<>>
        /\ pc'[r] \notin {"check", "write"}
    BY <2>1, <2>2 DEF Queues
  <2>7. ASSUME NEW s \in Run \ {r}
        PROVE  /\ todo'[s] = todo[s] /\ pending'[s] = pending[s] /\ pc'[s] = pc[s]
               /\ Waiting(s)' = Waiting(s) /\ Ready(s)' = Ready(s)
               /\ chosen'[s] = chosen[s]
    BY <2>1, <2>3, <2>5
  <2> QED  BY <2>4, <2>6, <2>7 DEF Queues
<1>7. ASSUME NEW r \in Run, Die(r)
      PROVE  Queues'
  BY <1>7 DEF Die, Queues, Waiting, Ready, TypeOK
<1>8. CASE UNCHANGED vars
  BY <1>8 DEF Queues, Waiting, Ready
<1> QED  BY <1>1, <1>2, <1>3, <1>4, <1>5, <1>6, <1>7, <1>8 DEF Next

(* Starting takes its channels away from the ends that were about them. *)
LEMMA ApartStep ==
  ASSUME TypeOK, Apart, [Next]_vars
  PROVE  Apart'
<1> USE DEF vars, files, run, history, Stop, Apart
<1>1. ASSUME NEW c \in Channel, NEW m \in Manifest, Edit(c, m)
      PROVE  Apart'
  BY <1>1 DEF Edit
<1>2. ASSUME NEW r \in Run, NEW s \in Selections, Start(r, s)
      PROVE  Apart'
  BY <1>2 DEF Start
<1>3. CASE UNCHANGED chosen
  BY <1>3
<1> QED
  BY <1>1, <1>2, <1>3 DEF Next, Check, Refuse, Staged, Replace, Die

(* A run that has ended is idle. *)
LEMMA VerdictsStep ==
  ASSUME TypeOK, Verdicts, [Next]_vars
  PROVE  Verdicts'
<1> USE DEF vars, files, run, history, Stop, Verdicts, TypeOK
<1>1. ASSUME NEW r \in Run, NEW s \in Selections, Start(r, s)
      PROVE  Verdicts'
  BY <1>1 DEF Start
<1>2. ASSUME NEW r \in Run, NEW d \in Version \cup {Torn}, Check(r, d)
      PROVE  Verdicts'
  BY <1>2 DEF Check
<1>3. ASSUME NEW r \in Run, Refuse(r) \/ Die(r)
      PROVE  Verdicts'
  BY <1>3 DEF Refuse, Die
<1>4. ASSUME NEW r \in Run, Staged(r)
      PROVE  Verdicts'
  BY <1>4 DEF Staged
<1>5. ASSUME NEW r \in Run, Replace(r)
      PROVE  Verdicts'
  BY <1>5 DEF Replace
<1>6. CASE UNCHANGED <<pc, last>>
  BY <1>6
<1> QED
  BY <1>1, <1>2, <1>3, <1>4, <1>5, <1>6 DEF Next, Edit

(* What is staged stays staged, and what it was staged for stays named: an  *)
(* edit, a check or a rename that another run makes is of another channel.  *)
LEMMA StagingStep ==
  ASSUME TypeOK, Queues, Apart, Staging, [Next]_vars
  PROVE  Staging'
<1> USE DEF vars, files, run, history, Stop
<1>0. ASSUME NEW r \in Run, pc[r] # "idle"
      PROVE  /\ Ready(r) \subseteq chosen[r]
             /\ pc[r] \in {"check", "write"} =>
                  This(r) \in chosen[r] /\ This(r) \in Channel /\ This(r) \notin Ready(r)
  <2>1. pc[r] \in {"check", "write"} => This(r) \in Waiting(r) /\ This(r) \in Channel
    BY TailFacts DEF Queues, TypeOK, This, Waiting
  <2> QED  BY <1>0, <2>1 DEF Queues, TypeOK
<1>1. ASSUME NEW c \in Channel, NEW m \in Manifest, Edit(c, m)
      PROVE  Staging'
  <2> SUFFICES ASSUME NEW r \in Run, pc[r] # "idle"
               PROVE  /\ \A x \in Ready(r) : manifest'[x] = manifest[x]
                      /\ pc[r] = "write" => manifest'[This(r)] = manifest[This(r)]
    BY <1>1 DEF Edit, Staging, Ready, This
  <2>1. c \notin chosen[r]
    BY <1>1 DEF Edit, Untouched
  <2> QED  BY <1>0, <1>1, <2>1 DEF Edit, TypeOK
<1>2. ASSUME NEW r \in Run, NEW s \in Selections, Start(r, s)
      PROVE  Staging'
  <2>1. Ready(r)' = {} /\ pc'[r] = "check"
    BY <1>2, EmptyFacts DEF Start, TypeOK, Ready
  <2>2. ASSUME NEW x \in Run \ {r}
        PROVE  /\ Ready(x)' = Ready(x) /\ This(x)' = This(x) /\ pc'[x] = pc[x]
               /\ bytes'[x] = bytes[x]
    BY <1>2 DEF Start, TypeOK, Ready, This
  <2> QED  BY <1>2, <2>1, <2>2 DEF Start, Staging
<1>3. ASSUME NEW r \in Run, NEW d \in Version \cup {Torn}, Check(r, d)
      PROVE  Staging'
  <2>1. ASSUME NEW x \in Run
        PROVE  Ready(x)' = Ready(x) /\ This(x)' = This(x)
    BY <1>3 DEF Check, Ready, This
  <2>2. ASSUME NEW x \in Run, pc[x] # "idle"
        PROVE  This(r) \notin Ready(x)
    BY <1>0, <1>3, <2>2 DEF Check, Apart
  <2>3. ASSUME NEW x \in Run, pc[x] # "idle", NEW c \in Ready(x)
        PROVE  temp'[c] = temp[c] /\ manifest' = manifest
    BY <1>3, <1>0, <2>2, <2>3 DEF Check, TypeOK
  <2>4. manifest[This(r)].pass /\ bytes'[r] = manifest[This(r)].core
    BY <1>3 DEF Check, Verified, TypeOK
  <2>5. /\ pc[r] # "idle" /\ pc'[r] = "write"
        /\ \A x \in Run \ {r} : pc'[x] = pc[x] /\ bytes'[x] = bytes[x]
    BY <1>3 DEF Check, TypeOK
  <2>6. manifest' = manifest
    BY <1>3 DEF Check
  <2> QED  BY <2>1, <2>3, <2>4, <2>5, <2>6 DEF Staging
<1>4. ASSUME NEW r \in Run, Refuse(r) \/ Die(r)
      PROVE  Staging'
  BY <1>4 DEF Refuse, Die, Staging, TypeOK, Ready, This
<1>5. ASSUME NEW r \in Run, Staged(r)
      PROVE  Staging'
  <2>1. /\ manifest' = manifest /\ pc[r] = "write" /\ pc'[r] # "write" /\ bytes' = bytes
        /\ \A x \in Run \ {r} : pc'[x] = pc[x]
        /\ temp' = [temp EXCEPT ![This(r)] = bytes[r]]
    BY <1>5 DEF Staged, TypeOK
  <2>2. ASSUME NEW x \in Run \ {r}
        PROVE  Ready(x)' = Ready(x) /\ This(x)' = This(x)
    BY <1>5, StagedMoves DEF Ready, This
  <2>3. ASSUME NEW x \in Run, pc[x] # "idle", NEW c \in Ready(x)
        PROVE  temp'[c] = temp[c]
    <3>1. This(r) \in chosen[r] /\ This(r) \notin Ready(r) /\ c \in chosen[x]
      BY <1>0, <2>1, <2>3
    <3>2. c # This(r)
      BY <2>3, <3>1 DEF Apart
    <3> QED  BY <2>1, <3>1, <3>2 DEF TypeOK
  <2>4. Ready(r)' = Ready(r) \cup {This(r)} /\ This(r) \in Channel
    BY <1>5, StagedMoves
  <2>5. temp'[This(r)] = manifest[This(r)].core /\ manifest[This(r)].pass
    BY <2>1, <2>4 DEF Staging, TypeOK
  <2> QED  BY <2>1, <2>2, <2>3, <2>4, <2>5 DEF Staging
<1>6. ASSUME NEW r \in Run, Replace(r)
      PROVE  Staging'
  <2> DEFINE h == Head(pending[r])
  <2>1. /\ manifest' = manifest /\ pc[r] = "replace" /\ pc'[r] # "write"
        /\ bytes' = bytes /\ todo' = todo
        /\ \A x \in Run \ {r} : pc'[x] = pc[x]
        /\ temp' = [temp EXCEPT ![h] = Absent]
    BY <1>6 DEF Replace, TypeOK
  <2>2. ASSUME NEW x \in Run \ {r}
        PROVE  Ready(x)' = Ready(x) /\ This(x)' = This(x)
    BY <1>6, <2>1, ReplaceMoves DEF Ready, This
  <2>3. h \in chosen[r] /\ h \in Channel /\ Ready(r)' = Ready(r) \ {h}
    BY <1>6, ReplaceMoves
  <2> HIDE DEF h
  <2>4. ASSUME NEW x \in Run, pc[x] # "idle", NEW c \in Ready(x), c # h
        PROVE  temp'[c] = temp[c]
    BY <1>0, <2>1, <2>4 DEF TypeOK
  <2>5. ASSUME NEW x \in Run \ {r}, pc[x] # "idle"
        PROVE  h \notin Ready(x)
    BY <1>0, <2>3, <2>5 DEF Apart
  <2> QED  BY <2>1, <2>2, <2>3, <2>4, <2>5 DEF Staging
<1>8. CASE UNCHANGED vars
  BY <1>8 DEF Staging, Ready, This
<1> QED  BY <1>1, <1>2, <1>3, <1>4, <1>5, <1>6, <1>8 DEF Next

-------------------------------------------------------------------------------
(* A rename puts in place what the manifest names, of one selected channel. *)
LEMMA ReplaceEffect ==
  ASSUME TypeOK, Queues, Staging, NEW r \in Run, Replace(r)
  PROVE  LET h == Head(pending[r])
         IN  /\ h \in Channel /\ h \in chosen[r] /\ h \in Ready(r)
             /\ Ready(r)' = Ready(r) \ {h}
             /\ manifest[h].pass /\ manifest[h].core \in Version
             /\ core' = [core EXCEPT ![h] = manifest[h].core]
             /\ UNCHANGED <<manifest, before, chosen>>
             /\ pc[r] = "replace"
             /\ \A s \in Run \ {r} : /\ pc'[s] = pc[s] /\ last'[s] = last[s]
                                     /\ Ready(s)' = Ready(s)
             /\ \/ pc'[r] = "replace"
                \/ pc'[r] = "idle" /\ last'[r] = "done" /\ Ready(r)' = {}
<1> DEFINE h == Head(pending[r])
<1>1. /\ h \in Channel /\ h \in chosen[r] /\ h \in Ready(r)
      /\ Ready(r)' = Ready(r) \ {h}
      /\ pending'[r] = <<>> => Ready(r)' = {}
      /\ \A s \in Run \ {r} : Ready(s)' = Ready(s)
  BY ReplaceMoves DEF Ready
<1>2. /\ pc[r] = "replace" /\ core' = [core EXCEPT ![h] = temp[h]]
      /\ UNCHANGED <<manifest, before, chosen>>
      /\ \A s \in Run \ {r} : pc'[s] = pc[s] /\ last'[s] = last[s]
      /\ \/ pc'[r] = "replace"
         \/ pc'[r] = "idle" /\ last'[r] = "done" /\ pending'[r] = <<>>
  BY DEF Replace, Stop, TypeOK, history
<1> HIDE DEF h
<1>3. manifest[h].pass /\ temp[h] = manifest[h].core /\ manifest[h].core \in Version
  BY <1>1, <1>2 DEF Staging, TypeOK, Manifest
<1> QED  BY <1>1, <1>2, <1>3 DEF h

(* A run's progress through its own channels; those of the others it leaves. *)
LEMMA ProgressStep ==
  ASSUME TypeOK, Queues, Apart, Staging, Progress, [Next]_vars
  PROVE  Progress'
<1> USE DEF vars, files, run, history, Stop
<1>1. ASSUME NEW c \in Channel, NEW m \in Manifest, Edit(c, m)
      PROVE  Progress'
  <2> SUFFICES ASSUME NEW r \in Run, NEW x \in chosen'[r]
               PROVE  /\ x \in chosen[r] /\ pc'[r] = pc[r] /\ core'[x] = core[x]
                      /\ before'[x] = before[x] /\ manifest'[x] = manifest[x]
                      /\ Ready(r)' = Ready(r)
    BY DEF Progress
  <2>1. x \in chosen[r] /\ x # c /\ x \in Channel
    BY <1>1 DEF Edit, TypeOK
  <2> QED  BY <1>1, <2>1 DEF Edit, Touch, TypeOK, Ready
<1>2. ASSUME NEW r \in Run, NEW s \in Selections, Start(r, s)
      PROVE  Progress'
  <2>1. /\ pc'[r] = "check" /\ chosen'[r] = ToSet(s) /\ ToSet(s) \subseteq Channel
        /\ core' = core /\ manifest' = manifest
        /\ \A x \in ToSet(s) : before'[x] = core[x]
    BY <1>2, SelectionFacts DEF Start, Touch, TypeOK
  <2>2. ASSUME NEW y \in Run \ {r}, NEW x \in chosen'[y]
        PROVE  /\ x \in chosen[y] /\ pc'[y] = pc[y]
               /\ before'[x] = before[x] /\ Ready(y)' = Ready(y)
    BY <1>2 DEF Start, Touch, TypeOK, Ready
  <2> QED  BY <2>1, <2>2 DEF Progress
<1>3. ASSUME NEW r \in Run, NEW d \in Version \cup {Torn}, Check(r, d)
      PROVE  Progress'
  BY <1>3 DEF Check, Progress, TypeOK, Ready
<1>4. ASSUME NEW r \in Run, Refuse(r) \/ Die(r)
      PROVE  Progress'
  BY <1>4 DEF Refuse, Die, Progress, TypeOK, Ready
<1>5. ASSUME NEW r \in Run, Staged(r)
      PROVE  Progress'
  <2>1. /\ UNCHANGED <<manifest, core, before, chosen>> /\ pc[r] = "write"
        /\ pc'[r] = IF todo'[r] = <<>> THEN "replace" ELSE "check"
        /\ \A y \in Run \ {r} : pc'[y] = pc[y]
    BY <1>5 DEF Staged, TypeOK
  <2>2. \A y \in Run \ {r} : Ready(y)' = Ready(y)
    BY <1>5, StagedMoves DEF Ready
  <2>3. todo'[r] = <<>> => Ready(r)' = chosen[r]
    <3>1. ASSUME todo'[r] = <<>>
          PROVE  Waiting(r)' = {}
      BY <3>1, EmptyFacts DEF Waiting
    <3>2. Waiting(r) \cup Ready(r) = chosen[r]
      BY <2>1 DEF Queues
    <3> QED  BY <1>5, <3>1, <3>2, StagedMoves
  <2> QED  BY <2>1, <2>2, <2>3 DEF Progress
<1>6. ASSUME NEW r \in Run, Replace(r)
      PROVE  Progress'
  <2> DEFINE h == Head(pending[r])
  <2>1. /\ h \in Channel /\ h \in chosen[r] /\ h \in Ready(r)
        /\ Ready(r)' = Ready(r) \ {h}
        /\ core' = [core EXCEPT ![h] = manifest[h].core]
        /\ UNCHANGED <<manifest, before, chosen>>
        /\ pc[r] = "replace" /\ pc'[r] \in {"replace", "idle"}
        /\ \A y \in Run \ {r} : pc'[y] = pc[y] /\ Ready(y)' = Ready(y)
    BY <1>6, ReplaceEffect
  <2> HIDE DEF h
  <2>2. ASSUME NEW y \in Run \ {r}, NEW x \in chosen[y]
        PROVE  x # h /\ core'[x] = core[x]
    BY <2>1 DEF Apart, TypeOK
  <2>3. ASSUME NEW x \in chosen[r]
        PROVE  core'[x] = IF x = h THEN manifest[x].core ELSE core[x]
    BY <2>1 DEF TypeOK
  <2> QED  BY <2>1, <2>2, <2>3 DEF Progress
<1>7. CASE UNCHANGED vars
  BY <1>7 DEF Progress, Ready
<1> QED  BY <1>1, <1>2, <1>3, <1>4, <1>5, <1>6, <1>7 DEF Next

(* Each channel's Core is whole, and old or new. *)
LEMMA OldOrNewStep ==
  ASSUME TypeOK, Queues, Staging, OldOrNew, [Next]_vars
  PROVE  OldOrNew'
<1> USE ContentAssumption DEF vars, files, run, history, OldOrNew
<1>1. ASSUME NEW c \in Channel, NEW m \in Manifest, Edit(c, m)
      PROVE  OldOrNew'
  BY <1>1 DEF Edit, Touch, TypeOK
<1>2. ASSUME NEW r \in Run, NEW s \in Selections, Start(r, s)
      PROVE  OldOrNew'
  BY <1>2 DEF Start, Touch, TypeOK
<1>3. ASSUME NEW r \in Run, Replace(r)
      PROVE  OldOrNew'
  <2> DEFINE h == Head(pending[r])
  <2>1. /\ h \in Channel /\ manifest[h].core \in Version
        /\ core' = [core EXCEPT ![h] = manifest[h].core]
        /\ UNCHANGED <<manifest, before>>
    BY <1>3, ReplaceEffect
  <2> HIDE DEF h
  <2> QED  BY <2>1 DEF TypeOK
<1>4. CASE UNCHANGED <<manifest, core, before>>
  BY <1>4
<1> QED
  BY <1>1, <1>2, <1>3, <1>4 DEF Next, Check, Refuse, Staged, Die

(* What a run left behind when it ended is as it left it, until someone     *)
(* edits a manifest or selects the channel again.                           *)
LEMMA EndsStep ==
  ASSUME IInv, [Next]_vars
  PROVE  RefusedRunReplacesNothing' /\ DoneRepairs'
<1> DEFINE Ends(r, c) == /\ last[r] = "threw" => core[c] = before[c]
                         /\ last[r] = "done" => core[c] = manifest[c].core
<1> SUFFICES \A r \in Run : \A c \in chosen'[r] : Ends(r, c)'
  BY DEF RefusedRunReplacesNothing, DoneRepairs
<1>0. \A r \in Run : \A c \in chosen[r] : Ends(r, c) /\ c \in Channel
  BY DEF IInv, RefusedRunReplacesNothing, DoneRepairs, TypeOK
<1> USE DEF vars, files, run, history, Stop
<1>1. ASSUME NEW c \in Channel, NEW m \in Manifest, Edit(c, m)
      PROVE  \A r \in Run : \A x \in chosen'[r] : Ends(r, x)'
  <2>1. ASSUME NEW r \in Run, NEW x \in chosen'[r]
        PROVE  /\ x \in chosen[r] /\ last' = last /\ core' = core
               /\ before'[x] = before[x] /\ manifest'[x] = manifest[x]
    <3>1. x \in chosen[r] /\ x # c
      BY <1>1 DEF Edit
    <3> QED  BY <1>0, <1>1, <3>1 DEF Edit, Touch, IInv, TypeOK
  <2> QED  BY <1>0, <2>1
<1>2. ASSUME NEW r \in Run, NEW s \in Selections, Start(r, s)
      PROVE  \A y \in Run : \A x \in chosen'[y] : Ends(y, x)'
  <2>1. last'[r] = "none" /\ UNCHANGED <<core, manifest>>
    BY <1>2 DEF Start, IInv, TypeOK
  <2>2. ASSUME NEW y \in Run \ {r}, NEW x \in chosen'[y]
        PROVE  x \in chosen[y] /\ last'[y] = last[y] /\ before'[x] = before[x]
    <3>1. x \in chosen[y] /\ x \notin ToSet(s)
      BY <1>2 DEF Start
    <3> QED  BY <1>0, <1>2, <3>1 DEF Start, Touch, IInv, TypeOK
  <2> QED  BY <1>0, <2>1, <2>2
<1>3. ASSUME NEW r \in Run, Refuse(r) \/ Die(r)
      PROVE  \A y \in Run : \A x \in chosen'[y] : Ends(y, x)'
  <2>1. /\ UNCHANGED <<core, manifest, before, chosen>>
        /\ \A y \in Run \ {r} : last'[y] = last[y]
        /\ \/ last'[r] = "died"
           \/ last'[r] = "threw" /\ pc[r] = "check"
    BY <1>3 DEF Refuse, Die, IInv, TypeOK
  <2> QED  BY <1>0, <2>1 DEF IInv, Progress
<1>4. ASSUME NEW r \in Run, Replace(r)
      PROVE  \A y \in Run : \A x \in chosen'[y] : Ends(y, x)'
  <2> DEFINE h == Head(pending[r])
  <2>1. /\ h \in Channel /\ h \in chosen[r] /\ Ready(r)' = Ready(r) \ {h}
        /\ core' = [core EXCEPT ![h] = manifest[h].core]
        /\ UNCHANGED <<manifest, before, chosen>> /\ pc[r] = "replace"
        /\ \A y \in Run \ {r} : last'[y] = last[y]
        /\ \/ pc'[r] = "replace"
           \/ pc'[r] = "idle" /\ last'[r] = "done" /\ Ready(r)' = {}
    BY <1>4, ReplaceEffect DEF IInv
  <2> HIDE DEF h
  <2>2. ASSUME NEW y \in Run \ {r}, NEW x \in chosen[y]
        PROVE  core'[x] = core[x]
    BY <2>1 DEF IInv, Apart, TypeOK
  <2>3. CASE pc'[r] = "replace"
    BY <1>0, <1>4, <2>1, <2>2, <2>3, VerdictsStep DEF IInv, Verdicts
  <2>4. CASE last'[r] = "done" /\ Ready(r)' = {}
    <3>1. \A x \in chosen[r] : core'[x] = manifest[x].core
      BY <1>0, <2>1, <2>4 DEF IInv, Progress, TypeOK
    <3> QED  BY <1>0, <2>1, <2>2, <2>4, <3>1
  <2> QED  BY <2>1, <2>3, <2>4
<1>5. CASE UNCHANGED <<core, manifest, before, chosen, last>>
  BY <1>0, <1>5
<1> QED
  BY <1>1, <1>2, <1>3, <1>4, <1>5 DEF Next, Check, Staged

-------------------------------------------------------------------------------
(* The initial repository satisfies the invariant. *)
LEMMA InitIInv == Init => IInv
<1> SUFFICES ASSUME Init PROVE IInv
  OBVIOUS
<1> USE ContentAssumption DEF Init, Manifest
<1>1. TypeOK
  <2>1. <<>> \in Seq(Channel)
    OBVIOUS
  <2>2. manifest \in [Channel -> Manifest] /\ temp \in [Channel -> {Absent}]
    OBVIOUS
  <2>3. edits \in 0 .. MaxEdits
    OBVIOUS
  <2> QED  BY <2>1, <2>2, <2>3 DEF TypeOK
<1>2. Queues /\ Staging
  BY EmptyFacts DEF Queues, Staging, Waiting, Ready
<1>3. Apart /\ Verdicts /\ Progress /\ RefusedRunReplacesNothing /\ DoneRepairs
  BY DEF Apart, Verdicts, Progress, RefusedRunReplacesNothing, DoneRepairs
<1>4. OldOrNew
  BY DEF OldOrNew
<1> QED  BY <1>1, <1>2, <1>3, <1>4 DEF IInv

(* The invariant holds throughout: whatever runs start, stop, are refused   *)
(* or die, in whatever order their file operations come, and whatever is    *)
(* edited meanwhile.                                                        *)
THEOREM Invariance == Spec => []IInv
<1>1. ASSUME IInv, [Next]_vars
      PROVE  IInv'
  BY <1>1, TypeStep, QueuesStep, ApartStep, VerdictsStep, StagingStep,
     ProgressStep, OldOrNewStep, EndsStep DEF IInv
<1> QED
  BY <1>1, InitIInv, PTL DEF Spec

(* Wherever runs stop or die, every channel holds, whole, the Core it held  *)
(* before or the one its manifest names; a run that finished has brought    *)
(* every channel it selected to its manifest (sync-channel-core.mjs 18-95). *)
THEOREM SyncSafety == Spec => []SyncInv
<1>1. IInv => SyncInv
  BY DEF IInv, SyncInv
<1> QED
  BY <1>1, Invariance, PTL

(* All inputs are verified before any replacement: a run that is refused    *)
(* has replaced no Core, at whichever channel it is refused.                *)
THEOREM RefusalSafety == Spec => []RefusedRunReplacesNothing
<1>1. IInv => RefusedRunReplacesNothing
  BY DEF IInv
<1> QED
  BY <1>1, Invariance, PTL

(* The script's initial states are the store's. *)
LEMMA InitRefines == Init => Store!Init
BY DEF Init, Store!Init

(* Each step is an edit, a refresh of one channel to what a qualified       *)
(* manifest names, or nothing the store can see.                            *)
LEMMA StepRefines ==
  ASSUME IInv, [Next]_vars
  PROVE  [Store!Next]_<<manifest, core>>
<1> USE DEF vars, files, run, history
<1>1. ASSUME NEW c \in Channel, NEW m \in Manifest, Edit(c, m)
      PROVE  Store!Next
  BY <1>1 DEF Edit, Manifest, Store!Next, Store!Edit
<1>2. ASSUME NEW r \in Run, Replace(r)
      PROVE  Store!Next
  <2>1. Store!Refresh(Head(pending[r])) /\ Head(pending[r]) \in Channel
    BY <1>2, ReplaceEffect DEF IInv, Store!Refresh
  <2> QED  BY <2>1 DEF Store!Next
<1>3. CASE UNCHANGED <<manifest, core>>
  BY <1>3
<1> QED
  BY <1>1, <1>2, <1>3 DEF Next, Start, Check, Refuse, Staged, Die

(* The script implements the store of whole Cores, which knows neither runs *)
(* nor staging files: a channel only ever changes, in one step, to the Core *)
(* that its qualified manifest names at that moment.                        *)
THEOREM Refinement == Spec => ImplementsStore
<1>1. IInv /\ [Next]_vars => [Store!Next]_<<manifest, core>>
  BY StepRefines
<1> QED
  BY <1>1, InitRefines, Invariance, PTL DEF Spec, ImplementsStore, Store!Spec
===============================================================================
