-------------------------- MODULE HostTransferProofs --------------------------
(***************************************************************************)
(* Proofs about HostTransfer for every set of addresses and handles, over  *)
(* a core that may refuse any cleanup.  The safety properties speak of the *)
(* state between calls; to be inductive they are strengthened to every     *)
(* step of a call, which takes knowing what each step may hold.            *)
(***************************************************************************)
EXTENDS HostTransfer, TLAPS

ReceiveOps == ExportOps \cup ReadOps

(* What a call is, may hold and may have pending at each of its steps.     *)
Shape ==
  /\ pc \in {"upload", "call"} => op \in SendOps /\ ~threw
  /\ pc \in {"prepare", "discard"} => op \in ExportOps
  /\ pc = "len" => op \in ReceiveOps \ {"exportRestart"}
  /\ pc \in {"alloc", "copy"} => op \in ReceiveOps
  /\ pc \in {"idle", "prepare", "len", "alloc", "return"} => held = <<>>
  /\ pc = "discard" /\ op = "exportAgentSnapshot" => held = <<>>
  /\ pc \in {"copy", "release"} => held # <<>>
  /\ pc = "upload" => Len(held) < Uploads[op]
  /\ op \in ReceiveOps => target \in Handle
  /\ op \in ReceiveOps /\ applied => op = "take" /\ pc \in {"release", "return"}
  /\ op \notin CreateOps => made = None
  /\ made # None => applied
  /\ pc \in {"idle", "upload", "call"} => made = None /\ ~applied /\ ~threw

(* The core's memory, exactly, and no buffer both held and abandoned.      *)
Buffers == /\ heap = ToSet(held) \cup leaked
           /\ ToSet(held) \cap leaked = {}

(* The core's sessions, exactly; the handle on its way to the caller.      *)
Sessions == /\ sessions = owned \cup lost \cup ({made} \ {None})
            /\ owned \cap lost = {}
            /\ made \notin owned
            /\ made # None => (threw <=> made \in lost)

(* A prepared export belongs to the export that is running. *)
Exports == \A h \in Handle : prepared[h] # "none" /\ h \notin stuck =>
             /\ h = target
             /\ \/ op = "exportRestart" /\ pc \in {"alloc", "copy", "discard"}
                \/ /\ op = "exportAgentSnapshot"
                   /\ pc \in {"len", "alloc", "copy", "release", "discard"}

(* A call that took effect fails by a fault of its memory and not else.    *)
Settled == spoilt <=> applied /\ threw

IInv == /\ TypeOK /\ Shape /\ IsInjective(held)
        /\ Buffers /\ Sessions /\ Exports /\ Settled

-------------------------------------------------------------------------------
(* What pushing a buffer does to the set of held buffers. *)
LEMMA PushFacts ==
  ASSUME NEW S, NEW s \in Seq(S), NEW p \in S
  PROVE  /\ Append(s, p) \in Seq(S) /\ Append(s, p) # <<>>
         /\ Len(Append(s, p)) = Len(s) + 1
         /\ ToSet(Append(s, p)) = ToSet(s) \cup {p}
         /\ p \notin ToSet(s) /\ IsInjective(s) => IsInjective(Append(s, p))
<1> DEFINE t == Append(s, p)
<1>1. /\ t \in Seq(S) /\ Len(t) = Len(s) + 1 /\ t # <<>>
      /\ DOMAIN s = 1 .. Len(s) /\ DOMAIN t = 1 .. Len(t) /\ Len(s) \in Nat
      /\ \A i \in 1 .. Len(s) : t[i] = s[i]
      /\ t[Len(s) + 1] = p
  OBVIOUS
<1> HIDE DEF t
<1>2. ToSet(t) = ToSet(s) \cup {p}
  BY <1>1 DEF ToSet
<1>3. ASSUME p \notin ToSet(s), IsInjective(s) PROVE IsInjective(t)
  BY <1>1, <1>3 DEF ToSet, IsInjective
<1> QED  BY <1>1, <1>2, <1>3 DEF t

(* What popping the last buffer does to it. *)
LEMMA PopFacts ==
  ASSUME NEW S, NEW s \in Seq(S), s # <<>>
  PROVE  /\ Front(s) \in Seq(S) /\ Last(s) \in ToSet(s) /\ Last(s) \in S
         /\ Len(s) \in Nat \ {0} /\ Len(Front(s)) = Len(s) - 1
         /\ Front(s) = <<>> <=> Len(s) = 1
         /\ IsInjective(s) => /\ ToSet(Front(s)) = ToSet(s) \ {Last(s)}
                              /\ IsInjective(Front(s))
<1> DEFINE t == SubSeq(s, 1, Len(s) - 1)
           n == Len(s)
<1>1. n \in Nat \ {0} /\ DOMAIN s = 1 .. n /\ s[n] \in S
  OBVIOUS
<1>2. /\ t \in Seq(S) /\ Len(t) = n - 1 /\ DOMAIN t = 1 .. n - 1
      /\ \A i \in 1 .. n - 1 : t[i] = s[i]
  BY <1>1
<1> HIDE DEF t, n
<1>3. t = <<>> <=> n = 1
  BY <1>1, <1>2
<1>4. s[n] \in ToSet(s)
  BY <1>1 DEF ToSet
<1>5. ASSUME IsInjective(s)
      PROVE  ToSet(t) = ToSet(s) \ {s[n]} /\ IsInjective(t)
  BY <1>1, <1>2, <1>5 DEF ToSet, IsInjective
<1> QED  BY <1>1, <1>2, <1>3, <1>4, <1>5 DEF t, n, Front, Last

(* The empty stack holds nothing. *)
LEMMA EmptyFacts ==
  ToSet(<<>>) = {} /\ IsInjective(<<>>) /\ Len(<<>>) = 0
BY DEF ToSet, IsInjective

(* A sequence over S holds elements of S. *)
LEMMA ToSetType == ASSUME NEW S, NEW s \in Seq(S) PROVE ToSet(s) \subseteq S
BY DEF ToSet

(* A stack of one buffer. *)
LEMMA SingleFacts ==
  ASSUME NEW S, NEW p \in S
  PROVE  /\ <<p>> \in Seq(S) /\ ToSet(<<p>>) = {p} /\ IsInjective(<<p>>)
         /\ <<p>> # <<>>
BY DEF ToSet, IsInjective

(* Every step keeps every variable in its type.                            *)
LEMMA TypeStep ==
  ASSUME TypeOK, Shape, [Next]_vars
  PROVE  TypeOK'
<1> USE HighPointerAssumption, NoneAssumption
<1> USE DEF TypeOK, Shape, Steps, ReceiveOps, Ops, SendOps, WriteOps,
         ExportOps, ReadOps, CreateOps, ArgvOps, Uploads, core, frame, caller,
         faults, vars
<1>1. CASE BeginSend
  BY <1>1 DEF BeginSend, Enter
<1>2. CASE BeginEmptyPush
  BY <1>2 DEF BeginEmptyPush, Enter
<1>3. CASE BeginExport
  BY <1>3 DEF BeginExport, Enter
<1>4. CASE BeginRead
  BY <1>4 DEF BeginRead, Enter
<1>5. CASE RejectCapabilities
  BY <1>5 DEF RejectCapabilities
<1>6. CASE \E p \in Pointer : Upload(p)
  BY <1>6, PushFacts DEF Upload
<1>7. CASE \E p \in Pointer : UploadUnaddressable(p)
  BY <1>7 DEF UploadUnaddressable, Unwind
<1>8. CASE \E p \in Pointer : AllocOk(p)
  BY <1>8, SingleFacts DEF AllocOk
<1>9. CASE UploadFails
  BY <1>9 DEF UploadFails, Unwind
<1>10. CASE EncodeFails
  BY <1>10 DEF EncodeFails
<1>11. CASE SupplyOk
  BY <1>11 DEF SupplyOk, Unwind
<1>12. CASE CallFails
  BY <1>12 DEF CallFails, Unwind
<1>13. CASE PrepareOk
  BY <1>13 DEF PrepareOk
<1>14. CASE PrepareFails
  BY <1>14 DEF PrepareFails
<1>15. CASE LenSome
  BY <1>15 DEF LenSome
<1>16. CASE LenEmpty
  BY <1>16 DEF LenEmpty
<1>17. CASE LenFails
  BY <1>17 DEF LenFails
<1>18. CASE AllocFails
  BY <1>18 DEF AllocFails
<1>19. CASE CopyOk
  BY <1>19 DEF CopyOk, AfterCopy
<1>20. CASE CopyMismatch
  BY <1>20 DEF CopyMismatch, AfterCopy
<1>21. CASE DiscardRestart
  BY <1>21 DEF DiscardRestart, Unwind
<1>22. CASE DiscardSnapshot
  BY <1>22 DEF DiscardSnapshot
<1>23. CASE DiscardRefused
  BY <1>23 DEF DiscardRefused, Unwind
<1>24. CASE ReleaseOk
  BY <1>24, PopFacts DEF ReleaseOk, AfterRelease
<1>25. CASE ReleaseRefused
  BY <1>25, ToSetType DEF ReleaseRefused, AfterRelease
<1>26. CASE Return
  BY <1>26 DEF Return
<1>27. CASE \E h \in Handle : CreateOk(h)
  BY <1>27 DEF CreateOk, Unwind
<1>28. CASE \E h \in Handle : DestroyOk(h)
  BY <1>28 DEF DestroyOk
<1>29. CASE \E h \in Handle : DestroyFails(h)
  BY <1>29 DEF DestroyFails
<1>30. CASE UNCHANGED vars
  BY <1>30
<1> HIDE DEF TypeOK, Shape, Steps, ReceiveOps, Ops, SendOps, WriteOps,
         ExportOps, ReadOps, CreateOps, ArgvOps, Uploads, core, frame, caller,
         faults, vars
<1> QED
  BY <1>1, <1>2, <1>3, <1>4, <1>5, <1>6, <1>7, <1>8, <1>9, <1>10, <1>11, <1>12,
     <1>13, <1>14, <1>15, <1>16, <1>17, <1>18, <1>19, <1>20, <1>21, <1>22,
     <1>23, <1>24, <1>25, <1>26, <1>27, <1>28, <1>29, <1>30 DEF Next

(* Every step keeps what a call may hold at each point of the method.      *)
LEMMA ShapeStep ==
  ASSUME TypeOK, Shape, [Next]_vars
  PROVE  Shape'
<1> USE HighPointerAssumption, NoneAssumption
<1> USE DEF TypeOK, Shape, Steps, ReceiveOps, Ops, SendOps, WriteOps,
         ExportOps, ReadOps, CreateOps, ArgvOps, Uploads, core, frame, caller,
         faults, vars
<1>1. CASE BeginSend
  BY <1>1, EmptyFacts DEF BeginSend, Enter
<1>2. CASE BeginEmptyPush
  BY <1>2 DEF BeginEmptyPush, Enter
<1>3. CASE BeginExport
  BY <1>3 DEF BeginExport, Enter
<1>4. CASE BeginRead
  BY <1>4 DEF BeginRead, Enter
<1>5. CASE RejectCapabilities
  BY <1>5 DEF RejectCapabilities
<1>6. CASE \E p \in Pointer : Upload(p)
  BY <1>6, PushFacts DEF Upload
<1>7. CASE \E p \in Pointer : UploadUnaddressable(p)
  BY <1>7 DEF UploadUnaddressable, Unwind
<1>8. CASE \E p \in Pointer : AllocOk(p)
  BY <1>8, SingleFacts DEF AllocOk
<1>9. CASE UploadFails
  BY <1>9 DEF UploadFails, Unwind
<1>10. CASE EncodeFails
  <2>1. held # <<>> /\ op \in SendOps /\ op \notin ReceiveOps
    BY <1>10, EmptyFacts DEF EncodeFails
  <2> QED
    BY <1>10, <2>1 DEF EncodeFails
<1>11. CASE SupplyOk
  BY <1>11 DEF SupplyOk, Unwind
<1>12. CASE CallFails
  BY <1>12 DEF CallFails, Unwind
<1>13. CASE PrepareOk
  BY <1>13 DEF PrepareOk
<1>14. CASE PrepareFails
  BY <1>14 DEF PrepareFails
<1>15. CASE LenSome
  BY <1>15 DEF LenSome
<1>16. CASE LenEmpty
  BY <1>16 DEF LenEmpty
<1>17. CASE LenFails
  BY <1>17 DEF LenFails
<1>18. CASE AllocFails
  BY <1>18 DEF AllocFails
<1>19. CASE CopyOk
  BY <1>19 DEF CopyOk, AfterCopy
<1>20. CASE CopyMismatch
  BY <1>20 DEF CopyMismatch, AfterCopy
<1>21. CASE DiscardRestart
  BY <1>21 DEF DiscardRestart, Unwind
<1>22. CASE DiscardSnapshot
  BY <1>22 DEF DiscardSnapshot
<1>23. CASE DiscardRefused
  BY <1>23 DEF DiscardRefused, Unwind
<1>24. CASE ReleaseOk
  BY <1>24, PopFacts DEF ReleaseOk, AfterRelease
<1>25. CASE ReleaseRefused
  BY <1>25 DEF ReleaseRefused, AfterRelease
<1>26. CASE Return
  BY <1>26 DEF Return
<1>27. CASE \E h \in Handle : CreateOk(h)
  BY <1>27 DEF CreateOk, Unwind
<1>28. CASE \E h \in Handle : DestroyOk(h)
  BY <1>28 DEF DestroyOk
<1>29. CASE \E h \in Handle : DestroyFails(h)
  BY <1>29 DEF DestroyFails
<1>30. CASE UNCHANGED vars
  BY <1>30
<1> HIDE DEF TypeOK, Shape, Steps, ReceiveOps, Ops, SendOps, WriteOps,
         ExportOps, ReadOps, CreateOps, ArgvOps, Uploads, core, frame, caller,
         faults, vars
<1> QED
  BY <1>1, <1>2, <1>3, <1>4, <1>5, <1>6, <1>7, <1>8, <1>9, <1>10, <1>11, <1>12,
     <1>13, <1>14, <1>15, <1>16, <1>17, <1>18, <1>19, <1>20, <1>21, <1>22,
     <1>23, <1>24, <1>25, <1>26, <1>27, <1>28, <1>29, <1>30 DEF Next

(* Every step accounts for every buffer: Upload and AllocOk push what they *)
(* allocate, ReleaseOk pops what it frees, a fault moves it to leaked.     *)
LEMMA BuffersStep ==
  ASSUME TypeOK, Shape, IsInjective(held) /\ Buffers, [Next]_vars
  PROVE  (IsInjective(held) /\ Buffers)'
<1> USE HighPointerAssumption, NoneAssumption
<1> USE DEF TypeOK, Shape, Steps, ReceiveOps, Buffers, core, frame, caller,
         faults, vars
<1>1. CASE BeginSend
  BY <1>1 DEF BeginSend, Enter
<1>2. CASE BeginEmptyPush
  BY <1>2 DEF BeginEmptyPush, Enter
<1>3. CASE BeginExport
  BY <1>3 DEF BeginExport, Enter
<1>4. CASE BeginRead
  BY <1>4 DEF BeginRead, Enter
<1>5. CASE RejectCapabilities
  BY <1>5 DEF RejectCapabilities
<1>6. CASE \E p \in Pointer : Upload(p)
  BY <1>6, PushFacts DEF Upload
<1>7. CASE \E p \in Pointer : UploadUnaddressable(p)
  BY <1>7 DEF UploadUnaddressable, Unwind
<1>8. CASE \E p \in Pointer : AllocOk(p)
  BY <1>8, SingleFacts, EmptyFacts DEF AllocOk
<1>9. CASE UploadFails
  BY <1>9 DEF UploadFails, Unwind
<1>10. CASE EncodeFails
  BY <1>10 DEF EncodeFails
<1>11. CASE SupplyOk
  BY <1>11 DEF SupplyOk, Unwind
<1>12. CASE CallFails
  BY <1>12 DEF CallFails, Unwind
<1>13. CASE PrepareOk
  BY <1>13 DEF PrepareOk
<1>14. CASE PrepareFails
  BY <1>14 DEF PrepareFails
<1>15. CASE LenSome
  BY <1>15 DEF LenSome
<1>16. CASE LenEmpty
  BY <1>16 DEF LenEmpty
<1>17. CASE LenFails
  BY <1>17 DEF LenFails
<1>18. CASE AllocFails
  BY <1>18 DEF AllocFails
<1>19. CASE CopyOk
  BY <1>19 DEF CopyOk, AfterCopy
<1>20. CASE CopyMismatch
  BY <1>20 DEF CopyMismatch, AfterCopy
<1>21. CASE DiscardRestart
  BY <1>21 DEF DiscardRestart, Unwind
<1>22. CASE DiscardSnapshot
  BY <1>22 DEF DiscardSnapshot
<1>23. CASE DiscardRefused
  BY <1>23 DEF DiscardRefused, Unwind
<1>24. CASE ReleaseOk
  BY <1>24, PopFacts DEF ReleaseOk, AfterRelease
<1>25. CASE ReleaseRefused
  BY <1>25, EmptyFacts DEF ReleaseRefused, AfterRelease
<1>26. CASE Return
  BY <1>26 DEF Return
<1>27. CASE \E h \in Handle : CreateOk(h)
  BY <1>27 DEF CreateOk, Unwind
<1>28. CASE \E h \in Handle : DestroyOk(h)
  BY <1>28 DEF DestroyOk
<1>29. CASE \E h \in Handle : DestroyFails(h)
  BY <1>29 DEF DestroyFails
<1>30. CASE UNCHANGED vars
  BY <1>30
<1> HIDE DEF TypeOK, Shape, Steps, ReceiveOps, Buffers, core, frame, caller,
         faults, vars
<1> QED
  BY <1>1, <1>2, <1>3, <1>4, <1>5, <1>6, <1>7, <1>8, <1>9, <1>10, <1>11, <1>12,
     <1>13, <1>14, <1>15, <1>16, <1>17, <1>18, <1>19, <1>20, <1>21, <1>22,
     <1>23, <1>24, <1>25, <1>26, <1>27, <1>28, <1>29, <1>30 DEF Next

(* Every step accounts for every session: the new handle travels from the  *)
(* core to the caller or is lost with a refused release.                   *)
LEMMA SessionsStep ==
  ASSUME TypeOK, Shape, Sessions, [Next]_vars
  PROVE  Sessions'
<1> USE HighPointerAssumption, NoneAssumption
<1> USE DEF TypeOK, Shape, Steps, ReceiveOps, Sessions, Ops, SendOps, WriteOps,
         ExportOps, ReadOps, CreateOps, ArgvOps, Uploads, core, frame, caller,
         faults, vars
<1>1. CASE BeginSend
  BY <1>1 DEF BeginSend, Enter
<1>2. CASE BeginEmptyPush
  BY <1>2 DEF BeginEmptyPush, Enter
<1>3. CASE BeginExport
  BY <1>3 DEF BeginExport, Enter
<1>4. CASE BeginRead
  BY <1>4 DEF BeginRead, Enter
<1>5. CASE RejectCapabilities
  BY <1>5 DEF RejectCapabilities
<1>6. CASE \E p \in Pointer : Upload(p)
  BY <1>6 DEF Upload
<1>7. CASE \E p \in Pointer : UploadUnaddressable(p)
  BY <1>7 DEF UploadUnaddressable, Unwind
<1>8. CASE \E p \in Pointer : AllocOk(p)
  BY <1>8 DEF AllocOk
<1>9. CASE UploadFails
  BY <1>9 DEF UploadFails, Unwind
<1>10. CASE EncodeFails
  BY <1>10 DEF EncodeFails
<1>11. CASE SupplyOk
  BY <1>11 DEF SupplyOk, Unwind
<1>12. CASE CallFails
  BY <1>12 DEF CallFails, Unwind
<1>13. CASE PrepareOk
  BY <1>13 DEF PrepareOk
<1>14. CASE PrepareFails
  BY <1>14 DEF PrepareFails
<1>15. CASE LenSome
  BY <1>15 DEF LenSome
<1>16. CASE LenEmpty
  BY <1>16 DEF LenEmpty
<1>17. CASE LenFails
  BY <1>17 DEF LenFails
<1>18. CASE AllocFails
  BY <1>18 DEF AllocFails
<1>19. CASE CopyOk
  BY <1>19 DEF CopyOk, AfterCopy
<1>20. CASE CopyMismatch
  BY <1>20 DEF CopyMismatch, AfterCopy
<1>21. CASE DiscardRestart
  BY <1>21 DEF DiscardRestart, Unwind
<1>22. CASE DiscardSnapshot
  BY <1>22 DEF DiscardSnapshot
<1>23. CASE DiscardRefused
  BY <1>23 DEF DiscardRefused, Unwind
<1>24. CASE ReleaseOk
  BY <1>24 DEF ReleaseOk, AfterRelease
<1>25. CASE ReleaseRefused
  BY <1>25 DEF ReleaseRefused, AfterRelease
<1>26. CASE Return
  BY <1>26 DEF Return
<1>27. CASE \E h \in Handle : CreateOk(h)
  BY <1>27 DEF CreateOk, Unwind
<1>28. CASE \E h \in Handle : DestroyOk(h)
  BY <1>28 DEF DestroyOk
<1>29. CASE \E h \in Handle : DestroyFails(h)
  BY <1>29 DEF DestroyFails
<1>30. CASE UNCHANGED vars
  BY <1>30
<1> HIDE DEF TypeOK, Shape, Steps, ReceiveOps, Sessions, Ops, SendOps,
         WriteOps, ExportOps, ReadOps, CreateOps, ArgvOps, Uploads, core,
         frame, caller, faults, vars
<1> QED
  BY <1>1, <1>2, <1>3, <1>4, <1>5, <1>6, <1>7, <1>8, <1>9, <1>10, <1>11, <1>12,
     <1>13, <1>14, <1>15, <1>16, <1>17, <1>18, <1>19, <1>20, <1>21, <1>22,
     <1>23, <1>24, <1>25, <1>26, <1>27, <1>28, <1>29, <1>30 DEF Next

(* Every step leaves prepared only what the running export will copy or    *)
(* discard.                                                                *)
LEMMA ExportsStep ==
  ASSUME TypeOK, Shape, Exports, [Next]_vars
  PROVE  Exports'
<1> USE HighPointerAssumption, NoneAssumption
<1> USE DEF TypeOK, Shape, Steps, ReceiveOps, Exports, Ops, SendOps, WriteOps,
         ExportOps, ReadOps, CreateOps, ArgvOps, Uploads, core, frame, caller,
         faults, vars
<1>1. CASE BeginSend
  BY <1>1 DEF BeginSend, Enter
<1>2. CASE BeginEmptyPush
  BY <1>2 DEF BeginEmptyPush, Enter
<1>3. CASE BeginExport
  BY <1>3 DEF BeginExport, Enter
<1>4. CASE BeginRead
  BY <1>4 DEF BeginRead, Enter
<1>5. CASE RejectCapabilities
  BY <1>5 DEF RejectCapabilities
<1>6. CASE \E p \in Pointer : Upload(p)
  BY <1>6 DEF Upload
<1>7. CASE \E p \in Pointer : UploadUnaddressable(p)
  BY <1>7 DEF UploadUnaddressable, Unwind
<1>8. CASE \E p \in Pointer : AllocOk(p)
  BY <1>8 DEF AllocOk
<1>9. CASE UploadFails
  BY <1>9 DEF UploadFails, Unwind
<1>10. CASE EncodeFails
  BY <1>10 DEF EncodeFails
<1>11. CASE SupplyOk
  BY <1>11 DEF SupplyOk, Unwind
<1>12. CASE CallFails
  BY <1>12 DEF CallFails, Unwind
<1>13. CASE PrepareOk
  BY <1>13 DEF PrepareOk
<1>14. CASE PrepareFails
  BY <1>14 DEF PrepareFails
<1>15. CASE LenSome
  BY <1>15 DEF LenSome
<1>16. CASE LenEmpty
  BY <1>16 DEF LenEmpty
<1>17. CASE LenFails
  BY <1>17 DEF LenFails
<1>18. CASE AllocFails
  BY <1>18 DEF AllocFails
<1>19. CASE CopyOk
  BY <1>19 DEF CopyOk, AfterCopy
<1>20. CASE CopyMismatch
  BY <1>20 DEF CopyMismatch, AfterCopy
<1>21. CASE DiscardRestart
  BY <1>21 DEF DiscardRestart, Unwind
<1>22. CASE DiscardSnapshot
  BY <1>22 DEF DiscardSnapshot
<1>23. CASE DiscardRefused
  BY <1>23 DEF DiscardRefused, Unwind
<1>24. CASE ReleaseOk
  BY <1>24 DEF ReleaseOk, AfterRelease
<1>25. CASE ReleaseRefused
  BY <1>25 DEF ReleaseRefused, AfterRelease
<1>26. CASE Return
  BY <1>26 DEF Return
<1>27. CASE \E h \in Handle : CreateOk(h)
  BY <1>27 DEF CreateOk, Unwind
<1>28. CASE \E h \in Handle : DestroyOk(h)
  BY <1>28 DEF DestroyOk
<1>29. CASE \E h \in Handle : DestroyFails(h)
  BY <1>29 DEF DestroyFails
<1>30. CASE UNCHANGED vars
  BY <1>30
<1> HIDE DEF TypeOK, Shape, Steps, ReceiveOps, Exports, Ops, SendOps, WriteOps,
         ExportOps, ReadOps, CreateOps, ArgvOps, Uploads, core, frame, caller,
         faults, vars
<1> QED
  BY <1>1, <1>2, <1>3, <1>4, <1>5, <1>6, <1>7, <1>8, <1>9, <1>10, <1>11, <1>12,
     <1>13, <1>14, <1>15, <1>16, <1>17, <1>18, <1>19, <1>20, <1>21, <1>22,
     <1>23, <1>24, <1>25, <1>26, <1>27, <1>28, <1>29, <1>30 DEF Next

(* A method whose core call took effect can only fail over its buffers.    *)
LEMMA SettledStep ==
  ASSUME TypeOK, Shape, Settled, [Next]_vars
  PROVE  Settled'
<1> USE HighPointerAssumption, NoneAssumption
<1> USE DEF TypeOK, Shape, Steps, ReceiveOps, Settled, Ops, SendOps, WriteOps,
         ExportOps, ReadOps, CreateOps, ArgvOps, Uploads, core, frame, caller,
         faults, vars
<1>1. CASE BeginSend
  BY <1>1 DEF BeginSend, Enter
<1>2. CASE BeginEmptyPush
  BY <1>2 DEF BeginEmptyPush, Enter
<1>3. CASE BeginExport
  BY <1>3 DEF BeginExport, Enter
<1>4. CASE BeginRead
  BY <1>4 DEF BeginRead, Enter
<1>5. CASE RejectCapabilities
  BY <1>5 DEF RejectCapabilities
<1>6. CASE \E p \in Pointer : Upload(p)
  BY <1>6 DEF Upload
<1>7. CASE \E p \in Pointer : UploadUnaddressable(p)
  BY <1>7 DEF UploadUnaddressable, Unwind
<1>8. CASE \E p \in Pointer : AllocOk(p)
  BY <1>8 DEF AllocOk
<1>9. CASE UploadFails
  BY <1>9 DEF UploadFails, Unwind
<1>10. CASE EncodeFails
  BY <1>10 DEF EncodeFails
<1>11. CASE SupplyOk
  BY <1>11 DEF SupplyOk, Unwind
<1>12. CASE CallFails
  BY <1>12 DEF CallFails, Unwind
<1>13. CASE PrepareOk
  BY <1>13 DEF PrepareOk
<1>14. CASE PrepareFails
  BY <1>14 DEF PrepareFails
<1>15. CASE LenSome
  BY <1>15 DEF LenSome
<1>16. CASE LenEmpty
  BY <1>16 DEF LenEmpty
<1>17. CASE LenFails
  BY <1>17 DEF LenFails
<1>18. CASE AllocFails
  BY <1>18 DEF AllocFails
<1>19. CASE CopyOk
  BY <1>19 DEF CopyOk, AfterCopy
<1>20. CASE CopyMismatch
  BY <1>20 DEF CopyMismatch, AfterCopy
<1>21. CASE DiscardRestart
  BY <1>21 DEF DiscardRestart, Unwind
<1>22. CASE DiscardSnapshot
  BY <1>22 DEF DiscardSnapshot
<1>23. CASE DiscardRefused
  BY <1>23 DEF DiscardRefused, Unwind
<1>24. CASE ReleaseOk
  BY <1>24 DEF ReleaseOk, AfterRelease
<1>25. CASE ReleaseRefused
  BY <1>25 DEF ReleaseRefused, AfterRelease
<1>26. CASE Return
  BY <1>26 DEF Return
<1>27. CASE \E h \in Handle : CreateOk(h)
  BY <1>27 DEF CreateOk, Unwind
<1>28. CASE \E h \in Handle : DestroyOk(h)
  BY <1>28 DEF DestroyOk
<1>29. CASE \E h \in Handle : DestroyFails(h)
  BY <1>29 DEF DestroyFails
<1>30. CASE UNCHANGED vars
  BY <1>30
<1> HIDE DEF TypeOK, Shape, Steps, ReceiveOps, Settled, Ops, SendOps, WriteOps,
         ExportOps, ReadOps, CreateOps, ArgvOps, Uploads, core, frame, caller,
         faults, vars
<1> QED
  BY <1>1, <1>2, <1>3, <1>4, <1>5, <1>6, <1>7, <1>8, <1>9, <1>10, <1>11, <1>12,
     <1>13, <1>14, <1>15, <1>16, <1>17, <1>18, <1>19, <1>20, <1>21, <1>22,
     <1>23, <1>24, <1>25, <1>26, <1>27, <1>28, <1>29, <1>30 DEF Next

(* The strengthened invariant holds in every state of every behaviour.     *)
THEOREM Invariance == Spec => []IInv
<1>1. ASSUME Init PROVE IInv
  <2>1. TypeOK
    <3>1. prepared \in [Handle -> {"none"} \cup ExportOps]
      BY <1>1 DEF Init
    <3>2. held \in Seq(Pointer)
      BY <1>1 DEF Init
    <3>3. threw \in BOOLEAN /\ applied \in BOOLEAN
      BY <1>1 DEF Init
    <3>4. /\ heap = {} /\ sessions = {} /\ owned = {} /\ target = None
          /\ made = None /\ leaked = {} /\ lost = {} /\ stuck = {}
          /\ spoilt = FALSE
          /\ pc = "idle" /\ op = "none" /\ part = 1 /\ outcome = "none"
      BY <1>1 DEF Init
    <3> QED
      BY <3>1, <3>2, <3>3, <3>4 DEF TypeOK, Steps
  <2>2. Shape
    BY <1>1 DEF Init, Shape, ReceiveOps, ExportOps, ReadOps
  <2>3. IsInjective(held) /\ Buffers
    BY <1>1, EmptyFacts DEF Init, Buffers
  <2>4. Sessions /\ Exports /\ Settled
    BY <1>1, NoneAssumption DEF Init, Sessions, Exports, Settled
  <2> QED
    BY <2>1, <2>2, <2>3, <2>4 DEF IInv
<1>2. IInv /\ [Next]_vars => IInv'
  BY TypeStep, ShapeStep, BuffersStep, SessionsStep, ExportsStep, SettledStep
  DEF IInv
<1> QED
  BY <1>1, <1>2, PTL DEF Spec

(* Every variable keeps its type (the fields of AgentVmWasmHost's frames). *)
THEOREM TypeCorrect == Spec => []TypeOK
<1>1. IInv => TypeOK
  BY DEF IInv
<1> QED
  BY <1>1, Invariance, PTL

(* No double free and no copy through a pointer already given back.        *)
THEOREM HeldAlwaysLive == Spec => []HeldBuffersLive
<1>1. IInv => HeldBuffersLive
  BY DEF IInv, Buffers, HeldBuffersLive
<1> QED
  BY <1>1, Invariance, PTL

(* The `finally` blocks of every method give every transfer buffer back.   *)
THEOREM BuffersAlwaysReclaimed == Spec => []BuffersReclaimed
<1>1. IInv => BuffersReclaimed
  BY EmptyFacts DEF IInv, Shape, Buffers, BuffersReclaimed
<1> QED
  BY <1>1, Invariance, PTL

(* No export stays prepared when exportRestart or exportAgentSnapshot ends.*)
THEOREM ExportsAlwaysDiscarded == Spec => []ExportsDiscarded
<1>1. IInv => ExportsDiscarded
  BY DEF IInv, Exports, ExportsDiscarded
<1> QED
  BY <1>1, Invariance, PTL

(* The caller's handles and the core's sessions never drift apart.         *)
THEOREM SessionsAlwaysAccounted == Spec => []SessionsAccounted
<1>1. IInv => SessionsAccounted
  BY DEF IInv, Shape, Sessions, SessionsAccounted
<1> QED
  BY <1>1, Invariance, PTL

-------------------------------------------------------------------------------
(* The host starts where the service starts. *)
LEMMA InitRefines == Init => Service!Init
BY DEF Init, Service!Init

(* Every step of the host is a step of the service or leaves it unchanged: *)
(* the core call is where a method settles.                                *)
LEMMA StepRefines ==
  ASSUME IInv, [Next]_vars
  PROVE  [Service!Next]_(Service!vars)
<1> USE HighPointerAssumption, NoneAssumption
<1> USE DEF IInv, TypeOK, Shape, Settled, Steps, ReceiveOps, Ops, SendOps,
         WriteOps, ExportOps, ReadOps, CreateOps, core, frame, caller, faults,
         vars
<1>1. CASE BeginSend
  BY <1>1 DEF BeginSend, Enter, Service!Call, Service!Next
<1>2. CASE BeginEmptyPush
  BY <1>2 DEF BeginEmptyPush, Enter, Service!Call, Service!Next
<1>3. CASE BeginExport
  BY <1>3 DEF BeginExport, Enter, Service!Call, Service!Next
<1>4. CASE BeginRead
  BY <1>4 DEF BeginRead, Enter, Service!Call, Service!Next
<1>5. CASE RejectCapabilities
  BY <1>5 DEF RejectCapabilities, Service!Refuse, Service!Next
<1>6. CASE \E p \in Pointer : Upload(p)
  BY <1>6 DEF Upload, Service!vars
<1>7. CASE \E p \in Pointer : UploadUnaddressable(p)
  BY <1>7 DEF UploadUnaddressable, Unwind, Service!vars
<1>8. CASE \E p \in Pointer : AllocOk(p)
  BY <1>8 DEF AllocOk, Service!vars
<1>9. CASE UploadFails
  BY <1>9 DEF UploadFails, Unwind, Service!vars
<1>10. CASE EncodeFails
  BY <1>10 DEF EncodeFails, Service!vars
<1>11. CASE SupplyOk
  BY <1>11 DEF SupplyOk, Unwind, Service!Act, Service!Next
<1>12. CASE CallFails
  BY <1>12 DEF CallFails, Unwind, Service!vars
<1>13. CASE PrepareOk
  BY <1>13 DEF PrepareOk, Service!vars
<1>14. CASE PrepareFails
  BY <1>14 DEF PrepareFails, Service!vars
<1>15. CASE LenSome
  BY <1>15 DEF LenSome, Service!vars
<1>16. CASE LenEmpty
  BY <1>16 DEF LenEmpty, Service!vars
<1>17. CASE LenFails
  BY <1>17 DEF LenFails, Service!vars
<1>18. CASE AllocFails
  BY <1>18 DEF AllocFails, Service!vars
<1>19. CASE CopyOk
  <2>1. pc = "copy" /\ pc' = "release" /\ ~applied
        /\ (spoilt' <=> threw' /\ applied')
        /\ UNCHANGED <<sessions, owned, lost, outcome>>
    BY <1>19 DEF CopyOk
  <2>2. CASE ~applied'
    BY <2>1, <2>2 DEF Service!vars
  <2>3. CASE applied' /\ ~spoilt'
    BY <2>1, <2>3 DEF Service!Act, Service!Next
  <2>4. CASE applied' /\ spoilt'
    BY <2>1, <2>4 DEF Service!ActInVain, Service!Next
  <2> QED
    BY <2>2, <2>3, <2>4
<1>20. CASE CopyMismatch
  BY <1>20 DEF CopyMismatch, AfterCopy, Service!vars
<1>21. CASE DiscardRestart
  BY <1>21 DEF DiscardRestart, Unwind, Service!vars
<1>22. CASE DiscardSnapshot
  BY <1>22 DEF DiscardSnapshot, Service!vars
<1>23. CASE DiscardRefused
  BY <1>23 DEF DiscardRefused, Unwind, Service!vars
<1>24. CASE ReleaseOk
  BY <1>24, PopFacts DEF ReleaseOk, AfterRelease, Service!vars
<1>25. CASE ReleaseRefused
  <2>1. /\ pc = "release" /\ pc' # "idle" /\ UNCHANGED applied
        /\ spoilt' = applied /\ lost' = lost \cup ({made} \ {None})
        /\ UNCHANGED <<sessions, owned, outcome>>
    BY <1>25 DEF ReleaseRefused, AfterRelease
  <2>2. CASE applied /\ ~spoilt
    <3>1. lost' = sessions \ owned
      BY <2>1, <2>2 DEF Sessions
    <3> QED
      BY <2>1, <2>2, <3>1 DEF Service!Spoil, Service!Next
  <2>3. CASE ~applied \/ spoilt
    <3>1. lost' = lost
      BY <2>1, <2>3 DEF Sessions
    <3> QED
      BY <2>1, <2>3, <3>1 DEF Service!vars
  <2> QED
    BY <2>2, <2>3
<1>26. CASE Return
  <2>1. CASE threw
    BY <1>26, <2>1 DEF Return, Service!Throw, Service!Next
  <2>2. CASE ~threw
    <3>1. owned' = sessions \ lost
      BY <1>26, <2>2 DEF Return, Sessions
    <3> QED
      BY <1>26, <2>2, <3>1 DEF Return, Service!Answer, Service!Next
  <2> QED
    BY <2>1, <2>2
<1>27. CASE \E h \in Handle : CreateOk(h)
  <2>1. PICK h \in Handle : CreateOk(h)
    BY <1>27
  <2>2. Service!Open(h)
    BY <2>1 DEF CreateOk, Unwind, Service!Open
  <2> QED
    BY <2>2 DEF Service!Next
<1>28. CASE \E h \in Handle : DestroyOk(h)
  BY <1>28 DEF DestroyOk, Service!Destroy, Service!Next
<1>29. CASE \E h \in Handle : DestroyFails(h)
  BY <1>29 DEF DestroyFails, Service!Refuse, Service!Next
<1>30. CASE UNCHANGED vars
  BY <1>30 DEF Service!vars
<1> HIDE DEF IInv, TypeOK, Shape, Settled, Steps, ReceiveOps, Ops, SendOps,
         WriteOps, ExportOps, ReadOps, CreateOps, core, frame, caller, faults,
         vars
<1> QED
  BY <1>1, <1>2, <1>3, <1>4, <1>5, <1>6, <1>7, <1>8, <1>9, <1>10, <1>11, <1>12,
     <1>13, <1>14, <1>15, <1>16, <1>17, <1>18, <1>19, <1>20, <1>21, <1>22,
     <1>23, <1>24, <1>25, <1>26, <1>27, <1>28, <1>29, <1>30 DEF Next

(* The host implements the abstract session service, whatever the core      *)
(* refuses: host.mjs 105-426 and take and push of fetch-bridge.mjs 13-26 do  *)
(* all of a call or nothing, but where the memory of the call is at fault.   *)
THEOREM Refinement == Spec => ImplementsService
<1>1. IInv /\ [Next]_vars => [Service!Next]_(Service!vars)
  BY StepRefines
<1> QED
  BY <1>1, InitRefines, Invariance, PTL
  DEF Spec, ImplementsService, Service!Spec

===============================================================================
