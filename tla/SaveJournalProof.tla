--------------------------- MODULE SaveJournalProof ---------------------------
(***************************************************************************)
(* The stages of a journaled save or wipe and the files each leaves behind;*)
(* the records and the cache meanwhile; and that saves and wipes happen as *)
(* a whole or not at all - for any number of records, crashes and errors.  *)
(***************************************************************************)
EXTENDS SaveJournal, RecordMergeProof

-------------------------------------------------------------------------------
(* What the operators of SaveRequest return.                               *)

LEMMA EmptyBaseType == EmptyBase \in Base
BY DEF EmptyBase, Base

LEMMA FingerprintsType ==
  ASSUME NEW tree \in Tree
  PROVE  Fingerprints(tree) \in Base
BY FingerprintOfType DEF Fingerprints, Base, Tree

LEMMA ContentsType ==
  ASSUME NEW tree \in Tree
  PROVE  Contents(tree) \in Memory
BY DEF Contents, Memory, Tree, Record, Content, IsLive

LEMMA LiveKeysType ==
  ASSUME NEW memory
  PROVE  LiveKeys(memory) \subseteq Keys
BY DEF LiveKeys

LEMMA RequestType ==
  ASSUME NEW r \in Request
  PROVE  r.mem \in Memory /\ r.sent \subseteq LiveKeys(r.mem) /\ r.sent \subseteq Keys
         /\ r.base \in Base /\ r.at \in Nat /\ r # None /\ r # Torn
BY JournalAssumption DEF Request

LEMMA IncomingType ==
  ASSUME NEW r \in Request, NEW cur \in Record \cup {None}, NEW k \in Keys
  PROVE  /\ Incoming(r, cur, k) \in Record \cup {None}
         /\ Incoming(r, cur, k) # None => Incoming(r, cur, k).data # Gone
<1>1. r.base[k] \in Fingerprint \cup {None} /\ r.at \in Nat
  BY RequestType DEF Base
<1>2. CASE k \in r.sent
  <2>1. r.mem[k] \in Data
    BY <1>2, RequestType DEF LiveKeys, Memory, Content
  <2>2. /\ LiveRecord(r.mem[k], Device, r.at) \in Record
        /\ LiveRecord(r.mem[k], Device, r.at).data # Gone
    BY <2>1, <1>1, LiveRecordType, DeviceAssumption
  <2> DEFINE own == LiveRecord(r.mem[k], Device, r.at)
  <2> HIDE DEF own
  <2>3. /\ PrepareLocal(own, r.base[k], cur, Device, r.at) \in Record
        /\ PrepareLocal(own, r.base[k], cur, Device, r.at).data # Gone
    BY <2>2, <1>1, PrepareLocalType, DeviceAssumption DEF own
  <2>4. QED
    BY <1>2, <2>3 DEF Incoming, own
<1>3. CASE k \notin r.sent
  BY <1>3 DEF Incoming
<1>4. QED
  BY <1>2, <1>3

LEMMA MergedType ==
  ASSUME NEW r \in Request, NEW tree \in Tree
  PROVE  Merged(r, tree) \in Tree
<1>1. SUFFICES ASSUME NEW k \in Keys
               PROVE  MergedRecord(r, tree[k], k) \in Record \cup {None}
  BY DEF Merged, Tree
<1>2. r.base[k] \in Fingerprint \cup {None} /\ r.at \in Nat /\ tree[k] \in Record \cup {None}
  BY RequestType DEF Base, Tree
<1>3. Incoming(r, tree[k], k) \in Record \cup {None}
  BY <1>2, IncomingType
<1>4. (k \in LiveKeys(r.mem)) \in BOOLEAN
  OBVIOUS
<1>5. QED
  BY <1>2, <1>3, <1>4, MergeRecordType, DeviceAssumption DEF MergedRecord

LEMMA AcknowledgedType ==
  ASSUME NEW r \in Request, NEW current \in Tree, NEW merged \in Tree
  PROVE  Acknowledged(r, current, merged) \in Base
<1>1. SUFFICES ASSUME NEW k \in Keys
               PROVE  AcknowledgedBase(r.base[k], Incoming(r, current[k], k), merged[k])
                        \in Fingerprint \cup {None}
  BY DEF Acknowledged, Base
<1>2. r.base[k] \in Fingerprint \cup {None}
      /\ current[k] \in Record \cup {None} /\ merged[k] \in Record \cup {None}
  BY RequestType DEF Base, Tree
<1>3. Incoming(r, current[k], k) \in Record \cup {None}
  BY <1>2, IncomingType
<1>4. QED
  BY <1>2, <1>3, AcknowledgedBaseType

LEMMA TombstonesType ==
  ASSUME NEW tree \in Tree, NEW now \in Nat
  PROVE  Tombstones(tree, now) \in Tree
<1>1. SUFFICES ASSUME NEW k \in Keys, tree[k] # None
               PROVE  TombstoneWithBase(FingerprintOf(tree[k]), Device, now) \in Record
  BY DEF Tombstones, Tree
<1>2. FingerprintOf(tree[k]) \in Fingerprint \cup {None}
  BY FingerprintOfType DEF Tree
<1>3. QED
  BY <1>2, TombstoneType, DeviceAssumption

-------------------------------------------------------------------------------
(* The operation.                                                          *)

LEMMA NoOpType ==
  /\ NoOp \in Operation /\ NoOp.at = "idle" /\ ~NoOp.recovering
  /\ Down \in Operation /\ Down.at = "down" /\ ~Down.recovering
<1>1. NoPayload \in Payload
  BY DEF NoPayload, Payload, Memory, Content, LiveKeys
<1>2. NoOp \in Operation
  BY <1>1 DEF NoOp, Operation, Kinds, Stages, Pages
<1>3. QED
  BY <1>2 DEF NoOp, Down, Operation, Stages

LEMMA GotoType ==
  ASSUME op \in Operation, NEW stage \in Stages
  PROVE  LET next == [op EXCEPT !.at = stage]
         IN  /\ next \in Operation /\ next.at = stage
             /\ next.recovering = op.recovering /\ next.kind = op.kind
             /\ next.job = op.job /\ next.tree = op.tree
BY DEF Operation

LEMMA ResumeType ==
  ASSUME op \in Operation, Resume
  PROVE  op' \in Operation /\ op'.at = "body" /\ ~op'.recovering
BY DEF Resume, Operation, Stages

LEMMA CurrentType ==
  ASSUME TypeOK
  PROVE  Current \in Tree
BY DEF TypeOK, Current

LEMMA BeginMergeType ==
  ASSUME TypeOK, NEW r \in Request
  PROVE  /\ BeginMerge(r) \in Operation /\ BeginMerge(r).at = "write"
         /\ BeginMerge(r).job = r /\ BeginMerge(r).tree \in Tree
         /\ BeginMerge(r).recovering = op.recovering
<1>1. Merged(r, Current) \in Tree
  BY CurrentType, MergedType
<1>2. QED
  BY <1>1 DEF BeginMerge, TypeOK, Operation, Stages

LEMMA BeginBuryingType ==
  ASSUME TypeOK
  PROVE  /\ BeginBurying \in Operation /\ BeginBurying.at = "bury"
         /\ BeginBurying.tree \in Tree
         /\ BeginBurying.recovering = op.recovering
<1>1. Tombstones(disk, clock + 1) \in Tree
  BY TombstonesType DEF TypeOK
<1>2. QED
  BY <1>1 DEF BeginBurying, TypeOK, Operation, Stages

-------------------------------------------------------------------------------
(* The invariant.                                                          *)

LEMMA InitIInv == Init => IInv
<1> SUFFICES ASSUME Init PROVE IInv
  OBVIOUS
<1>1. \A d \in Data : LiveRecord(d, Device, 1) \in Record
  BY LiveRecordType, DeviceAssumption
<1>2. disk \in Tree
  BY <1>1 DEF Init, Tree
<1>3. TypeOK
  BY <1>2, EmptyBaseType, NoOpType DEF Init, TypeOK, Owners
<1>4. op.at = "down" /\ ~op.recovering
  BY NoOpType DEF Init
<1>5. FilesMatchTheStage /\ OperationIsComplete
  BY <1>4 DEF FilesMatchTheStage, OperationIsComplete
<1>6. QED
  BY <1>3, <1>5 DEF IInv

\* Taking the lock.
LEMMA CallIInv ==
  ASSUME IInv,
         Start \/ (\E kind \in {"peek", "serve", "wipe"} : Call(kind))
         \/ (\E sender \in Pages, memory \in Memory :
               \E sent \in SUBSET LiveKeys(memory) : CallSave(sender, memory, sent))
  PROVE  IInv'
<1>1. op' \in Operation /\ op'.at = "recover" /\ ~op'.recovering
  <2>1. \A kind \in Kinds :
          LET next == [NoOp EXCEPT !.kind = kind, !.at = "recover"]
          IN  next \in Operation /\ next.at = "recover" /\ ~next.recovering
    BY NoOpType DEF Operation, Stages
  <2>2. CASE Start \/ \E kind \in {"peek", "serve", "wipe"} : Call(kind)
    BY <2>1, <2>2 DEF Start, Call, Take, Kinds
  <2>3. ASSUME NEW sender \in Pages, NEW memory \in Memory,
               NEW sent \in SUBSET LiveKeys(memory), CallSave(sender, memory, sent)
        PROVE  op' \in Operation /\ op'.at = "recover" /\ ~op'.recovering
    <3>1. [mem |-> memory, sent |-> sent] \in Payload
      BY LiveKeysType DEF Payload
    <3>2. QED
      BY <2>3, <3>1, NoOpType DEF CallSave, Operation, Kinds, Stages
  <2>4. QED
    BY <2>2, <2>3
<1>2. UNCHANGED <<files, process, page, ghosts>>
      /\ acts' \in Nat /\ crashes' \in Nat /\ errors' \in Nat
  <2>1. CASE Start
    BY <2>1 DEF IInv, TypeOK, Start, bounds
  <2>2. CASE \E kind \in {"peek", "serve", "wipe"} : Call(kind)
    BY <2>2 DEF IInv, TypeOK, Call, Act
  <2>3. CASE \E sender \in Pages, memory \in Memory :
               \E sent \in SUBSET LiveKeys(memory) : CallSave(sender, memory, sent)
    <3>1. Act /\ UNCHANGED <<files, process, page, ghosts>>
      BY <2>3 DEF CallSave
    <3>2. QED
      BY <3>1 DEF IInv, TypeOK, Act
  <2>4. QED
    BY <2>1, <2>2, <2>3
<1>3. TypeOK'
  BY <1>1, <1>2 DEF IInv, TypeOK, files, process, ownership, page, ghosts
<1>4. QED
  BY <1>1, <1>3 DEF IInv, FilesMatchTheStage, OperationIsComplete

\* recover_pending_operations
LEMMA RecoverIInv ==
  ASSUME IInv, Recover
  PROVE  IInv'
<1> USE DEF IInv
<1>1. CASE NothingPending
  <2>1. op' \in Operation /\ op'.at = "body" /\ ~op'.recovering
    BY <1>1, GotoType
       DEF TypeOK, NothingPending, Goto, Stages, FilesMatchTheStage
  <2>2. UNCHANGED <<files, process, page, ghosts, bounds>> /\ NothingLeft
    BY <1>1 DEF NothingPending, NothingLeft
  <2>3. TypeOK'
    BY <2>1, <2>2 DEF TypeOK, files, process, ownership, page, ghosts, bounds
  <2>4. QED
    BY <2>1, <2>2, <2>3
       DEF FilesMatchTheStage, OperationIsComplete, NothingLeft, files
<1>2. CASE RecoverSave
  <2>1. Pending \in Request
    BY <1>2 DEF RecoverSave, Pending, TypeOK
  <2>2. /\ op' \in Operation /\ op'.at = "write" /\ op'.recovering
        /\ op'.job = Pending /\ op'.tree \in Tree
    <3> DEFINE next == BeginMerge(Pending)
    <3>1. /\ next \in Operation /\ next.at = "write"
          /\ next.job = Pending /\ next.tree \in Tree
      BY <2>1, BeginMergeType
    <3>2. op' = [next EXCEPT !.recovering = TRUE]
      BY <1>2 DEF RecoverSave
    <3> HIDE DEF next
    <3>3. QED
      BY <3>1, <3>2 DEF Operation
  <2>3. cache' \in Tree
        /\ UNCHANGED <<files, base, ownership, clock, page, ghosts, bounds>>
    BY <1>2, CurrentType DEF RecoverSave
  <2>4. TypeOK'
    BY <2>2, <2>3 DEF TypeOK, files, ownership, page, ghosts, bounds
  <2>5. Pending' = Pending /\ ~wiping'
    BY <1>2, <2>3 DEF RecoverSave, Pending, files
  <2>6. QED
    BY <2>1, <2>2, <2>4, <2>5 DEF FilesMatchTheStage, OperationIsComplete
<1>3. CASE Quarantine
  <2>1. op' \in Operation /\ op'.at = "body" /\ ~op'.recovering
    BY <1>3, GotoType DEF TypeOK, Quarantine, Goto, Stages, FilesMatchTheStage
  <2>2. NothingLeft' /\ UNCHANGED <<disk, wiping, process, page, ghosts, bounds>>
    BY <1>3 DEF Quarantine, NothingLeft
  <2>3. TypeOK'
    BY <2>1, <2>2 DEF TypeOK, NothingLeft, process, ownership, page, ghosts, bounds
  <2>4. QED
    BY <2>1, <2>2, <2>3 DEF FilesMatchTheStage, OperationIsComplete
<1>4. CASE RecoverWipe
  <2>1. op' \in Operation /\ op'.at = "bury" /\ op'.recovering /\ op'.tree \in Tree
    BY <1>4, BeginBuryingType DEF RecoverWipe, Operation
  <2>2. wiping' /\ clock' \in Nat
        /\ UNCHANGED <<files, cache, base, ownership, page, ghosts, bounds>>
    BY <1>4 DEF RecoverWipe, TypeOK, files
  <2>3. TypeOK'
    BY <2>1, <2>2 DEF TypeOK, files, ownership, page, ghosts, bounds
  <2>4. QED
    BY <2>1, <2>2, <2>3 DEF FilesMatchTheStage, OperationIsComplete
<1>5. QED
  BY <1>1, <1>2, <1>3, <1>4 DEF Recover

\* The body of an operation, up to the journal of a save.
LEMMA BodyIInv ==
  ASSUME IInv, Body
  PROVE  IInv'
<1> USE DEF IInv
<1>1. CASE Look
  <2>1. op' = NoOp /\ UNCHANGED <<files, process, page, ghosts, bounds>>
    BY <1>1 DEF Look, Finish
  <2>2. TypeOK'
    BY <2>1, NoOpType DEF TypeOK, files, process, ownership, page, ghosts, bounds
  <2>3. QED
    BY <2>1, <2>2, NoOpType DEF FilesMatchTheStage, OperationIsComplete
<1>2. CASE Serve
  <2>1. op' = NoOp /\ UNCHANGED <<files, clock, fresh, wipeFailed, bounds>>
    BY <1>2 DEF Serve, Finish
  <2>2. /\ cache' \in Tree /\ served' \in Base /\ base' \in Base /\ owner' \in Owners
        /\ mem' \in Memory /\ dirty' \subseteq Keys /\ held' \subseteq Keys
        /\ stale' \in BOOLEAN
    BY <1>2, FingerprintsType, ContentsType, LiveKeysType DEF Serve, TypeOK, Owners
  <2>3. TypeOK'
    BY <2>1, <2>2, NoOpType DEF TypeOK, files, bounds
  <2>4. QED
    BY <2>1, <2>3, NoOpType DEF FilesMatchTheStage, OperationIsComplete
<1>3. CASE AnnounceWipe
  <2>1. NothingLeft /\ ~op.recovering
    BY <1>3 DEF AnnounceWipe, FilesMatchTheStage
  <2>2. op' \in Operation /\ op'.at = "bury" /\ op'.tree \in Tree
    BY <1>3, BeginBuryingType DEF AnnounceWipe
  <2>3. /\ wiping' = TRUE /\ clock' \in Nat /\ fresh' \subseteq Keys
        /\ UNCHANGED <<disk, journal, temp, cache, base, ownership, page, held,
                       wipeFailed, stale, bounds>>
    BY <1>3 DEF AnnounceWipe, TypeOK
  <2>4. TypeOK'
    BY <2>2, <2>3 DEF TypeOK, ownership, page, bounds
  <2>5. QED
    BY <2>1, <2>2, <2>3, <2>4 DEF FilesMatchTheStage, OperationIsComplete, NothingLeft
<1>4. CASE Prepare
  <2> DEFINE job == [mem |-> op.payload.mem, sent |-> op.payload.sent,
                     base |-> base', at |-> clock + 1]
  <2>1. base' \in Base /\ served' \in Base \cup {None} /\ owner' \in Owners /\ clock' \in Nat
    BY <1>4 DEF Prepare, Claims, TypeOK, Owners
  <2>2. job \in Request
    BY <2>1 DEF TypeOK, Operation, Payload, Request
  <2>3. MovesTheBase \in BOOLEAN
    BY DEF MovesTheBase, Claims
  <2>4. op' = [op EXCEPT !.at = "stage", !.moves = MovesTheBase, !.job = job]
    BY <1>4 DEF Prepare
  <2> HIDE DEF job
  <2>5. /\ op' \in Operation /\ op'.at = "stage" /\ op'.job = job
        /\ op'.recovering = op.recovering
    BY <2>2, <2>3, <2>4 DEF TypeOK, Operation, Stages
  <2>6. UNCHANGED <<files, cache, page, ghosts, bounds>>
    BY <1>4 DEF Prepare
  <2>7. TypeOK'
    BY <2>1, <2>5, <2>6 DEF TypeOK, files, page, ghosts, bounds
  <2>8. ~op.recovering /\ NothingLeft /\ NothingLeft'
    BY <1>4, <2>6 DEF Prepare, FilesMatchTheStage, NothingLeft, files
  <2>9. QED
    BY <2>2, <2>5, <2>7, <2>8 DEF FilesMatchTheStage, OperationIsComplete
<1>5. CASE StageJournal
  <2>1. /\ op' \in Operation /\ op'.at = "fill" /\ op'.job = op.job
        /\ op'.recovering = op.recovering
    BY <1>5, GotoType DEF TypeOK, StageJournal, Goto, Stages
  <2>2. temp' = Torn /\ UNCHANGED <<disk, journal, wiping, process, page, ghosts, bounds>>
    BY <1>5 DEF StageJournal
  <2>3. TypeOK'
    BY <2>1, <2>2 DEF TypeOK, process, ownership, page, ghosts, bounds
  <2>4. ~op.recovering /\ NothingLeft /\ op.job \in Request
    BY <1>5 DEF StageJournal, FilesMatchTheStage, OperationIsComplete
  <2>5. QED
    BY <2>1, <2>2, <2>3, <2>4 DEF FilesMatchTheStage, OperationIsComplete, NothingLeft
<1>6. CASE FillJournal
  <2>1. /\ op' \in Operation /\ op'.at = "install" /\ op'.job = op.job
        /\ op'.recovering = op.recovering
    BY <1>6, GotoType DEF TypeOK, FillJournal, Goto, Stages
  <2>2. op.job \in Request /\ op.job.sent \subseteq Keys
    BY <1>6, RequestType DEF FillJournal, OperationIsComplete
  <2>3. /\ temp' = op.job
        /\ UNCHANGED <<disk, journal, wiping, process, page, held, wipeFailed, bounds>>
    BY <1>6 DEF FillJournal
  <2>4. fresh' \subseteq Keys
    BY <1>6, <2>2 DEF FillJournal, TypeOK
  <2>5. stale' \in BOOLEAN
    BY <1>6 DEF FillJournal, TypeOK
  <2>6. TypeOK'
    BY <2>1, <2>2, <2>3, <2>4, <2>5 DEF TypeOK, process, ownership, page, bounds
  <2>7. ~op.recovering /\ journal = None /\ ~wiping
    BY <1>6 DEF FillJournal, FilesMatchTheStage
  <2>8. QED
    BY <2>1, <2>2, <2>3, <2>6, <2>7 DEF FilesMatchTheStage, OperationIsComplete
<1>7. CASE InstallJournal
  <2>1. op.job \in Request /\ temp = op.job /\ ~wiping /\ ~op.recovering
    BY <1>7 DEF InstallJournal, FilesMatchTheStage, OperationIsComplete
  <2>2. /\ op' \in Operation /\ op'.at = "write" /\ op'.job = op.job
        /\ op'.tree \in Tree
    BY <1>7, <2>1, BeginMergeType DEF InstallJournal
  <2>3. /\ journal' = op.job /\ temp' = None /\ cache' \in Tree
        /\ UNCHANGED <<disk, wiping, base, ownership, clock, page, ghosts, bounds>>
    BY <1>7, <2>1, CurrentType DEF InstallJournal
  <2>4. TypeOK'
    BY <2>1, <2>2, <2>3 DEF TypeOK, ownership, page, ghosts, bounds
  <2>5. Pending' = op.job /\ ~wiping'
    BY <2>1, <2>3, RequestType DEF Pending
  <2>6. QED
    BY <2>1, <2>2, <2>4, <2>5 DEF FilesMatchTheStage, OperationIsComplete
<1>8. QED
  BY <1>1, <1>2, <1>3, <1>4, <1>5, <1>6, <1>7 DEF Body

\* Writing, and putting the journals away.
LEMMA FinishingIInv ==
  ASSUME IInv, Finishing
  PROVE  IInv'
<1> USE DEF IInv
<1>1. ASSUME NEW k \in Keys, WriteRecord(k)
      PROVE  IInv'
  <2>1. /\ op' \in Operation /\ op'.at = op.at /\ op'.job = op.job
        /\ op'.tree = op.tree /\ op'.recovering = op.recovering
    BY <1>1 DEF WriteRecord, TypeOK, Operation
  <2>2. op.tree \in Tree
    BY <1>1 DEF WriteRecord, OperationIsComplete
  <2>3. /\ disk' \in Tree
        /\ UNCHANGED <<journal, temp, wiping, process, page, ghosts, bounds>>
    BY <1>1, <2>2 DEF WriteRecord, TypeOK, Tree
  <2>4. TypeOK'
    BY <2>1, <2>3 DEF TypeOK, process, ownership, page, ghosts, bounds
  <2>5. Pending' = Pending
    BY <2>3 DEF Pending
  <2>6. QED
    BY <2>1, <2>3, <2>4, <2>5 DEF FilesMatchTheStage, OperationIsComplete, NothingLeft
<1>2. CASE Committed
  <2>1. op' \in Operation /\ op'.at = "unlog" /\ op'.recovering = op.recovering
    BY <1>2, GotoType DEF TypeOK, Committed, Goto, Stages
  <2>2. op.job \in Request /\ op.tree \in Tree
    BY <1>2 DEF Committed, OperationIsComplete
  <2>3. base' \in Base
    BY <1>2, <2>2, CurrentType, AcknowledgedType DEF Committed, TypeOK
  <2>4. /\ cache' \in Tree /\ stale' \in BOOLEAN
        /\ UNCHANGED <<files, ownership, clock, page, held, fresh, wipeFailed, bounds>>
    BY <1>2, <2>2 DEF Committed, BuriesInTheCacheOnly, TypeOK
  <2>5. TypeOK'
    BY <2>1, <2>3, <2>4 DEF TypeOK, files, ownership, page, bounds
  <2>6. QED
    BY <2>1, <2>5 DEF FilesMatchTheStage, OperationIsComplete
<1>3. CASE Buried
  <2>1. op.tree \in Tree
    BY <1>3 DEF Buried, OperationIsComplete
  <2>2. /\ op' \in Operation /\ op'.at = (IF op.recovering THEN "unlog" ELSE "unwipe")
        /\ op'.recovering = op.recovering
    BY <1>3, GotoType DEF TypeOK, Buried, Goto, Stages
  <2>3. /\ base' \in Base /\ served' = None
        /\ UNCHANGED <<files, cache, owner, clock, page, ghosts, bounds>>
    BY <1>3, <2>1, FingerprintsType DEF Buried
  <2>4. TypeOK'
    BY <2>2, <2>3 DEF TypeOK, files, page, ghosts, bounds
  <2>5. ~op.recovering => journal = None /\ temp = None
    BY <1>3 DEF Buried, FilesMatchTheStage
  <2>6. QED
    BY <2>2, <2>3, <2>4, <2>5 DEF FilesMatchTheStage, OperationIsComplete, files
<1>4. CASE RemoveJournal
  <2>1. /\ op' \in Operation /\ op'.at = (IF op.recovering THEN "unstage" ELSE "done")
        /\ op'.recovering = op.recovering
    BY <1>4, GotoType DEF TypeOK, RemoveJournal, Goto, Stages
  <2>2. /\ journal' = None
        /\ UNCHANGED <<disk, temp, wiping, process, page, ghosts, bounds>>
    BY <1>4 DEF RemoveJournal
  <2>3. TypeOK'
    BY <2>1, <2>2 DEF TypeOK, process, ownership, page, ghosts, bounds
  <2>4. QED
    BY <2>1, <2>2, <2>3 DEF FilesMatchTheStage, OperationIsComplete
<1>5. CASE RemoveTemp
  <2>1. op.recovering /\ journal = None
    BY <1>5 DEF RemoveTemp, FilesMatchTheStage
  <2>2. /\ op' \in Operation
        /\ \/ wiping /\ op'.at = "unwipe"
           \/ ~wiping /\ op'.at = "body" /\ ~op'.recovering
    <3>1. op \in Operation
      BY DEF TypeOK
    <3>2. CASE wiping
      BY <1>5, <3>1, <3>2, GotoType DEF RemoveTemp, Goto, Stages
    <3>3. CASE ~wiping
      BY <1>5, <3>1, <3>3, ResumeType DEF RemoveTemp
    <3>4. QED
      BY <3>2, <3>3
  <2>3. /\ temp' = None /\ base' \in Base
        /\ UNCHANGED <<disk, journal, wiping, cache, ownership, clock, page, ghosts, bounds>>
    BY <1>5, EmptyBaseType DEF RemoveTemp, TypeOK
  <2>4. TypeOK'
    BY <2>2, <2>3 DEF TypeOK, ownership, page, ghosts, bounds
  <2>5. QED
    BY <2>1, <2>2, <2>3, <2>4 DEF FilesMatchTheStage, OperationIsComplete, NothingLeft
<1>6. CASE WipeOver
  <2>1. journal = None /\ temp = None
    BY <1>6 DEF WipeOver, FilesMatchTheStage
  <2>2. /\ op' \in Operation /\ ~op'.recovering
        /\ op'.at \in {"idle", "body"}
    <3>1. op \in Operation /\ (Finish \/ Resume)
      BY <1>6 DEF WipeOver, TypeOK
    <3>2. CASE Finish
      BY <3>2, NoOpType DEF Finish
    <3>3. CASE Resume
      BY <3>1, <3>3, ResumeType
    <3>4. QED
      BY <3>1, <3>2, <3>3
  <2>3. /\ wiping' = FALSE
        /\ UNCHANGED <<disk, journal, temp, base, ownership, clock, held, fresh, bounds>>
    BY <1>6 DEF WipeOver
  <2>4. /\ cache' \in Tree \cup {None} /\ mem' \in Memory \cup {None}
        /\ dirty' \subseteq Keys /\ wipeFailed' \in BOOLEAN /\ stale' \in BOOLEAN
    BY <1>6 DEF WipeOver, TypeOK, page, Memory, Content
  <2>5. TypeOK'
    BY <2>2, <2>3, <2>4 DEF TypeOK, ownership, bounds
  <2>6. QED
    BY <2>1, <2>2, <2>3, <2>5 DEF FilesMatchTheStage, OperationIsComplete, NothingLeft
<1>7. CASE Confirm
  <2>1. op' = NoOp /\ dirty' \subseteq Keys
        /\ UNCHANGED <<files, process, mem, ghosts, bounds>>
    BY <1>7 DEF Confirm, Finish, TypeOK
  <2>2. TypeOK'
    BY <2>1, NoOpType DEF TypeOK, files, process, ownership, ghosts, bounds
  <2>3. QED
    BY <2>1, <2>2, NoOpType DEF FilesMatchTheStage, OperationIsComplete
<1>8. QED
  BY <1>1, <1>2, <1>3, <1>4, <1>5, <1>6, <1>7 DEF Finishing

\* The user, a crash, an error.
LEMMA TroubleIInv ==
  ASSUME IInv, (\E k \in Keys, d \in Content : Edit(k, d)) \/ Crash \/ Fail
  PROVE  IInv'
<1> USE DEF IInv
<1>1. ASSUME NEW k \in Keys, NEW d \in Content, Edit(k, d)
      PROVE  IInv'
  <2>1. mem' \in Memory /\ dirty' \subseteq Keys /\ held' \subseteq Keys
    BY <1>1 DEF Edit, TypeOK, Memory
  <2>2. Act /\ UNCHANGED <<files, process, op, fresh, wipeFailed, stale>>
    BY <1>1 DEF Edit
  <2>3. acts' \in Nat /\ crashes' \in Nat /\ errors' \in Nat
    BY <2>2 DEF Act, TypeOK
  <2>4. TypeOK'
    BY <2>1, <2>2, <2>3 DEF TypeOK, files, process, ownership
  <2>5. QED
    BY <2>2, <2>4 DEF FilesMatchTheStage, OperationIsComplete, NothingLeft, Pending, files
<1>2. CASE Crash
  <2>1. /\ op' = Down /\ stale' = FALSE /\ clock' \in 0..clock
        /\ UNCHANGED <<files, held, fresh, wipeFailed, acts, errors>>
    BY <1>2 DEF Crash
  <2>2. /\ cache' = None /\ base' \in Base /\ served' = None /\ owner' \in Owners
        /\ mem' = None /\ dirty' \subseteq Keys /\ crashes' \in Nat
        /\ clock' \in Nat /\ stale' \in BOOLEAN
    <3>1. clock' \in Nat
      <4>1. clock \in Nat
        BY DEF TypeOK
      <4>2. QED
        BY <2>1, <4>1
    <3>2. crashes' \in Nat
      BY <1>2 DEF Crash, TypeOK
    <3>3. QED
      BY <1>2, <2>1, <3>1, <3>2, EmptyBaseType DEF Crash, Owners
  <2>3. TypeOK'
    BY <2>1, <2>2, NoOpType DEF TypeOK, files
  <2>4. QED
    BY <2>1, <2>3, NoOpType DEF FilesMatchTheStage, OperationIsComplete
<1>3. CASE Fail
  <2>1. /\ op' \in {NoOp, Down} /\ errors' \in Nat
        /\ wipeFailed' \in BOOLEAN /\ stale' \in BOOLEAN
        /\ UNCHANGED <<files, process, page, held, fresh, acts, crashes>>
    BY <1>3 DEF Fail, TypeOK
  <2>2. op' \in Operation /\ op'.at \in {"idle", "down"} /\ ~op'.recovering
    BY <2>1, NoOpType
  <2>3. TypeOK'
    BY <2>1, <2>2 DEF TypeOK, files, process, ownership, page
  <2>4. QED
    BY <2>2, <2>3 DEF FilesMatchTheStage, OperationIsComplete
<1>4. QED
  BY <1>1, <1>2, <1>3

LEMMA NextIInv == IInv /\ [Next]_vars => IInv'
<1> SUFFICES ASSUME IInv, [Next]_vars PROVE IInv'
  OBVIOUS
<1>1. CASE UNCHANGED vars
  BY <1>1 DEF IInv, TypeOK, FilesMatchTheStage, OperationIsComplete, NothingLeft,
              Pending, vars, files, process, ownership, page, ghosts, bounds
<1>2. CASE Next
  BY <1>2, CallIInv, RecoverIInv, BodyIInv, FinishingIInv, TroubleIInv DEF Next
<1>3. QED
  BY <1>1, <1>2

\* At every stage of every operation the files are what that stage needs
\* (bulk_save_from, wipe, recover_pending_operations).
THEOREM Invariance == Spec => []IInv
BY InitIInv, NextIInv, PTL DEF Spec

\* No operation goes to work on records that a save or a wipe was writing,
\* however often the process died or an operation failed before
\* (recover_pending_operations).
THEOREM NothingPendingAtWork == Spec => []BodyFindsNothingPending
<1>1. IInv => BodyFindsNothingPending
  BY DEF IInv, FilesMatchTheStage, NothingLeft, BodyFindsNothingPending
<1>2. QED
  BY <1>1, Invariance, PTL

\* A record file is touched only while a journal says why (bulk_save_from,
\* wipe).
THEOREM JournalBeforeRecords == Spec => RecordsAreWrittenUnderAJournal
<1>1. ASSUME IInv, Next, disk' # disk
      PROVE  Pending # None \/ wiping
  <2>1. PICK k \in Keys : WriteRecord(k)
    BY <1>1 DEF Next, Start, Call, CallSave, Recover, NothingPending, RecoverSave,
         Quarantine, RecoverWipe, Body, Look, Serve, AnnounceWipe, Prepare,
         StageJournal, FillJournal, InstallJournal, Finishing, Committed, Buried,
         RemoveJournal, RemoveTemp, WipeOver, Confirm, Edit, Crash, Fail, files
  <2>2. CASE op.at = "write"
    BY <1>1, <2>2, RequestType DEF IInv, FilesMatchTheStage, OperationIsComplete
  <2>3. CASE op.at = "bury"
    BY <1>1, <2>3 DEF IInv, FilesMatchTheStage
  <2>4. QED
    BY <2>1, <2>2, <2>3 DEF WriteRecord
<1>2. IInv /\ [Next]_vars => [disk' # disk => Pending # None \/ wiping]_vars
  BY <1>1
<1>3. QED
  BY <1>2, Invariance, PTL DEF Spec, RecordsAreWrittenUnderAJournal

-------------------------------------------------------------------------------
(* What a merge depends on.                                                *)

\* The same contents.
Same(a, b) == (a = None <=> b = None) /\ (a # None => a.data = b.data)

\* Equal but for the stamps of tombstones.
Alike(a, b) == a = b \/ (IsTombstone(a) /\ IsTombstone(b))

Writes(r, cur, k) == IsWritten(r, MergedRecord(r, cur, k), k)

\* The record that k is merged with is there if the base knows k.
Meets(r, cur, k) == r.base[k] # None => cur # None

\* What the request is based on, and what it would have to dig up, is older
\* than the request.
Outlasts(r, cur, k) ==
  /\ r.at > 0
  /\ r.base[k] # None => Stamped(r.base[k].causal, r.at - 1)
  /\ k \in r.sent => BuriedBefore(cur, r.at)

\* The request changes k, or deletes it.
Changes(r, k) == k \in r.sent /\ (r.base[k] = None \/ r.base[k].hash # r.mem[k])
Deletes(r, k) == k \notin r.sent /\ r.base[k] # None /\ r.mem[k] = Gone

LEMMA DeviceType == Device \in Devices /\ \A d \in Devices : d \in Nat
BY DeviceAssumption, DevicesAssumption

LEMMA StampedLater ==
  ASSUME NEW c \in Clock, NEW t \in Nat, Stamped(c, t)
  PROVE  Stamped(c, t + 1)
BY DeviceType DEF Stamped, Clock

\* A clock bumped to the time of a request is that time's, and later than
\* any clock from before it.
LEMMA BumpedIsLater ==
  ASSUME NEW c \in Clock, NEW t \in Nat, Stamped(c, t - 1)
  PROVE  /\ BumpCausal(c, Device, t) \in Clock /\ Stamped(BumpCausal(c, Device, t), t)
         /\ \A old \in Clock :
              Stamped(old, t - 1) => Descends(BumpCausal(c, Device, t), old)
<1> DEFINE b == BumpCausal(c, Device, t)
<1>1. b \in Clock /\ b[Device] >= t /\ \A d \in Devices \ {Device} : b[d] = c[d]
  BY BumpCausalType, DeviceType
<1>2. c[Device] \in Nat /\ c[Device] <= t - 1
  BY DeviceType DEF Clock, Stamped
<1>3. b[Device] = t
  BY <1>2, DeviceType DEF BumpCausal, MaxOf, Clock
<1>4. \A d \in Devices \ {Device} : b[d] = 0
  BY <1>1 DEF Stamped
<1> HIDE DEF b
<1>5. ASSUME NEW old \in Clock, Stamped(old, t - 1)
      PROVE  Descends(b, old)
  <2>1. old[Device] \in Nat /\ old[Device] < b[Device]
    BY <1>3, <1>5, DeviceType DEF Clock, Stamped
  <2>2. \A d \in Devices : ~(old[d] > b[d])
    <3>1. SUFFICES ASSUME NEW d \in Devices PROVE ~(old[d] > b[d])
      OBVIOUS
    <3>2. CASE d = Device
      BY <2>1, <1>3, <3>2
    <3>3. CASE d # Device
      BY <1>4, <1>5, <3>3 DEF Stamped
    <3>4. QED
      BY <3>2, <3>3
  <2>3. b[Device] > old[Device]
    BY <1>3, <2>1
  <2>4. QED
    BY <2>2, <2>3, DeviceType DEF Descends, Exceeds
<1>6. QED
  BY <1>1, <1>3, <1>4, <1>5 DEF b, Stamped

\* What a request sends is what its page holds; what it changes bears its
\* time, and descends from everything older.
LEMMA SentType ==
  ASSUME NEW r \in Request, NEW k \in Keys, NEW cur \in Record \cup {None}
  PROVE  /\ Incoming(r, cur, k) \in Record \cup {None}
         /\ k \in r.sent => /\ Incoming(r, cur, k) \in Record /\ Incoming(r, cur, k) # None
                            /\ Incoming(r, cur, k).data = r.mem[k] /\ r.mem[k] # Gone
         /\ k \notin r.sent => Incoming(r, cur, k) = None
<1>1. r.base[k] \in Fingerprint \cup {None} /\ r.at \in Nat
  BY RequestType DEF Base
<1>2. CASE k \in r.sent
  <2> DEFINE own == LiveRecord(r.mem[k], Device, r.at)
  <2>1. r.mem[k] \in Data
    BY <1>2, RequestType DEF LiveKeys, Memory, Content
  <2>2. own \in Record /\ own.data = r.mem[k] /\ r.mem[k] # Gone
    BY <1>1, <2>1, LiveRecordType, DeviceAssumption
  <2>3. Incoming(r, cur, k) = PrepareLocal(own, r.base[k], cur, Device, r.at)
    BY <1>2 DEF Incoming
  <2> HIDE DEF own
  <2>4. /\ PrepareLocal(own, r.base[k], cur, Device, r.at) \in Record
        /\ PrepareLocal(own, r.base[k], cur, Device, r.at).data = own.data
    BY <1>1, <2>2, PrepareLocalType, DeviceAssumption
  <2>5. QED
    BY <1>2, <2>2, <2>3, <2>4, NoneIsNoRecord
<1>3. CASE k \notin r.sent
  BY <1>3 DEF Incoming
<1>4. QED
  BY <1>2, <1>3

LEMMA ChangeIsLater ==
  ASSUME NEW r \in Request, NEW k \in Keys, NEW cur \in Record \cup {None},
         Outlasts(r, cur, k), Changes(r, k)
  PROVE  /\ Stamped(Incoming(r, cur, k).causal, r.at)
         /\ \A old \in Clock : Stamped(old, r.at - 1) =>
              Descends(Incoming(r, cur, k).causal, old)
<1> DEFINE own == LiveRecord(r.mem[k], Device, r.at)
           from == IF r.base[k] # None THEN r.base[k].causal
                   ELSE IF IsTombstone(cur) THEN cur.causal ELSE NoClock
<1>1. /\ r.base[k] \in Fingerprint \cup {None} /\ r.at \in Nat /\ r.at > 0
      /\ k \in r.sent /\ r.mem[k] \in Data
  BY RequestType DEF Base, LiveKeys, Memory, Content, Outlasts, Changes
<1>2. own \in Record /\ own.data = r.mem[k]
  BY <1>1, LiveRecordType, DeviceAssumption
<1>3. from \in Clock /\ Stamped(from, r.at - 1)
  <2>1. CASE r.base[k] # None
    BY <1>1, <2>1 DEF Outlasts, Fingerprint
  <2>2. CASE r.base[k] = None /\ IsTombstone(cur)
    BY <1>1, <2>2 DEF Outlasts, BuriedBefore, Record, IsTombstone
  <2>3. CASE r.base[k] = None /\ ~IsTombstone(cur)
    <3>1. Stamped(NoClock, r.at - 1)
      BY <1>1, DeviceType DEF Stamped, NoClock
    <3>2. QED
      BY <2>3, <3>1, NoClockType
  <2>4. QED
    BY <2>1, <2>2, <2>3
<1> HIDE DEF own
<1>4. Incoming(r, cur, k) = [own EXCEPT !.causal = BumpCausal(from, Device, r.at)]
  BY <1>1, <1>2 DEF Incoming, PrepareLocal, Changes, own
<1> HIDE DEF from
<1>5. Incoming(r, cur, k).causal = BumpCausal(from, Device, r.at)
  BY <1>2, <1>4 DEF Record
<1>6. QED
  BY <1>1, <1>3, <1>5, BumpedIsLater

\* merge_records, one key: the record stays, or becomes what the page changed,
\* or goes.  A tombstone always gives way to a later change.
LEMMA MergeOutcome ==
  ASSUME NEW r \in Request, NEW k \in Keys, NEW cur \in Record \cup {None},
         Meets(r, cur, k)
  PROVE  LET m == MergedRecord(r, cur, k)
         IN  /\ m \in Record \cup {None}
             /\ \/ m = cur
                \/ Changes(r, k) /\ m # None /\ m.data = r.mem[k]
                \/ Deletes(r, k) /\ IsTombstone(m)
             /\ Outlasts(r, cur, k) /\ Changes(r, k) /\ ~IsLive(cur)
                  => m # None /\ m.data = r.mem[k]
             /\ Deletes(r, k) /\ IsTombstone(cur) => IsTombstone(m)
<1> DEFINE m == MergedRecord(r, cur, k)
           inc == Incoming(r, cur, k)
           b == r.base[k]
           has == k \in LiveKeys(r.mem)
           tomb == TombstoneWithBase(b, Device, r.at)
<1>1. /\ b \in Fingerprint \cup {None} /\ r.at \in Nat /\ has \in BOOLEAN
      /\ has <=> r.mem[k] # Gone
  BY RequestType DEF Base, LiveKeys
<1>2. /\ inc \in Record \cup {None}
      /\ k \in r.sent => inc \in Record /\ inc # None /\ inc.data = r.mem[k] /\ r.mem[k] # Gone
      /\ k \notin r.sent => inc = None
  BY SentType
<1>3. tomb \in Record /\ IsTombstone(tomb)
  BY <1>1, TombstoneType, DeviceAssumption
<1>4. b # None => cur # None
  BY DEF Meets
<1>5. Outlasts(r, cur, k) /\ Changes(r, k) /\ IsTombstone(cur)
        => Descends(inc.causal, cur.causal)
  BY ChangeIsLater DEF Outlasts, BuriedBefore, Changes, Record, IsTombstone
<1>6. m = MergeRecord(b, inc, cur, has, Device, r.at)
  BY DEF MergedRecord
<1> HIDE DEF m, inc, b, has, tomb
<1>7. m \in Record \cup {None}
  BY <1>1, <1>2, <1>6, MergeRecordType, DeviceAssumption
<1>8. CASE Changes(r, k)
  <2>1. inc \in Record /\ inc # None /\ inc.data = r.mem[k] /\ inc.data # Gone
        /\ (b = None \/ b.hash # inc.data)
    BY <1>2, <1>8 DEF Changes, b
  <2>2. IncomingChanged(b, inc, has) /\ ~IncomingDeleted(b, inc, has)
    BY <2>1 DEF IncomingChanged, IncomingDeleted
  <2>3. cur # None /\ inc.data = cur.data => MergeEqualRecords(inc, cur) \in Record
          /\ MergeEqualRecords(inc, cur).data = cur.data
    BY <2>1, MergeEqualType
  <2>4. m = cur \/ (m # None /\ m.data = r.mem[k])
    BY <1>4, <1>6, <2>1, <2>2, <2>3, NoneIsNoRecord
       DEF MergeRecord, TakeIncoming, Resolve, CurrentChanged
  <2>5. Outlasts(r, cur, k) /\ ~IsLive(cur) => m # None /\ m.data = r.mem[k]
    BY <1>4, <1>5, <1>6, <1>8, <2>1, <2>2, <2>3, NoneIsNoRecord
       DEF MergeRecord, TakeIncoming, Resolve, CurrentChanged, IsLive, IsTombstone
  <2>6. ~Deletes(r, k)
    BY <1>8 DEF Changes, Deletes
  <2>7. QED
    BY <1>7, <1>8, <2>4, <2>5, <2>6 DEF m
<1>9. CASE Deletes(r, k)
  <2>1. inc = None /\ b # None /\ ~has
    BY <1>1, <1>2, <1>9 DEF Deletes, b
  <2>2. m = cur \/ m = tomb
    BY <1>4, <1>6, <2>1
       DEF MergeRecord, TakeIncoming, Resolve, IncomingChanged, IncomingDeleted, tomb
  <2>3. QED
    BY <1>3, <1>7, <1>9, <2>2 DEF Changes, Deletes, m
<1>10. CASE ~Changes(r, k) /\ ~Deletes(r, k)
  <2>1. ~IncomingChanged(b, inc, has)
    BY <1>1, <1>2, <1>10 DEF IncomingChanged, IncomingDeleted, Changes, Deletes, b
  <2>2. m = cur
    BY <1>6, <2>1 DEF MergeRecord
  <2>3. QED
    BY <1>7, <1>10, <2>2 DEF m
<1>11. QED
  BY <1>8, <1>9, <1>10

\* Merging a request again changes no contents.
LEMMA MergeAgain ==
  ASSUME NEW r \in Request, NEW k \in Keys, NEW cur \in Record \cup {None},
         Meets(r, cur, k)
  PROVE  Same(MergedRecord(r, MergedRecord(r, cur, k), k), MergedRecord(r, cur, k))
<1> DEFINE m == MergedRecord(r, cur, k)
           b == r.base[k]
           inc == Incoming(r, m, k)
           has == k \in LiveKeys(r.mem)
<1>1. /\ m \in Record \cup {None}
      /\ \/ m = cur
         \/ Changes(r, k) /\ m # None /\ m.data = r.mem[k]
         \/ Deletes(r, k) /\ IsTombstone(m)
  BY MergeOutcome
<1>2. CASE m = cur
  BY <1>2 DEF Same
<1>3. /\ inc \in Record \cup {None}
      /\ k \in r.sent => inc \in Record /\ inc # None /\ inc.data = r.mem[k] /\ r.mem[k] # Gone
      /\ k \notin r.sent => inc = None
  <2> HIDE DEF m
  <2>1. QED
    BY <1>1, SentType
<1>4. b \in Fingerprint \cup {None} /\ r.at \in Nat /\ (has <=> r.mem[k] # Gone)
  BY RequestType DEF Base, LiveKeys
<1>5. MergedRecord(r, m, k) = MergeRecord(b, inc, m, has, Device, r.at)
  BY DEF MergedRecord
<1> HIDE DEF m, b, inc, has
<1>6. CASE Changes(r, k) /\ m # None /\ m.data = r.mem[k]
  <2>1. inc \in Record /\ inc # None /\ m \in Record /\ inc.data = m.data
        /\ (b = None \/ b.hash # m.data)
    BY <1>1, <1>3, <1>6 DEF Changes, b
  <2>2. MergedRecord(r, m, k) = MergeEqualRecords(inc, m)
    BY <1>5, <1>6, <2>1 DEF MergeRecord, IncomingChanged, CurrentChanged
  <2>3. QED
    BY <2>1, <2>2, MergeEqualType, NoneIsNoRecord DEF Same, m
<1>7. CASE Deletes(r, k) /\ IsTombstone(m)
  <2>1. inc = None /\ b # None /\ ~has
    BY <1>3, <1>4, <1>7 DEF Deletes, b
  <2>2. TombstoneWithBase(b, Device, r.at) \in Record
        /\ IsTombstone(TombstoneWithBase(b, Device, r.at))
    BY <1>4, TombstoneType, DeviceAssumption
  <2>3. IsTombstone(MergedRecord(r, m, k))
    BY <1>5, <1>7, <2>1, <2>2
       DEF MergeRecord, TakeIncoming, IncomingChanged, IncomingDeleted
  <2>4. QED
    BY <1>7, <2>3 DEF Same, IsTombstone, m
<1>8. QED
  BY <1>1, <1>2, <1>6, <1>7 DEF m

\* Merging does not depend on the stamps of tombstones that are older.
LEMMA MergeAlike ==
  ASSUME NEW r \in Request, NEW k \in Keys,
         NEW a \in Record \cup {None}, NEW b \in Record \cup {None},
         Meets(r, a, k), Meets(r, b, k), Outlasts(r, a, k), Outlasts(r, b, k), Alike(a, b)
  PROVE  Same(MergedRecord(r, a, k), MergedRecord(r, b, k))
<1>1. CASE a = b
  BY <1>1 DEF Same
<1>2. CASE IsTombstone(a) /\ IsTombstone(b)
  <2> DEFINE x == MergedRecord(r, a, k)
             y == MergedRecord(r, b, k)
  <2>1. /\ x = a \/ (Changes(r, k) /\ x # None /\ x.data = r.mem[k])
                 \/ (Deletes(r, k) /\ IsTombstone(x))
        /\ Changes(r, k) /\ ~IsLive(a) => x # None /\ x.data = r.mem[k]
        /\ Deletes(r, k) /\ IsTombstone(a) => IsTombstone(x)
    BY MergeOutcome
  <2>2. /\ y = b \/ (Changes(r, k) /\ y # None /\ y.data = r.mem[k])
                 \/ (Deletes(r, k) /\ IsTombstone(y))
        /\ Changes(r, k) /\ ~IsLive(b) => y # None /\ y.data = r.mem[k]
        /\ Deletes(r, k) /\ IsTombstone(b) => IsTombstone(y)
    BY MergeOutcome
  <2> HIDE DEF x, y
  <2>3. Same(x, y)
    BY <1>2, <2>1, <2>2 DEF Same, IsLive, IsTombstone
  <2>4. QED
    BY <2>3 DEF x, y
<1>3. QED
  BY <1>1, <1>2 DEF Alike

\* A record that is not written is the one there was, or a tombstone that the
\* base knows already.
LEMMA UnwrittenIsThere ==
  ASSUME NEW r \in Request, NEW k \in Keys, NEW cur \in Record \cup {None},
         Meets(r, cur, k), ~Writes(r, cur, k)
  PROVE  MergedRecord(r, cur, k) = cur \/ IsTombstone(MergedRecord(r, cur, k))
<1> DEFINE m == MergedRecord(r, cur, k)
<1>1. \/ m = cur
      \/ Changes(r, k) /\ m # None /\ m.data = r.mem[k]
      \/ Deletes(r, k) /\ IsTombstone(m)
  BY MergeOutcome
<1> HIDE DEF m
<1>2. CASE Changes(r, k) /\ m # None /\ m.data = r.mem[k]
  BY <1>2 DEF Writes, IsWritten, RecordChangedSinceBase, Changes, m
<1>3. QED
  BY <1>1, <1>2 DEF m

\* What is sent is not buried.
LEMMA SentIsNotBuried ==
  ASSUME NEW r \in Request, NEW k \in Keys, NEW cur \in Record \cup {None},
         Meets(r, cur, k), k \in r.sent, IsTombstone(MergedRecord(r, cur, k))
  PROVE  MergedRecord(r, cur, k) = cur
<1> DEFINE m == MergedRecord(r, cur, k)
<1>1. \/ m = cur
      \/ Changes(r, k) /\ m # None /\ m.data = r.mem[k]
      \/ Deletes(r, k) /\ IsTombstone(m)
  BY MergeOutcome
<1>2. r.mem[k] # Gone
  BY SentType
<1> HIDE DEF m
<1>3. QED
  BY <1>1, <1>2 DEF Deletes, IsTombstone, m

\* What is live after a merge was live before or has been sent.
LEMMA LiveIsThereOrSent ==
  ASSUME NEW r \in Request, NEW k \in Keys, NEW cur \in Record \cup {None},
         Meets(r, cur, k), IsLive(MergedRecord(r, cur, k))
  PROVE  IsLive(cur) \/ k \in r.sent
<1>1. \/ MergedRecord(r, cur, k) = cur
      \/ Changes(r, k)
      \/ IsTombstone(MergedRecord(r, cur, k))
  BY MergeOutcome
<1>2. QED
  BY <1>1 DEF Changes, IsLive, IsTombstone

LEMMA MergedStays ==
  ASSUME NEW r \in Request, NEW k \in Keys, NEW cur \in Record \cup {None},
         Meets(r, cur, k), cur # None
  PROVE  MergedRecord(r, cur, k) # None
<1>1. \/ MergedRecord(r, cur, k) = cur
      \/ MergedRecord(r, cur, k) # None
      \/ IsTombstone(MergedRecord(r, cur, k))
  BY MergeOutcome
<1>2. QED
  BY <1>1 DEF IsTombstone

\* A merged record bears the time of the request, or one it had before.
LEMMA MergedIsStamped ==
  ASSUME NEW r \in Request, NEW k \in Keys, NEW cur \in Record \cup {None},
         Outlasts(r, cur, k), NEW t \in Nat, r.at <= t,
         cur # None => Stamped(cur.causal, t), MergedRecord(r, cur, k) # None
  PROVE  Stamped(MergedRecord(r, cur, k).causal, t)
<1> DEFINE m == MergedRecord(r, cur, k)
           inc == Incoming(r, cur, k)
           b == r.base[k]
           has == k \in LiveKeys(r.mem)
           tomb == TombstoneWithBase(b, Device, r.at)
<1>1. b \in Fingerprint \cup {None} /\ r.at \in Nat /\ has \in BOOLEAN
  BY RequestType DEF Base
<1>2. inc \in Record \cup {None} /\ (k \in r.sent => inc \in Record) /\ (k \notin r.sent => inc = None)
      /\ (k \in r.sent => inc.data = r.mem[k])
  BY SentType
<1>3. m = MergeRecord(b, inc, cur, has, Device, r.at)
  BY DEF MergedRecord
<1>4. CASE ~IncomingChanged(b, inc, has)
  BY <1>3, <1>4 DEF MergeRecord
<1>5. CASE IncomingChanged(b, inc, has)
  <2>1. \/ m = cur
        \/ inc # None /\ m = inc
        \/ m = tomb
        \/ inc # None /\ cur # None /\ inc.data = cur.data /\ m = MergeEqualRecords(inc, cur)
    <3> HIDE DEF m, inc, b, has
    <3> DEFINE merged == MergeRecord(b, inc, cur, has, Device, r.at)
    <3>1. \/ merged = cur
          \/ inc # None /\ merged = inc
          \/ merged = TombstoneWithBase(b, Device, r.at)
          \/ inc # None /\ cur # None /\ inc.data = cur.data
             /\ merged = MergeEqualRecords(inc, cur)
      <4>1. inc \in Record \cup {None} /\ cur \in Record \cup {None} /\ Device \in Devices
        BY <1>2, DeviceAssumption
      <4>2. QED
        BY <1>2, <4>1 DEF MergeRecord, TakeIncoming, Resolve
    <3>2. QED
      BY <1>3, <3>1
  <2>2. inc # None => Changes(r, k)
    BY <1>2, <1>5 DEF IncomingChanged, IncomingDeleted, Changes
  <2>3. inc # None => inc \in Record /\ inc.causal \in Clock /\ Stamped(inc.causal, r.at)
    BY <1>2, <2>2, ChangeIsLater DEF Record
  <2>4. Stamped(tomb.causal, r.at)
    <3>1. BaseClock(b) \in Clock
      BY <1>1, BaseClockType
    <3>2. Stamped(NoClock, r.at - 1)
      BY <1>1, DeviceType DEF Stamped, NoClock, Outlasts
    <3>3. Stamped(BaseClock(b), r.at - 1)
      BY <3>2 DEF BaseClock, Outlasts
    <3>4. tomb.causal = BumpCausal(BaseClock(b), Device, r.at)
      BY DEF TombstoneWithBase
    <3>5. QED
      BY <1>1, <3>1, <3>3, <3>4, BumpedIsLater
  <2> HIDE DEF m, inc, b, has, tomb
  <2>5. \A c \in Clock : Stamped(c, r.at) => Stamped(c, t)
    BY <1>1, DeviceType DEF Stamped, Clock
  <2>6. CASE m = cur
    BY <2>6 DEF m
  <2>7. CASE inc # None /\ m = inc
    BY <2>3, <2>5, <2>7 DEF m
  <2>8. CASE m = tomb
    <3>1. tomb.causal \in Clock
      BY <1>1, TombstoneType, DeviceAssumption DEF tomb, Record
    <3>2. QED
      BY <2>4, <2>5, <2>8, <3>1 DEF m
  <2>9. CASE inc # None /\ cur # None /\ inc.data = cur.data /\ m = MergeEqualRecords(inc, cur)
    <3>1. inc \in Record /\ cur \in Record /\ Stamped(inc.causal, t) /\ Stamped(cur.causal, t)
          /\ inc.causal \in Clock /\ cur.causal \in Clock
      BY <2>3, <2>5, <2>9 DEF Record
    <3>2. m.causal = JoinCausal(inc.causal, cur.causal)
      <4>1. (IF ShouldKeepIncoming(inc, cur) THEN inc ELSE cur) \in Record
        BY <3>1
      <4>2. QED
        BY <2>9, <4>1 DEF MergeEqualRecords, Record
    <3>3. Stamped(JoinCausal(inc.causal, cur.causal), t)
      BY <3>1, DeviceType DEF Stamped, JoinCausal, MaxOf, Clock
    <3>4. QED
      BY <3>2, <3>3 DEF m
  <2>10. QED
    BY <2>1, <2>6, <2>7, <2>8, <2>9
<1>6. QED
  BY <1>4, <1>5

-------------------------------------------------------------------------------
(* What the records are while a save or a wipe is under way.               *)

\* One journal at a time, and it is of the operation that removes it.
OneJournal ==
  /\ journal # None => temp = None
  /\ wiping => journal = None /\ temp = None
  /\ op.at = "unlog" /\ ~wiping => Pending = op.job /\ Pending # None
  /\ op.at \in {"write", "unlog"} /\ ~op.recovering => journal = op.job /\ ~wiping
  /\ op.at = "unwipe" => wiping
  /\ op.at \in {"bury", "unwipe"} /\ ~op.recovering => op.kind = "wipe"

\* A base knows only records that are there.
Known(b) ==
  \A k \in Keys : b[k] # None => disk[k] # None /\ (cache # None => cache[k] # None)

\* r has already been written for k.
WrittenFor(r, k) ==
  r # None /\ Writes(r, Current[k], k) /\ disk[k] = MergedRecord(r, Current[k], k)

KeysAreKnown ==
  /\ Known(base) /\ (served # None => Known(served))
  /\ \A k \in Keys : (Current[k] = None <=> disk[k] = None) \/ WrittenFor(Pending, k)

JobIsKnown == Job # None => Known(Job.base)

\* The files hold what the stage of the operation says.
WritesMatch ==
  /\ op.at = "write" =>
       /\ cache # None /\ op.tree = Merged(op.job, cache)
       /\ \A k \in op.todo : IsWritten(op.job, op.tree[k], k)
       /\ \A k \in Keys \ op.todo : IsWritten(op.job, op.tree[k], k) => disk[k] = op.tree[k]
  /\ op.at \in {"unlog", "unstage"} /\ Pending # None =>
       /\ cache # None
       /\ \A k \in Keys : cache[k] = None <=> disk[k] = None
       /\ \A k \in Keys : Writes(Pending, cache[k], k) =>
            Same(disk[k], MergedRecord(Pending, cache[k], k))
  /\ op.at = "bury" =>
       /\ \A k \in Keys : ~IsLive(op.tree[k]) /\ (op.tree[k] = None <=> disk[k] = None)
       /\ \A k \in Keys \ op.todo : ~IsLive(disk[k])
  /\ wiping /\ op.at \in {"unlog", "unstage", "unwipe"} =>
       \A k \in Keys : ~IsLive(disk[k])

\* The cache holds what the files do, up to what a save has written already.
CacheIsTrue ==
  /\ wiping /\ cache # None =>
       (op.at \in {"bury", "unwipe"} /\ ~op.recovering) \/ (stale /\ wipeFailed)
  /\ ~stale /\ ~wiping =>
       \A k \in Keys :
         \/ Alike(Current[k], disk[k])
         \/ op.at \notin {"unlog", "unstage"} /\ WrittenFor(Pending, k)

\* What is there has been sent since the last wipe.
WipedIsGone ==
  ~wipeFailed =>
    /\ ~wiping => \A k \in Keys : IsLive(disk[k]) \/ IsLive(Current[k]) => k \in fresh
    /\ Pending # None => Pending.sent \subseteq fresh

\* The inductive invariant of the records.
RecordInv ==
  /\ IInv /\ OneJournal /\ KeysAreKnown /\ JobIsKnown
  /\ WritesMatch /\ CacheIsTrue /\ WipedIsGone

\* Nothing bears a time the store has yet to use, and a save is later than
\* what it meets.
StampsInOrder ==
  /\ StampedTree(disk, clock)
  /\ cache # None => StampedTree(cache, clock)
  /\ StampedBase(base, clock)
  /\ served # None => StampedBase(served, clock)
  /\ op.at \in {"write", "bury"} => StampedTree(op.tree, clock)
  /\ JobComesAfter /\ (Job # None => Job.at <= clock)

-------------------------------------------------------------------------------
(* The steps keep the records in order.                                    *)

LEMMA StateTypes ==
  ASSUME IInv
  PROVE  /\ disk \in Tree /\ Current \in Tree /\ clock \in Nat
         /\ \A k \in Keys : disk[k] \in Record \cup {None} /\ Current[k] \in Record \cup {None}
         /\ base \in Base /\ (served # None => served \in Base)
         /\ (cache # None => cache \in Tree)
         /\ Pending \in Request \cup {None} /\ Job \in Request \cup {None}
<1>1. disk \in Tree /\ Current \in Tree /\ clock \in Nat
  BY CurrentType DEF IInv, TypeOK
<1>2. Pending \in Request \cup {None}
  BY DEF IInv, TypeOK, Pending
<1>3. Job \in Request \cup {None}
  BY <1>2 DEF IInv, OperationIsComplete, Job
<1>4. QED
  BY <1>1, <1>2, <1>3 DEF IInv, TypeOK, Tree

\* What is under way meets what its base knows.
LEMMA JobMeets ==
  ASSUME RecordInv, Job # None, NEW k \in Keys
  PROVE  Meets(Job, Current[k], k) /\ Meets(Job, disk[k], k)
BY DEF RecordInv, JobIsKnown, Known, Current, Meets

\* What comes after what it meets outlasts it.
LEMMA JobOutlasts ==
  ASSUME JobComesAfter, Job # None, NEW k \in Keys
  PROVE  Outlasts(Job, Current[k], k) /\ Outlasts(Job, disk[k], k)
BY DEF JobComesAfter, StampedBase, Outlasts

\* A step that changes nothing but the operation, away from the records.
Away == {"down", "idle", "recover", "body", "stage", "fill", "install", "done"}

LEMMA AwayStep ==
  ASSUME RecordInv, IInv', OneJournal', Pending' = Pending, Job' = Job,
         UNCHANGED <<disk, wiping, cache, base, served, fresh, wipeFailed, stale>>,
         op' = op \/ (op.at \in Away /\ op'.at \in Away)
  PROVE  RecordInv'
<1>1. Current' = Current
  BY DEF Current
<1>3. KeysAreKnown'
  BY <1>1 DEF RecordInv, KeysAreKnown, Known, WrittenFor
<1>4. JobIsKnown'
  BY <1>1 DEF RecordInv, JobIsKnown, Known
<1>5. WritesMatch'
  <2>1. CASE op' = op
    BY <2>1 DEF RecordInv, WritesMatch
  <2>2. CASE op.at \in Away /\ op'.at \in Away
    BY <2>2 DEF WritesMatch, Away
  <2>3. QED
    BY <2>1, <2>2
<1>6. CacheIsTrue'
  <2>1. CASE op' = op
    BY <1>1, <2>1 DEF RecordInv, CacheIsTrue, WrittenFor
  <2>2. CASE op.at \in Away /\ op'.at \in Away
    BY <1>1, <2>2 DEF RecordInv, CacheIsTrue, WrittenFor, Away
  <2>3. QED
    BY <2>1, <2>2
<1>7. WipedIsGone'
  BY <1>1 DEF RecordInv, WipedIsGone
<1>8. QED
  BY <1>3, <1>4, <1>5, <1>6, <1>7 DEF RecordInv

\* The lock is taken, the body of an operation without effect, the user.
LEMMA UneventfulStep ==
  ASSUME RecordInv, IInv',
         \/ Start \/ (\E kind \in {"peek", "serve", "wipe"} : Call(kind))
         \/ (\E sender \in Pages, memory \in Memory :
               \E sent \in SUBSET LiveKeys(memory) : CallSave(sender, memory, sent))
         \/ NothingPending \/ Quarantine \/ Look \/ StageJournal \/ Confirm
         \/ (\E k \in Keys, d \in Content : Edit(k, d))
         \/ UNCHANGED vars
  PROVE  RecordInv'
<1>1. UNCHANGED <<disk, journal, wiping, cache, base, served, clock, fresh, wipeFailed, stale>>
  BY DEF Start, Call, CallSave, NothingPending, Quarantine, Look, StageJournal, Confirm,
         Edit, vars, files, process, ownership, ghosts
<1>2. /\ temp' = temp \/ (temp = Torn /\ temp' = None) \/ (temp = None /\ temp' = Torn)
      /\ temp' # temp => journal = None /\ ~wiping
  BY DEF Start, Call, CallSave, NothingPending, Quarantine, Look, StageJournal, Confirm,
         Edit, vars, files, RecordInv, IInv, FilesMatchTheStage, NothingLeft
<1>3. /\ op' = op \/ (op.at \in Away /\ op'.at \in Away)
      /\ op'.at \in {"stage", "fill"} => op.at \in {"stage", "fill"} /\ op'.job = op.job
      /\ op.at \in {"stage", "fill"} => op'.at \in {"stage", "fill"}
  <2>1. NoOp.at = "idle" /\ op \in Operation
    BY NoOpType DEF RecordInv, IInv, TypeOK
  <2>2. CASE Start \/ \E kind \in {"peek", "serve", "wipe"} : Call(kind)
    BY <2>1, <2>2, NoOpType DEF Start, Call, Take, Away, Operation
  <2>3. CASE \E sender \in Pages, memory \in Memory :
               \E sent \in SUBSET LiveKeys(memory) : CallSave(sender, memory, sent)
    BY <2>1, <2>3, NoOpType DEF CallSave, Away, Operation
  <2>4. CASE NothingPending \/ Quarantine \/ StageJournal
    BY <2>1, <2>4 DEF NothingPending, Quarantine, StageJournal, Goto, Away, Operation
  <2>5. CASE Look \/ Confirm
    BY <2>1, <2>5 DEF Look, Confirm, Finish, Away
  <2>6. CASE (\E k \in Keys, d \in Content : Edit(k, d)) \/ UNCHANGED vars
    BY <2>6 DEF Edit, vars
  <2>7. QED
    BY <2>2, <2>3, <2>4, <2>5, <2>6
<1>4. Pending' = Pending
  BY <1>1, <1>2, JournalAssumption DEF Pending
<1>5. Job' = Job
  BY <1>3, <1>4 DEF Job
<1>6. OneJournal'
  BY <1>1, <1>2, <1>3, <1>4, JournalAssumption DEF RecordInv, OneJournal, Away
<1>7. QED
  BY <1>1, <1>3, <1>4, <1>5, <1>6, AwayStep

LEMMA FailStep ==
  ASSUME RecordInv, IInv', Fail
  PROVE  RecordInv'
<1>1. /\ op'.at \in {"down", "idle"}
      /\ UNCHANGED <<disk, journal, temp, wiping, cache, base, served, clock, fresh>>
      /\ wipeFailed' = (wipeFailed \/ op.kind = "wipe")
      /\ stale' = (stale \/ (wiping /\ cache # None))
  BY NoOpType DEF Fail, files, process, ownership
<1>2. Current' = Current /\ Pending' = Pending /\ Job' = Pending
  BY <1>1 DEF Current, Pending, Job
<1>3. Job' # None => Job' = Job
  BY <1>2, JournalAssumption
     DEF Job, Pending, RecordInv, IInv, FilesMatchTheStage, NothingLeft
<1>4. OneJournal' /\ WritesMatch'
  BY <1>1 DEF RecordInv, OneJournal, WritesMatch
<1>5. KeysAreKnown'
  BY <1>1, <1>2 DEF RecordInv, KeysAreKnown, Known, WrittenFor
<1>6. JobIsKnown'
  BY <1>1, <1>2, <1>3 DEF RecordInv, JobIsKnown, Known
<1>7. CacheIsTrue'
  BY <1>1, <1>2 DEF RecordInv, CacheIsTrue, WrittenFor, OneJournal
<1>8. WipedIsGone'
  BY <1>1, <1>2 DEF RecordInv, WipedIsGone
<1>9. QED
  BY <1>4, <1>5, <1>6, <1>7, <1>8 DEF RecordInv

LEMMA CrashStep ==
  ASSUME RecordInv, IInv', Crash
  PROVE  RecordInv'
<1>1. /\ op'.at = "down" /\ cache' = None /\ base' = EmptyBase /\ served' = None
      /\ stale' = FALSE
      /\ UNCHANGED <<disk, journal, temp, wiping, fresh, wipeFailed>>
  BY NoOpType DEF Crash, files
<1>2. Current' = disk /\ Pending' = Pending /\ Job' = Pending
  BY <1>1 DEF Current, Pending, Job
<1>3. Job' # None => Job' = Job
  BY <1>2, JournalAssumption
     DEF Job, Pending, RecordInv, IInv, FilesMatchTheStage, NothingLeft
<1>4. OneJournal' /\ WritesMatch'
  BY <1>1 DEF RecordInv, OneJournal, WritesMatch
<1>5. KeysAreKnown'
  BY <1>1, <1>2 DEF KeysAreKnown, Known, EmptyBase
<1>6. JobIsKnown'
  BY <1>1, <1>2, <1>3 DEF RecordInv, JobIsKnown, Known
<1>7. CacheIsTrue'
  BY <1>1, <1>2 DEF CacheIsTrue, Alike, WrittenFor
<1>8. WipedIsGone'
  BY <1>1, <1>2 DEF RecordInv, WipedIsGone
<1>9. QED
  BY <1>4, <1>5, <1>6, <1>7, <1>8 DEF RecordInv

\* A save begins to be committed, or to be finished by a recovery.
LEMMA MergeStep ==
  ASSUME RecordInv, IInv', OneJournal', Pending # None, Pending' = Pending, ~wiping,
         op.at \in {"recover", "install"}, cache' = Current,
         op'.at = "write", op'.job = Pending, op'.tree = Merged(Pending, Current),
         op'.todo = {k \in Keys : IsWritten(Pending, Merged(Pending, Current)[k], k)},
         UNCHANGED <<disk, wiping, base, served, fresh, wipeFailed, stale>>
  PROVE  RecordInv'
<1>1. /\ Current \in Tree /\ Pending \in Request /\ Current # None
      /\ \A k \in Keys : Current[k] \in Record \cup {None}
  BY StateTypes, JournalAssumption DEF RecordInv
<1>2. Current' = Current
  BY <1>1 DEF Current
<1>3. Job = Pending /\ Job' = Pending
  BY DEF Job
<1>7. KeysAreKnown'
  BY <1>2 DEF RecordInv, KeysAreKnown, Known, WrittenFor, Current
<1>8. JobIsKnown'
  BY <1>2, <1>3 DEF RecordInv, JobIsKnown, Known, Current
<1>9. WritesMatch'
  BY <1>1 DEF WritesMatch, Merged
<1>10. CacheIsTrue'
  BY <1>2 DEF RecordInv, CacheIsTrue, WrittenFor
<1>11. WipedIsGone'
  BY <1>2 DEF RecordInv, WipedIsGone
<1>12. QED
  BY <1>7, <1>8, <1>9, <1>10, <1>11 DEF RecordInv

LEMMA BeginMergeIs ==
  ASSUME TypeOK, NEW r \in Request
  PROVE  /\ BeginMerge(r).at = "write" /\ BeginMerge(r).job = r
         /\ BeginMerge(r).tree = Merged(r, Current)
         /\ BeginMerge(r).todo = {k \in Keys : IsWritten(r, Merged(r, Current)[k], k)}
         /\ BeginMerge(r).recovering = op.recovering
         /\ BeginMerge(r) \in Operation
<1>1. Merged(r, Current) \in Tree
  BY CurrentType, MergedType
<1>2. QED
  BY <1>1, BeginMergeType DEF BeginMerge, TypeOK, Operation

LEMMA RecoverSaveStep ==
  ASSUME RecordInv, IInv', RecoverSave
  PROVE  RecordInv'
<1>1. TypeOK /\ Pending \in Request /\ ~wiping /\ Pending # None /\ op.at = "recover"
  BY StateTypes DEF RecordInv, IInv, RecoverSave
<1>2. cache' = Current
      /\ UNCHANGED <<disk, journal, temp, wiping, base, served, clock, fresh, wipeFailed, stale>>
  BY DEF RecoverSave, files, ownership, ghosts
<1> DEFINE next == BeginMerge(Pending)
<1>3. /\ next.at = "write" /\ next.job = Pending /\ next.tree = Merged(Pending, Current)
      /\ next.todo = {k \in Keys : IsWritten(Pending, Merged(Pending, Current)[k], k)}
      /\ next \in Operation
  BY <1>1, BeginMergeIs
<1>4. op' = [next EXCEPT !.recovering = TRUE]
  BY DEF RecoverSave
<1> HIDE DEF next
<1>5. /\ op'.at = "write" /\ op'.job = Pending /\ op'.tree = Merged(Pending, Current)
      /\ op'.todo = {k \in Keys : IsWritten(Pending, Merged(Pending, Current)[k], k)}
      /\ op'.recovering
  BY <1>3, <1>4 DEF Operation
<1>6. Pending' = Pending
  BY <1>2 DEF Pending
<1>7. OneJournal'
  BY <1>1, <1>2, <1>5 DEF RecordInv, OneJournal
<1>8. QED
  BY <1>1, <1>2, <1>5, <1>6, <1>7, MergeStep

LEMMA InstallJournalStep ==
  ASSUME RecordInv, IInv', InstallJournal
  PROVE  RecordInv'
<1>1. TypeOK /\ op.at = "install" /\ op.job \in Request /\ journal = None /\ temp = op.job
      /\ ~wiping /\ ~op.recovering
  BY DEF RecordInv, IInv, InstallJournal, FilesMatchTheStage, OperationIsComplete
<1>2. cache' = Current /\ journal' = temp /\ temp' = None
      /\ UNCHANGED <<disk, wiping, base, served, clock, fresh, wipeFailed, stale>>
  BY DEF InstallJournal, ownership, ghosts
<1>3. Pending = op.job /\ Pending' = op.job /\ op.job # None /\ op.job # Torn
  BY <1>1, <1>2, RequestType DEF Pending
<1>4. op' = BeginMerge(op.job)
  BY DEF InstallJournal
<1>5. /\ op'.at = "write" /\ op'.job = op.job /\ op'.tree = Merged(op.job, Current)
      /\ op'.todo = {k \in Keys : IsWritten(op.job, Merged(op.job, Current)[k], k)}
      /\ op'.recovering = op.recovering
  BY <1>1, <1>4, BeginMergeIs
<1>6. OneJournal'
  BY <1>1, <1>2, <1>5 DEF OneJournal
<1>7. QED
  BY <1>1, <1>2, <1>3, <1>5, <1>6, MergeStep

\* Tombstones over what there is bear the time of the wipe.
LEMMA TombstonesAre ==
  ASSUME NEW there \in Tree, NEW t \in Nat, NEW k \in Keys
  PROVE  LET tomb == Tombstones(there, t + 1)
         IN  /\ tomb[k] = None <=> there[k] = None
             /\ tomb[k] # None => IsTombstone(tomb[k])
             /\ StampedTree(there, t) => StampedTree(tomb, t + 1)
<1> DEFINE tomb == Tombstones(there, t + 1)
<1>1. ASSUME NEW x \in Keys, there[x] # None
      PROVE  /\ IsTombstone(tomb[x]) /\ tomb[x] # None
             /\ Stamped(there[x].causal, t) => Stamped(tomb[x].causal, t + 1)
  <2> DEFINE f == FingerprintOf(there[x])
  <2>1. tomb[x] = TombstoneWithBase(f, Device, t + 1)
    BY <1>1 DEF Tombstones
  <2>2. f \in Fingerprint \cup {None} /\ f # None /\ f.causal = there[x].causal
    <3>1. there[x] \in Record /\ f = [hash |-> there[x].data, causal |-> there[x].causal]
      BY <1>1 DEF FingerprintOf, Tree
    <3>2. f \in Fingerprint
      BY <3>1 DEF Record, Fingerprint
    <3>3. QED
      BY <3>1, <3>2, NoneIsNoRecord
  <2>3. there[x].causal \in Clock /\ t + 1 \in Nat /\ t + 1 - 1 = t
    BY <1>1 DEF Tree, Record
  <2> HIDE DEF f
  <2>4. tomb[x].causal = BumpCausal(there[x].causal, Device, t + 1)
    BY <2>1, <2>2 DEF TombstoneWithBase, BaseClock
  <2>5. IsTombstone(tomb[x])
    BY <2>1, <2>2, <2>3, TombstoneType, DeviceAssumption
  <2> HIDE DEF tomb
  <2>6. QED
    BY <2>3, <2>4, <2>5, BumpedIsLater DEF IsTombstone
<1>2. \A x \in Keys : there[x] = None => tomb[x] = None
  BY DEF Tombstones
<1> HIDE DEF tomb
<1>3. QED
  BY <1>1, <1>2 DEF StampedTree, tomb

\* A wipe begins, or is taken up again.
LEMMA BuryStep ==
  ASSUME RecordInv, IInv', RecoverWipe \/ AnnounceWipe
  PROVE  RecordInv'
<1> DEFINE tree == Tombstones(disk, clock + 1)
<1>1. /\ disk \in Tree /\ clock \in Nat
      /\ \A k \in Keys : disk[k] \in Record \cup {None}
  BY StateTypes DEF RecordInv
<1>2. /\ wiping' /\ Pending = None
      /\ UNCHANGED <<disk, journal, temp, cache, base, served, wipeFailed, stale>>
      /\ op.at \in {"recover", "body"}
      /\ AnnounceWipe => op.at = "body" /\ ~op.recovering /\ op.kind = "wipe" /\ ~wiping
      /\ RecoverWipe => op.at = "recover" /\ wiping
      /\ journal = None /\ temp = None
  <2>1. CASE AnnounceWipe
    BY <2>1 DEF AnnounceWipe, RecordInv, IInv, FilesMatchTheStage, NothingLeft, Pending,
                RecoverWipe, ownership
  <2>2. CASE RecoverWipe
    BY <2>2 DEF AnnounceWipe, RecordInv, OneJournal, Pending, RecoverWipe, files,
                ownership, ghosts
  <2>3. QED
    BY <2>1, <2>2
<1> DEFINE next == BeginBurying
<1>3. /\ next.at = "bury" /\ next.tree = tree /\ next.todo = {k \in Keys : disk[k] # None}
      /\ next.recovering = op.recovering /\ next.kind = op.kind /\ next \in Operation
  <2>1. tree \in Tree
    BY <1>1, TombstonesType
  <2>2. QED
    BY <2>1, BeginBuryingType DEF BeginBurying, RecordInv, IInv, TypeOK, Operation
<1>4. /\ RecoverWipe => op' = [next EXCEPT !.recovering = TRUE]
      /\ AnnounceWipe => op' = next
  BY <1>2 DEF RecoverWipe, AnnounceWipe
<1> HIDE DEF next
<1>5. /\ op'.at = "bury" /\ op'.tree = tree /\ op'.todo = {k \in Keys : disk[k] # None}
      /\ RecoverWipe => op'.recovering
      /\ AnnounceWipe => ~op'.recovering /\ op'.kind = "wipe"
  BY <1>2, <1>3, <1>4 DEF Operation
<1>6. \A k \in Keys : /\ tree[k] = None <=> disk[k] = None
                      /\ tree[k] # None => IsTombstone(tree[k])
  BY <1>1, TombstonesAre
<1> HIDE DEF tree
<1>7. Pending' = None /\ Job' = None
  BY <1>2, <1>5 DEF Pending, Job
<1>8. OneJournal'
  BY <1>2, <1>5 DEF OneJournal
<1>10. KeysAreKnown'
  BY <1>2 DEF RecordInv, KeysAreKnown, Known, WrittenFor, Current
<1>11. JobIsKnown'
  BY <1>7 DEF JobIsKnown
<1>12. WritesMatch'
  <2>1. \A k \in Keys : ~IsLive(tree[k])
    BY <1>6 DEF IsLive, IsTombstone
  <2>2. QED
    BY <1>2, <1>5, <1>6, <2>1 DEF WritesMatch, IsLive
<1>13. CacheIsTrue'
  BY <1>2, <1>5 DEF RecordInv, CacheIsTrue
<1>14. WipedIsGone'
  BY <1>2, <1>7 DEF WipedIsGone
<1>15. QED
  BY <1>8, <1>10, <1>11, <1>12, <1>13, <1>14 DEF RecordInv

LEMMA FingerprintIs ==
  ASSUME NEW r \in Record \cup {None}
  PROVE  /\ FingerprintOf(r) = None <=> r = None
         /\ r # None => FingerprintOf(r).causal = r.causal /\ FingerprintOf(r).hash = r.data
<1>1. CASE r = None
  BY <1>1 DEF FingerprintOf
<1>2. CASE r # None
  <2>1. r \in Record /\ FingerprintOf(r) = [hash |-> r.data, causal |-> r.causal]
    BY <1>2 DEF FingerprintOf
  <2>2. FingerprintOf(r) \in Fingerprint
    BY <2>1 DEF Record, Fingerprint
  <2>3. QED
    BY <1>2, <2>1, <2>2, NoneIsNoRecord
<1>3. QED
  BY <1>1, <1>2

LEMMA FingerprintsAre ==
  ASSUME NEW tree \in Tree
  PROVE  /\ \A k \in Keys : Fingerprints(tree)[k] # None <=> tree[k] # None
         /\ \A t : StampedTree(tree, t) => StampedBase(Fingerprints(tree), t)
<1>1. ASSUME NEW k \in Keys
      PROVE  /\ Fingerprints(tree)[k] = None <=> tree[k] = None
             /\ tree[k] # None => Fingerprints(tree)[k].causal = tree[k].causal
  <2>1. tree[k] \in Record \cup {None} /\ Fingerprints(tree)[k] = FingerprintOf(tree[k])
    BY DEF Tree, Fingerprints
  <2>2. QED
    BY <2>1, FingerprintIs
<1>2. QED
  BY <1>1 DEF StampedBase, StampedTree

\* A page is served.
LEMMA ServeStep ==
  ASSUME RecordInv, IInv', Serve
  PROVE  RecordInv'
<1>1. /\ op'.at = "idle" /\ cache' = disk /\ served' = Fingerprints(disk)
      /\ base' \in {base, Fingerprints(disk)} /\ stale' = FALSE
      /\ UNCHANGED <<disk, journal, temp, wiping, clock, fresh, wipeFailed>>
  BY NoOpType DEF Serve, Finish, files
<1>2. journal = None /\ temp = None /\ ~wiping /\ disk \in Tree /\ disk # None
  BY JournalAssumption
     DEF Serve, RecordInv, IInv, TypeOK, FilesMatchTheStage, NothingLeft
<1>3. Current' = disk /\ Pending' = None /\ Job' = None
  BY <1>1, <1>2, JournalAssumption DEF Current, Pending, Job
<1>4. \A k \in Keys : Fingerprints(disk)[k] # None <=> disk[k] # None
  BY <1>2, FingerprintsAre
<1>5. OneJournal'
  BY <1>1, <1>2 DEF OneJournal
<1>7. KeysAreKnown'
  <2>1. Known(base)'
    BY <1>1, <1>4 DEF RecordInv, KeysAreKnown, Known
  <2>2. Known(served)'
    BY <1>1, <1>4 DEF Known
  <2>3. \A k \in Keys : (Current'[k] = None <=> disk'[k] = None)
    BY <1>1, <1>3
  <2>4. QED
    BY <2>1, <2>2, <2>3 DEF KeysAreKnown
<1>8. JobIsKnown' /\ WritesMatch'
  BY <1>1, <1>2, <1>3 DEF JobIsKnown, WritesMatch
<1>9. CacheIsTrue'
  <2>1. \A k \in Keys : Alike(Current[k], disk[k])'
    BY <1>1, <1>3 DEF Alike
  <2>2. QED
    BY <1>1, <1>2, <2>1 DEF CacheIsTrue
<1>10. WipedIsGone'
  BY <1>1, <1>2, <1>3 DEF RecordInv, WipedIsGone
<1>11. QED
  BY <1>5, <1>7, <1>8, <1>9, <1>10 DEF RecordInv

\* What is stamped stays so in time.
LEMMA StampsInTime ==
  ASSUME RecordInv, StampsInOrder
  PROVE  /\ StampedTree(disk, clock + 1) /\ (cache # None => StampedTree(cache, clock + 1))
         /\ StampedBase(base, clock + 1)
         /\ (served # None => StampedBase(served, clock + 1))
<1>1. \A k \in Keys :
        /\ disk[k] # None => Stamped(disk[k].causal, clock + 1)
        /\ cache # None /\ cache[k] # None => Stamped(cache[k].causal, clock + 1)
        /\ base[k] # None => Stamped(base[k].causal, clock + 1)
        /\ served # None /\ served[k] # None => Stamped(served[k].causal, clock + 1)
  BY StampedLater, StateTypes
     DEF RecordInv, StampsInOrder, StampedTree, StampedBase, Tree, Base, Record, Fingerprint
<1>2. QED
  BY <1>1 DEF StampedTree, StampedBase

\* The request of a save.
LEMMA PreparedIs ==
  ASSUME op \in Operation, Prepare
  PROVE  op'.at = "stage" /\ op'.job.sent \subseteq Keys
         /\ op'.job.base = base' /\ op'.job.at = clock + 1
<1> DEFINE job == [mem |-> op.payload.mem, sent |-> op.payload.sent,
                   base |-> base', at |-> clock + 1]
<1>1. op' = [op EXCEPT !.at = "stage", !.moves = MovesTheBase, !.job = job]
  BY DEF Prepare
<1>2. job.base = base' /\ job.at = clock + 1 /\ job.sent \subseteq Keys
  BY DEF Operation, Payload
<1> HIDE DEF job
<1>3. QED
  BY <1>1, <1>2 DEF Operation

\* A save is complete.
LEMMA PrepareStep ==
  ASSUME RecordInv, IInv', Prepare
  PROVE  RecordInv'
<1>1. journal = None /\ temp = None /\ ~wiping /\ Pending = None /\ op \in Operation
  BY JournalAssumption
     DEF Prepare, RecordInv, IInv, TypeOK, FilesMatchTheStage, NothingLeft, Pending
<1>2. /\ base' = base \/ (served # None /\ base' = served)
      /\ served' = served \/ served' = None
      /\ UNCHANGED <<disk, journal, temp, wiping, cache, fresh, wipeFailed, stale>>
  BY DEF Prepare, Claims, files, ghosts
<1>3. op'.at = "stage" /\ op'.job.base = base'
  BY <1>1, PreparedIs
<1>4. Current' = Current /\ Pending' = None /\ Job' = op'.job
  BY <1>1, <1>2, <1>3, JournalAssumption DEF Current, Pending, Job
<1>5. Known(base)'
  BY <1>2 DEF RecordInv, KeysAreKnown, Known
<1>6. OneJournal'
  BY <1>1, <1>2, <1>3 DEF OneJournal
<1>7. KeysAreKnown'
  <2>1. (served # None => Known(served))'
    BY <1>2 DEF RecordInv, KeysAreKnown, Known
  <2>2. \A k \in Keys : Current[k] = None <=> disk[k] = None
    BY <1>1 DEF RecordInv, KeysAreKnown, WrittenFor
  <2>3. QED
    BY <1>2, <1>4, <1>5, <2>1, <2>2 DEF KeysAreKnown
<1>8. JobIsKnown'
  BY <1>3, <1>4, <1>5 DEF JobIsKnown, Known
<1>9. WritesMatch'
  BY <1>3 DEF WritesMatch
<1>10. CacheIsTrue'
  <2>1. ~stale => \A k \in Keys : Alike(Current[k], disk[k])
    BY <1>1 DEF RecordInv, CacheIsTrue, WrittenFor
  <2>2. QED
    BY <1>1, <1>2, <1>4, <2>1 DEF CacheIsTrue
<1>11. WipedIsGone'
  BY <1>2, <1>4 DEF RecordInv, WipedIsGone
<1>12. QED
  BY <1>6, <1>7, <1>8, <1>9, <1>10, <1>11 DEF RecordInv

\* From here on the save will happen.
LEMMA FillJournalStep ==
  ASSUME RecordInv, IInv', FillJournal
  PROVE  RecordInv'
<1>1. /\ op.at = "fill" /\ op.job \in Request /\ op.job # None /\ op.job # Torn
      /\ journal = None /\ temp = Torn /\ ~wiping
  BY RequestType
     DEF FillJournal, RecordInv, IInv, FilesMatchTheStage, OperationIsComplete
<1>2. /\ temp' = op.job /\ fresh' = fresh \cup op.job.sent
      /\ UNCHANGED <<disk, journal, wiping, cache, base, served, clock, wipeFailed, stale>>
  BY DEF FillJournal, process, ownership
<1>3. op'.at = "install" /\ op'.job = op.job
  BY GotoType DEF FillJournal, Goto, Stages, RecordInv, IInv, TypeOK
<1>4. /\ Pending = None /\ Pending' = op.job /\ Job = op.job /\ Job' = op.job
      /\ Current' = Current
  BY <1>1, <1>2, <1>3, JournalAssumption DEF Pending, Job, Current
<1>5. OneJournal' /\ WritesMatch'
  BY <1>1, <1>2, <1>3 DEF RecordInv, OneJournal, WritesMatch
<1>6. KeysAreKnown'
  <2>1. \A k \in Keys : Current[k] = None <=> disk[k] = None
    BY <1>4 DEF RecordInv, KeysAreKnown, WrittenFor
  <2>2. QED
    BY <1>2, <1>4, <2>1 DEF RecordInv, KeysAreKnown, Known
<1>7. JobIsKnown'
  BY <1>2, <1>4 DEF RecordInv, JobIsKnown, Known
<1>8. CacheIsTrue'
  <2>1. ~stale => \A k \in Keys : Alike(Current[k], disk[k])
    BY <1>1, <1>4 DEF RecordInv, CacheIsTrue, WrittenFor
  <2>2. QED
    BY <1>1, <1>2, <1>4, <2>1 DEF CacheIsTrue
<1>9. WipedIsGone'
  BY <1>1, <1>2, <1>4 DEF RecordInv, WipedIsGone
<1>10. QED
  BY <1>5, <1>6, <1>7, <1>8, <1>9 DEF RecordInv

\* One file of a save is written.
LEMMA WriteMergedStep ==
  ASSUME RecordInv, IInv', NEW x \in Keys, WriteRecord(x), op.at = "write"
  PROVE  RecordInv'
<1>1. /\ op.job \in Request /\ op.job # None /\ Pending = op.job /\ ~wiping
      /\ cache # None /\ cache \in Tree /\ Current = cache /\ disk \in Tree
      /\ op.tree = Merged(op.job, cache) /\ op \in Operation
  BY RequestType DEF RecordInv, IInv, TypeOK, FilesMatchTheStage, OperationIsComplete,
     WritesMatch, Current
<1>2. /\ x \in op.todo /\ disk' = [disk EXCEPT ![x] = op.tree[x]]
      /\ UNCHANGED <<journal, temp, wiping, cache, base, served, clock, fresh, wipeFailed, stale>>
  BY DEF WriteRecord, process, ownership, ghosts
<1>3. /\ op'.at = op.at /\ op'.job = op.job /\ op'.tree = op.tree
      /\ op'.recovering = op.recovering /\ op'.kind = op.kind /\ op'.todo = op.todo \ {x}
  BY <1>1 DEF WriteRecord, Operation
<1>4. Pending' = Pending /\ Current' = Current /\ Job = Pending /\ Job' = Pending
  BY <1>1, <1>2, <1>3 DEF Pending, Current, Job
<1>5. disk'[x] = op.tree[x] /\ \A k \in Keys \ {x} : disk'[k] = disk[k]
  BY <1>1, <1>2 DEF Tree
<1> DEFINE m == MergedRecord(Pending, Current[x], x)
<1>6. op.tree[x] = m
  BY <1>1 DEF Merged
<1>7. m # None /\ Writes(Pending, Current[x], x)
  BY <1>1, <1>2, <1>6 DEF RecordInv, WritesMatch, Writes, IsWritten
<1>8. Meets(Pending, Current[x], x) /\ Current[x] \in Record \cup {None}
  BY <1>1, <1>4, JobMeets, StateTypes DEF RecordInv
<1>10. IsLive(m) => IsLive(Current[x]) \/ x \in Pending.sent
  BY <1>1, <1>8, LiveIsThereOrSent
<1> HIDE DEF m
<1>11. WrittenFor(Pending, x)'
  BY <1>1, <1>4, <1>5, <1>6, <1>7 DEF WrittenFor, m
<1>12. OneJournal'
  BY <1>2, <1>3, <1>4 DEF RecordInv, OneJournal
<1>14. \A k \in Keys : disk[k] # None => disk'[k] # None
  BY <1>5, <1>6, <1>7
<1>15. KeysAreKnown'
  <2>1. Known(base)' /\ (served # None => Known(served))'
    BY <1>2, <1>14 DEF RecordInv, KeysAreKnown, Known
  <2>2. ASSUME NEW k \in Keys
        PROVE  ((Current[k] = None <=> disk[k] = None) \/ WrittenFor(Pending, k))'
    BY <1>4, <1>5, <1>11 DEF RecordInv, KeysAreKnown, WrittenFor
  <2>3. QED
    BY <2>1, <2>2 DEF KeysAreKnown
<1>16. JobIsKnown'
  BY <1>2, <1>4, <1>14 DEF RecordInv, JobIsKnown, Known
<1>17. WritesMatch'
  BY <1>1, <1>2, <1>3, <1>5 DEF RecordInv, WritesMatch
<1>18. CacheIsTrue'
  <2>1. ASSUME ~stale, NEW k \in Keys
        PROVE  Alike(Current[k], disk'[k]) \/ WrittenFor(Pending, k)'
    BY <1>1, <1>4, <1>5, <1>11, <2>1 DEF RecordInv, CacheIsTrue, WrittenFor
  <2>2. QED
    BY <1>1, <1>2, <1>3, <1>4, <2>1 DEF CacheIsTrue
<1>19. WipedIsGone'
  BY <1>1, <1>2, <1>4, <1>5, <1>6, <1>10 DEF RecordInv, WipedIsGone
<1>20. QED
  BY <1>12, <1>15, <1>16, <1>17, <1>18, <1>19 DEF RecordInv

\* One tombstone of a wipe is written.
LEMMA WriteTombstoneStep ==
  ASSUME RecordInv, IInv', NEW x \in Keys, WriteRecord(x), op.at = "bury"
  PROVE  RecordInv'
<1>1. wiping /\ journal = None /\ temp = None /\ Pending = None
      /\ op \in Operation /\ disk \in Tree
  BY DEF RecordInv, IInv, TypeOK, FilesMatchTheStage, OneJournal, Pending
<1>2. /\ x \in op.todo /\ disk' = [disk EXCEPT ![x] = op.tree[x]]
      /\ UNCHANGED <<journal, temp, wiping, cache, base, served, clock, fresh, wipeFailed, stale>>
  BY DEF WriteRecord, process, ownership, ghosts
<1>3. /\ op'.at = op.at /\ op'.job = op.job /\ op'.tree = op.tree
      /\ op'.recovering = op.recovering /\ op'.kind = op.kind /\ op'.todo = op.todo \ {x}
  BY <1>1 DEF WriteRecord, Operation
<1>4. Pending' = None /\ Job' = None
  BY <1>1, <1>2, <1>3 DEF Pending, Job
<1>5. disk'[x] = op.tree[x] /\ \A k \in Keys \ {x} : disk'[k] = disk[k]
  BY <1>1, <1>2 DEF Tree
<1>6. /\ \A k \in Keys : ~IsLive(op.tree[k]) /\ (op.tree[k] = None <=> disk[k] = None)
      /\ \A k \in Keys \ op.todo : ~IsLive(disk[k])
  BY DEF RecordInv, WritesMatch
<1>7. \A k \in Keys : disk'[k] = None <=> disk[k] = None
  BY <1>5, <1>6
<1>8. OneJournal'
  BY <1>1, <1>2, <1>3 DEF RecordInv, OneJournal
<1>10. KeysAreKnown'
  <2>1. Known(base)' /\ (served # None => Known(served))'
    BY <1>2, <1>7 DEF RecordInv, KeysAreKnown, Known
  <2>2. \A k \in Keys : Current[k] = None <=> disk[k] = None
    BY <1>1 DEF RecordInv, KeysAreKnown, WrittenFor
  <2>3. \A k \in Keys : Current'[k] = None <=> disk'[k] = None
    BY <1>2, <1>7, <2>2 DEF Current
  <2>4. QED
    BY <2>1, <2>3 DEF KeysAreKnown
<1>11. JobIsKnown'
  BY <1>4 DEF JobIsKnown
<1>12. WritesMatch'
  <2>1. \A k \in Keys \ op'.todo : ~IsLive(disk'[k])
    BY <1>3, <1>5, <1>6
  <2>2. QED
    BY <1>3, <1>6, <1>7, <2>1 DEF WritesMatch
<1>13. CacheIsTrue'
  BY <1>1, <1>2, <1>3 DEF RecordInv, CacheIsTrue
<1>14. WipedIsGone'
  BY <1>1, <1>2, <1>4 DEF WipedIsGone
<1>15. QED
  BY <1>8, <1>10, <1>11, <1>12, <1>13, <1>14 DEF RecordInv

\* What the records of a save look like when all are written.
LEMMA AllWritten ==
  ASSUME RecordInv, op.at = "write", op.todo = {}, NEW k \in Keys
  PROVE  /\ Pending = op.job /\ Pending \in Request /\ Pending # None /\ Current = cache
         /\ op.tree[k] = MergedRecord(Pending, Current[k], k)
         /\ Current[k] \in Record \cup {None} /\ disk[k] \in Record \cup {None}
         /\ op.tree[k] \in Record \cup {None}
         /\ Meets(Pending, Current[k], k)
         /\ Writes(Pending, Current[k], k) => disk[k] = op.tree[k]
         /\ ~Writes(Pending, Current[k], k) =>
              /\ op.tree[k] = Current[k] \/ IsTombstone(op.tree[k])
              /\ Current[k] = None <=> disk[k] = None
         /\ op.tree[k] = None <=> disk[k] = None
<1>1. /\ Pending = op.job /\ Pending \in Request /\ Pending # None /\ Current = cache
      /\ op.tree = Merged(Pending, Current) /\ op.tree \in Tree
  BY RequestType
     DEF RecordInv, IInv, FilesMatchTheStage, OperationIsComplete, WritesMatch, Current
<1> DEFINE m == MergedRecord(Pending, Current[k], k)
<1>2. op.tree[k] = m /\ m \in Record \cup {None}
  BY <1>1 DEF Merged, Tree
<1>3. Job = Pending
  BY DEF Job
<1>4. Meets(Pending, Current[k], k)
  BY <1>1, <1>3, JobMeets
<1>5. Current[k] \in Record \cup {None} /\ disk[k] \in Record \cup {None}
  BY StateTypes DEF RecordInv
<1>6. Writes(Pending, Current[k], k) => disk[k] = m /\ m # None
  BY <1>1, <1>2 DEF RecordInv, WritesMatch, Writes, IsWritten
<1>7. ASSUME ~Writes(Pending, Current[k], k)
      PROVE  /\ m = Current[k] \/ IsTombstone(m)
             /\ Current[k] = None <=> disk[k] = None
             /\ m = None <=> Current[k] = None
  <2>1. m = Current[k] \/ IsTombstone(m)
    BY <1>1, <1>4, <1>5, <1>7, UnwrittenIsThere
  <2>2. Current[k] = None <=> disk[k] = None
    BY <1>7 DEF RecordInv, KeysAreKnown, WrittenFor
  <2>3. m # None => Pending.base[k] # None
    BY <1>7 DEF Writes, IsWritten, RecordChangedSinceBase
  <2>4. m # None => Current[k] # None
    BY <1>4, <2>3 DEF Meets
  <2>5. Current[k] # None => m # None
    BY <1>1, <1>4, <1>5, MergedStays
  <2>6. QED
    BY <2>1, <2>2, <2>4, <2>5
<1> HIDE DEF m
<1>8. QED
  BY <1>1, <1>2, <1>4, <1>5, <1>6, <1>7 DEF m

\* The base learns what was merged, or keeps what the request was based on.
LEMMA AcknowledgedIs ==
  ASSUME NEW r, NEW current, NEW merged, NEW k \in Keys
  PROVE  LET b == Acknowledged(r, current, merged)[k]
         IN  \/ b = None \/ b = r.base[k]
             \/ merged[k] # None /\ b = FingerprintOf(merged[k])
<1> DEFINE inc == Incoming(r, current[k], k)
<1>1. Acknowledged(r, current, merged)[k] = AcknowledgedBase(r.base[k], inc, merged[k])
  BY DEF Acknowledged
<1> HIDE DEF inc
<1>2. QED
  BY <1>1 DEF AcknowledgedBase

\* All files of a save are written.
LEMMA CommittedStep ==
  ASSUME RecordInv, IInv', Committed
  PROVE  RecordInv'
<1>1. /\ op.at = "write" /\ op.todo = {} /\ cache' = op.tree
      /\ base' = base \/ base' = Acknowledged(op.job, Current, op.tree)
      /\ stale' = (stale \/ BuriesInTheCacheOnly)
      /\ UNCHANGED <<disk, journal, temp, wiping, served, clock, fresh, wipeFailed>>
  BY DEF Committed, files, ownership
<1>2. /\ Pending = op.job /\ Pending \in Request /\ Pending # None /\ ~wiping
      /\ op.tree \in Tree /\ op.tree # None /\ Current = cache
      /\ op.tree = Merged(Pending, Current)
  <2>1. op.job \in Request /\ op.job # None /\ op.tree \in Tree /\ op.tree # None
    BY <1>1, RequestType, JournalAssumption DEF RecordInv, IInv, OperationIsComplete
  <2>2. Pending = op.job /\ ~wiping
    BY <1>1 DEF RecordInv, IInv, FilesMatchTheStage
  <2>3. Current = cache /\ op.tree = Merged(op.job, cache)
    BY <1>1 DEF RecordInv, WritesMatch, Current
  <2>4. QED
    BY <2>1, <2>2, <2>3
<1>3. op'.at = "unlog" /\ op'.job = op.job /\ op'.recovering = op.recovering
  BY GotoType DEF Committed, Goto, Stages, RecordInv, IInv, TypeOK
<1>4. Pending' = Pending /\ Current' = op.tree /\ Job = Pending /\ Job' = Pending
  BY <1>1, <1>2, <1>3 DEF Pending, Current, Job
<1>5. \A k \in Keys :
        /\ op.tree[k] = MergedRecord(Pending, Current[k], k)
        /\ Current[k] \in Record \cup {None} /\ disk[k] \in Record \cup {None}
        /\ op.tree[k] \in Record \cup {None}
        /\ Meets(Pending, Current[k], k)
        /\ Writes(Pending, Current[k], k) => disk[k] = op.tree[k]
        /\ ~Writes(Pending, Current[k], k) =>
             op.tree[k] = Current[k] \/ IsTombstone(op.tree[k])
        /\ op.tree[k] = None <=> disk[k] = None
  BY <1>1, AllWritten
<1>6. Known(Pending.base)
  BY <1>2, <1>4 DEF RecordInv, JobIsKnown
<1>8. OneJournal'
  BY <1>1, <1>2, <1>3, <1>4 DEF RecordInv, OneJournal
<1>9. ASSUME NEW k \in Keys
      PROVE  base'[k] # None => disk[k] # None
  <2>1. CASE base' = base
    BY <2>1 DEF RecordInv, KeysAreKnown, Known
  <2>2. CASE base' = Acknowledged(op.job, Current, op.tree)
    <3>1. \/ base'[k] = None \/ base'[k] = Pending.base[k]
          \/ op.tree[k] # None /\ base'[k] = FingerprintOf(op.tree[k])
      BY <1>2, <2>2, AcknowledgedIs
    <3>2. QED
      BY <1>5, <1>6, <3>1 DEF Known
  <2>3. QED
    BY <1>1, <2>1, <2>2
<1>11. KeysAreKnown'
  <2>1. Known(base)'
    BY <1>1, <1>5, <1>9 DEF Known
  <2>2. (served # None => Known(served))'
    BY <1>1, <1>5 DEF RecordInv, KeysAreKnown, Known
  <2>3. \A k \in Keys : Current'[k] = None <=> disk'[k] = None
    BY <1>1, <1>4, <1>5
  <2>4. QED
    BY <2>1, <2>2, <2>3 DEF KeysAreKnown
<1>12. JobIsKnown'
  BY <1>1, <1>4, <1>5, <1>6 DEF JobIsKnown, Known
<1>13. WritesMatch'
  <2>1. ASSUME NEW k \in Keys, Writes(Pending, op.tree[k], k)
        PROVE  Same(disk[k], MergedRecord(Pending, op.tree[k], k))
    <3> DEFINE m == op.tree[k]
               again == MergedRecord(Pending, m, k)
    <3>1. Same(again, m)
      BY <1>2, <1>5, MergeAgain
    <3>2. again # None /\ (Pending.base[k] = None \/ Pending.base[k].hash # again.data)
      BY <2>1 DEF Writes, IsWritten, RecordChangedSinceBase
    <3> HIDE DEF again
    <3>3. m # None /\ m.data = again.data
      BY <3>1, <3>2 DEF Same
    <3>4. Writes(Pending, Current[k], k)
      BY <1>5, <3>2, <3>3 DEF Writes, IsWritten, RecordChangedSinceBase
    <3>5. disk[k] = m
      BY <1>5, <3>4
    <3>6. QED
      BY <3>2, <3>3, <3>5 DEF Same, again
  <2>2. \A k \in Keys : cache'[k] = None <=> disk'[k] = None
    BY <1>1, <1>5
  <2>3. QED
    BY <1>1, <1>2, <1>3, <1>4, <2>1, <2>2 DEF WritesMatch
<1>14. CacheIsTrue'
  <2>1. ASSUME ~stale', NEW k \in Keys
        PROVE  Alike(op.tree[k], disk[k])
    <3>1. ~stale /\ ~(IsTombstone(op.tree[k]) /\ IsLive(disk[k]))
      BY <1>1, <2>1 DEF BuriesInTheCacheOnly
    <3>2. CASE Writes(Pending, Current[k], k)
      BY <1>5, <3>2 DEF Alike
    <3>3. CASE ~Writes(Pending, Current[k], k)
      <4>1. Alike(Current[k], disk[k])
        BY <1>2, <3>1, <3>3 DEF RecordInv, CacheIsTrue, WrittenFor
      <4>2. CASE op.tree[k] = Current[k]
        BY <4>1, <4>2
      <4>3. CASE IsTombstone(op.tree[k])
        BY <1>5, <3>1, <4>3 DEF Alike, IsTombstone, IsLive
      <4>4. QED
        BY <1>5, <3>3, <4>2, <4>3
    <3>4. QED
      BY <3>2, <3>3
  <2>2. QED
    BY <1>1, <1>2, <1>4, <2>1 DEF CacheIsTrue
<1>15. WipedIsGone'
  <2>1. ASSUME NEW k \in Keys, IsLive(op.tree[k])
        PROVE  IsLive(Current[k]) \/ k \in Pending.sent
    BY <1>2, <1>5, <2>1, LiveIsThereOrSent
  <2>2. QED
    BY <1>1, <1>2, <1>4, <2>1 DEF RecordInv, WipedIsGone
<1>16. QED
  BY <1>8, <1>11, <1>12, <1>13, <1>14, <1>15 DEF RecordInv

\* All tombstones of a wipe are written.
LEMMA BuriedStep ==
  ASSUME RecordInv, IInv', Buried
  PROVE  RecordInv'
<1>1. /\ op.at = "bury" /\ op.todo = {} /\ base' = Fingerprints(op.tree) /\ served' = None
      /\ UNCHANGED <<disk, journal, temp, wiping, cache, clock, fresh, wipeFailed, stale>>
  BY DEF Buried, files, ghosts
<1>2. wiping /\ journal = None /\ temp = None /\ Pending = None
      /\ op.tree \in Tree /\ op \in Operation
  BY <1>1 DEF RecordInv, IInv, TypeOK, FilesMatchTheStage, OperationIsComplete,
              OneJournal, Pending
<1>3. /\ op'.at = (IF op.recovering THEN "unlog" ELSE "unwipe")
      /\ op'.recovering = op.recovering /\ op'.kind = op.kind
  BY <1>2 DEF Buried, Goto, Operation
<1>4. Pending' = None /\ Job' = None /\ Current' = Current
  BY <1>1, <1>2, <1>3 DEF Pending, Job, Current
<1>5. \A k \in Keys : base'[k] # None <=> op.tree[k] # None
  BY <1>1, <1>2, FingerprintsAre
<1>6. /\ \A k \in Keys : op.tree[k] = None <=> disk[k] = None
      /\ \A k \in Keys : ~IsLive(disk[k])
  BY <1>1 DEF RecordInv, WritesMatch
<1>7. \A k \in Keys : Current[k] = None <=> disk[k] = None
  BY <1>2 DEF RecordInv, KeysAreKnown, WrittenFor
<1>8. OneJournal'
  BY <1>1, <1>2, <1>3 DEF RecordInv, OneJournal
<1>10. KeysAreKnown'
  <2>1. Known(base)'
    BY <1>1, <1>5, <1>6, <1>7 DEF Known, Current
  <2>2. QED
    BY <1>1, <1>4, <1>7, <2>1 DEF KeysAreKnown
<1>11. JobIsKnown'
  BY <1>4 DEF JobIsKnown
<1>12. WritesMatch'
  BY <1>1, <1>3, <1>4, <1>6 DEF WritesMatch
<1>13. CacheIsTrue'
  BY <1>1, <1>2, <1>3 DEF RecordInv, CacheIsTrue
<1>14. WipedIsGone'
  BY <1>1, <1>2, <1>4 DEF WipedIsGone
<1>15. QED
  BY <1>8, <1>10, <1>11, <1>12, <1>13, <1>14 DEF RecordInv

\* Journals go when the files hold all they say.
LEMMA ForgetStep ==
  ASSUME RecordInv, IInv', OneJournal', Pending' \in {Pending, None},
         op.at \in {"unlog", "unstage"},
         op'.at \in {"unstage", "done", "body", "unwipe"},
         base' \in {base, EmptyBase},
         UNCHANGED <<disk, wiping, cache, served, fresh, wipeFailed, stale>>
  PROVE  RecordInv'
<1>1. Current' = Current /\ Job = Pending /\ Job' = Pending'
  BY DEF Current, Job
<1>2. \A k \in Keys : Current[k] = None <=> disk[k] = None
  BY DEF RecordInv, KeysAreKnown, WritesMatch, WrittenFor, Current
<1>3. base' = base \/ \A k \in Keys : base'[k] = None
  BY DEF EmptyBase
<1>5. KeysAreKnown'
  <2>1. Known(base)' /\ (served # None => Known(served))'
    BY <1>3 DEF RecordInv, KeysAreKnown, Known
  <2>2. QED
    BY <1>1, <1>2, <2>1 DEF KeysAreKnown
<1>6. JobIsKnown'
  BY <1>1 DEF RecordInv, JobIsKnown, Known
<1>7. WritesMatch'
  BY DEF RecordInv, WritesMatch
<1>8. CacheIsTrue'
  <2>1. wiping /\ cache # None => stale /\ wipeFailed
    BY DEF RecordInv, CacheIsTrue
  <2>2. ~stale /\ ~wiping => \A k \in Keys : Alike(Current[k], disk[k])
    BY DEF RecordInv, CacheIsTrue
  <2>3. QED
    BY <1>1, <2>1, <2>2 DEF CacheIsTrue
<1>9. WipedIsGone'
  BY <1>1 DEF RecordInv, WipedIsGone
<1>10. QED
  BY <1>5, <1>6, <1>7, <1>8, <1>9 DEF RecordInv

LEMMA RemoveJournalStep ==
  ASSUME RecordInv, IInv', RemoveJournal
  PROVE  RecordInv'
<1>1. /\ op.at = "unlog" /\ journal' = None
      /\ UNCHANGED <<disk, temp, wiping, cache, base, served, clock, fresh, wipeFailed, stale>>
  BY DEF RemoveJournal, process, ownership, ghosts
<1>2. /\ op'.at = (IF op.recovering THEN "unstage" ELSE "done")
      /\ op'.recovering = op.recovering
  BY DEF RemoveJournal, Goto, RecordInv, IInv, TypeOK, Operation
<1>3. Pending' \in {Pending, None}
  BY <1>1 DEF Pending, RecordInv, OneJournal
<1>4. OneJournal'
  BY <1>1, <1>2 DEF RecordInv, OneJournal
<1>5. QED
  BY <1>1, <1>2, <1>3, <1>4, ForgetStep

LEMMA RemoveTempStep ==
  ASSUME RecordInv, IInv', RemoveTemp
  PROVE  RecordInv'
<1>1. /\ op.at = "unstage" /\ temp' = None /\ journal = None /\ op.recovering
      /\ base' \in {base, EmptyBase}
      /\ UNCHANGED <<disk, journal, wiping, cache, served, clock, fresh, wipeFailed, stale>>
  BY DEF RemoveTemp, ownership, ghosts, RecordInv, IInv, FilesMatchTheStage
<1>2. \/ wiping /\ op'.at = "unwipe" /\ op'.recovering
      \/ ~wiping /\ op'.at = "body"
  <2>1. op \in Operation
    BY DEF RecordInv, IInv, TypeOK
  <2>2. CASE wiping
    BY <1>1, <2>1, <2>2 DEF RemoveTemp, Goto, Operation
  <2>3. CASE ~wiping
    BY <2>1, <2>3, ResumeType DEF RemoveTemp
  <2>4. QED
    BY <2>2, <2>3
<1>3. Pending' = None
  BY <1>1, JournalAssumption DEF Pending
<1>4. OneJournal'
  BY <1>1, <1>2 DEF OneJournal
<1>5. QED
  BY <1>1, <1>2, <1>3, <1>4, ForgetStep

LEMMA WipeOverStep ==
  ASSUME RecordInv, IInv', WipeOver
  PROVE  RecordInv'
<1>1. /\ wiping /\ wiping' = FALSE /\ journal = None /\ temp = None /\ op.at = "unwipe"
      /\ \A k \in Keys : ~IsLive(disk[k])
      /\ UNCHANGED <<disk, journal, temp, base, served, clock, fresh>>
  BY DEF WipeOver, RecordInv, IInv, FilesMatchTheStage, OneJournal, WritesMatch, ownership
<1>2. op'.at \in {"idle", "body"}
  <2>1. op \in Operation /\ (Finish \/ Resume)
    BY DEF WipeOver, RecordInv, IInv, TypeOK
  <2>2. CASE Finish
    BY <2>2, NoOpType DEF Finish
  <2>3. CASE Resume
    BY <2>1, <2>3, ResumeType
  <2>4. QED
    BY <2>1, <2>2, <2>3
<1>3. \/ op.recovering /\ UNCHANGED <<cache, wipeFailed, stale>>
      \/ ~op.recovering /\ cache' = None /\ wipeFailed' = FALSE /\ stale' = FALSE
  BY DEF WipeOver
<1>4. Pending = None /\ Pending' = None /\ Job' = None
  BY <1>1, <1>2 DEF Pending, Job
<1>5. \A k \in Keys : Current[k] = None <=> disk[k] = None
  BY <1>4 DEF RecordInv, KeysAreKnown, WrittenFor
<1>6. cache' # None => cache' = cache /\ stale' /\ wipeFailed'
  BY <1>1, <1>3 DEF RecordInv, CacheIsTrue
<1>7. cache' = None => Current' = disk
  BY <1>1 DEF Current
<1>8. cache' # None => Current' = Current
  BY <1>6 DEF Current
<1>9. OneJournal'
  BY <1>1, <1>2 DEF OneJournal
<1>11. KeysAreKnown'
  <2>1. Known(base)' /\ (served # None => Known(served))'
    BY <1>1, <1>6 DEF RecordInv, KeysAreKnown, Known
  <2>2. \A k \in Keys : Current'[k] = None <=> disk'[k] = None
    BY <1>1, <1>5, <1>7, <1>8
  <2>3. QED
    BY <2>1, <2>2 DEF KeysAreKnown
<1>12. JobIsKnown' /\ WritesMatch'
  BY <1>1, <1>2, <1>4 DEF JobIsKnown, WritesMatch
<1>13. CacheIsTrue'
  BY <1>1, <1>6, <1>7 DEF CacheIsTrue, Alike
<1>14. WipedIsGone'
  BY <1>1, <1>4, <1>6, <1>7 DEF WipedIsGone
<1>15. QED
  BY <1>9, <1>11, <1>12, <1>13, <1>14 DEF RecordInv

-------------------------------------------------------------------------------

LEMMA InitRecordInv == Init => RecordInv
<1> SUFFICES ASSUME Init PROVE RecordInv
  OBVIOUS
<1>1. IInv
  BY InitIInv
<1>2. /\ journal = None /\ temp = None /\ wiping = FALSE /\ cache = None
      /\ base = EmptyBase /\ served = None /\ op.at = "down" /\ fresh = Keys
  BY NoOpType DEF Init
<1>3. Current = disk /\ Pending = None /\ Job = None
  BY <1>2 DEF Current, Pending, Job
<1>4. OneJournal /\ JobIsKnown /\ WritesMatch
  BY <1>2, <1>3 DEF OneJournal, JobIsKnown, WritesMatch
<1>5. KeysAreKnown
  BY <1>2, <1>3 DEF KeysAreKnown, Known, EmptyBase
<1>6. CacheIsTrue
  BY <1>2, <1>3 DEF CacheIsTrue, Alike
<1>7. WipedIsGone
  BY <1>2, <1>3 DEF WipedIsGone
<1>8. QED
  BY <1>1, <1>4, <1>5, <1>6, <1>7 DEF RecordInv

LEMMA NextRecordInv == RecordInv /\ [Next]_vars => RecordInv'
<1> SUFFICES ASSUME RecordInv, [Next]_vars PROVE RecordInv'
  OBVIOUS
<1>1. IInv'
  BY NextIInv DEF RecordInv
<1>2. CASE \/ Start \/ (\E kind \in {"peek", "serve", "wipe"} : Call(kind))
           \/ (\E sender \in Pages, memory \in Memory :
                 \E sent \in SUBSET LiveKeys(memory) : CallSave(sender, memory, sent))
           \/ NothingPending \/ Quarantine \/ Look \/ StageJournal \/ Confirm
           \/ (\E k \in Keys, d \in Content : Edit(k, d))
           \/ UNCHANGED vars
  BY <1>1, <1>2, UneventfulStep
<1>3. CASE RecoverSave \/ RecoverWipe \/ AnnounceWipe \/ InstallJournal
  BY <1>1, <1>3, RecoverSaveStep, BuryStep, InstallJournalStep
<1>4. CASE Serve \/ Prepare \/ FillJournal
  BY <1>1, <1>4, ServeStep, PrepareStep, FillJournalStep
<1>5. ASSUME NEW k \in Keys, WriteRecord(k)
      PROVE  RecordInv'
  <2>1. op.at = "write" \/ op.at = "bury"
    BY <1>5 DEF WriteRecord
  <2>2. QED
    BY <1>1, <1>5, <2>1, WriteMergedStep, WriteTombstoneStep
<1>6. CASE Committed \/ Buried \/ RemoveJournal \/ RemoveTemp \/ WipeOver
  BY <1>1, <1>6, CommittedStep, BuriedStep, RemoveJournalStep, RemoveTempStep, WipeOverStep
<1>7. CASE Crash \/ Fail
  BY <1>1, <1>7, CrashStep, FailStep
<1>8. CASE Next
  BY <1>2, <1>3, <1>4, <1>5, <1>6, <1>7, <1>8 DEF Next, Recover, Body, Finishing
<1>9. QED
  BY <1>2, <1>8

\* At every stage the files and the cache hold what the operations begun,
\* and those before them, have left there, and a base knows only what is
\* there (bulk_save_from, wipe, recover_pending_operations).
THEOREM Records == Spec => []RecordInv
BY InitRecordInv, NextRecordInv, PTL DEF Spec

\* Nothing that was wiped comes back (wipe, commit_bulk_save_with_context).
THEOREM NothingWipedReturns == Spec => []WipedStaysWiped
<1>1. RecordInv => WipedStaysWiped
  <2> SUFFICES ASSUME RecordInv, ~wipeFailed, ~wiping, op.at = "idle",
                      NEW k \in LiveKeys(Contents(disk))
               PROVE  k \in fresh
    BY DEF WipedStaysWiped
  <2>1. k \in Keys /\ IsLive(disk[k])
    BY DEF LiveKeys, Contents
  <2>2. QED
    BY <2>1 DEF RecordInv, WipedIsGone
<1>2. QED
  BY <1>1, Records, PTL

-------------------------------------------------------------------------------
(* Time.  Everything above holds whatever the clock shows.                 *)

\* What is in order stays so while the clock does not run back.
StampsStayInOrder == [][StampsInOrder /\ clock' >= clock => StampsInOrder']_vars

\* A step that stamps nothing anew.
LEMMA StampsKept ==
  ASSUME StampsInOrder, clock' = clock, disk' = disk,
         cache' \in {cache, None, disk}, Job' \in {Job, None},
         StampedBase(base', clock), served' # None => StampedBase(served', clock),
         op'.at \in {"write", "bury"} => op.at \in {"write", "bury"} /\ op'.tree = op.tree
  PROVE  StampsInOrder'
<1>1. /\ StampedTree(disk, clock) /\ (cache # None => StampedTree(cache, clock))
      /\ op.at \in {"write", "bury"} => StampedTree(op.tree, clock)
      /\ Job # None =>
           /\ Job.at > 0 /\ Job.at <= clock /\ StampedBase(Job.base, Job.at - 1)
           /\ \A k \in Job.sent : BuriedBefore(disk[k], Job.at) /\ BuriedBefore(Current[k], Job.at)
  BY DEF StampsInOrder, JobComesAfter
<1>2. Current' \in {Current, disk}
  BY DEF Current
<1>3. Job' # None => /\ Job'.at > 0 /\ Job'.at <= clock /\ StampedBase(Job'.base, Job'.at - 1)
                     /\ \A k \in Job'.sent : BuriedBefore(disk'[k], Job'.at)
                                             /\ BuriedBefore(Current'[k], Job'.at)
  BY <1>1, <1>2
<1>4. cache' # None => StampedTree(cache', clock)
  BY <1>1
<1>5. QED
  BY <1>1, <1>3, <1>4 DEF StampsInOrder, JobComesAfter

LEMMA StampsOfQuietSteps ==
  ASSUME RecordInv, StampsInOrder, clock' >= clock,
         \/ Start \/ (\E kind \in {"peek", "serve", "wipe"} : Call(kind))
         \/ (\E sender \in Pages, memory \in Memory :
               \E sent \in SUBSET LiveKeys(memory) : CallSave(sender, memory, sent))
         \/ NothingPending \/ Quarantine \/ Look \/ StageJournal \/ Confirm
         \/ (\E k \in Keys, d \in Content : Edit(k, d)) \/ Fail \/ Crash
         \/ UNCHANGED vars
  PROVE  StampsInOrder'
<1>1. disk' = disk /\ journal' = journal /\ cache' \in {cache, None}
      /\ base' \in {base, EmptyBase} /\ served' \in {served, None}
  BY DEF Start, Call, CallSave, NothingPending, Quarantine, Look, StageJournal, Confirm,
         Edit, Fail, Crash, vars, files, process, ownership
<1>2. clock' = clock
  <2>1. CASE Crash
    <3>1. clock' \in 0..clock /\ clock \in Nat
      BY <2>1 DEF Crash, RecordInv, IInv, TypeOK
    <3>2. QED
      BY <3>1
  <2>2. CASE ~Crash
    BY <2>2 DEF Start, Call, CallSave, NothingPending, Quarantine, Look, StageJournal,
         Confirm, Edit, Fail, vars, process
  <2>3. QED
    BY <2>1, <2>2
<1>3. /\ temp' = temp \/ (temp = Torn /\ temp' = None) \/ (temp = None /\ temp' = Torn)
      /\ temp' # temp => journal = None
  BY DEF Start, Call, CallSave, NothingPending, Quarantine, Look, StageJournal, Confirm,
         Edit, Fail, Crash, vars, files, RecordInv, IInv, FilesMatchTheStage, NothingLeft
<1>4. Pending' = Pending
  BY <1>1, <1>3, JournalAssumption DEF Pending
<1>5. /\ op'.at \in {"stage", "fill"} => op.at \in {"stage", "fill"} /\ op'.job = op.job
      /\ op'.at \in {"write", "bury"} => op.at \in {"write", "bury"} /\ op'.tree = op.tree
  <2>1. NoOp.at = "idle" /\ Down.at = "down" /\ op \in Operation
    BY NoOpType DEF RecordInv, IInv, TypeOK
  <2>2. CASE Start \/ \E kind \in {"peek", "serve", "wipe"} : Call(kind)
    BY <2>1, <2>2, NoOpType DEF Start, Call, Take, Operation
  <2>3. CASE \E sender \in Pages, memory \in Memory :
               \E sent \in SUBSET LiveKeys(memory) : CallSave(sender, memory, sent)
    BY <2>1, <2>3, NoOpType DEF CallSave, Operation
  <2>4. CASE NothingPending \/ Quarantine \/ StageJournal
    BY <2>1, <2>4 DEF NothingPending, Quarantine, StageJournal, Goto, Operation
  <2>5. CASE Look \/ Confirm \/ Fail \/ Crash
    BY <2>1, <2>5 DEF Look, Confirm, Fail, Finish, Crash
  <2>6. CASE (\E k \in Keys, d \in Content : Edit(k, d)) \/ UNCHANGED vars
    BY <2>6 DEF Edit, vars
  <2>7. QED
    BY <2>2, <2>3, <2>4, <2>5, <2>6
<1>6. Job' \in {Job, None}
  <2>1. op.at \in {"stage", "fill"} => Pending = None
    BY JournalAssumption DEF Pending, RecordInv, IInv, FilesMatchTheStage, NothingLeft
  <2>2. QED
    BY <1>4, <1>5, <2>1 DEF Job
<1>7. StampedBase(base', clock) /\ (served' # None => StampedBase(served', clock))
  BY <1>1 DEF StampsInOrder, StampedBase, EmptyBase
<1>8. QED
  BY <1>1, <1>2, <1>5, <1>6, <1>7, StampsKept

LEMMA StampsOfPuttingAway ==
  ASSUME RecordInv, StampsInOrder,
         Serve \/ FillJournal \/ RemoveJournal \/ RemoveTemp \/ Buried \/ WipeOver
  PROVE  StampsInOrder'
<1>1. /\ disk' = disk /\ clock' = clock /\ cache' \in {cache, None, disk}
      /\ disk \in Tree /\ op \in Operation
  BY DEF Serve, FillJournal, RemoveJournal, RemoveTemp, Buried, WipeOver, files, process,
         RecordInv, IInv, TypeOK
<1>2. op'.at \notin {"write", "bury", "stage", "fill"}
  BY <1>1, NoOpType, ResumeType
     DEF Serve, FillJournal, RemoveJournal, RemoveTemp, Buried, WipeOver, Goto, Finish,
         Operation
<1>3. Job' \in {Job, None}
  <2>1. Job' = Pending'
    BY <1>2 DEF Job
  <2>2. CASE FillJournal
    <3>1. op.at = "fill" /\ journal' = None /\ temp' = op.job /\ op.job # Torn
      BY <2>2, RequestType
         DEF FillJournal, RecordInv, IInv, FilesMatchTheStage, OperationIsComplete
    <3>2. QED
      BY <2>1, <3>1 DEF Job, Pending
  <2>3. CASE ~FillJournal
    <3>1. op.at \notin {"stage", "fill"} /\ journal' \in {journal, None} /\ temp' \in {temp, None}
          /\ (journal' # journal => temp = None \/ journal = None)
      BY <2>3 DEF Serve, RemoveJournal, RemoveTemp, Buried, WipeOver, files, RecordInv, OneJournal
    <3>2. Job = Pending
      BY <3>1 DEF Job
    <3>3. QED
      BY <2>1, <3>1, <3>2, JournalAssumption DEF Pending
  <2>4. QED
    BY <2>2, <2>3
<1>4. StampedBase(base', clock) /\ (served' # None => StampedBase(served', clock))
  <2>1. StampedBase(Fingerprints(disk), clock) /\ StampedBase(EmptyBase, clock)
    BY <1>1, FingerprintsAre DEF StampsInOrder, StampedBase, EmptyBase
  <2>2. Buried => StampedBase(Fingerprints(op.tree), clock)
    BY FingerprintsAre DEF Buried, StampsInOrder, RecordInv, IInv, OperationIsComplete
  <2>3. base' \in {base, EmptyBase, Fingerprints(disk)} \/ (Buried /\ base' = Fingerprints(op.tree))
    BY DEF Serve, FillJournal, RemoveJournal, RemoveTemp, Buried, WipeOver, process
  <2>4. served' \in {served, None, Fingerprints(disk)}
    BY DEF Serve, FillJournal, RemoveJournal, RemoveTemp, Buried, WipeOver, process, ownership
  <2>5. QED
    BY <2>1, <2>2, <2>3, <2>4 DEF StampsInOrder
<1>5. QED
  BY <1>1, <1>2, <1>3, <1>4, StampsKept

LEMMA StampsOfMerging ==
  ASSUME RecordInv, StampsInOrder, RecoverSave \/ InstallJournal
  PROVE  StampsInOrder'
<1>1. /\ UNCHANGED <<disk, base, served, clock>> /\ cache' = Current
      /\ Pending \in Request /\ Pending # None /\ op'.tree = Merged(Pending, Current)
      /\ op'.at = "write" /\ Pending' = Pending /\ op.at \in {"recover", "install"}
  <2>1. CASE RecoverSave
    <3> DEFINE next == BeginMerge(Pending)
    <3>1. Pending \in Request /\ Pending # None /\ op' = [next EXCEPT !.recovering = TRUE]
          /\ UNCHANGED <<journal, temp>>
      BY <2>1, StateTypes DEF RecordInv, RecoverSave, files
    <3>2. next.at = "write" /\ next.tree = Merged(Pending, Current) /\ next \in Operation
      BY <3>1, BeginMergeIs DEF RecordInv, IInv
    <3> HIDE DEF next
    <3>3. op'.at = "write" /\ op'.tree = Merged(Pending, Current)
      BY <3>1, <3>2 DEF Operation
    <3>4. QED
      BY <2>1, <3>1, <3>3 DEF RecoverSave, files, ownership, Pending
  <2>2. CASE InstallJournal
    <3>1. op.job \in Request /\ op' = BeginMerge(op.job) /\ journal = None /\ temp = op.job
          /\ journal' = temp /\ temp' = None
      BY <2>2 DEF RecordInv, IInv, InstallJournal, FilesMatchTheStage, OperationIsComplete
    <3>2. op'.at = "write" /\ op'.tree = Merged(op.job, Current)
      BY <3>1, BeginMergeIs DEF RecordInv, IInv
    <3>3. Pending = op.job /\ Pending' = op.job /\ op.job # None
      BY <3>1, RequestType DEF Pending
    <3>4. QED
      BY <2>2, <3>1, <3>2, <3>3 DEF InstallJournal, ownership
  <2>3. QED
    BY <2>1, <2>2
<1>2. Job = Pending /\ Job' = Job /\ Current' = Current /\ Current # None
  BY <1>1, StateTypes, JournalAssumption DEF Job, Current, RecordInv
<1>3. StampedTree(Current, clock) /\ Pending.at <= clock /\ clock \in Nat
      /\ \A k \in Keys : Current[k] \in Record \cup {None}
  BY <1>2, <1>1, StateTypes DEF StampsInOrder, Current, RecordInv
<1>4. StampedTree(op'.tree, clock)
  <2>1. SUFFICES ASSUME NEW k \in Keys, MergedRecord(Pending, Current[k], k) # None
                 PROVE  Stamped(MergedRecord(Pending, Current[k], k).causal, clock)
    BY <1>1 DEF StampedTree, Merged
  <2>2. Outlasts(Pending, Current[k], k)
    BY <1>1, <1>2, JobOutlasts DEF StampsInOrder
  <2>3. QED
    BY <1>1, <1>3, <2>1, <2>2, MergedIsStamped DEF StampedTree
<1>5. QED
  BY <1>1, <1>2, <1>3, <1>4 DEF StampsInOrder, JobComesAfter

LEMMA StampsOfWiping ==
  ASSUME RecordInv, StampsInOrder, RecoverWipe \/ AnnounceWipe
  PROVE  StampsInOrder'
<1>1. /\ UNCHANGED <<disk, cache, base, served, journal, temp>> /\ clock' = clock + 1
      /\ journal = None /\ temp = None
  BY DEF RecoverWipe, AnnounceWipe, files, ownership, RecordInv, IInv, FilesMatchTheStage,
         NothingLeft, OneJournal
<1>2. op'.at = "bury" /\ op'.tree = Tombstones(disk, clock + 1)
  <2>1. BeginBurying.at = "bury" /\ BeginBurying \in Operation
    BY BeginBuryingType DEF RecordInv, IInv
  <2>2. BeginBurying.tree = Tombstones(disk, clock + 1)
    BY DEF BeginBurying, RecordInv, IInv, TypeOK, Operation
  <2>3. QED
    BY <2>1, <2>2 DEF RecoverWipe, AnnounceWipe, Operation
<1>3. Job' = None
  BY <1>1, <1>2 DEF Job, Pending
<1>4. StampedTree(op'.tree, clock')
  BY <1>1, <1>2, TombstonesAre DEF StampsInOrder, RecordInv, IInv, TypeOK, StampedTree
<1>5. QED
  BY <1>1, <1>2, <1>3, <1>4, StampsInTime DEF StampsInOrder, JobComesAfter

LEMMA StampsOfPreparing ==
  ASSUME RecordInv, StampsInOrder, Prepare
  PROVE  StampsInOrder'
<1>1. /\ UNCHANGED <<disk, cache, journal, temp>> /\ clock' = clock + 1 /\ clock \in Nat
      /\ base' = base \/ (served # None /\ base' = served)
      /\ served' = served \/ served' = None
      /\ journal = None /\ temp = None /\ op \in Operation
  BY DEF Prepare, Claims, files, RecordInv, IInv, TypeOK, FilesMatchTheStage, NothingLeft
<1>2. op'.at = "stage" /\ op'.job.sent \subseteq Keys
      /\ op'.job.base = base' /\ op'.job.at = clock + 1
  BY <1>1, PreparedIs
<1>3. Job' = op'.job /\ Current' = Current /\ clock + 1 - 1 = clock
  BY <1>1, <1>2 DEF Job, Current
<1>4. StampedBase(base', clock)
  BY <1>1 DEF StampsInOrder
<1>5. \A k \in Keys : BuriedBefore(disk[k], clock + 1) /\ BuriedBefore(Current[k], clock + 1)
  <2>1. \A k \in Keys : (disk[k] # None => Stamped(disk[k].causal, clock))
                        /\ (Current[k] # None => Stamped(Current[k].causal, clock))
    BY DEF StampsInOrder, StampedTree, Current
  <2>2. QED
    BY <1>1, <1>3, <2>1 DEF BuriedBefore, IsTombstone
<1>6. /\ StampedTree(disk, clock + 1) /\ (cache # None => StampedTree(cache, clock + 1))
      /\ StampedBase(base', clock + 1)
      /\ (served' # None => StampedBase(served', clock + 1))
  <2>1. StampedBase(base, clock + 1) /\ (served # None => StampedBase(served, clock + 1))
    BY StampsInTime
  <2>2. QED
    BY <1>1, <2>1, StampsInTime
<1>7. JobComesAfter' /\ Job'.at <= clock'
  BY <1>1, <1>2, <1>3, <1>4, <1>5 DEF JobComesAfter
<1>8. QED
  BY <1>1, <1>2, <1>6, <1>7 DEF StampsInOrder

LEMMA StampsOfWriting ==
  ASSUME RecordInv, RecordInv', StampsInOrder, NEW x \in Keys, WriteRecord(x)
  PROVE  StampsInOrder'
<1>1. /\ disk' = [disk EXCEPT ![x] = op.tree[x]] /\ disk \in Tree
      /\ UNCHANGED <<journal, temp, cache, base, served, clock>>
      /\ op'.at = op.at /\ op'.tree = op.tree /\ op'.job = op.job /\ op.at \in {"write", "bury"}
  BY DEF WriteRecord, process, ownership, RecordInv, IInv, TypeOK, Operation
<1>2. disk'[x] = op.tree[x] /\ \A k \in Keys \ {x} : disk'[k] = disk[k]
  BY <1>1 DEF Tree
<1>3. Job = Pending /\ Job' = Job
  BY <1>1 DEF Job, Pending
<1>4. StampedTree(disk', clock)
  BY <1>1, <1>2 DEF StampsInOrder, StampedTree
<1>5. ASSUME Job # None
      PROVE  /\ Job'.at > 0 /\ Job'.at <= clock' /\ StampedBase(Job'.base, Job'.at - 1)
             /\ \A k \in Job'.sent : BuriedBefore(disk'[k], Job'.at) /\ BuriedBefore(Current'[k], Job'.at)
  <2>1. op.at = "write"
    BY <1>1, <1>3, <1>5 DEF Pending, RecordInv, IInv, FilesMatchTheStage, OneJournal
  <2>2. /\ op.job \in Request /\ Pending = op.job /\ cache # None
        /\ op.tree = Merged(op.job, cache)
    BY <2>1 DEF RecordInv, IInv, FilesMatchTheStage, OperationIsComplete, WritesMatch
  <2>3. Current = cache /\ Current' = cache
    BY <1>1, <2>2 DEF Current
  <2>4. /\ Job.at > 0 /\ Job.at <= clock /\ StampedBase(Job.base, Job.at - 1)
        /\ \A k \in Job.sent : BuriedBefore(disk[k], Job.at) /\ BuriedBefore(Current[k], Job.at)
        /\ Job.sent \subseteq Keys
    BY <1>3, <1>5, <2>2, RequestType DEF StampsInOrder, JobComesAfter
  <2>5. Meets(Job, Current[x], x) /\ Current[x] \in Record \cup {None}
    BY <1>5, JobMeets, StateTypes DEF RecordInv
  <2>6. op.tree[x] = MergedRecord(Job, Current[x], x)
    BY <1>3, <2>2, <2>3 DEF Merged
  <2>7. x \in Job.sent /\ IsTombstone(op.tree[x]) => op.tree[x] = Current[x]
    BY <1>3, <2>2, <2>5, <2>6, SentIsNotBuried
  <2>8. \A k \in Job.sent : BuriedBefore(disk'[k], Job.at)
    BY <1>2, <2>4, <2>7 DEF BuriedBefore
  <2>9. QED
    BY <1>1, <1>3, <2>3, <2>4, <2>8
<1>6. QED
  BY <1>1, <1>3, <1>4, <1>5 DEF StampsInOrder, JobComesAfter

LEMMA StampsOfCommitting ==
  ASSUME RecordInv, StampsInOrder, Committed
  PROVE  StampsInOrder'
<1>1. /\ op.at = "write" /\ op.todo = {} /\ cache' = op.tree /\ op'.at = "unlog"
      /\ base' = base \/ base' = Acknowledged(op.job, Current, op.tree)
      /\ UNCHANGED <<disk, journal, temp, served, clock>>
  BY DEF Committed, Goto, files, ownership, RecordInv, IInv, TypeOK, Operation
<1>2. /\ Pending = op.job /\ Pending \in Request /\ Pending # None /\ Current = cache
      /\ cache # None /\ op.tree \in Tree /\ op.tree # None /\ clock \in Nat
  BY <1>1, RequestType, JournalAssumption
     DEF RecordInv, IInv, TypeOK, FilesMatchTheStage, OperationIsComplete, WritesMatch, Current
<1>3. Job = Pending /\ Job' = Pending /\ Current' = op.tree
  BY <1>1, <1>2 DEF Job, Pending, Current
<1>4. /\ Pending.at > 0 /\ Pending.at <= clock /\ Pending.at \in Nat /\ Pending.base \in Base
      /\ StampedBase(Pending.base, Pending.at - 1) /\ Pending.sent \subseteq Keys
      /\ \A k \in Pending.sent : BuriedBefore(disk[k], Pending.at)
                                 /\ BuriedBefore(Current[k], Pending.at)
  BY <1>2, <1>3, RequestType DEF StampsInOrder, JobComesAfter
<1>5. StampedTree(op.tree, clock)
  BY <1>1 DEF StampsInOrder
<1>6. StampedBase(base', clock)
  <2>1. SUFFICES ASSUME NEW k \in Keys, base' = Acknowledged(op.job, Current, op.tree),
                        base'[k] # None
                 PROVE  Stamped(base'[k].causal, clock)
    BY <1>1 DEF StampsInOrder, StampedBase
  <2>2. \/ base'[k] = Pending.base[k]
        \/ op.tree[k] # None /\ base'[k] = FingerprintOf(op.tree[k])
    BY <1>2, <2>1, AcknowledgedIs
  <2>3. CASE base'[k] = Pending.base[k]
    <3>1. Stamped(base'[k].causal, Pending.at - 1) /\ base'[k].causal \in Clock
      BY <1>4, <2>1, <2>3 DEF StampedBase, Base, Fingerprint
    <3>2. QED
      BY <1>2, <1>4, <3>1, DeviceType DEF Stamped, Clock
  <2>4. CASE op.tree[k] # None /\ base'[k] = FingerprintOf(op.tree[k])
    <3>1. op.tree[k] \in Record \cup {None}
      BY <1>2 DEF Tree
    <3>2. base'[k].causal = op.tree[k].causal
      BY <2>4, <3>1, FingerprintIs
    <3>3. QED
      BY <1>5, <2>4, <3>2 DEF StampedTree
  <2>5. QED
    BY <2>2, <2>3, <2>4
<1>7. ASSUME NEW k \in Pending.sent
      PROVE  BuriedBefore(op.tree[k], Pending.at)
  <2>1. k \in Keys
    BY <1>4
  <2>2. /\ Meets(Pending, Current[k], k) /\ Current[k] \in Record \cup {None}
        /\ op.tree[k] = MergedRecord(Pending, Current[k], k)
    BY <1>1, <2>1, AllWritten
  <2>3. IsTombstone(op.tree[k]) => op.tree[k] = Current[k]
    BY <1>2, <2>1, <2>2, SentIsNotBuried
  <2>4. QED
    BY <1>4, <2>3 DEF BuriedBefore
<1>8. QED
  BY <1>1, <1>3, <1>4, <1>5, <1>6, <1>7 DEF StampsInOrder, JobComesAfter

LEMMA StampStep ==
  ASSUME RecordInv, RecordInv', [Next]_vars, StampsInOrder, clock' >= clock
  PROVE  StampsInOrder'
<1>1. CASE \/ Start \/ (\E kind \in {"peek", "serve", "wipe"} : Call(kind))
           \/ (\E sender \in Pages, memory \in Memory :
                 \E sent \in SUBSET LiveKeys(memory) : CallSave(sender, memory, sent))
           \/ NothingPending \/ Quarantine \/ Look \/ StageJournal \/ Confirm
           \/ (\E k \in Keys, d \in Content : Edit(k, d)) \/ Fail \/ Crash
           \/ UNCHANGED vars
  BY <1>1, StampsOfQuietSteps
<1>2. CASE Serve \/ FillJournal \/ RemoveJournal \/ RemoveTemp \/ Buried \/ WipeOver
  BY <1>2, StampsOfPuttingAway
<1>3. CASE RecoverSave \/ InstallJournal \/ RecoverWipe \/ AnnounceWipe
  BY <1>3, StampsOfMerging, StampsOfWiping
<1>4. CASE Prepare \/ Committed
  BY <1>4, StampsOfPreparing, StampsOfCommitting
<1>5. ASSUME NEW k \in Keys, WriteRecord(k)
      PROVE  StampsInOrder'
  BY <1>5, StampsOfWriting
<1>6. CASE Next
  BY <1>1, <1>2, <1>3, <1>4, <1>5, <1>6 DEF Next, Recover, Body, Finishing
<1>7. QED
  BY <1>1, <1>6

\* As long as the clock is not set back, no stamp lies in the future, and a
\* save is later than all it is based on and all it would dig up: what
\* SavesAreAtomic excepts on the clock's account cannot come about
\* (fingerprints.rs: now_millis; bulk_save_from, wipe).
THEOREM StampsKeepUp == Spec => StampsStayInOrder
<1>1. RecordInv /\ RecordInv' /\ [Next]_vars
        => [StampsInOrder /\ clock' >= clock => StampsInOrder']_vars
  BY StampStep
<1>2. QED
  BY <1>1, Records, PTL DEF Spec, StampsStayInOrder

-------------------------------------------------------------------------------
(* What the atomic store sees of a step.                                   *)

LEMMA AtomicMerge ==
  /\ \A r, m, k : Atomic!IsWritten(r, m, k) = IsWritten(r, m, k)
  /\ \A r, c, k : Atomic!MergedRecord(r, c, k) = MergedRecord(r, c, k)
  /\ \A r : Atomic!IsTombstone(r) = IsTombstone(r)
<1>1. \A r, m, k : Atomic!IsWritten(r, m, k) = IsWritten(r, m, k)
  BY DEF Atomic!IsWritten, IsWritten, Atomic!RecordChangedSinceBase, RecordChangedSinceBase
<1>2. \A r : /\ Atomic!IsTombstone(r) = IsTombstone(r)
             /\ Atomic!IsLive(r) = IsLive(r)
  BY DEF Atomic!IsTombstone, IsTombstone, Atomic!IsLive, IsLive, Atomic!Gone, Gone
<1>3. /\ \A c, d, t : Atomic!BumpCausal(c, d, t) = BumpCausal(c, d, t)
      /\ \A a, b : Atomic!Descends(a, b) = Descends(a, b)
      /\ \A a, b : Atomic!JoinCausal(a, b) = JoinCausal(a, b)
      /\ Atomic!NoClock = NoClock
  BY DEF Atomic!BumpCausal, BumpCausal, Atomic!MaxOf, MaxOf, Atomic!NoClock, NoClock,
         Atomic!Descends, Descends, Atomic!Exceeds, Exceeds, Atomic!JoinCausal, JoinCausal
<1>4. /\ \A b, d, t : Atomic!TombstoneWithBase(b, d, t) = TombstoneWithBase(b, d, t)
      /\ \A i, b, c, d, t : Atomic!PrepareLocal(i, b, c, d, t) = PrepareLocal(i, b, c, d, t)
      /\ \A x, d, t : Atomic!LiveRecord(x, d, t) = LiveRecord(x, d, t)
      /\ \A i, c : Atomic!ShouldKeepIncoming(i, c) = ShouldKeepIncoming(i, c)
      /\ \A i, c : Atomic!MergeEqualRecords(i, c) = MergeEqualRecords(i, c)
  BY <1>2, <1>3 DEF Atomic!TombstoneWithBase, TombstoneWithBase, Atomic!BaseClock, BaseClock,
     Atomic!PrepareLocal, PrepareLocal, Atomic!LiveRecord, LiveRecord, Atomic!Gone, Gone,
     Atomic!MergeEqualRecords, MergeEqualRecords, Atomic!MaxOf, MaxOf,
     Atomic!ShouldKeepIncoming, ShouldKeepIncoming
<1>5. \A b, i, c, h, d, t : Atomic!MergeRecord(b, i, c, h, d, t) = MergeRecord(b, i, c, h, d, t)
  BY <1>2, <1>3, <1>4 DEF Atomic!MergeRecord, MergeRecord,
     Atomic!IncomingChanged, IncomingChanged, Atomic!IncomingDeleted, IncomingDeleted,
     Atomic!CurrentChanged, CurrentChanged, Atomic!TakeIncoming, TakeIncoming,
     Atomic!Resolve, Resolve
<1>6. \A r, c, k : Atomic!MergedRecord(r, c, k) = MergedRecord(r, c, k)
  BY <1>4, <1>5 DEF Atomic!MergedRecord, MergedRecord, Atomic!Incoming, Incoming,
     Atomic!LiveKeys, LiveKeys, Atomic!Gone, Gone
<1>7. QED
  BY <1>1, <1>2, <1>6

LEMMA AtomicAfter == \A r, current, there : Atomic!After(r, current, there) = After(r, current, there)
BY AtomicMerge DEF Atomic!After, After

LEMMA AtomicTypes == Atomic!Tree = Tree /\ Atomic!Request = Request
BY DEF Atomic!Tree, Tree, Atomic!Record, Record, Atomic!Request, Request,
  Atomic!Content, Content, Atomic!Gone, Gone, Atomic!Clock, Clock, Atomic!Memory, Memory,
  Atomic!Base, Base, Atomic!Fingerprint, Fingerprint, Atomic!LiveKeys, LiveKeys

\* A record once what has been begun is finished: w is whether a wipe has
\* been begun, r the save or None, cur the record it is merged with.
Finished(w, r, cur, there, now, k) ==
  IF w THEN IF IsLive(there) THEN TombstoneWithBase(FingerprintOf(there), Device, now)
            ELSE there
  ELSE IF r # None /\ Writes(r, cur, k) THEN MergedRecord(r, cur, k)
  ELSE there

LEMMA SettledIs ==
  ASSUME NEW k \in Keys
  PROVE  /\ Settled[k] = Finished(wiping, Pending, Current[k], disk[k], clock, k)
         /\ Settled'[k] = Finished(wiping', Pending', Current'[k], disk'[k], clock', k)
<1>1. Settled[k] = Finished(wiping, Pending, Current[k], disk[k], clock, k)
  BY DEF Settled, Finished, After, Writes, Tombstones, IsLive
<1>2. Settled'[k] = Finished(wiping', Pending', Current'[k], disk'[k], clock', k)
  BY DEF Settled, Finished, After, Writes, Tombstones, IsLive
<1>3. QED
  BY <1>1, <1>2

\* A wipe buries all there is.
LEMMA WipedAll ==
  ASSUME NEW there \in Record \cup {None}, NEW now \in Nat, NEW k, NEW r, NEW cur
  PROVE  /\ there = None => Finished(TRUE, r, cur, there, now, k) = None
         /\ there # None => IsTombstone(Finished(TRUE, r, cur, there, now, k))
<1>1. FingerprintOf(there) \in Fingerprint \cup {None}
  BY FingerprintOfType
<1>2. IsTombstone(TombstoneWithBase(FingerprintOf(there), Device, now))
  BY <1>1, TombstoneType, DeviceAssumption
<1>3. QED
  BY <1>2 DEF Finished, IsLive, IsTombstone

LEMMA SameHeld ==
  ASSUME NEW a, NEW b, \A k \in Keys : Same(a[k], b[k])
  PROVE  Atomic!Held(a) = Atomic!Held(b)
BY DEF Atomic!Held, Same

LEMMA IsRefused ==
  ASSUME Requested' \in {None, Requested}, \A k \in Keys : Same(Settled'[k], Settled[k])
  PROVE  Atomic!Next
<1>1. Atomic!Held(Settled') = Atomic!Held(Settled)
  BY SameHeld
<1>2. QED
  BY <1>1 DEF Atomic!Next, Atomic!Refuse

LEMMA IsAsked ==
  ASSUME Requested = None, Requested' \in Request,
         \A k \in Keys : Same(Settled'[k], Settled[k])
  PROVE  Atomic!Next
<1>1. Atomic!Held(Settled') = Atomic!Held(Settled)
  BY SameHeld
<1>2. QED
  BY <1>1, AtomicTypes DEF Atomic!Next, Atomic!Ask

LEMMA IsSaved ==
  ASSUME Requested # None, Requested' = None,
         \A k \in Keys : Same(Settled'[k], After(Requested, Settled, Settled)[k])
  PROVE  Atomic!Next
<1> DEFINE after == After(Requested, Settled, Settled)
<1>1. Atomic!After(Requested, Settled, Settled) = after
  BY AtomicAfter
<1> HIDE DEF after
<1>2. Atomic!Held(Settled') = Atomic!Held(after)
  BY SameHeld DEF after
<1>3. QED
  BY <1>1, <1>2 DEF Atomic!Next, Atomic!Save

LEMMA IsWiped ==
  ASSUME Requested' = Requested,
         \A k \in Keys : IF Settled[k] = None THEN Settled'[k] = None
                         ELSE IsTombstone(Settled'[k])
  PROVE  Atomic!Next
BY AtomicMerge DEF Atomic!Next, Atomic!Wipe

-------------------------------------------------------------------------------
(* Finishing a save gives the same contents wherever it is taken up.       *)

LEMMA FinishedAlike ==
  ASSUME NEW r \in Request, NEW k \in Keys, NEW now,
         NEW cur \in Record \cup {None}, NEW there \in Record \cup {None},
         Meets(r, cur, k), Meets(r, there, k),
         cur = there \/ (Alike(cur, there) /\ Outlasts(r, cur, k) /\ Outlasts(r, there, k))
  PROVE  Same(Finished(FALSE, r, cur, there, now, k), Finished(FALSE, r, there, there, now, k))
<1> DEFINE x == MergedRecord(r, cur, k)
           y == MergedRecord(r, there, k)
<1>1. Same(x, y)
  BY MergeAlike DEF Same
<1>2. /\ Finished(FALSE, r, cur, there, now, k) = IF Writes(r, cur, k) THEN x ELSE there
      /\ Finished(FALSE, r, there, there, now, k) = IF Writes(r, there, k) THEN y ELSE there
  BY RequestType DEF Finished
<1>3. /\ Writes(r, cur, k) <=> x # None /\ (r.base[k] = None \/ r.base[k].hash # x.data)
      /\ Writes(r, there, k) <=> y # None /\ (r.base[k] = None \/ r.base[k].hash # y.data)
  BY DEF Writes, IsWritten, RecordChangedSinceBase
<1> HIDE DEF x, y
<1>4. Writes(r, cur, k) <=> Writes(r, there, k)
  BY <1>1, <1>3 DEF Same
<1>5. QED
  BY <1>1, <1>2, <1>4 DEF Same

\* What is excepted, and what holds otherwise.
Excepted == stale \/ (BuriedTwice /\ ~JobComesAfter)

LEMMA Unexcepted ==
  ASSUME ~Excepted, Job # None, NEW k \in Keys, Alike(Current[k], disk[k])
  PROVE  \/ Current[k] = disk[k]
         \/ Outlasts(Job, Current[k], k) /\ Outlasts(Job, disk[k], k)
BY JobOutlasts DEF Excepted, BuriedTwice, Alike

LEMMA FinishedFromTheFiles ==
  ASSUME RecordInv, ~Excepted, ~wiping, Pending # None, NEW k \in Keys, NEW now
  PROVE  Same(Finished(FALSE, Pending, disk[k], disk[k], now, k),
              Finished(FALSE, Pending, Current[k], disk[k], now, k))
<1>1. /\ Pending \in Request
      /\ Current[k] \in Record \cup {None} /\ disk[k] \in Record \cup {None}
  BY StateTypes DEF RecordInv
<1>2. Job = Pending
  BY <1>1, JournalAssumption DEF Job, Pending, RecordInv, IInv, FilesMatchTheStage, NothingLeft
<1>3. Meets(Pending, Current[k], k) /\ Meets(Pending, disk[k], k)
  BY <1>2, JobMeets
<1>4. CASE Alike(Current[k], disk[k])
  <2>1. Same(Finished(FALSE, Pending, Current[k], disk[k], now, k),
             Finished(FALSE, Pending, disk[k], disk[k], now, k))
    BY <1>1, <1>2, <1>3, <1>4, Unexcepted, FinishedAlike
  <2>2. QED
    BY <2>1 DEF Same
<1>5. CASE WrittenFor(Pending, k)
  <2> DEFINE m == MergedRecord(Pending, Current[k], k)
  <2>1. Writes(Pending, Current[k], k) /\ disk[k] = m
    BY <1>5 DEF WrittenFor
  <2>2. Same(MergedRecord(Pending, m, k), m)
    BY <1>1, <1>3, MergeAgain
  <2> HIDE DEF m
  <2>3. Finished(FALSE, Pending, Current[k], disk[k], now, k) = m
    BY <2>1 DEF Finished, m
  <2>4. Finished(FALSE, Pending, disk[k], disk[k], now, k) \in {m, MergedRecord(Pending, m, k)}
    BY <2>1 DEF Finished
  <2>5. QED
    BY <2>2, <2>3, <2>4 DEF Same
<1>6. QED
  BY <1>4, <1>5 DEF RecordInv, CacheIsTrue, Excepted

-------------------------------------------------------------------------------
(* Each step is one of the atomic store's.                                 *)

LEMMA SameIsSame == \A a : Same(a, a)
BY DEF Same

\* What is not asked for is not.
LEMMA RequestedIs ==
  /\ op.at \notin {"stage", "fill"} => Requested = None
  /\ op'.at \notin {"stage", "fill"} => Requested' = None
  /\ op.at \in {"stage", "fill"} => Requested = op.job
  /\ op'.at \in {"stage", "fill"} => Requested' = op'.job
BY DEF Requested

\* Steps that leave what the records come to as it is.
LEMMA QuietSteps ==
  ASSUME RecordInv,
         \/ Start \/ (\E kind \in {"peek", "serve", "wipe"} : Call(kind))
         \/ (\E sender \in Pages, memory \in Memory :
               \E sent \in SUBSET LiveKeys(memory) : CallSave(sender, memory, sent))
         \/ NothingPending \/ Quarantine \/ Look \/ StageJournal \/ Confirm
         \/ (\E k \in Keys, d \in Content : Edit(k, d)) \/ Fail
         \/ UNCHANGED vars
  PROVE  Atomic!Next
<1>1. UNCHANGED <<disk, journal, wiping, cache, clock>>
  BY DEF Start, Call, CallSave, NothingPending, Quarantine, Look, StageJournal, Confirm,
         Edit, Fail, vars, files, process
<1>2. /\ temp' = temp \/ (temp = Torn /\ temp' = None) \/ (temp = None /\ temp' = Torn)
      /\ temp' # temp => journal = None
  BY DEF Start, Call, CallSave, NothingPending, Quarantine, Look, StageJournal, Confirm,
         Edit, Fail, vars, files, RecordInv, IInv, FilesMatchTheStage, NothingLeft
<1>3. op'.at \in {"stage", "fill"} => op.at \in {"stage", "fill"} /\ op'.job = op.job
  <2>1. NoOp.at = "idle" /\ Down.at = "down" /\ op \in Operation
    BY NoOpType DEF RecordInv, IInv, TypeOK
  <2>2. CASE Start \/ \E kind \in {"peek", "serve", "wipe"} : Call(kind)
    BY <2>1, <2>2, NoOpType DEF Start, Call, Take, Operation
  <2>3. CASE \E sender \in Pages, memory \in Memory :
               \E sent \in SUBSET LiveKeys(memory) : CallSave(sender, memory, sent)
    BY <2>1, <2>3, NoOpType DEF CallSave, Operation
  <2>4. CASE NothingPending \/ Quarantine \/ StageJournal
    BY <2>1, <2>4 DEF NothingPending, Quarantine, StageJournal, Goto, Operation
  <2>5. CASE Look \/ Confirm \/ Fail
    BY <2>1, <2>5 DEF Look, Confirm, Fail, Finish
  <2>6. CASE (\E k \in Keys, d \in Content : Edit(k, d)) \/ UNCHANGED vars
    BY <2>6 DEF Edit, vars
  <2>7. QED
    BY <2>2, <2>3, <2>4, <2>5, <2>6
<1>4. Pending' = Pending /\ Current' = Current
  BY <1>1, <1>2, JournalAssumption DEF Pending, Current
<1>5. ASSUME NEW k \in Keys
      PROVE  Same(Settled'[k], Settled[k])
  BY <1>1, <1>4, SettledIs, SameIsSame
<1>6. Requested' \in {None, Requested}
  BY <1>3, RequestedIs
<1>7. QED
  BY <1>5, <1>6, IsRefused

LEMMA CrashIsAtomic ==
  ASSUME RecordInv, Crash
  PROVE  Excepted \/ Atomic!Next
<1> SUFFICES ASSUME ~Excepted PROVE Atomic!Next
  OBVIOUS
<1>1. /\ op'.at = "down" /\ cache' = None /\ disk \in Tree
      /\ clock \in Nat /\ clock' \in Nat
      /\ UNCHANGED <<disk, journal, temp, wiping>>
  BY NoOpType DEF Crash, files, RecordInv, IInv, TypeOK
<1>2. Current' = disk /\ Pending' = Pending
  BY <1>1 DEF Current, Pending
<1>3. wiping \in BOOLEAN
  BY DEF RecordInv, IInv, TypeOK
<1>4. ASSUME NEW k \in Keys
      PROVE  Same(Settled'[k], Settled[k])
  <2>1. /\ Settled[k] = Finished(wiping, Pending, Current[k], disk[k], clock, k)
        /\ Settled'[k] = Finished(wiping, Pending, disk[k], disk[k], clock', k)
        /\ disk[k] \in Record \cup {None}
    BY <1>1, <1>2, SettledIs DEF Tree
  <2>2. CASE wiping
    <3>1. wiping = TRUE
      BY <2>2
    <3>2. /\ disk[k] = None => Settled[k] = None /\ Settled'[k] = None
          /\ disk[k] # None => IsTombstone(Settled[k]) /\ IsTombstone(Settled'[k])
      BY <1>1, <2>1, <3>1, WipedAll
    <3>3. QED
      BY <3>2 DEF Same, IsTombstone
  <2>3. CASE ~wiping
    <3>1. wiping = FALSE
      BY <1>3, <2>3
    <3>2. CASE Pending = None
      BY <2>1, <3>1, <3>2, SameIsSame DEF Finished
    <3>3. Settled'[k] = Finished(FALSE, Pending, disk[k], disk[k], clock, k)
      BY <2>1, <3>1 DEF Finished
    <3>4. CASE Pending # None
      BY <2>1, <3>1, <3>3, <3>4, FinishedFromTheFiles
    <3>5. QED
      BY <3>2, <3>4
  <2>4. QED
    BY <2>2, <2>3
<1>5. Requested' = None
  BY <1>1, RequestedIs
<1>6. QED
  BY <1>4, <1>5, IsRefused

LEMMA MergingIsAtomic ==
  ASSUME RecordInv, RecordInv', RecoverSave \/ InstallJournal
  PROVE  Atomic!Next
<1>1. /\ op.at \in {"recover", "install"} /\ cache' = Current
      /\ UNCHANGED <<disk, wiping, clock>>
  BY DEF RecoverSave, InstallJournal, files
<1>2. op'.at = "write" /\ Pending' = Pending
  <2>1. CASE RecoverSave
    <3> DEFINE next == BeginMerge(Pending)
    <3>1. Pending \in Request /\ op' = [next EXCEPT !.recovering = TRUE]
          /\ UNCHANGED <<journal, temp>>
      BY <2>1, StateTypes DEF RecordInv, RecoverSave, files
    <3>2. next.at = "write" /\ next \in Operation
      BY <3>1, BeginMergeIs DEF RecordInv, IInv
    <3> HIDE DEF next
    <3>3. op'.at = "write"
      BY <3>1, <3>2 DEF Operation
    <3>4. QED
      BY <3>1, <3>3 DEF Pending
  <2>2. CASE InstallJournal
    <3>1. op.job \in Request /\ op' = BeginMerge(op.job) /\ journal = None /\ temp = op.job
          /\ journal' = temp /\ temp' = None
      BY <2>2 DEF RecordInv, IInv, InstallJournal, FilesMatchTheStage, OperationIsComplete
    <3>2. op'.at = "write"
      BY <3>1, BeginMergeIs DEF RecordInv, IInv
    <3>3. QED
      BY <3>1, <3>2, RequestType DEF Pending
  <2>3. QED
    BY <2>1, <2>2
<1>3. Current # None
  BY StateTypes, JournalAssumption DEF RecordInv
<1>4. Current' = Current
  BY <1>1, <1>3 DEF Current
<1>5. \A k \in Keys : Same(Settled'[k], Settled[k])
  BY <1>1, <1>2, <1>4, SettledIs, SameIsSame
<1>6. Requested' = None
  BY <1>2, RequestedIs
<1>7. QED
  BY <1>5, <1>6, IsRefused

LEMMA WipingIsAtomic ==
  ASSUME RecordInv, RecordInv', RecoverWipe \/ AnnounceWipe
  PROVE  Atomic!Next
<1>1. /\ UNCHANGED disk /\ wiping' = TRUE
      /\ disk \in Tree /\ clock \in Nat /\ clock' \in Nat
      /\ op.at \in {"recover", "body"} /\ op'.at = "bury"
  <2>1. BeginBurying.at = "bury" /\ BeginBurying \in Operation
    BY BeginBuryingType DEF RecordInv, IInv
  <2>2. op'.at = "bury" /\ op.at \in {"recover", "body"}
    BY <2>1 DEF RecoverWipe, AnnounceWipe, Operation
  <2>3. UNCHANGED disk /\ wiping' = TRUE
    BY DEF RecoverWipe, AnnounceWipe, RecordInv, IInv, TypeOK, files
  <2>4. QED
    BY <2>2, <2>3 DEF RecordInv, IInv, TypeOK
<1>2. Requested = None /\ Requested' = None
  BY <1>1, RequestedIs
<1>3. ASSUME NEW k \in Keys
      PROVE  IF disk[k] = None THEN Settled'[k] = None ELSE IsTombstone(Settled'[k])
  <2>1. Settled'[k] = Finished(TRUE, Pending', Current'[k], disk[k], clock', k)
    BY <1>1, SettledIs
  <2>2. disk[k] \in Record \cup {None}
    BY <1>1 DEF Tree
  <2>3. QED
    BY <1>1, <2>1, <2>2, WipedAll
<1>4. ASSUME NEW k \in Keys
      PROVE  Settled[k] = None <=> disk[k] = None
  <2>1. Settled[k] = Finished(wiping, Pending, Current[k], disk[k], clock, k)
        /\ disk[k] \in Record \cup {None} /\ wiping \in BOOLEAN
    BY <1>1, SettledIs DEF Tree, RecordInv, IInv, TypeOK
  <2>2. CASE wiping = TRUE
    <3>1. Settled[k] = Finished(TRUE, Pending, Current[k], disk[k], clock, k)
      BY <2>1, <2>2
    <3>2. /\ disk[k] = None => Settled[k] = None
          /\ disk[k] # None => IsTombstone(Settled[k])
      BY <1>1, <2>1, <3>1, WipedAll
    <3>3. QED
      BY <3>2 DEF IsTombstone
  <2>3. CASE wiping = FALSE
    <3>1. Pending = None
      BY <2>3, JournalAssumption
         DEF RecoverWipe, AnnounceWipe, RecordInv, IInv, FilesMatchTheStage, NothingLeft, Pending
    <3>2. QED
      BY <2>1, <2>3, <3>1 DEF Finished
  <2>4. QED
    BY <2>1, <2>2, <2>3
<1>5. QED
  BY <1>2, <1>3, <1>4, IsWiped

LEMMA ServeIsAtomic ==
  ASSUME RecordInv, Serve
  PROVE  Atomic!Next
<1>1. /\ op'.at = "idle"
      /\ UNCHANGED <<disk, journal, temp, wiping, clock>>
      /\ journal = None /\ temp = None /\ wiping = FALSE
  BY NoOpType DEF Serve, Finish, files, RecordInv, IInv, TypeOK, FilesMatchTheStage, NothingLeft
<1>2. Pending = None /\ Pending' = None
  BY <1>1, JournalAssumption DEF Pending
<1>3. ASSUME NEW k \in Keys
      PROVE  Same(Settled'[k], Settled[k])
  BY <1>1, <1>2, SettledIs, SameIsSame DEF Finished
<1>4. Requested' = None
  BY <1>1, RequestedIs
<1>5. QED
  BY <1>3, <1>4, IsRefused

LEMMA PrepareIsAtomic ==
  ASSUME RecordInv, RecordInv', Prepare
  PROVE  Atomic!Next
<1>1. /\ UNCHANGED <<disk, journal, temp, wiping>> /\ op.at = "body"
      /\ journal = None /\ temp = None /\ wiping = FALSE
  BY DEF Prepare, files, RecordInv, IInv, TypeOK, FilesMatchTheStage, NothingLeft
<1>2. Pending = None /\ Pending' = None
  BY <1>1, JournalAssumption DEF Pending
<1>3. op'.at = "stage"
  BY DEF Prepare, RecordInv, IInv, TypeOK, Operation
<1>4. op'.job \in Request
  BY <1>3 DEF RecordInv, IInv, OperationIsComplete
<1>5. ASSUME NEW k \in Keys
      PROVE  Same(Settled'[k], Settled[k])
  BY <1>1, <1>2, SettledIs, SameIsSame DEF Finished
<1>6. Requested = None /\ Requested' = op'.job
  BY <1>1, <1>3, RequestedIs
<1>7. QED
  BY <1>4, <1>5, <1>6, IsAsked

\* The save happens when its journal is complete.
LEMMA FillIsAtomic ==
  ASSUME RecordInv, FillJournal
  PROVE  Excepted \/ Atomic!Next
<1> SUFFICES ASSUME ~Excepted PROVE Atomic!Next
  OBVIOUS
<1>1. /\ op.at = "fill" /\ op.job \in Request /\ op.job # None /\ op.job # Torn
      /\ journal = None /\ temp = Torn /\ ~wiping /\ wiping = FALSE
      /\ temp' = op.job
      /\ UNCHANGED <<disk, journal, wiping, cache, clock>>
  BY RequestType DEF FillJournal, RecordInv, IInv, TypeOK, FilesMatchTheStage,
     OperationIsComplete, process
<1>2. op'.at = "install"
  BY GotoType DEF FillJournal, Goto, Stages, RecordInv, IInv, TypeOK
<1>3. Pending = None /\ Pending' = op.job /\ Job = op.job /\ Current' = Current
  BY <1>1, JournalAssumption DEF Pending, Job, Current
<1>4. Requested = op.job /\ Requested' = None
  BY <1>1, <1>2, RequestedIs
<1>5. \A k \in Keys : Settled[k] = disk[k]
  BY <1>1, <1>3, SettledIs DEF Finished
<1>6. ASSUME NEW k \in Keys
      PROVE  Same(Settled'[k], After(Requested, Settled, Settled)[k])
  <2>1. Meets(op.job, Current[k], k) /\ Meets(op.job, disk[k], k)
    BY <1>1, <1>3, JobMeets
  <2>2. Current[k] \in Record \cup {None} /\ disk[k] \in Record \cup {None}
    BY StateTypes DEF RecordInv
  <2>3. Alike(Current[k], disk[k])
    BY <1>1, <1>3 DEF RecordInv, CacheIsTrue, WrittenFor, Excepted
  <2>4. Settled'[k] = Finished(FALSE, op.job, Current[k], disk[k], clock, k)
    BY <1>1, <1>3, SettledIs
  <2>5. After(Requested, Settled, Settled)[k]
          = Finished(FALSE, op.job, disk[k], disk[k], clock, k)
    BY <1>1, <1>4, <1>5 DEF After, Finished, Writes
  <2>6. QED
    BY <1>1, <1>3, <2>1, <2>2, <2>3, <2>4, <2>5, Unexcepted, FinishedAlike
<1>7. QED
  BY <1>1, <1>4, <1>6, IsSaved

LEMMA WriteIsAtomic ==
  ASSUME RecordInv, RecordInv', NEW x \in Keys, WriteRecord(x)
  PROVE  Atomic!Next
<1>1. /\ x \in op.todo /\ disk' = [disk EXCEPT ![x] = op.tree[x]] /\ disk \in Tree
      /\ UNCHANGED <<journal, temp, wiping, cache, clock>>
      /\ op'.at = op.at /\ op.at \in {"write", "bury"}
      /\ wiping \in BOOLEAN /\ clock \in Nat
  BY DEF WriteRecord, process, RecordInv, IInv, TypeOK, Operation
<1>2. Requested = None /\ Requested' = None
  BY <1>1, RequestedIs
<1>3. disk'[x] = op.tree[x] /\ \A k \in Keys \ {x} : disk'[k] = disk[k]
  BY <1>1 DEF Tree
<1>4. Pending' = Pending
  BY <1>1 DEF Pending
<1>5. ASSUME op.at = "write", NEW k \in Keys
      PROVE  Same(Settled'[k], Settled[k])
  <2>1. /\ op.job \in Request /\ op.job # None /\ Pending = op.job /\ wiping = FALSE
        /\ cache # None /\ op.tree = Merged(op.job, cache)
        /\ IsWritten(op.job, op.tree[x], x)
    BY <1>1, <1>5, RequestType
       DEF RecordInv, IInv, FilesMatchTheStage, OperationIsComplete, WritesMatch
  <2>2. Current = cache /\ Current' = cache
    BY <1>1, <2>1 DEF Current
  <2>3. Writes(Pending, Current[x], x)
    BY <2>1, <2>2 DEF Writes, Merged
  <2>4. /\ Settled[k] = Finished(FALSE, Pending, cache[k], disk[k], clock, k)
        /\ Settled'[k] = Finished(FALSE, Pending, cache[k], disk'[k], clock, k)
    BY <1>1, <1>4, <2>1, <2>2, SettledIs
  <2>5. Settled'[k] = Settled[k]
    BY <1>3, <2>1, <2>2, <2>3, <2>4 DEF Finished
  <2>6. QED
    BY <2>5, SameIsSame
<1>6. ASSUME op.at = "bury", NEW k \in Keys
      PROVE  Same(Settled'[k], Settled[k])
  <2>1. wiping = TRUE /\ (op.tree[x] = None <=> disk[x] = None)
    BY <1>1, <1>6 DEF RecordInv, IInv, FilesMatchTheStage, WritesMatch
  <2>2. disk[k] \in Record \cup {None} /\ disk'[k] \in Record \cup {None} /\ clock \in Nat
    BY DEF RecordInv, IInv, TypeOK, Tree
  <2>3. /\ Settled[k] = Finished(TRUE, Pending, Current[k], disk[k], clock, k)
        /\ Settled'[k] = Finished(TRUE, Pending', Current'[k], disk'[k], clock, k)
    BY <1>1, <2>1, SettledIs
  <2>4. /\ disk[k] = None => Settled[k] = None
        /\ disk[k] # None => IsTombstone(Settled[k])
    BY <2>2, <2>3, WipedAll
  <2>5. /\ disk'[k] = None => Settled'[k] = None
        /\ disk'[k] # None => IsTombstone(Settled'[k])
    BY <2>2, <2>3, WipedAll
  <2>6. disk'[k] = None <=> disk[k] = None
    BY <1>3, <2>1
  <2>7. QED
    BY <2>4, <2>5, <2>6 DEF Same, IsTombstone
<1>7. QED
  BY <1>1, <1>2, <1>5, <1>6, IsRefused

LEMMA CommittedIsAtomic ==
  ASSUME RecordInv, RecordInv', Committed
  PROVE  Atomic!Next
<1>1. /\ op.at = "write" /\ op.todo = {} /\ cache' = op.tree /\ op'.at = "unlog"
      /\ UNCHANGED <<disk, journal, temp, wiping, clock>>
  BY DEF Committed, Goto, files, RecordInv, IInv, TypeOK, Operation
<1>2. wiping = FALSE /\ Pending' = Pending
  BY <1>1 DEF RecordInv, IInv, TypeOK, FilesMatchTheStage, Pending
<1>3. Requested = None /\ Requested' = None
  BY <1>1, RequestedIs
<1>4. ASSUME NEW k \in Keys
      PROVE  Same(Settled'[k], Settled[k])
  <2>1. /\ Pending # None
        /\ op.tree[k] = MergedRecord(Pending, Current[k], k)
        /\ Writes(Pending, Current[k], k) => disk[k] = op.tree[k]
    BY <1>1, AllWritten
  <2>2. Settled[k] = disk[k]
    BY <1>2, <2>1, SettledIs DEF Finished
  <2>3. cache' # None
        /\ (Writes(Pending, cache'[k], k) => Same(disk[k], MergedRecord(Pending, cache'[k], k)))
    BY <1>1, <1>2, <2>1 DEF RecordInv, WritesMatch
  <2>4. Current' = cache'
    BY <2>3 DEF Current
  <2>5. Settled'[k] = IF Writes(Pending, cache'[k], k)
                      THEN MergedRecord(Pending, cache'[k], k) ELSE disk[k]
    BY <1>1, <1>2, <2>1, <2>4, SettledIs DEF Finished
  <2>6. QED
    BY <2>2, <2>3, <2>5 DEF Same
<1>5. QED
  BY <1>3, <1>4, IsRefused

LEMMA ForgettingIsAtomic ==
  ASSUME RecordInv, RemoveJournal \/ RemoveTemp
  PROVE  Atomic!Next
<1>1. /\ op.at \in {"unlog", "unstage"}
      /\ UNCHANGED <<disk, wiping, cache, clock>>
      /\ wiping \in BOOLEAN
  BY DEF RemoveJournal, RemoveTemp, process, RecordInv, IInv, TypeOK
<1>2. Pending' \in {Pending, None}
  <2>1. CASE RemoveJournal
    BY <2>1 DEF RemoveJournal, Pending, RecordInv, OneJournal
  <2>2. CASE RemoveTemp
    BY <2>2, JournalAssumption
       DEF RemoveTemp, Pending, RecordInv, IInv, FilesMatchTheStage
  <2>3. QED
    BY <2>1, <2>2
<1>3. Requested = None /\ Requested' = None
  <2>1. op'.at \notin {"stage", "fill"}
    BY ResumeType DEF RemoveJournal, RemoveTemp, Goto, RecordInv, IInv, TypeOK, Operation
  <2>2. QED
    BY <1>1, <2>1, RequestedIs
<1>4. Current' = Current
  BY <1>1 DEF Current
<1>5. ASSUME NEW k \in Keys
      PROVE  Same(Settled'[k], Settled[k])
  <2>1. /\ Settled[k] = Finished(wiping, Pending, Current[k], disk[k], clock, k)
        /\ Settled'[k] = Finished(wiping, Pending', Current[k], disk[k], clock, k)
    BY <1>1, <1>4, SettledIs
  <2>2. CASE wiping \/ Pending' = Pending
    BY <2>1, <2>2, SameIsSame DEF Finished
  <2>3. CASE ~wiping /\ Pending' = None /\ Pending # None
    <3>1. /\ cache # None
          /\ Writes(Pending, cache[k], k) => Same(disk[k], MergedRecord(Pending, cache[k], k))
      BY <1>1, <2>3 DEF RecordInv, WritesMatch
    <3>2. Current = cache
      BY <3>1 DEF Current
    <3>3. Settled'[k] = disk[k]
      BY <2>1, <2>3 DEF Finished
    <3>4. QED
      BY <2>1, <2>3, <3>1, <3>2, <3>3, SameIsSame DEF Finished
  <2>4. QED
    BY <1>2, <2>2, <2>3
<1>6. QED
  BY <1>3, <1>5, IsRefused

LEMMA WipeOverIsAtomic ==
  ASSUME RecordInv, Buried \/ WipeOver
  PROVE  Atomic!Next
<1>1. /\ op.at \in {"bury", "unwipe"} /\ wiping = TRUE /\ journal = None /\ temp = None
      /\ UNCHANGED <<disk, journal, temp, clock>>
      /\ \A k \in Keys : ~IsLive(disk[k])
  BY DEF Buried, WipeOver, files, RecordInv, IInv, TypeOK, FilesMatchTheStage, OneJournal,
         WritesMatch
<1>2. Pending' = None
  BY <1>1, JournalAssumption DEF Pending
<1>3. Requested = None /\ Requested' = None
  <2>1. op'.at \notin {"stage", "fill"}
    <3>1. CASE Buried
      BY <3>1 DEF Buried, Goto, RecordInv, IInv, TypeOK, Operation
    <3>2. CASE WipeOver
      BY <3>2, NoOpType, ResumeType DEF WipeOver, Finish, RecordInv, IInv, TypeOK
    <3>3. QED
      BY <3>1, <3>2
  <2>2. QED
    BY <1>1, <2>1, RequestedIs
<1>4. ASSUME NEW k \in Keys
      PROVE  Same(Settled'[k], Settled[k])
  BY <1>1, <1>2, SettledIs, SameIsSame DEF Finished
<1>5. QED
  BY <1>3, <1>4, IsRefused

-------------------------------------------------------------------------------

LEMMA InitIsAtomic == Init => Atomic!Init
<1> SUFFICES ASSUME Init PROVE Atomic!Init
  OBVIOUS
<1>1. IInv
  BY InitIInv
<1>2. ~wiping /\ Pending = None /\ op.at = "down"
  BY NoOpType DEF Init, Pending
<1>3. Settled = disk /\ Requested = None
  BY <1>2 DEF Settled, Requested
<1>4. QED
  BY <1>1, <1>3, AtomicTypes DEF Atomic!Init, IInv, TypeOK

LEMMA NextIsAtomic == RecordInv /\ RecordInv' /\ [Next]_vars => Excepted \/ Atomic!Next
<1> SUFFICES ASSUME RecordInv, RecordInv', [Next]_vars PROVE Excepted \/ Atomic!Next
  OBVIOUS
<1>1. CASE \/ Start \/ (\E kind \in {"peek", "serve", "wipe"} : Call(kind))
           \/ (\E sender \in Pages, memory \in Memory :
                 \E sent \in SUBSET LiveKeys(memory) : CallSave(sender, memory, sent))
           \/ NothingPending \/ Quarantine \/ Look \/ StageJournal \/ Confirm
           \/ (\E k \in Keys, d \in Content : Edit(k, d)) \/ Fail
           \/ UNCHANGED vars
  BY <1>1, QuietSteps
<1>2. CASE RecoverSave \/ InstallJournal \/ RecoverWipe \/ AnnounceWipe
  BY <1>2, MergingIsAtomic, WipingIsAtomic
<1>3. CASE Serve \/ Prepare \/ FillJournal
  BY <1>3, ServeIsAtomic, PrepareIsAtomic, FillIsAtomic
<1>4. ASSUME NEW k \in Keys, WriteRecord(k)
      PROVE  Atomic!Next
  BY <1>4, WriteIsAtomic
<1>5. CASE Committed \/ RemoveJournal \/ RemoveTemp \/ Buried \/ WipeOver
  BY <1>5, CommittedIsAtomic, ForgettingIsAtomic, WipeOverIsAtomic
<1>6. CASE Crash
  BY <1>6, CrashIsAtomic
<1>7. CASE Next
  BY <1>1, <1>2, <1>3, <1>4, <1>5, <1>6, <1>7 DEF Next, Recover, Body, Finishing
<1>8. QED
  BY <1>1, <1>7

\* The journaled store implements the atomic one as long as its cache holds
\* what the files do, and up to what a clock set back may do to a record that
\* is buried in the cache once more than in its file: a save or a wipe happens
\* as a whole or not at all, and once, however often the process dies or an
\* operation fails (recover_pending_operations, bulk_save_from, wipe).
THEOREM SavesHappenWhole == Spec => SavesAreAtomic
<1>1. RecordInv /\ RecordInv' /\ [Next]_vars
        => [stale \/ (BuriedTwice /\ ~JobComesAfter) \/ Atomic!Next]_<<Settled, Requested>>
  BY NextIsAtomic DEF Excepted
<1>2. QED
  BY <1>1, InitIsAtomic, Records, PTL DEF Spec, SavesAreAtomic
===============================================================================
