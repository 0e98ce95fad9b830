---------------------------- MODULE StoreSyncProof ----------------------------
(***************************************************************************)
(* Proofs about StoreSync, for any number of keys, pages and payloads.     *)
(***************************************************************************)
EXTENDS StoreSync, RecordMergeProof, FiniteSetTheorems, SequenceTheorems

ServedPage == [page : Pages, base : Base]

LEMMA TypeOfRequests ==
  ASSUME NEW kind \in Kinds, NEW from \in Pages, NEW page \in Pages,
         NEW sent \in SUBSET Keys, NEW memory \in Memory
  PROVE  Request(kind, from, page, sent, memory) \in Message
BY StoreAssumption DEF Request, Message

LEMMA CurrentType ==
  ASSUME TypeOK
  PROVE  Current \in Tree
BY DEF TypeOK, Current

LEMMA SnapshotType ==
  ASSUME TypeOK
  PROVE  Snapshot \in Memory
BY DEF TypeOK, Snapshot, Memory, Tree, Record, Content, IsLive

\* What claim_base hands out is the base of the page that claims it, and the
\* pages still waiting were waiting before.
LEMMA ClaimProperties ==
  ASSUME TypeOK, NEW page \in Pages
  PROVE  LET c == Claim(page)
         IN  /\ c.granted \in BOOLEAN
             /\ c.owner \in Pages \cup {NoPage}
             /\ c.base \in Base
             /\ c.served \in Seq(ServedPage)
             /\ \/ c.owner = owner /\ c.base = base /\ c.served = served
                \/ c.owner = page /\ \E i \in DOMAIN served :
                     served[i].page = page /\ c.base = served[i].base
             /\ c.granted => \/ c.owner = page
                             \/ c.owner = NoPage /\ c.served = <<>>
             /\ \A j \in DOMAIN c.served : \E i \in DOMAIN served :
                  c.served[j] = served[i]
<1> DEFINE at == {i \in DOMAIN served : served[i].page = page}
           i == CHOOSE j \in at : TRUE
<1>1. served \in Seq(ServedPage) /\ DOMAIN served = 1..Len(served) /\ Len(served) \in Nat
  BY DEF TypeOK, ServedPage
<1>2. CASE owner = page
  BY <1>1, <1>2 DEF Claim, TypeOK
<1>3. CASE owner # page /\ at = {}
  BY <1>1, <1>3 DEF Claim, TypeOK
<1>4. CASE owner # page /\ at # {}
  <2>1. i \in DOMAIN served /\ served[i].page = page
    BY <1>4
  <2>2. served[i] \in ServedPage
    BY <1>1, <2>1
  <2> DEFINE rest == SubSeq(served, i + 1, Len(served))
  <2>3. Claim(page) = [granted |-> TRUE, owner |-> page, base |-> served[i].base,
                       served |-> rest]
    BY <1>4 DEF Claim
  <2>4. i + 1 \in Int /\ Len(served) \in Int
    BY <1>1, <2>1
  <2>5. \A j \in i + 1 .. Len(served) : served[j] \in ServedPage
    BY <1>1, <2>1
  <2> HIDE DEF i, at
  <2>6. /\ rest \in Seq(ServedPage)
        /\ Len(rest) = IF i + 1 <= Len(served) THEN Len(served) - i ELSE 0
        /\ \A j \in 1 .. Len(served) - i : rest[j] = served[i + j]
    <3>1. /\ rest \in Seq(ServedPage)
          /\ Len(rest) = IF i + 1 <= Len(served) THEN Len(served) - (i + 1) + 1 ELSE 0
          /\ \A j \in 1 .. Len(served) - (i + 1) + 1 : rest[j] = served[(i + 1) + j - 1]
      BY <2>4, <2>5, SubSeqProperties
    <3>2. i \in Int /\ Len(served) \in Int
      BY <1>1, <2>1
    <3>3. \A j \in Int : (i + 1) + j - 1 = i + j
      BY <3>2
    <3>4. Len(served) - (i + 1) + 1 = Len(served) - i
      BY <3>2
    <3> HIDE DEF rest
    <3>5. \A j \in 1 .. Len(served) - i : rest[j] = served[i + j]
      <4>1. TAKE j \in 1 .. Len(served) - i
      <4>2. j \in Int
        OBVIOUS
      <4>3. rest[j] = served[(i + 1) + j - 1]
        BY <3>1, <3>4
      <4>4. (i + 1) + j - 1 = i + j
        BY <3>3, <4>2
      <4>5. QED
        BY <4>3, <4>4
    <3>6. QED
      BY <3>1, <3>4, <3>5
  <2>7. \A j \in DOMAIN rest : \E l \in DOMAIN served : rest[j] = served[l]
    <3>1. TAKE j \in DOMAIN rest
    <3>2. j \in 1 .. Len(served) - i
      BY <1>1, <2>1, <2>6, <3>1
    <3>3. i + j \in DOMAIN served
      BY <1>1, <2>1, <3>2
    <3>4. QED
      BY <2>6, <3>2, <3>3
  <2>8. served[i].base \in Base
    BY <2>2 DEF ServedPage
  <2>9. QED
    BY <2>1, <2>3, <2>6, <2>7, <2>8
<1>5. QED
  BY <1>2, <1>3, <1>4

LEMMA IncomingType ==
  ASSUME TypeOK, NEW m \in Message, NEW known \in Base, NEW now \in Nat
  PROVE  /\ Incoming(m, known, now) \in [Keys -> Record \cup {None}]
         /\ \A k \in Keys : LET inc == Incoming(m, known, now)[k]
              IN  /\ inc # None => inc.data = m.mem[k] /\ inc.data # Gone
                  /\ inc = None => k \notin m.sent \/ m.mem[k] = Gone
<1> SUFFICES ASSUME NEW k \in Keys
             PROVE  LET inc == Incoming(m, known, now)[k]
                    IN  /\ inc \in Record \cup {None}
                        /\ inc # None => inc.data = m.mem[k] /\ inc.data # Gone
                        /\ inc = None => k \notin m.sent \/ m.mem[k] = Gone
  BY DEF Incoming
<1>1. CASE k \in m.sent /\ m.mem[k] # Gone
  <2>1. m.mem[k] \in Data
    BY <1>1 DEF Message, Memory, Content
  <2>2. Device \in Devices
    BY StoreAssumption
  <2>3. /\ LiveRecord(m.mem[k], Device, now) \in Record
        /\ LiveRecord(m.mem[k], Device, now).data = m.mem[k]
    BY <2>1, <2>2, LiveRecordType
  <2>4. known[k] \in Fingerprint \cup {None} /\ Current[k] \in Record \cup {None}
    BY CurrentType DEF Base, Tree
  <2> DEFINE r == PrepareLocal(LiveRecord(m.mem[k], Device, now),
                               known[k], Current[k], Device, now)
  <2>5. r \in Record /\ r.data = m.mem[k]
    BY <2>2, <2>3, <2>4, PrepareLocalType
  <2>6. Incoming(m, known, now)[k] = r
    BY <1>1 DEF Incoming
  <2>7. QED
    BY <1>1, <2>5, <2>6, NoneIsNoRecord
<1>2. CASE ~(k \in m.sent /\ m.mem[k] # Gone)
  BY <1>2 DEF Incoming
<1>3. QED
  BY <1>1, <1>2

LEMMA MergedType ==
  ASSUME TypeOK, NEW m \in Message, NEW known \in Base,
         NEW inc \in [Keys -> Record \cup {None}], NEW now \in Nat
  PROVE  Merged(m, known, inc, now) \in Tree
<1>1. SUFFICES ASSUME NEW k \in Keys
               PROVE  MergeRecord(known[k], inc[k], Current[k], k \in LiveKeys(m.mem), Device, now)
                        \in Record \cup {None}
  BY DEF Merged, Tree
<1>2. Device \in Devices
  BY StoreAssumption
<1>3. known[k] \in Fingerprint \cup {None} /\ Current[k] \in Record \cup {None}
  BY CurrentType DEF Base, Tree
<1>4. inc[k] \in Record \cup {None}
  OBVIOUS
<1>5. (k \in LiveKeys(m.mem)) \in BOOLEAN
  OBVIOUS
<1>6. QED
  BY <1>2, <1>3, <1>4, <1>5, MergeRecordType

LEMMA ServedElements ==
  ASSUME TypeOK, NEW i \in DOMAIN served
  PROVE  served[i].page \in Pages /\ served[i].base \in Base
<1>1. served \in Seq(ServedPage)
  BY DEF TypeOK, ServedPage
<1>2. served[i] \in ServedPage
  BY <1>1
<1>3. QED
  BY <1>2 DEF ServedPage

LEMMA ServedQueueType ==
  ASSUME TypeOK, NEW p \in Pages, NEW fp \in Base,
         NEW queue, queue = Append(served, [page |-> p, base |-> fp])
  PROVE  /\ queue \in Seq(ServedPage) /\ Tail(queue) \in Seq(ServedPage)
         /\ \A j \in DOMAIN queue :
              queue[j] = [page |-> p, base |-> fp]
              \/ \E i \in DOMAIN served : queue[j] = served[i]
         /\ \A j \in DOMAIN Tail(queue) : \E i \in DOMAIN queue : Tail(queue)[j] = queue[i]
<1> DEFINE new == [page |-> p, base |-> fp]
<1>1. new \in ServedPage /\ served \in Seq(ServedPage)
  BY DEF TypeOK, ServedPage
<1> HIDE DEF new
<1>2. /\ queue \in Seq(ServedPage) /\ queue # <<>>
      /\ Len(queue) = Len(served) + 1
      /\ \A i \in 1 .. Len(served) : queue[i] = served[i]
      /\ queue[Len(served) + 1] = new
  BY <1>1, AppendProperties DEF new
<1>3. /\ Tail(queue) \in Seq(ServedPage) /\ Len(Tail(queue)) = Len(queue) - 1
      /\ \A i \in 1 .. Len(Tail(queue)) : Tail(queue)[i] = queue[i + 1]
  BY <1>2, HeadTailProperties
<1>4. ASSUME NEW j \in DOMAIN queue
      PROVE  queue[j] = new \/ \E i \in DOMAIN served : queue[j] = served[i]
  BY <1>1, <1>2
<1>5. ASSUME NEW j \in DOMAIN Tail(queue)
      PROVE  \E i \in DOMAIN queue : Tail(queue)[j] = queue[i]
  BY <1>1, <1>2, <1>3
<1>6. QED
  BY <1>2, <1>3, <1>4, <1>5 DEF new

LEMMA AnswerType ==
  ASSUME TypeOK, NEW m \in net, Answer(m)
  PROVE  /\ net' \subseteq Message
         /\ dirty' \in [Pages -> SUBSET Keys]
         /\ unsaved' \in [Pages -> Progress]
         /\ pending' \in Message \cup {None}
<1>1. m \in Message /\ net \subseteq Message
  BY DEF TypeOK
<1>2. CASE m.kind = "save" /\ Succeed(m) /\ UNCHANGED pending
  <2>1. m.from \in Pages /\ mem[m.from] \in Memory /\ Keys \in SUBSET Keys /\ "save" \in Kinds
    BY <1>1 DEF TypeOK, Message, Kinds
  <2>2. Request("save", m.from, m.from, Keys, mem[m.from]) \in Message
    BY <2>1, TypeOfRequests
  <2>3. net' \subseteq Message
    BY <1>1, <1>2, <2>2 DEF Succeed
  <2>4. dirty' = [dirty EXCEPT ![m.from] = {}]
        /\ \E x \in Progress : unsaved' = [unsaved EXCEPT ![m.from] = x]
    <3>1. PICK rest \in {"no", "timer"} :
            unsaved' = [unsaved EXCEPT ![m.from] =
                          IF unsaved[m.from] = "yes" THEN "sent" ELSE rest]
      BY <1>2 DEF Succeed
    <3>2. CASE unsaved[m.from] = "yes"
      <4>1. unsaved' = [unsaved EXCEPT ![m.from] = "sent"]
        BY <3>1, <3>2
      <4>2. QED
        BY <1>2, <4>1 DEF Succeed, Progress
    <3>3. CASE unsaved[m.from] # "yes"
      <4>1. unsaved' = [unsaved EXCEPT ![m.from] = rest]
        BY <3>1, <3>3
      <4>2. QED
        BY <1>2, <4>1 DEF Succeed, Progress
    <3>4. QED
      BY <3>2, <3>3
  <2>5. QED
    BY <1>2, <2>1, <2>3, <2>4 DEF TypeOK
<1>3. CASE net' = (net \ {m}) \cup {[m EXCEPT !.tries = @ + 1]} /\ m.tries < Tries
           /\ UNCHANGED <<dirty, unsaved, pending>>
  <2>1. [m EXCEPT !.tries = @ + 1] \in Message
    BY <1>1, <1>3, StoreAssumption DEF Message
  <2>2. QED
    BY <1>1, <1>3, <2>1 DEF TypeOK
<1>4. CASE net' = net \ {m} /\ pending' \in {None, pending} /\ UNCHANGED <<dirty, unsaved>>
  BY <1>1, <1>4 DEF TypeOK
<1>5. QED
  BY <1>2, <1>3, <1>4, Zenon DEF Answer

\* Every variable keeps its type in every step.
LEMMA TypeStep ==
  ASSUME TypeOK, [Next]_vars
  PROVE  TypeOK'
<1> USE StoreAssumption DEF Progress
<1>0. net \subseteq Message /\ pending \in Message \cup {None} /\ Snapshot \in Memory
      /\ Device \in Devices
  BY SnapshotType DEF TypeOK
<1>1. ASSUME NEW p \in Pages, Serve(p)
      PROVE  TypeOK'
  <2>1. Fingerprints(disk) \in Base
    BY FingerprintOfType DEF Fingerprints, Base, TypeOK, Tree
  <2>2. served' \in Seq(ServedPage)
    BY <1>1, <2>1, ServedQueueType DEF Serve
  <2>3. Cardinality({q \in Pages : turn[q] > 0}) + 1 \in Nat
    BY FS_Subset, FS_CardinalityType
  <2>4. LiveKeys(Snapshot) \subseteq Keys
    BY DEF LiveKeys
  <2>5. QED
    BY <1>0, <1>1, <2>1, <2>2, <2>3, <2>4 DEF Serve, TypeOK, ServedPage
<1>2. ASSUME NEW p \in Pages, Boot(p)
      PROVE  TypeOK'
  <2>1. Replayed(p) \subseteq Message
    <3>1. ASSUME pending # None
          PROVE  [pending EXCEPT !.kind = "replay", !.from = p] \in Message
      BY <1>0, <3>1 DEF Message, Kinds
    <3>2. QED
      BY <3>1 DEF Replayed
  <2>2. net' \subseteq Message
    BY <1>0, <1>2, <2>1 DEF Boot
  <2>3. QED
    BY <1>2, <2>2 DEF Boot, TypeOK, store, history, ghosts
<1>3. ASSUME NEW p \in Pages, NEW k \in Keys, NEW d \in Content, Edit(p, k, d)
      PROVE  TypeOK'
  <2>1. mem' \in [Pages -> Memory]
    BY <1>3 DEF Edit, TypeOK, Memory
  <2>2. QED
    BY <1>3, <2>1 DEF Edit, UserActs, TypeOK, store
<1>4. ASSUME NEW p \in Pages, SendSave(p)
      PROVE  TypeOK'
  <2>1. \A sent \in {dirty[p], Keys} : Request("save", p, p, sent, mem[p]) \in Message
    BY <1>4, TypeOfRequests DEF TypeOK, Kinds
  <2>2. net' \subseteq Message
    BY <1>0, <1>4, <2>1 DEF SendSave
  <2>3. unsaved' \in [Pages -> Progress] /\ acts' \in Nat
    <3>1. \/ unsaved' = [unsaved EXCEPT ![p] = "sent"] /\ acts' = acts
          \/ unsaved' = unsaved /\ acts' = acts + 1
      BY <1>4, Zenon DEF SendSave, UserActs
    <3>2. unsaved \in [Pages -> Progress] /\ acts \in Nat
      BY DEF TypeOK
    <3>3. QED
      BY <3>1, <3>2
  <2>4. QED
    BY <1>4, <2>2, <2>3 DEF SendSave, TypeOK, store, ghosts
<1>5. ASSUME NEW p \in Pages, FetchSnapshot(p)
      PROVE  TypeOK'
  BY <1>0, <1>5 DEF FetchSnapshot, UserActs, TypeOK, store, ghosts
<1>6. ASSUME NEW p \in Pages, ApplySnapshot(p)
      PROVE  TypeOK'
  <2>1. fetched[p] \in Memory
    BY <1>6 DEF ApplySnapshot, TypeOK
  <2>2. Request("ack", p, p, Keys, fetched[p]) \in Message
    BY <2>1, TypeOfRequests DEF Kinds
  <2>3. LiveKeys(fetched[p]) \subseteq Keys
    BY DEF LiveKeys
  <2>4. QED
    BY <1>0, <1>6, <2>1, <2>2, <2>3 DEF ApplySnapshot, TypeOK, store
<1>7. ASSUME NEW p \in Pages, NEW k \in Keys, NEW d \in Data, UpsertText(p, k, d)
      PROVE  TypeOK'
  <2> DEFINE from == IF disk[k] = None THEN NoClock ELSE disk[k].causal
  <2>1. from \in Clock
    BY NoClockType DEF TypeOK, Tree, Record
  <2>2. clock \in Nat /\ clock + 1 \in Nat
    BY DEF TypeOK
  <2>3. BumpCausal(from, Device, clock + 1) \in Clock
    BY <2>1, <2>2, BumpCausalType
  <2>4. [data |-> d, at |-> clock + 1, by |-> Device,
         causal |-> BumpCausal(from, Device, clock + 1)] \in Record
    BY <2>2, <2>3 DEF Record, Content
  <2>5. disk' \in Tree
    BY <1>7, <2>4 DEF UpsertText, TypeOK, Tree
  <2>6. crossed' \in [Pages -> SUBSET Keys]
    BY <1>7 DEF UpsertText, CrossedBy, Written, TypeOK
  <2>7. QED
    BY <1>7, <2>2, <2>5, <2>6 DEF UpsertText, UserActs, TypeOK, browser
<1>8. ASSUME NEW p \in Pages, NEW k \in Keys, DeleteText(p, k)
      PROVE  TypeOK'
  <2>1. clock \in Nat /\ clock + 1 \in Nat
    BY DEF TypeOK
  <2>2. FingerprintOf(disk[k]) \in Fingerprint \cup {None}
    BY FingerprintOfType DEF TypeOK, Tree
  <2>3. TombstoneWithBase(FingerprintOf(disk[k]), Device, clock + 1) \in Record
    BY <2>1, <2>2, TombstoneType
  <2>4. disk' \in Tree
    BY <1>8, <2>3 DEF DeleteText, TypeOK, Tree
  <2>5. crossed' \in [Pages -> SUBSET Keys]
    BY <1>8 DEF DeleteText, CrossedBy, Written, TypeOK
  <2>6. QED
    BY <1>8, <2>1, <2>4, <2>5 DEF DeleteText, UserActs, TypeOK, browser
<1>9. ASSUME NEW p \in Pages
      PROVE  LastSave(p) \in Message /\ Flushed(p) \subseteq Message
  BY TypeOfRequests DEF LastSave, Flushed, TypeOK, Kinds
<1>10. ASSUME NEW p \in Pages, Hide(p)
       PROVE  TypeOK'
  BY <1>0, <1>9, <1>10 DEF Hide, UserActs, TypeOK, store, browser, ghosts
<1>11. ASSUME NEW p \in Pages, Exit(p)
       PROVE  TypeOK'
  <2>1. EmptyMemory \in Memory
    BY DEF EmptyMemory, Memory, Content
  <2>2. QED
    BY <1>0, <1>9, <1>11, <2>1 DEF Exit, TypeOK, store
<1>13. ASSUME NEW m \in net, HandleSave(m)
       PROVE  TypeOK'
  <2> DEFINE now == clock + 1
             c == Claim(m.page)
             inc == Incoming(m, c.base, now)
             merged == Merged(m, c.base, inc, now)
  <2>1. m \in Message /\ m.page \in Pages /\ now \in Nat
    BY <1>0 DEF Message, TypeOK
  <2>2. /\ c.owner \in Pages \cup {NoPage} /\ c.base \in Base
        /\ c.served \in Seq(ServedPage)
    BY <2>1, ClaimProperties
  <2>3. inc \in [Keys -> Record \cup {None}]
    BY <2>1, <2>2, IncomingType
  <2>4. merged \in Tree
    BY <2>1, <2>2, <2>3, MergedType
  <2> HIDE DEF c, inc, merged
  <2>5. disk' \in Tree
    <3>1. disk' = [k \in Keys |->
                     IF merged[k] # None /\ RecordChangedSinceBase(merged[k], c.base[k])
                     THEN merged[k] ELSE disk[k]]
      BY <1>13 DEF HandleSave, c, inc, merged
    <3>2. QED
      BY <2>4, <3>1 DEF TypeOK, Tree
  <2>6. base' \in Base
    <3>1. base' = IF c.granted
                  THEN [k \in Keys |-> AcknowledgedBase(c.base[k], inc[k], merged[k])]
                  ELSE c.base
      BY <1>13 DEF HandleSave, c, inc, merged
    <3>2. \A k \in Keys : AcknowledgedBase(c.base[k], inc[k], merged[k]) \in Fingerprint \cup {None}
      BY <2>2, <2>3, <2>4, AcknowledgedBaseType DEF Base, Tree
    <3>3. QED
      BY <2>2, <3>1, <3>2 DEF Base
  <2>7. cache' \in Tree \cup {None} /\ owner' \in Pages \cup {NoPage}
        /\ served' \in Seq(ServedPage) /\ clock' \in Nat
    BY <1>13, <2>1, <2>2, <2>4 DEF HandleSave, c, inc, merged
  <2>8. /\ net' \subseteq Message /\ dirty' \in [Pages -> SUBSET Keys]
        /\ unsaved' \in [Pages -> Progress] /\ pending' \in Message \cup {None}
    BY <1>13, AnswerType DEF HandleSave
  <2>9. crossed' \in [Pages -> SUBSET Keys] /\ buried' \subseteq Keys
    BY <1>13 DEF HandleSave, CrossedBy, Written, NewTombstones, TypeOK
  <2>10. QED
    BY <1>13, <2>5, <2>6, <2>7, <2>8, <2>9 DEF HandleSave, TypeOK, ServedPage
<1>14. ASSUME NEW m \in net, HandleAck(m)
       PROVE  TypeOK'
  <2> DEFINE c == Claim(m.page)
             inc == [k \in Keys |-> IF m.mem[k] # Gone
                                    THEN LiveRecord(m.mem[k], Device, clock) ELSE None]
  <2>1. m \in Message /\ m.page \in Pages /\ clock \in Nat
    BY <1>0 DEF Message, TypeOK
  <2>2. /\ c.owner \in Pages \cup {NoPage} /\ c.base \in Base
        /\ c.served \in Seq(ServedPage)
    BY <2>1, ClaimProperties
  <2>3. \A k \in Keys : m.mem[k] # Gone => m.mem[k] \in Data
    BY <2>1 DEF Message, Memory, Content
  <2>4. inc \in [Keys -> Record \cup {None}]
    BY <1>0, <2>1, <2>3, LiveRecordType
  <2>5. Current \in Tree
    BY CurrentType
  <2> HIDE DEF c, inc
  <2>6. base' \in Base
    <3>1. base' = IF c.granted
                  THEN [k \in Keys |-> AcknowledgedBase(c.base[k], inc[k], Current[k])]
                  ELSE c.base
      BY <1>14 DEF HandleAck, c, inc
    <3>2. \A k \in Keys : AcknowledgedBase(c.base[k], inc[k], Current[k]) \in Fingerprint \cup {None}
      BY <2>2, <2>4, <2>5, AcknowledgedBaseType DEF Base, Tree
    <3>3. QED
      BY <2>2, <3>1, <3>2 DEF Base
  <2>7. cache' \in Tree \cup {None} /\ owner' \in Pages \cup {NoPage} /\ served' \in Seq(ServedPage)
    BY <1>14, <2>2, <2>5 DEF HandleAck, TypeOK, c
  <2>8. QED
    BY <1>14, <2>6, <2>7 DEF HandleAck, TypeOK, ServedPage, browser, history, ghosts
<1>15. ASSUME NEW m \in net, Lose(m)
       PROVE  TypeOK'
  <2>1. m.from \in Pages
    BY <1>0 DEF Message
  <2>2. unsaved' \in [Pages -> Progress] /\ gaveUp' \subseteq Pages
    <3>1. \/ unsaved' = [unsaved EXCEPT ![m.from] = IF @ = "sent" THEN "yes" ELSE @]
          \/ unsaved' = unsaved
      BY <1>15 DEF Lose
    <3>2. gaveUp' \in {gaveUp, gaveUp \cup {m.from}}
      BY <1>15 DEF Lose
    <3>3. unsaved \in [Pages -> Progress] /\ gaveUp \subseteq Pages
      BY DEF TypeOK
    <3>4. QED
      BY <2>1, <3>1, <3>2, <3>3
  <2>3. QED
    BY <1>15, <2>2 DEF Lose, TypeOK, store
<1>16. ASSUME Restart
       PROVE  TypeOK'
  <2>1. EmptyMemory \in Memory /\ EmptyBase \in Base
    BY DEF EmptyMemory, Memory, Content, EmptyBase, Base
  <2>2. QED
    BY <1>16, <2>1 DEF Restart, TypeOK
<1>17. CASE UNCHANGED vars
  BY <1>17 DEF TypeOK, vars, store, browser, history, ghosts
<1>18. QED
  BY <1>1, <1>2, <1>3, <1>4, <1>5, <1>6, <1>7, <1>8, <1>10, <1>11, <1>13,
     <1>14, <1>15, <1>16, <1>17 DEF Next, PageStep, RequestStep

-------------------------------------------------------------------------------
(* The inductive invariant.                                                *)

LEMMA InitIInv ==
  ASSUME Init
  PROVE  IInv
<1> USE StoreAssumption DEF Init
<1>1. /\ \A d \in Data : LiveRecord(d, Device, 1) \in Record
      /\ TombstoneWithBase(None, Device, 1) \in Record
  BY LiveRecordType, TombstoneType
<1>2. disk \in Tree
  BY <1>1 DEF Tree
<1>3. EmptyMemory \in Memory /\ EmptyBase \in Base
  BY DEF EmptyMemory, Memory, Content, EmptyBase, Base
<1>4. TypeOK
  BY <1>2, <1>3 DEF TypeOK, Progress
<1>5. OwnerKnowsItsBase /\ CacheAgreesWithDisk
  BY DEF OwnerKnowsItsBase, CacheAgreesWithDisk
<1>6. PagesSendWhatTheyHold
  BY DEF PagesSendWhatTheyHold, LiveKeys, EmptyMemory
<1>7. NoPageNoRequest
  BY DEF NoPageNoRequest
<1>8. TombstonesAreBuried
  BY DEF TombstonesAreBuried, EmptyBase
<1>9. QED
  BY <1>4, <1>5, <1>6, <1>7, <1>8 DEF IInv

\* Steps of the pages alone: the store stays, what a page is given is held
\* from then on, and what it sends it holds.
LEMMA PageSide ==
  ASSUME IInv, TypeOK', UNCHANGED store, UNCHANGED buried,
         \A p \in Pages : held[p] \subseteq held'[p],
         \A p \in Pages : phase[p] # "unborn" => phase'[p] # "unborn",
         \A p \in Pages : phase'[p] \in {"served", "live"} => phase[p] \in {"served", "live"},
         net' # {} => net # {} \/ \E p \in Pages : phase[p] \in {"served", "live"},
         \A p \in Pages : LiveKeys(mem'[p]) \subseteq held'[p],
         \A m \in net' \cup ({pending'} \ {None}) :
            \/ m \in net \cup ({pending} \ {None})
            \/ LiveKeys(m.mem) \subseteq held'[m.page] /\ phase'[m.page] # "unborn"
  PROVE  IInv'
<1>1. TypeOK /\ owner \in Pages \cup {NoPage}
      /\ \A i \in DOMAIN served : served[i].page \in Pages
  BY ServedElements DEF IInv, TypeOK
<1>2. \A m \in net \cup ({pending} \ {None}) : m.page \in Pages
  BY DEF IInv, TypeOK, Message
<1>3. OwnerKnowsItsBase'
  BY <1>1 DEF IInv, OwnerKnowsItsBase, store
<1>4. CacheAgreesWithDisk'
  BY DEF IInv, CacheAgreesWithDisk, store
<1>5. PagesSendWhatTheyHold'
  <2>1. (owner # NoPage => phase[owner] # "unborn")'
    BY <1>1 DEF IInv, PagesSendWhatTheyHold, store
  <2>2. (\A i \in DOMAIN served : phase[served[i].page] # "unborn")'
    BY <1>1 DEF IInv, PagesSendWhatTheyHold, store
  <2>3. ASSUME NEW m \in net' \cup ({pending'} \ {None})
        PROVE  LiveKeys(m.mem) \subseteq held'[m.page] /\ phase'[m.page] # "unborn"
    BY <1>2 DEF IInv, PagesSendWhatTheyHold
  <2>4. QED
    BY <2>1, <2>2, <2>3 DEF PagesSendWhatTheyHold, LiveKeys
<1>6. NoPageNoRequest'
  <2>1. SUFFICES ASSUME owner' = NoPage, served' = <<>>
                 PROVE  (/\ net = {} /\ base = EmptyBase
                         /\ \A p \in Pages : phase[p] \in {"unborn", "gone"})'
    BY DEF NoPageNoRequest
  <2>2. net = {} /\ base = EmptyBase /\ \A p \in Pages : phase[p] \in {"unborn", "gone"}
    BY <2>1 DEF IInv, NoPageNoRequest, store
  <2>3. \A p \in Pages : phase'[p] \in {"unborn", "gone"}
    BY <2>2 DEF TypeOK
  <2>4. QED
    BY <2>2, <2>3 DEF store, EmptyBase
<1>7. TombstonesAreBuried'
  BY DEF IInv, TombstonesAreBuried, store
<1>8. QED
  BY <1>3, <1>4, <1>5, <1>6, <1>7 DEF IInv

LEMMA PageStepKeepsIInv ==
  ASSUME IInv, TypeOK', NEW p \in Pages,
         \/ Boot(p)
         \/ \E k \in Keys, d \in Content : Edit(p, k, d)
         \/ SendSave(p) \/ FetchSnapshot(p) \/ ApplySnapshot(p)
         \/ Hide(p) \/ Exit(p)
  PROVE  IInv'
<1>1. /\ TypeOK /\ PagesSendWhatTheyHold
      /\ \A q \in Pages : mem[q] \in Memory /\ held[q] \subseteq Keys /\ LiveKeys(mem[q]) \subseteq held[q]
      /\ \A m \in net \cup ({pending} \ {None}) : m \in Message
  BY DEF IInv, TypeOK, PagesSendWhatTheyHold
<1>2. CASE Boot(p)
  <2>1. /\ UNCHANGED store /\ UNCHANGED <<buried, held, mem, pending>>
        /\ phase' = [phase EXCEPT ![p] = "live"] /\ phase[p] = "served"
        /\ net' = net \cup Replayed(p)
    BY <1>2 DEF Boot, store, history, ghosts
  <2>2. \A q \in Pages : /\ phase[q] # "unborn" => phase'[q] # "unborn"
                         /\ phase'[q] \in {"served", "live"} => phase[q] \in {"served", "live"}
    BY <1>1, <2>1 DEF TypeOK
  <2>3. ASSUME NEW r \in Replayed(p)
        PROVE  LiveKeys(r.mem) \subseteq held'[r.page] /\ phase'[r.page] # "unborn"
    <3>1. pending # None /\ pending \in Message /\ r = [pending EXCEPT !.kind = "replay", !.from = p]
      BY <1>1, <2>3 DEF Replayed
    <3>2. r.page = pending.page /\ r.mem = pending.mem /\ pending.page \in Pages
      BY <3>1 DEF Message
    <3>3. LiveKeys(pending.mem) \subseteq held[pending.page] /\ phase[pending.page] # "unborn"
      BY <1>1, <3>1 DEF PagesSendWhatTheyHold
    <3>4. QED
      BY <2>1, <2>2, <3>2, <3>3
  <2>4. \A m \in net' \cup ({pending'} \ {None}) :
           m \in net \cup ({pending} \ {None}) \/ m \in Replayed(p)
    BY <2>1
  <2>5. \A q \in Pages : LiveKeys(mem'[q]) \subseteq held'[q]
    BY <1>1, <2>1 DEF LiveKeys
  <2>6. net' # {} => net # {} \/ \E q \in Pages : phase[q] \in {"served", "live"}
    BY <2>1
  <2>7. QED
    BY <2>1, <2>2, <2>3, <2>4, <2>5, <2>6, PageSide
<1>3. ASSUME NEW k \in Keys, NEW d \in Content, Edit(p, k, d)
      PROVE  IInv'
  <2>1. /\ UNCHANGED store /\ UNCHANGED <<buried, phase, net, pending>>
        /\ held' = [held EXCEPT ![p] = @ \cup {k}]
        /\ mem' = [mem EXCEPT ![p][k] = d]
    BY <1>3 DEF Edit, store
  <2>2. \A q \in Pages : held[q] \subseteq held'[q] /\ LiveKeys(mem'[q]) \subseteq held'[q]
    BY <1>1, <2>1 DEF TypeOK, LiveKeys, Memory
  <2>3. QED
    BY <2>1, <2>2, PageSide
<1>4. ASSUME UNCHANGED store, UNCHANGED <<buried, held, phase, mem>>, phase[p] = "live",
             \A m \in net' \cup ({pending'} \ {None}) :
               m \in net \cup ({pending} \ {None}) \/ (m.page = p /\ m.mem = mem[p])
      PROVE  IInv'
  <2>1. \A q \in Pages : LiveKeys(mem'[q]) \subseteq held'[q]
    BY <1>1, <1>4 DEF LiveKeys
  <2>2. QED
    BY <1>1, <1>4, <2>1, PageSide
<1>5. CASE SendSave(p)
  <2>1. /\ UNCHANGED store /\ UNCHANGED <<buried, held, phase, mem, pending>> /\ phase[p] = "live"
        /\ \E sent \in {dirty[p], Keys} :
             net' = net \cup {Request("save", p, p, sent, mem[p])}
    BY <1>5 DEF SendSave, store, ghosts
  <2>2. QED
    BY <1>4, <2>1 DEF Request
<1>6. CASE FetchSnapshot(p)
  BY <1>4, <1>6 DEF FetchSnapshot, store, ghosts
<1>7. CASE ApplySnapshot(p)
  <2>1. /\ UNCHANGED store /\ UNCHANGED <<buried, phase, pending>> /\ phase[p] = "live"
        /\ fetched[p] \in Memory
        /\ held' = [held EXCEPT ![p] = @ \cup LiveKeys(fetched[p])]
        /\ mem' = [mem EXCEPT ![p] = fetched[p]]
        /\ net' = net \cup {Request("ack", p, p, Keys, fetched[p])}
    BY <1>1, <1>7 DEF ApplySnapshot, store, TypeOK
  <2>2. \A q \in Pages : held[q] \subseteq held'[q] /\ LiveKeys(mem'[q]) \subseteq held'[q]
    BY <1>1, <2>1 DEF TypeOK, LiveKeys
  <2>3. LiveKeys(fetched[p]) \subseteq held'[p]
    BY <2>1 DEF LiveKeys, TypeOK
  <2>4. \A m \in net' \cup ({pending'} \ {None}) :
           \/ m \in net \cup ({pending} \ {None})
           \/ LiveKeys(m.mem) \subseteq held'[m.page] /\ phase'[m.page] # "unborn"
    BY <2>1, <2>3 DEF Request
  <2>5. QED
    BY <2>1, <2>2, <2>4, PageSide
<1>8. /\ LastSave(p).page = p /\ LastSave(p).mem = mem[p]
      /\ \A m \in Flushed(p) : m.page = p /\ m.mem = mem[p]
  BY DEF LastSave, Flushed, Request
<1>9. CASE Hide(p)
  BY <1>4, <1>8, <1>9 DEF Hide, store, browser, ghosts
<1>10. CASE Exit(p)
  <2>1. /\ UNCHANGED store /\ UNCHANGED <<buried, held>> /\ phase[p] = "live"
        /\ phase' = [phase EXCEPT ![p] = "gone"]
        /\ mem' = [mem EXCEPT ![p] = EmptyMemory]
        /\ net' = net \cup Flushed(p)
        /\ pending' \in {pending, LastSave(p)}
    BY <1>10 DEF Exit, store
  <2>2. \A q \in Pages : LiveKeys(mem'[q]) \subseteq held'[q]
    BY <1>1, <2>1 DEF TypeOK, LiveKeys, EmptyMemory
  <2>3. \A q \in Pages : /\ phase[q] # "unborn" => phase'[q] # "unborn"
                         /\ phase'[q] \in {"served", "live"} => phase[q] \in {"served", "live"}
    BY <1>1, <2>1 DEF TypeOK
  <2>4. \A m \in net' \cup ({pending'} \ {None}) :
           m \in net \cup ({pending} \ {None}) \/ (m.page = p /\ m.mem = mem[p])
    BY <1>8, <2>1
  <2>5. LiveKeys(mem[p]) \subseteq held'[p] /\ phase'[p] # "unborn"
    BY <1>1, <2>1 DEF TypeOK
  <2>6. QED
    BY <2>1, <2>2, <2>3, <2>4, <2>5, PageSide
<1>11. QED
  BY <1>2, <1>3, <1>5, <1>6, <1>7, <1>9, <1>10

LEMMA LoseKeepsIInv ==
  ASSUME IInv, TypeOK', NEW m \in net, Lose(m)
  PROVE  IInv'
<1>1. /\ UNCHANGED store /\ UNCHANGED <<buried, held, phase, mem, pending>>
      /\ net' = net \ {m}
  BY DEF Lose, history, ghosts
<1>2. \A p \in Pages : LiveKeys(mem'[p]) \subseteq held'[p]
  BY <1>1 DEF IInv, PagesSendWhatTheyHold, LiveKeys
<1>3. QED
  BY <1>1, <1>2, PageSide

LEMMA RestartKeepsIInv ==
  ASSUME IInv, TypeOK', Restart
  PROVE  IInv'
<1>1. /\ UNCHANGED <<disk, pending, held, buried>>
      /\ cache' = None /\ base' = EmptyBase /\ owner' = NoPage /\ served' = <<>> /\ net' = {}
      /\ phase' = [p \in Pages |-> IF phase[p] = "unborn" THEN "unborn" ELSE "gone"]
      /\ mem' = [p \in Pages |-> EmptyMemory]
  BY DEF Restart
<1>2. OwnerKnowsItsBase' /\ CacheAgreesWithDisk' /\ NoPageNoRequest'
  BY <1>1 DEF OwnerKnowsItsBase, CacheAgreesWithDisk, NoPageNoRequest, EmptyBase
<1>3. TombstonesAreBuried'
  BY <1>1 DEF IInv, TombstonesAreBuried, EmptyBase
<1>4. PagesSendWhatTheyHold'
  <2>1. \A p \in Pages : LiveKeys(mem'[p]) = {}
    BY <1>1 DEF LiveKeys, EmptyMemory
  <2>2. ASSUME NEW m \in net' \cup ({pending'} \ {None})
        PROVE  LiveKeys(m.mem) \subseteq held'[m.page] /\ phase'[m.page] # "unborn"
    <3>1. m \in {pending} \ {None} /\ m.page \in Pages
      BY <1>1 DEF IInv, TypeOK, Message
    <3>2. QED
      BY <1>1, <3>1 DEF IInv, PagesSendWhatTheyHold
  <2>3. QED
    BY <1>1, <2>1, <2>2 DEF PagesSendWhatTheyHold, LiveKeys
<1>5. QED
  BY <1>2, <1>3, <1>4 DEF IInv

\* The backend's own writes: the base stays, the cache is dropped.
LEMMA TextWriteKeepsIInv ==
  ASSUME IInv, TypeOK', NEW p \in Pages, NEW k \in Keys,
         (\E d \in Data : UpsertText(p, k, d)) \/ DeleteText(p, k)
  PROVE  IInv'
<1>1. /\ UNCHANGED <<base, owner, served, phase, mem, pending, net, held>>
      /\ cache' = None /\ buried \subseteq buried'
      /\ \A j \in Keys : disk'[j] = disk[j] \/ ~IsTombstone(disk'[j]) \/ j \in buried'
  <2>1. ASSUME NEW d \in Data, UpsertText(p, k, d)
        PROVE  /\ UNCHANGED <<base, owner, served, phase, mem, pending, net, held>>
               /\ cache' = None /\ buried \subseteq buried'
               /\ \A j \in Keys : disk'[j] = disk[j] \/ ~IsTombstone(disk'[j])
    <3>1. d # Gone
      BY DataAssumption
    <3>2. disk'[k].data = d /\ \A j \in Keys \ {k} : disk'[j] = disk[j]
      BY <2>1 DEF UpsertText, IInv, TypeOK, Tree
    <3>3. ~IsTombstone(disk'[k])
      BY <3>1, <3>2 DEF IsTombstone
    <3>4. QED
      BY <2>1, <3>2, <3>3 DEF UpsertText, browser
  <2>2. CASE DeleteText(p, k)
    <3>1. \A j \in Keys \ {k} : disk'[j] = disk[j]
      BY <2>2 DEF DeleteText, IInv, TypeOK, Tree
    <3>2. k \in buried'
      BY <2>2 DEF DeleteText
    <3>3. QED
      BY <2>2, <3>1, <3>2 DEF DeleteText, browser
  <2>3. QED
    BY <2>1, <2>2
<1>2. OwnerKnowsItsBase' /\ CacheAgreesWithDisk' /\ NoPageNoRequest'
  BY <1>1 DEF IInv, OwnerKnowsItsBase, CacheAgreesWithDisk, NoPageNoRequest, EmptyBase
<1>3. TombstonesAreBuried'
  BY <1>1 DEF IInv, TombstonesAreBuried
<1>4. PagesSendWhatTheyHold'
  BY <1>1 DEF IInv, PagesSendWhatTheyHold, LiveKeys
<1>5. QED
  BY <1>2, <1>3, <1>4 DEF IInv

LEMMA ServeKeepsIInv ==
  ASSUME IInv, TypeOK', NEW p \in Pages, Serve(p)
  PROVE  IInv'
<1> DEFINE fp == Fingerprints(disk)
           queue == Append(served, [page |-> p, base |-> fp])
<1>1. /\ TypeOK /\ phase[p] = "unborn"
      /\ UNCHANGED <<disk, owner, pending, net, buried>> /\ cache' = disk
      /\ base' = IF owner = NoPage THEN fp ELSE base
      /\ served' = IF Len(queue) > ServedKept THEN Tail(queue) ELSE queue
      /\ phase' = [phase EXCEPT ![p] = "served"]
      /\ mem' = [mem EXCEPT ![p] = Snapshot]
      /\ held' = [held EXCEPT ![p] = LiveKeys(Snapshot)]
  BY DEF Serve, IInv
<1>2. /\ \A q \in Pages \ {p} : phase'[q] = phase[q] /\ held'[q] = held[q] /\ mem'[q] = mem[q]
      /\ phase'[p] = "served" /\ held'[p] = LiveKeys(Snapshot) /\ mem'[p] = Snapshot
  BY <1>1 DEF TypeOK
<1>3. fp \in Base
  BY <1>1, FingerprintOfType DEF Fingerprints, Base, TypeOK, Tree
<1>4. \A k \in Keys : /\ fp[k] # None /\ fp[k].hash # Gone => k \in held'[p]
                      /\ fp[k] # None /\ fp[k].hash = Gone => IsTombstone(disk[k])
  BY <1>1, <1>2 DEF Fingerprints, FingerprintOf, LiveKeys, Snapshot, IsLive, IsTombstone
<1>5. \A j \in DOMAIN served' :
        \/ served'[j] = [page |-> p, base |-> fp]
        \/ \E i \in DOMAIN served : served'[j] = served[i]
  <2>1. /\ \A j \in DOMAIN queue :
             queue[j] = [page |-> p, base |-> fp]
             \/ \E i \in DOMAIN served : queue[j] = served[i]
        /\ \A j \in DOMAIN Tail(queue) : \E i \in DOMAIN queue : Tail(queue)[j] = queue[i]
    <3>1. queue = Append(served, [page |-> p, base |-> fp])
      OBVIOUS
    <3> HIDE DEF queue, fp
    <3>2. QED
      BY <1>1, <1>3, <3>1, ServedQueueType
  <2> HIDE DEF queue, fp
  <2>2. CASE served' = queue
    BY <2>1, <2>2
  <2>3. CASE served' = Tail(queue)
    BY <2>1, <2>3
  <2>4. QED
    BY <1>1, <2>2, <2>3
<1>6. served' # <<>>
  <2>1. served \in Seq(ServedPage) /\ [page |-> p, base |-> fp] \in ServedPage
    BY <1>1, <1>3 DEF TypeOK, ServedPage
  <2> HIDE DEF fp
  <2>2. queue \in Seq(ServedPage) /\ queue # <<>>
    BY <2>1, AppendProperties
  <2> HIDE DEF queue
  <2>3. Len(queue) > ServedKept => Tail(queue) # <<>>
    <3>1. Len(Tail(queue)) = Len(queue) - 1 /\ Len(queue) \in Nat
      BY <2>2, HeadTailProperties
    <3>2. ServedKept \in Nat /\ ServedKept >= 1
      BY StoreAssumption
    <3>3. Len(queue) > ServedKept => Len(Tail(queue)) # 0
      BY <3>1, <3>2
    <3>4. QED
      BY <3>3
  <2>4. served' \in {queue, Tail(queue)} /\ (served' # queue => Len(queue) > ServedKept)
    BY <1>1
  <2>5. QED
    BY <2>2, <2>3, <2>4
<1> HIDE DEF fp, queue
<1>7. owner # p /\ \A i \in DOMAIN served : served[i].page \in Pages \ {p}
  BY <1>1, ServedElements, StoreAssumption DEF IInv, PagesSendWhatTheyHold
<1>8. OwnerKnowsItsBase'
  <2>1. ASSUME owner' # NoPage, NEW k \in Keys, base'[k] # None, base'[k].hash # Gone
        PROVE  k \in held'[owner']
    BY <1>1, <1>2, <1>7, <2>1 DEF IInv, OwnerKnowsItsBase, TypeOK
  <2>2. ASSUME NEW j \in DOMAIN served', NEW k \in Keys,
               served'[j].base[k] # None, served'[j].base[k].hash # Gone
        PROVE  k \in held'[served'[j].page]
    <3>1. CASE served'[j] = [page |-> p, base |-> fp]
      BY <1>4, <2>2, <3>1
    <3>2. ASSUME NEW i \in DOMAIN served, served'[j] = served[i]
          PROVE  k \in held'[served'[j].page]
      BY <1>2, <1>7, <2>2, <3>2 DEF IInv, OwnerKnowsItsBase
    <3>3. QED
      BY <1>5, <3>1, <3>2
  <2>3. QED
    BY <2>1, <2>2 DEF OwnerKnowsItsBase
<1>9. CacheAgreesWithDisk' /\ NoPageNoRequest'
  BY <1>1, <1>6 DEF CacheAgreesWithDisk, NoPageNoRequest
<1>10. TombstonesAreBuried'
  <2>1. ASSUME NEW k \in Keys \ buried
        PROVE  /\ ~IsTombstone(disk[k]) /\ (fp[k] # None => fp[k].hash # Gone)
               /\ base'[k] # None => base'[k].hash # Gone
               /\ \A j \in DOMAIN served' :
                    served'[j].base[k] # None => served'[j].base[k].hash # Gone
    <3>1. ~IsTombstone(disk[k]) /\ (fp[k] # None => fp[k].hash # Gone)
      BY <1>4, <2>1 DEF IInv, TombstonesAreBuried
    <3>2. base'[k] # None => base'[k].hash # Gone
      BY <1>1, <2>1, <3>1 DEF IInv, TombstonesAreBuried
    <3>3. ASSUME NEW j \in DOMAIN served', served'[j].base[k] # None
          PROVE  served'[j].base[k].hash # Gone
      <4>1. CASE served'[j] = [page |-> p, base |-> fp]
        BY <3>1, <3>3, <4>1
      <4>2. ASSUME NEW i \in DOMAIN served, served'[j] = served[i]
            PROVE  served'[j].base[k].hash # Gone
        BY <2>1, <3>3, <4>2 DEF IInv, TombstonesAreBuried
      <4>3. QED
        BY <1>5, <4>1, <4>2
    <3>4. QED
      BY <3>1, <3>2, <3>3
  <2>2. QED
    BY <1>1, <2>1 DEF TombstonesAreBuried
<1>11. PagesSendWhatTheyHold'
  <2>1. \A q \in Pages : LiveKeys(mem'[q]) \subseteq held'[q]
    BY <1>2 DEF IInv, PagesSendWhatTheyHold, LiveKeys
  <2>2. ASSUME NEW m \in net' \cup ({pending'} \ {None})
        PROVE  LiveKeys(m.mem) \subseteq held'[m.page] /\ phase'[m.page] # "unborn"
    <3>1. m \in net \cup ({pending} \ {None}) /\ m.page \in Pages
      BY <1>1, <2>2 DEF TypeOK, Message
    <3>2. QED
      BY <1>1, <1>2, <3>1 DEF IInv, PagesSendWhatTheyHold
  <2>3. (owner # NoPage => phase[owner] # "unborn")'
    BY <1>1, <1>2, <1>7 DEF IInv, PagesSendWhatTheyHold, TypeOK
  <2>4. \A j \in DOMAIN served' : phase'[served'[j].page] # "unborn"
    BY <1>2, <1>5, <1>7 DEF IInv, PagesSendWhatTheyHold
  <2>5. QED
    BY <2>1, <2>2, <2>3, <2>4 DEF PagesSendWhatTheyHold, LiveKeys
<1>12. QED
  BY <1>8, <1>9, <1>10, <1>11 DEF IInv

-------------------------------------------------------------------------------
(* The two handlers that claim the base.                                   *)

\* Whatever base a request claims is known to the page it then belongs to,
\* and a claim is granted to nobody but the page the request speaks for.
LEMMA ClaimedBaseIsKnown ==
  ASSUME IInv, NEW m \in net
  PROVE  LET c == Claim(m.page)
         IN  /\ c.granted => c.owner = m.page
             /\ c.owner = NoPage => c.served # <<>>
             /\ c.owner # NoPage =>
                  /\ phase[c.owner] # "unborn"
                  /\ \A k \in Keys : c.base[k] # None /\ c.base[k].hash # Gone => k \in held[c.owner]
             /\ \A k \in Keys \ buried : c.base[k] # None => c.base[k].hash # Gone
             /\ \A j \in DOMAIN c.served : \E i \in DOMAIN served : c.served[j] = served[i]
<1> DEFINE c == Claim(m.page)
<1>1. /\ TypeOK /\ OwnerKnowsItsBase /\ PagesSendWhatTheyHold /\ NoPageNoRequest
      /\ TombstonesAreBuried /\ m \in Message /\ m.page \in Pages
  BY DEF IInv, TypeOK, Message
<1>2. /\ \/ c.owner = owner /\ c.base = base /\ c.served = served
         \/ c.owner = m.page /\ \E i \in DOMAIN served :
              served[i].page = m.page /\ c.base = served[i].base
      /\ c.granted => \/ c.owner = m.page
                      \/ c.owner = NoPage /\ c.served = <<>>
      /\ \A j \in DOMAIN c.served : \E i \in DOMAIN served : c.served[j] = served[i]
  BY <1>1, ClaimProperties
<1> HIDE DEF c
<1>3. ~(owner = NoPage /\ served = <<>>)
  BY <1>1 DEF NoPageNoRequest
<1>4. m.page # NoPage /\ phase[m.page] # "unborn"
  BY <1>1, StoreAssumption DEF PagesSendWhatTheyHold
<1>5. CASE c.owner = owner /\ c.base = base /\ c.served = served
  <2>1. c.owner # NoPage =>
          /\ phase[c.owner] # "unborn"
          /\ \A k \in Keys : c.base[k] # None /\ c.base[k].hash # Gone => k \in held[c.owner]
    BY <1>1, <1>5 DEF OwnerKnowsItsBase, PagesSendWhatTheyHold
  <2>2. \A k \in Keys \ buried : c.base[k] # None => c.base[k].hash # Gone
    BY <1>1, <1>5 DEF TombstonesAreBuried
  <2>3. QED
    BY <1>2, <1>3, <1>5, <2>1, <2>2 DEF c
<1>6. ASSUME c.owner = m.page,
             NEW i \in DOMAIN served, served[i].page = m.page, c.base = served[i].base
      PROVE  /\ phase[c.owner] # "unborn"
             /\ \A k \in Keys : c.base[k] # None /\ c.base[k].hash # Gone => k \in held[c.owner]
             /\ \A k \in Keys \ buried : c.base[k] # None => c.base[k].hash # Gone
  BY <1>1, <1>4, <1>6 DEF OwnerKnowsItsBase, TombstonesAreBuried
<1>7. QED
  BY <1>2, <1>4, <1>5, <1>6 DEF c

\* A handler that claims the base for m, moves it by what m sent, and leaves
\* disk and cache in agreement keeps the invariant.
LEMMA ClaimKeepsIInv ==
  ASSUME IInv, TypeOK', NEW m \in net,
         NEW inc \in [Keys -> Record \cup {None}], NEW tree \in Tree,
         \A k \in Keys : inc[k] # None => inc[k].data = m.mem[k] /\ inc[k].data # Gone,
         owner' = Claim(m.page).owner, served' = Claim(m.page).served,
         base' = IF Claim(m.page).granted
                 THEN [k \in Keys |-> AcknowledgedBase(Claim(m.page).base[k], inc[k], tree[k])]
                 ELSE Claim(m.page).base,
         UNCHANGED <<held, phase, mem>>, buried \subseteq buried',
         CacheAgreesWithDisk',
         \A k \in Keys \ buried' : /\ ~IsTombstone(disk'[k])
                                   /\ cache' # None => ~IsTombstone(cache'[k]),
         \A r \in net' \cup ({pending'} \ {None}) :
            LiveKeys(r.mem) \subseteq held[r.page] /\ phase[r.page] # "unborn"
  PROVE  IInv'
<1> DEFINE c == Claim(m.page)
<1>1. /\ c.granted => c.owner = m.page
      /\ c.owner = NoPage => c.served # <<>>
      /\ c.owner # NoPage =>
           /\ phase[c.owner] # "unborn"
           /\ \A k \in Keys : c.base[k] # None /\ c.base[k].hash # Gone => k \in held[c.owner]
      /\ \A k \in Keys \ buried : c.base[k] # None => c.base[k].hash # Gone
      /\ \A j \in DOMAIN c.served : \E i \in DOMAIN served : c.served[j] = served[i]
  BY ClaimedBaseIsKnown
<1>2. /\ owner' = c.owner /\ served' = c.served
      /\ base' = IF c.granted
                 THEN [k \in Keys |-> AcknowledgedBase(c.base[k], inc[k], tree[k])]
                 ELSE c.base
  OBVIOUS
<1>3. /\ m \in Message /\ m.page \in Pages /\ LiveKeys(m.mem) \subseteq held[m.page]
      /\ OwnerKnowsItsBase /\ PagesSendWhatTheyHold /\ TombstonesAreBuried
  BY DEF IInv, TypeOK, Message, PagesSendWhatTheyHold
<1>4. c.base \in Base
  BY <1>3, ClaimProperties DEF IInv
<1> HIDE DEF c
<1>5. ASSUME NEW k \in Keys, base'[k] # None
      PROVE  \/ base'[k] = c.base[k]
             \/ base'[k].hash # Gone /\ owner' = m.page /\ k \in held[m.page]
  <2>1. CASE ~c.granted
    BY <1>2, <2>1
  <2>2. CASE c.granted
    <3>1. base'[k] = AcknowledgedBase(c.base[k], inc[k], tree[k]) /\ owner' = m.page
      BY <1>1, <1>2, <2>2
    <3>2. /\ c.base[k] \in Fingerprint \cup {None} /\ inc[k] \in Record \cup {None}
          /\ tree[k] \in Record \cup {None}
      BY <1>4 DEF Base, Tree
    <3>3. \/ base'[k] = c.base[k]
          \/ inc[k] # None /\ base'[k].hash = inc[k].data
      <4>1. AcknowledgedBase(c.base[k], inc[k], tree[k]) # None
        BY <1>5, <3>1
      <4>2. \/ AcknowledgedBase(c.base[k], inc[k], tree[k]) = c.base[k]
            \/ inc[k] # None /\ AcknowledgedBase(c.base[k], inc[k], tree[k]).hash = inc[k].data
        BY <3>2, <4>1, TheBaseLearnsOnlyFromThePage
      <4>3. QED
        BY <3>1, <4>2
    <3>4. inc[k] # None => k \in LiveKeys(m.mem) /\ inc[k].data # Gone
      BY DEF LiveKeys
    <3>5. QED
      BY <1>3, <3>1, <3>3, <3>4
  <2>3. QED
    BY <2>1, <2>2
<1>6. OwnerKnowsItsBase'
  <2>1. ASSUME owner' # NoPage, NEW k \in Keys, base'[k] # None, base'[k].hash # Gone
        PROVE  k \in held'[owner']
    BY <1>1, <1>2, <1>5, <2>1
  <2>2. ASSUME NEW j \in DOMAIN served', NEW k \in Keys,
               served'[j].base[k] # None, served'[j].base[k].hash # Gone
        PROVE  k \in held'[served'[j].page]
    BY <1>1, <1>2, <1>3, <2>2 DEF OwnerKnowsItsBase
  <2>3. QED
    BY <2>1, <2>2 DEF OwnerKnowsItsBase
<1>7. PagesSendWhatTheyHold'
  <2>1. (owner # NoPage => phase[owner] # "unborn")'
    BY <1>1, <1>2
  <2>2. \A j \in DOMAIN served' : phase'[served'[j].page] # "unborn"
    BY <1>1, <1>2, <1>3 DEF PagesSendWhatTheyHold
  <2>3. QED
    BY <1>3, <2>1, <2>2 DEF PagesSendWhatTheyHold, LiveKeys
<1>8. NoPageNoRequest'
  BY <1>1, <1>2 DEF NoPageNoRequest
<1>9. TombstonesAreBuried'
  <2>1. ASSUME NEW k \in Keys \ buried'
        PROVE  base'[k] # None => base'[k].hash # Gone
    BY <1>1, <1>5
  <2>2. ASSUME NEW k \in Keys \ buried', NEW j \in DOMAIN served'
        PROVE  served'[j].base[k] # None => served'[j].base[k].hash # Gone
    BY <1>1, <1>2, <1>3 DEF TombstonesAreBuried
  <2>3. QED
    BY <2>1, <2>2 DEF TombstonesAreBuried
<1>10. QED
  BY <1>6, <1>7, <1>8, <1>9 DEF IInv

LEMMA HandleAckKeepsIInv ==
  ASSUME IInv, TypeOK', NEW m \in net, HandleAck(m)
  PROVE  IInv'
<1> DEFINE inc == [k \in Keys |-> IF m.mem[k] # Gone
                                  THEN LiveRecord(m.mem[k], Device, clock) ELSE None]
<1>1. /\ UNCHANGED <<disk, held, phase, mem, pending, buried>> /\ net' = net \ {m}
      /\ owner' = Claim(m.page).owner /\ served' = Claim(m.page).served
      /\ base' = IF Claim(m.page).granted
                 THEN [k \in Keys |-> AcknowledgedBase(Claim(m.page).base[k], inc[k], Current[k])]
                 ELSE Claim(m.page).base
      /\ cache' \in {cache, Current}
  BY DEF HandleAck, browser, history, ghosts
<1>2. /\ TypeOK /\ CacheAgreesWithDisk /\ PagesSendWhatTheyHold /\ TombstonesAreBuried
      /\ m \in Message /\ clock \in Nat /\ Device \in Devices
  <2>1. TypeOK /\ CacheAgreesWithDisk /\ PagesSendWhatTheyHold /\ TombstonesAreBuried
    BY DEF IInv
  <2>2. m \in Message /\ clock \in Nat
    BY <2>1 DEF TypeOK
  <2>3. QED
    BY <2>1, <2>2, StoreAssumption
<1>3. \A k \in Keys : m.mem[k] # Gone => m.mem[k] \in Data
  BY <1>2 DEF Message, Memory, Content
<1>4. /\ inc \in [Keys -> Record \cup {None}]
      /\ \A k \in Keys : inc[k] # None => inc[k].data = m.mem[k] /\ inc[k].data # Gone
  BY <1>2, <1>3, LiveRecordType
<1>5. Current \in Tree
  BY <1>2, CurrentType
<1>6. CacheAgreesWithDisk'
  <2>1. ASSUME NEW k \in Keys \ buried
        PROVE  \/ Current[k] = None /\ disk[k] = None
               \/ Current[k] # None /\ disk[k] # None /\ Current[k].data = disk[k].data
    <3>1. CASE cache = None
      BY <3>1 DEF Current
    <3>2. CASE cache # None
      BY <1>2, <3>2 DEF CacheAgreesWithDisk, Current
    <3>3. QED
      BY <3>1, <3>2
  <2>2. CASE cache' = cache
    BY <1>1, <1>2, <2>2 DEF CacheAgreesWithDisk
  <2>3. CASE cache' = Current
    BY <1>1, <2>1, <2>3 DEF CacheAgreesWithDisk
  <2>4. QED
    BY <1>1, <2>2, <2>3
<1>7. \A k \in Keys \ buried' : /\ ~IsTombstone(disk'[k])
                                /\ cache' # None => ~IsTombstone(cache'[k])
  BY <1>1, <1>2 DEF TombstonesAreBuried, Current
<1>8. \A r \in net' \cup ({pending'} \ {None}) :
         LiveKeys(r.mem) \subseteq held[r.page] /\ phase[r.page] # "unborn"
  BY <1>1, <1>2 DEF PagesSendWhatTheyHold
<1> HIDE DEF inc
<1>9. QED
  BY <1>1, <1>4, <1>5, <1>6, <1>7, <1>8, ClaimKeepsIInv

\* What an answered request leaves under way, the page sends with what it
\* holds.
LEMMA AnsweredMessages ==
  ASSUME IInv, NEW m \in net, Answer(m)
  PROVE  \A r \in net' \cup ({pending'} \ {None}) :
            LiveKeys(r.mem) \subseteq held[r.page] /\ phase[r.page] # "unborn"
<1>1. /\ \A r \in net \cup ({pending} \ {None}) :
            LiveKeys(r.mem) \subseteq held[r.page] /\ phase[r.page] # "unborn"
      /\ \A p \in Pages : LiveKeys(mem[p]) \subseteq held[p]
      /\ m \in Message /\ m.from \in Pages
  BY DEF IInv, PagesSendWhatTheyHold, TypeOK, Message
<1>2. CASE Succeed(m) /\ phase[m.from] = "live" /\ UNCHANGED pending
  <2>1. \A r \in net' : \/ r \in net
                        \/ r.page = m.from /\ r.mem = mem[m.from]
    BY <1>2 DEF Succeed, Request
  <2>2. QED
    BY <1>1, <1>2, <2>1
<1>3. CASE net' = net \ {m} /\ pending' \in {None, pending}
  BY <1>1, <1>3
<1>4. CASE net' = (net \ {m}) \cup {[m EXCEPT !.tries = @ + 1]} /\ UNCHANGED pending
  <2>1. [m EXCEPT !.tries = @ + 1].page = m.page /\ [m EXCEPT !.tries = @ + 1].mem = m.mem
    BY <1>1 DEF Message
  <2>2. QED
    BY <1>1, <1>4, <2>1
<1>5. QED
  BY <1>2, <1>3, <1>4, Zenon DEF Answer

LEMMA HandleSaveKeepsIInv ==
  ASSUME IInv, TypeOK', NEW m \in net, HandleSave(m)
  PROVE  IInv'
<1> DEFINE now == clock + 1
           c == Claim(m.page)
           inc == Incoming(m, c.base, now)
           merged == Merged(m, c.base, inc, now)
<1>1. /\ UNCHANGED <<held, phase, mem>> /\ Answer(m)
      /\ owner' = c.owner /\ served' = c.served /\ cache' = merged
      /\ disk' = [k \in Keys |->
                    IF merged[k] # None /\ RecordChangedSinceBase(merged[k], c.base[k])
                    THEN merged[k] ELSE disk[k]]
      /\ base' = IF c.granted
                 THEN [k \in Keys |-> AcknowledgedBase(c.base[k], inc[k], merged[k])]
                 ELSE c.base
      /\ buried' = buried \cup NewTombstones(disk, disk') \cup NewTombstones(Current, merged)
  BY DEF HandleSave
<1>2. /\ TypeOK /\ CacheAgreesWithDisk /\ TombstonesAreBuried
      /\ m \in Message /\ m.page \in Pages /\ now \in Nat /\ Device \in Devices
  <2>1. TypeOK /\ CacheAgreesWithDisk /\ TombstonesAreBuried
    BY DEF IInv
  <2>2. m \in Message
    BY <2>1 DEF TypeOK
  <2>3. m.page \in Pages
    BY <2>2 DEF Message
  <2>4. now \in Nat
    BY <2>1 DEF TypeOK
  <2>5. QED
    BY <2>1, <2>2, <2>3, <2>4, StoreAssumption
<1>3. c.base \in Base
  BY <1>2, ClaimProperties
<1>4. /\ inc \in [Keys -> Record \cup {None}]
      /\ \A k \in Keys : inc[k] # None => inc[k].data = m.mem[k] /\ inc[k].data # Gone
  BY <1>2, <1>3, IncomingType
<1>5. merged \in Tree
  BY <1>2, <1>3, <1>4, MergedType
<1>6. Current \in Tree
  BY <1>2, CurrentType
<1>7. \A k \in Keys : \E known \in BOOLEAN :
         merged[k] = MergeRecord(c.base[k], inc[k], Current[k], known, Device, now)
  <2>1. TAKE k \in Keys
  <2>2. WITNESS (k \in LiveKeys(m.mem)) \in BOOLEAN
  <2>3. QED
    BY Zenon DEF Merged
<1> HIDE DEF c, inc, merged, now
<1>8. \A k \in Keys \ buried' : ~IsTombstone(disk'[k]) /\ ~IsTombstone(merged[k])
  <2>1. TAKE k \in Keys \ buried'
  <2>2. ~IsTombstone(disk[k]) /\ ~IsTombstone(Current[k])
    BY <1>1, <1>2 DEF TombstonesAreBuried, Current
  <2>3. QED
    BY <1>1, <2>2 DEF NewTombstones
<1>9. CacheAgreesWithDisk'
  <2>1. ASSUME NEW k \in Keys \ buried'
        PROVE  \/ merged[k] = None /\ disk'[k] = None
               \/ merged[k] # None /\ disk'[k] # None /\ merged[k].data = disk'[k].data
    <3>1. k \in Keys \ buried
      BY <1>1
    <3>2. \/ Current[k] = None /\ disk[k] = None
          \/ Current[k] # None /\ disk[k] # None /\ Current[k].data = disk[k].data
      <4>1. CASE cache = None
        BY <4>1 DEF Current
      <4>2. CASE cache # None
        BY <1>2, <3>1, <4>2 DEF CacheAgreesWithDisk, Current
      <4>3. QED
        BY <4>1, <4>2
    <3>3. /\ c.base[k] \in Fingerprint \cup {None} /\ inc[k] \in Record \cup {None}
          /\ Current[k] \in Record \cup {None}
      BY <1>3, <1>4, <1>6 DEF Base, Tree
    <3>0. PICK known \in BOOLEAN :
            merged[k] = MergeRecord(c.base[k], inc[k], Current[k], known, Device, now)
      BY <1>7
    <3>4. CASE merged[k] = None
      <4>1. Current[k] = None
        <5>1. MergeRecord(c.base[k], inc[k], Current[k], known, Device, now) = None
          BY <3>0, <3>4
        <5>2. QED
          BY <1>2, <3>3, <5>1, MergeKeepsKeys
      <4>2. disk'[k] = disk[k]
        BY <1>1, <3>4
      <4>3. QED
        BY <3>2, <3>4, <4>1, <4>2
    <3>5. CASE merged[k] # None /\ RecordChangedSinceBase(merged[k], c.base[k])
      BY <1>1, <3>5
    <3>6. CASE merged[k] # None /\ ~RecordChangedSinceBase(merged[k], c.base[k])
      <4>1. Current[k] # None /\ Current[k].data = merged[k].data
        BY <1>2, <3>0, <1>8, <3>3, <3>6, UnwrittenRecordsAreOnDisk
      <4>2. disk'[k] = disk[k]
        BY <1>1, <3>6
      <4>3. QED
        BY <3>2, <3>6, <4>1, <4>2
    <3>7. QED
      BY <3>4, <3>5, <3>6
  <2>2. QED
    BY <1>1, <2>1 DEF CacheAgreesWithDisk
<1>10. \A r \in net' \cup ({pending'} \ {None}) :
          LiveKeys(r.mem) \subseteq held[r.page] /\ phase[r.page] # "unborn"
  BY <1>1, AnsweredMessages
<1>11. QED
  BY <1>1, <1>4, <1>5, <1>8, <1>9, <1>10, ClaimKeepsIInv DEF c

LEMMA IInvStep ==
  ASSUME IInv, [Next]_vars
  PROVE  IInv'
<1>1. TypeOK'
  BY TypeStep DEF IInv
<1>2. CASE UNCHANGED vars
  <2>1. /\ UNCHANGED store /\ UNCHANGED <<buried, held, phase, mem, pending, net>>
    BY <1>2 DEF vars, browser, history, ghosts
  <2>2. \A p \in Pages : LiveKeys(mem'[p]) \subseteq held'[p]
    BY <2>1 DEF IInv, PagesSendWhatTheyHold, LiveKeys
  <2>3. QED
    BY <1>1, <2>1, <2>2, PageSide
<1>3. ASSUME NEW p \in Pages, PageStep(p)
      PROVE  IInv'
  BY <1>1, <1>3, ServeKeepsIInv, TextWriteKeepsIInv, PageStepKeepsIInv DEF PageStep
<1>4. ASSUME NEW m \in net, RequestStep(m)
      PROVE  IInv'
  BY <1>1, <1>4, HandleSaveKeepsIInv, HandleAckKeepsIInv, LoseKeepsIInv DEF RequestStep
<1>5. CASE Restart
  BY <1>1, <1>5, RestartKeepsIInv
<1>6. QED
  BY <1>2, <1>3, <1>4, <1>5 DEF Next

-------------------------------------------------------------------------------
(* What holds in every behaviour.                                          *)

\* Every variable keeps its type, whatever the pages do and in whatever order
\* the requests arrive.
THEOREM TypeCorrect == Spec => []TypeOK
<1>1. Init => TypeOK
  BY InitIInv DEF IInv
<1>2. TypeOK /\ [Next]_vars => TypeOK'
  BY TypeStep
<1>3. QED
  BY <1>1, <1>2, PTL DEF Spec

\* The inductive invariant: the base and the cache are trustworthy for the
\* reasons IInv names.
THEOREM Invariance == Spec => []IInv
<1>1. Init => IInv
  BY InitIInv
<1>2. IInv /\ [Next]_vars => IInv'
  BY IInvStep
<1>3. QED
  BY <1>1, <1>2, PTL DEF Spec

\* The save base never describes a record that the page it stands for has
\* not been shown (snapshot.rs: claim_base, acknowledged_frontend_base).
THEOREM BaseIsKnown == Spec => []OwnerKnowsItsBase
<1>1. IInv => OwnerKnowsItsBase
  BY DEF IInv
<1>2. QED
  BY <1>1, Invariance, PTL

\* The cached tree and the files tell the same about every record that was
\* never deleted (snapshot.rs: commit_bulk_save_with_context).
THEOREM CacheIsTrue == Spec => []CacheAgreesWithDisk
<1>1. IInv => CacheAgreesWithDisk
  BY DEF IInv
<1>2. QED
  BY <1>1, Invariance, PTL

\* Whether a page is new, old, reloaded, or speaking through a retry or a
\* late request: its save deletes no record for the first time that its
\* user has not had before his eyes (snapshot.rs: bulk_save_from).
THEOREM FirstDeletionsAreHeld == Spec => FirstDeletionsAreTheUsers
<1>1. IInv /\ [Next]_vars =>
        [\A m \in net : \A k \in Keys \ buried :
           /\ IsLive(disk[k]) /\ IsTombstone(disk'[k])
           /\ Entitled(m) /\ HandleSave(m)
           => k \in held[m.page]]_vars
  <2>1. SUFFICES ASSUME IInv, NEW m \in net, NEW k \in Keys \ buried,
                        IsLive(disk[k]), IsTombstone(disk'[k]), Entitled(m), HandleSave(m)
                 PROVE  k \in held[m.page]
    OBVIOUS
  <2> DEFINE now == clock + 1
             c == Claim(m.page)
             inc == Incoming(m, c.base, now)
             merged == Merged(m, c.base, inc, now)
  <2>2. /\ TypeOK /\ CacheAgreesWithDisk /\ TombstonesAreBuried
        /\ m \in Message /\ m.page \in Pages /\ now \in Nat /\ Device \in Devices
    <3>1. TypeOK /\ CacheAgreesWithDisk /\ TombstonesAreBuried
      BY <2>1 DEF IInv
    <3>2. m \in Message
      BY <2>1, <3>1 DEF TypeOK
    <3>3. m.page \in Pages
      BY <3>2 DEF Message
    <3>4. now \in Nat
      BY <3>1 DEF TypeOK
    <3>5. QED
      BY <3>1, <3>2, <3>3, <3>4, StoreAssumption
  <2>3. /\ c.granted /\ c.owner = m.page /\ m.page # NoPage
        /\ \A j \in Keys : c.base[j] # None /\ c.base[j].hash # Gone => j \in held[c.owner]
        /\ \A j \in Keys \ buried : c.base[j] # None => c.base[j].hash # Gone
    <3>1. c.granted
      BY <2>1 DEF Entitled
    <3>2. c.owner = m.page /\ m.page # NoPage
      BY <2>1, <2>2, <3>1, ClaimedBaseIsKnown, StoreAssumption
    <3>3. QED
      BY <2>1, <3>1, <3>2, ClaimedBaseIsKnown
  <2>4. c.base \in Base
    BY <2>2, ClaimProperties
  <2>5. /\ inc \in [Keys -> Record \cup {None}]
        /\ inc[k] # None => inc[k].data # Gone
    BY <2>2, <2>4, IncomingType
  <2>6. PICK known \in BOOLEAN :
          merged[k] = MergeRecord(c.base[k], inc[k], Current[k], known, Device, now)
    <3>1. WITNESS (k \in LiveKeys(m.mem)) \in BOOLEAN
    <3>2. QED
      BY Zenon DEF Merged
  <2>7. disk'[k] \in {merged[k], disk[k]}
    BY <2>1 DEF HandleSave
  <2>8. IsLive(Current[k])
    <3>1. CASE cache = None
      BY <2>1, <3>1 DEF Current
    <3>2. CASE cache # None
      BY <2>1, <2>2, <3>2 DEF CacheAgreesWithDisk, Current, IsLive
    <3>3. QED
      BY <3>1, <3>2
  <2> HIDE DEF c, inc, merged, now
  <2>9. IsTombstone(merged[k])
    BY <2>1, <2>7 DEF IsLive, IsTombstone
  <2>10. /\ c.base[k] \in Fingerprint \cup {None} /\ inc[k] \in Record \cup {None}
         /\ Current[k] \in Record \cup {None}
    BY <2>2, <2>4, <2>5, CurrentType DEF Base, Tree
  <2>11. c.base[k] # None
    <3>1. IsTombstone(MergeRecord(c.base[k], inc[k], Current[k], known, Device, now))
      BY <2>6, <2>9
    <3>2. inc[k] # None => inc[k].data # Gone
      BY <2>5
    <3>3. Device \in Devices /\ now \in Nat
      BY <2>2
    <3>4. QED
      BY <2>8, <2>10, <3>1, <3>2, <3>3, MergeDeletesOnlyWhatTheBaseKnows
  <2>12. QED
    BY <2>3, <2>11
<1>2. QED
  BY <1>1, Invariance, PTL DEF Spec, FirstDeletionsAreTheUsers
===============================================================================
