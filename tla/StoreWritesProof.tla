--------------------------- MODULE StoreWritesProof ---------------------------
(***************************************************************************)
(* What saves write, for any number of pages, keys and writes.  While the  *)
(* clock is past every stamp the store uses no time twice, so what a page  *)
(* changed descends from what is there and wins; and what a page has not   *)
(* changed equals its base, so its saves leave that record alone, whatever *)
(* the clock says.  The second half follows a page from its *)
(* first request to its last: its base mirrors the disk and its changes    *)
(* are on their way, so what was saved is what is on disk.                 *)
(***************************************************************************)
EXTENDS StoreSyncProof, FiniteSetTheorems

Knows(b, tree) == \A k \in Keys : b[k] # None => tree[k] # None

\* A base knows only keys there are, and the cache has the keys of the disk.
KnownKeysExist ==
  /\ cache # None => \A k \in Keys : cache[k] = None <=> disk[k] = None
  /\ Knows(base, disk)
  /\ \A i \in DOMAIN served : Knows(served[i].base, disk)

\* The inductive invariant of the stamps: they have a bound.  The clock is
\* below it, or at it as long as no start has set the clock back.
StampInvUpTo(t) == TypeOK /\ KnownKeysExist /\ clock <= t /\ StampsUpTo(t)
StampInv == \E t \in Nat : StampInvUpTo(t)

HashOf(f) == IF f = None THEN Gone ELSE f.hash

Messages == net \cup ({pending} \ {None})

\* Of a record p has not changed, and that was never deleted, p shows and
\* sends what base b says of it.
Agrees(p, b) ==
  \A k \in Keys \ (touched[p] \cup buried) :
    /\ phase[p] \in {"served", "live"} => mem[p][k] = HashOf(b[k])
    /\ \A m \in Messages : m.page = p => m.mem[k] = HashOf(b[k])

UntouchedIsBase ==
  /\ owner # NoPage => Agrees(owner, base)
  /\ \A i \in DOMAIN served : Agrees(served[i].page, served[i].base)

\* The inductive invariant of what is not changed.
WriteInv == IInv /\ StampInv /\ UntouchedIsBase

-------------------------------------------------------------------------------
(* Clocks.                                                                 *)

LEMMA StampedLater ==
  ASSUME NEW c \in Clock, NEW t \in Nat, Stamped(c, t)
  PROVE  Stamped(c, t + 1)
<1>1. SUFFICES ASSUME NEW d \in Devices
               PROVE  c[d] <= (IF d = Device THEN t + 1 ELSE 0)
  BY DEF Stamped
<1>2. c[d] \in Nat /\ c[d] <= (IF d = Device THEN t ELSE 0)
  BY DEF Stamped, Clock
<1>3. QED
  BY <1>2

LEMMA NoClockStamped ==
  ASSUME NEW t \in Nat
  PROVE  Stamped(NoClock, t)
BY DEF Stamped, NoClock

\* A clock bumped at time now counts at least that, and has grown.
LEMMA BumpStamped ==
  ASSUME NEW c \in Clock, NEW t \in Nat, Stamped(c, t), NEW now \in Nat, now <= t + 1
  PROVE  /\ BumpCausal(c, Device, now)[Device] >= now
         /\ BumpCausal(c, Device, now)[Device] > c[Device]
         /\ Stamped(BumpCausal(c, Device, now), t + 1)
<1> DEFINE x == MaxOf(c[Device] + 1, now)
<1>1. Device \in Devices /\ c[Device] \in Nat /\ c[Device] <= t
  BY StoreAssumption DEF Clock, Stamped
<1>2. x \in Nat /\ x >= now /\ x > c[Device] /\ x <= t + 1
  BY <1>1 DEF MaxOf
<1> HIDE DEF x
<1>3. BumpCausal(c, Device, now) = [c EXCEPT ![Device] = x]
  BY DEF BumpCausal, x
<1>4. \A d \in Devices \ {Device} : [c EXCEPT ![Device] = x][d] = c[d]
  BY DEF Clock
<1>5. [c EXCEPT ![Device] = x][Device] = x
  BY <1>1 DEF Clock
<1>6. ASSUME NEW d \in Devices
      PROVE  [c EXCEPT ![Device] = x][d] <= (IF d = Device THEN t + 1 ELSE 0)
  <2>1. CASE d = Device
    BY <1>2, <1>5, <2>1
  <2>2. CASE d # Device
    <3>1. c[d] <= (IF d = Device THEN t ELSE 0)
      BY DEF Stamped
    <3>2. QED
      BY <1>4, <2>2, <3>1
  <2>3. QED
    BY <2>1, <2>2
<1>7. QED
  BY <1>2, <1>3, <1>5, <1>6 DEF Stamped

LEMMA JoinStamped ==
  ASSUME NEW a \in Clock, NEW b \in Clock, NEW t \in Nat, Stamped(a, t), Stamped(b, t)
  PROVE  Stamped(JoinCausal(a, b), t)
<1>1. \A d \in Devices : JoinCausal(a, b)[d] \in {a[d], b[d]}
  BY DEF JoinCausal, MaxOf
<1>2. QED
  BY <1>1 DEF Stamped

-------------------------------------------------------------------------------
(* The merge of one key, when the stamps so far are at most t.             *)

LEMMA TombstoneStamped ==
  ASSUME NEW b \in Fingerprint \cup {None}, NEW t \in Nat, NEW now \in Nat, now <= t + 1,
         b # None => Stamped(b.causal, t)
  PROVE  StampedRecord(TombstoneWithBase(b, Device, now), t + 1)
<1>1. BaseClock(b) \in Clock /\ Stamped(BaseClock(b), t)
  BY BaseClockType, NoClockStamped DEF BaseClock
<1>2. Stamped(BumpCausal(BaseClock(b), Device, now), t + 1)
  BY <1>1, BumpStamped
<1>3. QED
  BY <1>2 DEF TombstoneWithBase, StampedRecord

LEMMA LiveStamped ==
  ASSUME NEW x, NEW t \in Nat, NEW now \in Nat, now <= t + 1
  PROVE  StampedRecord(LiveRecord(x, Device, now), t + 1)
<1>1. Stamped(BumpCausal(NoClock, Device, now), t + 1)
  BY NoClockType, NoClockStamped, BumpStamped
<1>2. QED
  BY <1>1 DEF LiveRecord, StampedRecord

\* r is stamped no earlier than now, and later than what it continues.
Outstamps(r, b, cur, now) ==
  /\ r.causal[Device] >= now
  /\ b # None => r.causal[Device] > b.causal[Device]
  /\ b = None /\ IsTombstone(cur) => r.causal[Device] > cur.causal[Device]

\* What a page sends is stamped now; what it changed continues its base.
LEMMA PrepareStamped ==
  ASSUME NEW x \in Data, NEW b \in Fingerprint \cup {None},
         NEW cur \in Record \cup {None}, NEW t \in Nat, NEW now \in Nat, now <= t + 1,
         b # None => Stamped(b.causal, t), cur # None => StampedRecord(cur, t),
         NEW r, r = PrepareLocal(LiveRecord(x, Device, now), b, cur, Device, now)
  PROVE  /\ StampedRecord(r, t + 1)
         /\ b = None \/ b.hash # x => Outstamps(r, b, cur, now)
<1> DEFINE l == LiveRecord(x, Device, now)
           from == IF b # None THEN b.causal
                   ELSE IF IsTombstone(cur) THEN cur.causal ELSE NoClock
<1>1. Device \in Devices
  BY StoreAssumption
<1>2. l \in Record /\ l.data = x /\ StampedRecord(l, t + 1)
  BY <1>1, LiveRecordType, LiveStamped
<1>3. /\ from \in Clock /\ Stamped(from, t)
      /\ b # None => from = b.causal
      /\ b = None /\ IsTombstone(cur) => from = cur.causal
  BY NoClockType, NoClockStamped DEF Fingerprint, Record, IsTombstone, StampedRecord
<1> HIDE DEF from, l
<1> DEFINE bumped == BumpCausal(from, Device, now)
<1>4. /\ bumped \in Clock /\ Stamped(bumped, t + 1)
      /\ bumped[Device] >= now /\ bumped[Device] > from[Device]
  BY <1>1, <1>3, BumpStamped, BumpCausalType
<1> HIDE DEF bumped
<1>5. [l EXCEPT !.causal = bumped].at = l.at /\ [l EXCEPT !.causal = bumped].causal = bumped
  BY <1>2 DEF Record
<1>6. CASE b # None /\ b.hash = x
  <2>1. r = l
    BY <1>2, <1>6 DEF PrepareLocal, l
  <2>2. QED
    BY <1>2, <1>6, <2>1
<1>7. CASE ~(b # None /\ b.hash = x)
  <2>1. r = [l EXCEPT !.causal = bumped]
    BY <1>2, <1>7 DEF PrepareLocal, l, bumped, from
  <2>2. QED
    BY <1>2, <1>3, <1>4, <1>5, <2>1 DEF StampedRecord, Outstamps
<1>8. QED
  BY <1>6, <1>7

LEMMA MergeEqualStamped ==
  ASSUME NEW inc \in Record, NEW cur \in Record, NEW t \in Nat,
         StampedRecord(inc, t), StampedRecord(cur, t)
  PROVE  StampedRecord(MergeEqualRecords(inc, cur), t)
<1> DEFINE j == JoinCausal(inc.causal, cur.causal)
           r == IF ShouldKeepIncoming(inc, cur) THEN inc ELSE cur
<1>1. Stamped(j, t)
  BY JoinStamped DEF Record, StampedRecord
<1>2. MaxOf(inc.at, cur.at) <= t
  BY DEF MaxOf, StampedRecord, Record
<1>3. r \in Record
  OBVIOUS
<1> HIDE DEF j, r
<1> DEFINE n == [r EXCEPT !.causal = j]
<1>4. n.causal = j /\ [n EXCEPT !.at = MaxOf(inc.at, cur.at)].causal = n.causal
      /\ [n EXCEPT !.at = MaxOf(inc.at, cur.at)].at = MaxOf(inc.at, cur.at)
  BY <1>3 DEF Record
<1>5. MergeEqualRecords(inc, cur) = [n EXCEPT !.at = MaxOf(inc.at, cur.at)]
  BY DEF MergeEqualRecords, j, r
<1>6. QED
  BY <1>1, <1>2, <1>4, <1>5 DEF StampedRecord

LEMMA StampedRecordLater ==
  ASSUME NEW r \in Record, NEW t \in Nat, StampedRecord(r, t)
  PROVE  StampedRecord(r, t + 1)
<1>1. r.at \in Nat /\ r.causal \in Clock
  BY DEF Record
<1>2. QED
  BY <1>1, StampedLater DEF StampedRecord

LEMMA MergeStamped ==
  ASSUME NEW b \in Fingerprint \cup {None}, NEW inc \in Record \cup {None},
         NEW cur \in Record \cup {None}, NEW known \in BOOLEAN, NEW t \in Nat,
         NEW now \in Nat, now <= t + 1,
         b # None => Stamped(b.causal, t), inc # None => StampedRecord(inc, t + 1),
         cur # None => StampedRecord(cur, t),
         NEW r, r = MergeRecord(b, inc, cur, known, Device, now), r # None
  PROVE  StampedRecord(r, t + 1)
<1>1. Device \in Devices /\ t + 1 \in Nat
  BY StoreAssumption
<1>2. cur # None => StampedRecord(cur, t + 1)
  BY StampedRecordLater
<1>3. StampedRecord(TombstoneWithBase(b, Device, now), t + 1)
  BY TombstoneStamped
<1>4. inc # None /\ cur # None => StampedRecord(MergeEqualRecords(inc, cur), t + 1)
  BY <1>1, <1>2, MergeEqualStamped
<1>5. \/ r = cur
      \/ inc # None /\ r = inc
      \/ r = TombstoneWithBase(b, Device, now)
      \/ inc # None /\ cur # None /\ r = MergeEqualRecords(inc, cur)
  BY DEF MergeRecord, TakeIncoming, Resolve
<1>6. QED
  BY <1>2, <1>3, <1>4, <1>5

\* A record that is stamped later than what is there descends from it.
LEMMA LaterDescends ==
  ASSUME NEW inc \in Record, NEW cur \in Record, NEW t \in Nat, StampedRecord(cur, t),
         inc.causal[Device] > cur.causal[Device]
  PROVE  Descends(inc.causal, cur.causal)
<1>1. cur.causal \in Clock /\ inc.causal \in Clock /\ Device \in Devices
  BY StoreAssumption DEF Record
<1>2. Stamped(cur.causal, t)
  BY DEF StampedRecord
<1>3. Exceeds(inc.causal, cur.causal)
  BY <1>1 DEF Exceeds
<1>4. \A d \in Devices : ~(cur.causal[d] > inc.causal[d])
  <2>1. TAKE d \in Devices
  <2>2. cur.causal[d] \in Nat /\ inc.causal[d] \in Nat
    BY <1>1 DEF Clock
  <2>3. CASE d = Device
    BY <2>2, <2>3
  <2>4. CASE d # Device
    BY <1>2, <2>2, <2>4 DEF Stamped
  <2>5. QED
    BY <2>3, <2>4
<1>5. QED
  BY <1>3, <1>4 DEF Descends, Exceeds

\* A record that a page changed wins over whatever is there, if its stamp is
\* later; over what its base says is there, only a tombstone asks for that.
LEMMA ChangedRecordWins ==
  ASSUME NEW b \in Fingerprint \cup {None}, NEW inc \in Record, NEW cur \in Record \cup {None},
         NEW known \in BOOLEAN, NEW now, b = None \/ b.hash # inc.data,
         b # None => cur # None,
         CurrentChanged(b, cur) \/ IsTombstone(cur) => Descends(inc.causal, cur.causal),
         NEW r, r = MergeRecord(b, inc, cur, known, Device, now)
  PROVE  r # None /\ r.data = inc.data
<1>0. inc # None
  BY NoneIsNoRecord
<1>1. IncomingChanged(b, inc, known) /\ ~IncomingDeleted(b, inc, known)
  BY <1>0 DEF IncomingChanged, IncomingDeleted
<1>2. CASE ~CurrentChanged(b, cur)
  <2>1. r = TakeIncoming(b, inc, cur, Device, now)
    BY <1>1, <1>2 DEF MergeRecord
  <2>2. r = inc
    BY <1>0, <2>1 DEF TakeIncoming
  <2>3. QED
    BY <1>0, <2>2
<1>3. CASE CurrentChanged(b, cur)
  <2>1. cur # None
    BY <1>3 DEF CurrentChanged
  <2>2. CASE inc.data = cur.data
    <3>1. r = MergeEqualRecords(inc, cur) /\ cur \in Record
      BY <1>0, <1>1, <1>3, <2>1, <2>2 DEF MergeRecord
    <3>2. QED
      BY <2>2, <3>1, MergeEqualType, NoneIsNoRecord
  <2>3. CASE inc.data # cur.data
    <3>1. r = Resolve(b, inc, cur, Device, now)
      BY <1>0, <1>1, <1>3, <2>1, <2>3 DEF MergeRecord
    <3>2. r = inc
      BY <1>0, <1>3, <2>1, <3>1 DEF Resolve
    <3>3. QED
      BY <1>0, <3>2
  <2>4. QED
    BY <2>2, <2>3
<1>4. QED
  BY <1>2, <1>3

-------------------------------------------------------------------------------
(* The store.                                                              *)

\* Whatever base a request claims, its stamps are at most t and its keys exist.
LEMMA ClaimStamped ==
  ASSUME NEW t \in Nat, StampInvUpTo(t), NEW page \in Pages
  PROVE  /\ Claim(page).base \in Base
         /\ StampedBase(Claim(page).base, t) /\ Knows(Claim(page).base, disk)
         /\ \A j \in DOMAIN Claim(page).served :
              /\ StampedBase(Claim(page).served[j].base, t)
              /\ Knows(Claim(page).served[j].base, disk)
<1> DEFINE c == Claim(page)
<1>1. TypeOK
  BY DEF StampInvUpTo
<1>2. /\ c.base \in Base
      /\ \/ c.base = base
         \/ \E i \in DOMAIN served : c.base = served[i].base
      /\ \A j \in DOMAIN c.served : \E i \in DOMAIN served : c.served[j] = served[i]
  BY <1>1, ClaimProperties
<1> HIDE DEF c
<1>3. StampedBase(c.base, t) /\ Knows(c.base, disk)
  BY <1>2 DEF StampInvUpTo, StampsUpTo, KnownKeysExist
<1>4. \A j \in DOMAIN c.served :
        StampedBase(c.served[j].base, t) /\ Knows(c.served[j].base, disk)
  BY <1>2 DEF StampInvUpTo, StampsUpTo, KnownKeysExist
<1>5. QED
  BY <1>2, <1>3, <1>4 DEF c

LEMMA CurrentStamped ==
  ASSUME NEW t \in Nat, StampInvUpTo(t)
  PROVE  /\ Current \in Tree /\ StampedTree(Current, t)
         /\ \A k \in Keys : Current[k] = None <=> disk[k] = None
<1>1. Current \in Tree
  BY CurrentType DEF StampInvUpTo
<1>2. CASE cache = None
  BY <1>1, <1>2 DEF Current, StampInvUpTo, StampsUpTo
<1>3. CASE cache # None
  BY <1>1, <1>3 DEF Current, StampInvUpTo, StampsUpTo, KnownKeysExist
<1>4. QED
  BY <1>2, <1>3

LEMMA StampedTreeLater ==
  ASSUME NEW tree \in Tree, NEW t \in Nat, StampedTree(tree, t)
  PROVE  StampedTree(tree, t + 1)
<1>1. SUFFICES ASSUME NEW k \in Keys, tree[k] # None
               PROVE  StampedRecord(tree[k], t + 1)
  BY DEF StampedTree
<1>2. tree[k] \in Record /\ StampedRecord(tree[k], t)
  BY <1>1 DEF Tree, StampedTree
<1>3. QED
  BY <1>2, StampedRecordLater

LEMMA StampedBaseLater ==
  ASSUME NEW b \in Base, NEW t \in Nat, StampedBase(b, t)
  PROVE  StampedBase(b, t + 1)
<1>1. SUFFICES ASSUME NEW k \in Keys, b[k] # None
               PROVE  Stamped(b[k].causal, t + 1)
  BY DEF StampedBase
<1>2. b[k] \in Fingerprint /\ Stamped(b[k].causal, t)
  BY <1>1 DEF Base, StampedBase
<1>3. b[k].causal \in Clock
  BY <1>2 DEF Fingerprint
<1>4. QED
  BY <1>2, <1>3, StampedLater

LEMMA FingerprintsStamped ==
  ASSUME NEW t \in Nat, StampInvUpTo(t)
  PROVE  /\ StampedBase(Fingerprints(disk), t) /\ Knows(Fingerprints(disk), disk)
BY DEF StampInvUpTo, StampsUpTo, StampedBase, StampedTree, StampedRecord, Fingerprints,
       FingerprintOf, Knows

LEMMA InitStampInv == Init => StampInv /\ StampInvUpTo(clock)
<1>1. SUFFICES ASSUME Init
               PROVE  StampInv /\ StampInvUpTo(clock)
  OBVIOUS
<1>2. TypeOK /\ clock = 1
  BY <1>1, InitIInv DEF IInv, Init
<1>3. StampedTree(disk, 1)
  <2>1. SUFFICES ASSUME NEW k \in Keys, disk[k] # None
                 PROVE  StampedRecord(disk[k], 0 + 1)
    BY <1>1 DEF Init, StampedTree
  <2>2. disk[k] \in {TombstoneWithBase(None, Device, 1)}
                      \cup {LiveRecord(d, Device, 1) : d \in Data}
    BY <1>1, <2>1 DEF Init
  <2>3. StampedRecord(TombstoneWithBase(None, Device, 1), 0 + 1)
    BY TombstoneStamped
  <2>4. \A d \in Data : StampedRecord(LiveRecord(d, Device, 1), 0 + 1)
    BY LiveStamped
  <2>5. QED
    BY <2>2, <2>3, <2>4
<1>4. cache = None /\ served = <<>> /\ \A k \in Keys : base[k] = None
  BY <1>1 DEF Init, EmptyBase
<1>5. StampInvUpTo(clock)
  BY <1>2, <1>3, <1>4 DEF StampInvUpTo, StampsUpTo, KnownKeysExist, StampedBase, Knows
<1>6. QED
  BY <1>2, <1>5 DEF StampInv

LEMMA ServeKeepsStampInv ==
  ASSUME NEW t \in Nat, StampInvUpTo(t), TypeOK', NEW p \in Pages, Serve(p)
  PROVE  StampInvUpTo(t)'
<1> DEFINE fp == Fingerprints(disk)
           new == [page |-> p, base |-> fp]
           queue == Append(served, new)
<1>1. /\ TypeOK /\ UNCHANGED <<disk, clock>> /\ cache' = disk
      /\ base' = IF owner = NoPage THEN fp ELSE base
      /\ served' \in {queue, Tail(queue)}
  BY DEF Serve, StampInvUpTo
<1>2. fp \in Base
  BY <1>1, FingerprintOfType DEF Fingerprints, Base, TypeOK, Tree
<1>3. StampedBase(fp, t) /\ Knows(fp, disk)
  BY FingerprintsStamped
<1>4. /\ \A j \in DOMAIN queue : queue[j] = new \/ \E i \in DOMAIN served : queue[j] = served[i]
      /\ \A j \in DOMAIN Tail(queue) : \E i \in DOMAIN queue : Tail(queue)[j] = queue[i]
  <2>1. queue = Append(served, [page |-> p, base |-> fp])
    OBVIOUS
  <2>2. new = [page |-> p, base |-> fp]
    OBVIOUS
  <2> HIDE DEF queue, fp, new
  <2>3. QED
    BY <1>1, <1>2, <2>1, <2>2, ServedQueueType
<1>5. new.base = fp
  OBVIOUS
<1> HIDE DEF fp, new, queue
<1>6. \A j \in DOMAIN served' : served'[j] = new \/ \E i \in DOMAIN served : served'[j] = served[i]
  BY <1>1, <1>4
<1>7. \A j \in DOMAIN served' : StampedBase(served'[j].base, t) /\ Knows(served'[j].base, disk)
  BY <1>3, <1>5, <1>6 DEF StampInvUpTo, StampsUpTo, KnownKeysExist
<1>8. StampedBase(base', t) /\ Knows(base', disk)
  BY <1>1, <1>3 DEF StampInvUpTo, StampsUpTo, KnownKeysExist
<1>9. StampsUpTo(t)' /\ clock' <= t
  BY <1>1, <1>7, <1>8 DEF StampInvUpTo, StampsUpTo
<1>10. KnownKeysExist'
  BY <1>1, <1>7, <1>8 DEF KnownKeysExist
<1>11. QED
  BY <1>9, <1>10 DEF StampInvUpTo

\* upsert_text and delete_text stamp one record and leave the bases alone.
LEMMA TextWriteKeepsStampInv ==
  ASSUME NEW t \in Nat, StampInvUpTo(t), TypeOK', NEW k \in Keys, NEW r \in Record,
         StampedRecord(r, t + 1), disk' = [disk EXCEPT ![k] = r],
         cache' = None, clock' = clock + 1, UNCHANGED <<base, served>>
  PROVE  StampInvUpTo(t + 1)'
<1>1. disk \in Tree /\ base \in Base /\ clock \in Nat /\ clock <= t
      /\ \A i \in DOMAIN served : served[i].base \in Base
  BY ServedElements DEF StampInvUpTo, TypeOK
<1>2. StampedTree(disk, t + 1)
  BY <1>1, StampedTreeLater DEF StampInvUpTo, StampsUpTo
<1>3. \A j \in Keys : disk'[j] = IF j = k THEN r ELSE disk[j]
  BY <1>1 DEF Tree
<1>4. StampedTree(disk', t + 1)
  BY <1>2, <1>3 DEF StampedTree
<1>5. \A j \in Keys : disk[j] # None => disk'[j] # None
  BY <1>3, NoneIsNoRecord
<1>6. Knows(base, disk') /\ \A i \in DOMAIN served : Knows(served[i].base, disk')
  BY <1>5 DEF StampInvUpTo, KnownKeysExist, Knows
<1>7. StampedBase(base, t + 1)
  BY <1>1, StampedBaseLater DEF StampInvUpTo, StampsUpTo
<1>8. \A i \in DOMAIN served : StampedBase(served[i].base, t + 1)
  BY <1>1, StampedBaseLater DEF StampInvUpTo, StampsUpTo
<1>9. StampsUpTo(t + 1)' /\ clock' <= t + 1
  BY <1>1, <1>4, <1>7, <1>8 DEF StampInvUpTo, StampsUpTo
<1>10. KnownKeysExist'
  BY <1>6 DEF KnownKeysExist
<1>11. QED
  BY <1>9, <1>10 DEF StampInvUpTo

LEMMA UpsertKeepsStampInv ==
  ASSUME NEW t \in Nat, StampInvUpTo(t), TypeOK', NEW p \in Pages, NEW k \in Keys, NEW d \in Data, UpsertText(p, k, d)
  PROVE  StampInvUpTo(t + 1)'
<1> DEFINE now == clock + 1
           from == IF disk[k] = None THEN NoClock ELSE disk[k].causal
           r == [data |-> d, at |-> now, by |-> Device, causal |-> BumpCausal(from, Device, now)]
<1>1. /\ disk' = [disk EXCEPT ![k] = r] /\ cache' = None /\ clock' = now
      /\ UNCHANGED <<base, served>>
  BY DEF UpsertText
<1>2. clock \in Nat /\ now \in Nat /\ now <= t + 1 /\ disk[k] \in Record \cup {None} /\ Device \in Devices
  BY StoreAssumption DEF StampInvUpTo, TypeOK, Tree
<1>3. from \in Clock /\ Stamped(from, t)
  BY <1>2, NoClockType, NoClockStamped
     DEF StampInvUpTo, StampsUpTo, StampedTree, StampedRecord, Record
<1> HIDE DEF from
<1>4. BumpCausal(from, Device, now) \in Clock /\ Stamped(BumpCausal(from, Device, now), t + 1)
  BY <1>2, <1>3, BumpCausalType, BumpStamped
<1>5. r \in Record
  BY <1>2, <1>4 DEF Record, Content
<1>6. StampedRecord(r, t + 1)
  BY <1>2, <1>4 DEF StampedRecord
<1> HIDE DEF r
<1>7. QED
  BY <1>1, <1>5, <1>6, TextWriteKeepsStampInv

LEMMA DeleteKeepsStampInv ==
  ASSUME NEW t \in Nat, StampInvUpTo(t), TypeOK', NEW p \in Pages, NEW k \in Keys, DeleteText(p, k)
  PROVE  StampInvUpTo(t + 1)'
<1> DEFINE r == TombstoneWithBase(FingerprintOf(disk[k]), Device, clock + 1)
<1>1. /\ disk' = [disk EXCEPT ![k] = r] /\ cache' = None /\ clock' = clock + 1
      /\ UNCHANGED <<base, served>>
  BY DEF DeleteText
<1>2. clock + 1 \in Nat /\ clock + 1 <= t + 1 /\ disk[k] \in Record \cup {None} /\ Device \in Devices
  BY StoreAssumption DEF StampInvUpTo, TypeOK, Tree
<1>3. FingerprintOf(disk[k]) \in Fingerprint \cup {None}
  BY <1>2, FingerprintOfType
<1>4. FingerprintOf(disk[k]) # None => Stamped(FingerprintOf(disk[k]).causal, t)
  BY DEF FingerprintOf, StampInvUpTo, StampsUpTo, StampedTree, StampedRecord
<1>5. r \in Record
  BY <1>2, <1>3, TombstoneType
<1>6. StampedRecord(r, t + 1)
  BY <1>2, <1>3, <1>4, TombstoneStamped
<1> HIDE DEF r
<1>7. QED
  BY <1>1, <1>5, <1>6, TextWriteKeepsStampInv

\* What the base becomes is stamped as the merged record and the base were.
LEMMA AcknowledgedStamped ==
  ASSUME NEW b \in Fingerprint \cup {None}, NEW inc, NEW merged \in Record \cup {None}, NEW t,
         b # None => Stamped(b.causal, t), merged # None => StampedRecord(merged, t),
         NEW a, a = AcknowledgedBase(b, inc, merged), a # None
  PROVE  Stamped(a.causal, t) /\ (b # None \/ merged # None)
BY DEF AcknowledgedBase, FingerprintOf, StampedRecord

LEMMA AckKeepsStampInv ==
  ASSUME NEW t \in Nat, StampInvUpTo(t), TypeOK', NEW m \in net, HandleAck(m)
  PROVE  StampInvUpTo(t)'
<1> DEFINE c == Claim(m.page)
           inc == [k \in Keys |-> IF m.mem[k] # Gone
                                  THEN LiveRecord(m.mem[k], Device, clock) ELSE None]
<1>1. /\ UNCHANGED <<disk, clock>> /\ served' = c.served
      /\ base' = IF c.granted
                 THEN [k \in Keys |-> AcknowledgedBase(c.base[k], inc[k], Current[k])]
                 ELSE c.base
      /\ cache' \in {cache, Current}
  BY DEF HandleAck
<1>2. m.page \in Pages
  BY DEF StampInvUpTo, TypeOK, Message
<1>3. /\ c.base \in Base /\ StampedBase(c.base, t) /\ Knows(c.base, disk)
      /\ \A j \in DOMAIN c.served : StampedBase(c.served[j].base, t) /\ Knows(c.served[j].base, disk)
  BY <1>2, ClaimStamped
<1>4. /\ Current \in Tree /\ StampedTree(Current, t)
      /\ \A k \in Keys : Current[k] = None <=> disk[k] = None
  BY CurrentStamped
<1> HIDE DEF c, inc
<1>5. ASSUME NEW k \in Keys, base'[k] # None
      PROVE  Stamped(base'[k].causal, t) /\ disk[k] # None
  <2>1. CASE ~c.granted
    BY <1>1, <1>3, <1>5, <2>1 DEF StampedBase, Knows
  <2>2. CASE c.granted
    <3>1. base'[k] = AcknowledgedBase(c.base[k], inc[k], Current[k])
      BY <1>1, <2>2
    <3>2. c.base[k] \in Fingerprint \cup {None} /\ Current[k] \in Record \cup {None}
      BY <1>3, <1>4 DEF Base, Tree
    <3>3. /\ c.base[k] # None => Stamped(c.base[k].causal, t)
          /\ Current[k] # None => StampedRecord(Current[k], t)
      BY <1>3, <1>4 DEF StampedBase, StampedTree
    <3>4. Stamped(base'[k].causal, t) /\ (c.base[k] # None \/ Current[k] # None)
      BY <1>5, <3>1, <3>2, <3>3, AcknowledgedStamped
    <3>5. QED
      BY <1>3, <1>4, <3>4 DEF Knows
  <2>3. QED
    BY <2>1, <2>2
<1>6. StampsUpTo(t)' /\ clock' <= t
  BY <1>1, <1>3, <1>4, <1>5 DEF StampInvUpTo, StampsUpTo, StampedBase
<1>7. KnownKeysExist'
  BY <1>1, <1>3, <1>4, <1>5 DEF StampInvUpTo, KnownKeysExist, Knows
<1>8. QED
  BY <1>6, <1>7 DEF StampInvUpTo

-------------------------------------------------------------------------------
(* A save.                                                                 *)

\* What a save merges, key by key, when its request claims a base.
LEMMA SaveMerges ==
  ASSUME NEW t \in Nat, StampInvUpTo(t), NEW m \in net, NEW k \in Keys,
         NEW c, c = Claim(m.page), NEW inc, inc = Incoming(m, c.base, clock + 1),
         NEW merged, merged = Merged(m, c.base, inc, clock + 1)
  PROVE  /\ c.base[k] \in Fingerprint \cup {None}
         /\ c.base[k] # None => Stamped(c.base[k].causal, t)
         /\ c.base[k] # None => Current[k] # None
         /\ inc[k] \in Record \cup {None}
         /\ inc[k] # None => StampedRecord(inc[k], t + 1)
         /\ k \in m.sent /\ m.mem[k] # Gone =>
              /\ inc[k] \in Record /\ inc[k].data = m.mem[k]
              /\ c.base[k] = None \/ c.base[k].hash # m.mem[k]
                => Outstamps(inc[k], c.base[k], Current[k], clock + 1)
         /\ Current[k] \in Record \cup {None}
         /\ Current[k] # None => StampedRecord(Current[k], t)
         /\ \E known \in BOOLEAN :
              merged[k] = MergeRecord(c.base[k], inc[k], Current[k], known, Device, clock + 1)
         /\ merged[k] \in Record \cup {None}
         /\ merged[k] # None => StampedRecord(merged[k], t + 1)
<1>1. /\ TypeOK /\ m \in Message /\ m.page \in Pages
      /\ clock \in Nat /\ clock + 1 \in Nat /\ clock + 1 <= t + 1
  BY DEF StampInvUpTo, TypeOK, Message
<1>2. c.base \in Base /\ StampedBase(c.base, t) /\ Knows(c.base, disk)
  BY <1>1, ClaimStamped
<1>3. /\ Current \in Tree /\ StampedTree(Current, t)
      /\ \A j \in Keys : Current[j] = None <=> disk[j] = None
  BY CurrentStamped
<1>4. /\ c.base[k] \in Fingerprint \cup {None} /\ Current[k] \in Record \cup {None}
      /\ c.base[k] # None => Stamped(c.base[k].causal, t)
      /\ c.base[k] # None => Current[k] # None
      /\ Current[k] # None => StampedRecord(Current[k], t)
  BY <1>2, <1>3 DEF Base, Tree, StampedBase, StampedTree, Knows
<1>5. inc \in [Keys -> Record \cup {None}]
  BY <1>1, <1>2, IncomingType
<1>6. inc[k] \in Record \cup {None}
  BY <1>5
<1>8. ASSUME k \in m.sent /\ m.mem[k] # Gone
      PROVE  /\ inc[k] \in Record /\ inc[k].data = m.mem[k] /\ StampedRecord(inc[k], t + 1)
             /\ c.base[k] = None \/ c.base[k].hash # m.mem[k]
                => Outstamps(inc[k], c.base[k], Current[k], clock + 1)
  <2>1. m.mem[k] \in Data /\ Device \in Devices
    BY <1>1, <1>8, StoreAssumption DEF Message, Memory, Content
  <2>2. inc[k] = PrepareLocal(LiveRecord(m.mem[k], Device, clock + 1), c.base[k],
                              Current[k], Device, clock + 1)
    BY <1>8 DEF Incoming
  <2>3. /\ StampedRecord(inc[k], t + 1)
        /\ c.base[k] = None \/ c.base[k].hash # m.mem[k]
             => Outstamps(inc[k], c.base[k], Current[k], clock + 1)
    <3> DEFINE r == inc[k]
               x == m.mem[k]
               b == c.base[k]
               cur == Current[k]
    <3>1. r = PrepareLocal(LiveRecord(x, Device, clock + 1), b, cur, Device, clock + 1)
      BY <2>2
    <3>2. /\ x \in Data /\ b \in Fingerprint \cup {None} /\ cur \in Record \cup {None}
          /\ clock + 1 \in Nat /\ clock + 1 <= t + 1 /\ (b # None => Stamped(b.causal, t))
          /\ cur # None => StampedRecord(cur, t)
      BY <1>1, <1>4, <2>1
    <3> HIDE DEF r, x, b, cur
    <3>3. StampedRecord(r, t + 1) /\ (b = None \/ b.hash # x => Outstamps(r, b, cur, clock + 1))
      BY <3>1, <3>2, PrepareStamped
    <3>4. QED
      BY <3>3 DEF r, x, b, cur
  <2>4. LiveRecord(m.mem[k], Device, clock + 1) \in Record
        /\ LiveRecord(m.mem[k], Device, clock + 1).data = m.mem[k]
    BY <1>1, <2>1, LiveRecordType
  <2> DEFINE l == LiveRecord(m.mem[k], Device, clock + 1)
             r == PrepareLocal(l, c.base[k], Current[k], Device, clock + 1)
  <2>5. inc[k] \in Record /\ inc[k].data = m.mem[k]
    <3>1. l \in Record /\ l.data = m.mem[k] /\ inc[k] = r
      BY <2>2, <2>4
    <3> HIDE DEF l
    <3>2. r \in Record /\ r.data = l.data
      BY <1>1, <1>4, <2>1, <3>1, PrepareLocalType
    <3>3. QED
      BY <3>1, <3>2
  <2>6. QED
    BY <2>3, <2>5
<1>9. /\ inc[k] # None => StampedRecord(inc[k], t + 1)
      /\ k \in m.sent /\ m.mem[k] # Gone =>
           /\ inc[k] \in Record /\ inc[k].data = m.mem[k]
           /\ c.base[k] = None \/ c.base[k].hash # m.mem[k]
                => Outstamps(inc[k], c.base[k], Current[k], clock + 1)
  <2>1. CASE ~(k \in m.sent /\ m.mem[k] # Gone)
    <3>1. inc[k] = None
      BY <2>1 DEF Incoming
    <3>2. QED
      BY <2>1, <3>1
  <2>2. QED
    BY <1>8, <2>1
<1>10. PICK known \in BOOLEAN :
          merged[k] = MergeRecord(c.base[k], inc[k], Current[k], known, Device, clock + 1)
  <2>1. WITNESS (k \in LiveKeys(m.mem)) \in BOOLEAN
  <2>2. QED
    BY Zenon DEF Merged
<1>11. Device \in Devices
  BY StoreAssumption
<1>12. merged[k] \in Record \cup {None}
  <2>1. MergeRecord(c.base[k], inc[k], Current[k], known, Device, clock + 1)
          \in Record \cup {None}
    BY <1>1, <1>4, <1>6, <1>11, MergeRecordType
  <2>2. QED
    BY <1>10, <2>1
<1>13. merged[k] # None => StampedRecord(merged[k], t + 1)
  BY <1>1, <1>4, <1>6, <1>9, <1>10, MergeStamped
<1>14. QED
  BY <1>4, <1>6, <1>9, <1>10, <1>12, <1>13

LEMMA SaveKeepsStampInv ==
  ASSUME NEW t \in Nat, StampInvUpTo(t), TypeOK', NEW m \in net, HandleSave(m)
  PROVE  StampInvUpTo(t + 1)'
<1> DEFINE c == Claim(m.page)
           inc == Incoming(m, c.base, clock + 1)
           merged == Merged(m, c.base, inc, clock + 1)
<1>1. /\ clock' = clock + 1 /\ served' = c.served /\ cache' = merged
      /\ disk' = [k \in Keys |->
                    IF merged[k] # None /\ RecordChangedSinceBase(merged[k], c.base[k])
                    THEN merged[k] ELSE disk[k]]
      /\ base' = IF c.granted
                 THEN [k \in Keys |-> AcknowledgedBase(c.base[k], inc[k], merged[k])]
                 ELSE c.base
  BY DEF HandleSave
<1>2. m.page \in Pages /\ clock \in Nat /\ Device \in Devices /\ clock + 1 \in Nat /\ disk \in Tree
  BY StoreAssumption DEF StampInvUpTo, TypeOK, Message
<1>3. /\ c.base \in Base /\ StampedBase(c.base, t) /\ Knows(c.base, disk)
      /\ \A j \in DOMAIN c.served : StampedBase(c.served[j].base, t) /\ Knows(c.served[j].base, disk)
      /\ \A j \in DOMAIN c.served : \E i \in DOMAIN served : c.served[j] = served[i]
  BY <1>2, ClaimStamped, ClaimProperties DEF StampInvUpTo
<1>4. ASSUME NEW k \in Keys
      PROVE  /\ c.base[k] \in Fingerprint \cup {None}
             /\ c.base[k] # None => Current[k] # None
             /\ merged[k] \in Record \cup {None}
             /\ merged[k] # None => StampedRecord(merged[k], t + 1)
             /\ merged[k] = None => Current[k] = None
  <2>1. /\ c.base[k] \in Fingerprint \cup {None}
        /\ c.base[k] # None => Current[k] # None
        /\ inc[k] \in Record \cup {None} /\ Current[k] \in Record \cup {None}
        /\ merged[k] \in Record \cup {None}
        /\ merged[k] # None => StampedRecord(merged[k], t + 1)
        /\ \E known \in BOOLEAN :
              merged[k] = MergeRecord(c.base[k], inc[k], Current[k], known, Device, clock + 1)
    BY SaveMerges
  <2> HIDE DEF c, inc, merged
  <2>2. PICK known \in BOOLEAN :
          merged[k] = MergeRecord(c.base[k], inc[k], Current[k], known, Device, clock + 1)
    BY <2>1
  <2>3. merged[k] = None => Current[k] = None
    <3> DEFINE b == c.base[k]
               i == inc[k]
               cur == Current[k]
               r == merged[k]
    <3>1. /\ b \in Fingerprint \cup {None} /\ i \in Record \cup {None}
          /\ cur \in Record \cup {None} /\ (b # None => cur # None)
          /\ r = MergeRecord(b, i, cur, known, Device, clock + 1)
      BY <2>1, <2>2
    <3> HIDE DEF b, i, cur, r
    <3>2. r = None => cur = None
      BY <1>2, <3>1, MergeKeepsKeys
    <3>3. QED
      BY <3>2 DEF r, cur
  <2>4. QED
    BY <2>1, <2>3
<1>5. \A k \in Keys : Current[k] = None <=> disk[k] = None
  BY CurrentStamped
<1> HIDE DEF c, inc, merged
<1>6. ASSUME NEW k \in Keys
      PROVE  /\ disk[k] # None => disk'[k] # None
             /\ merged[k] = None <=> disk'[k] = None
  <2>1. disk'[k] = IF merged[k] # None /\ RecordChangedSinceBase(merged[k], c.base[k])
                   THEN merged[k] ELSE disk[k]
    BY <1>1
  <2>2. c.base[k] # None => disk[k] # None
    BY <1>3 DEF Knows
  <2>3. QED
    BY <1>4, <1>5, <2>1, <2>2 DEF RecordChangedSinceBase
<1>7. StampedTree(disk, t + 1) /\ StampedTree(merged, t + 1)
  BY <1>2, <1>4, StampedTreeLater DEF StampInvUpTo, StampsUpTo, StampedTree
<1>8. StampedTree(disk', t + 1)
  BY <1>1, <1>7 DEF StampedTree
<1>9. StampedBase(c.base, t + 1) /\ Knows(c.base, disk')
  BY <1>2, <1>3, <1>6, StampedBaseLater DEF Knows
<1>10. ASSUME NEW k \in Keys, base'[k] # None
       PROVE  Stamped(base'[k].causal, t + 1) /\ disk'[k] # None
  <2>1. CASE ~c.granted
    BY <1>1, <1>9, <1>10, <2>1 DEF StampedBase, Knows
  <2>2. CASE c.granted
    <3>1. base'[k] = AcknowledgedBase(c.base[k], inc[k], merged[k])
      BY <1>1, <2>2
    <3>2. /\ c.base[k] \in Fingerprint \cup {None} /\ merged[k] \in Record \cup {None}
          /\ c.base[k] # None => Stamped(c.base[k].causal, t + 1)
          /\ merged[k] # None => StampedRecord(merged[k], t + 1)
      BY <1>4, <1>9 DEF StampedBase
    <3>3. Stamped(base'[k].causal, t + 1) /\ (c.base[k] # None \/ merged[k] # None)
      BY <1>10, <3>1, <3>2, AcknowledgedStamped
    <3>4. QED
      BY <1>6, <1>9, <3>3 DEF Knows
  <2>3. QED
    BY <2>1, <2>2
<1>11. ASSUME NEW j \in DOMAIN served'
       PROVE  StampedBase(served'[j].base, t + 1) /\ Knows(served'[j].base, disk')
  <2>1. /\ StampedBase(c.served[j].base, t) /\ Knows(c.served[j].base, disk)
        /\ \E i \in DOMAIN served : c.served[j] = served[i]
    BY <1>1, <1>3, <1>11
  <2>2. c.served[j].base \in Base
    BY <2>1, ServedElements DEF StampInvUpTo
  <2>3. QED
    BY <1>1, <1>2, <1>6, <2>1, <2>2, StampedBaseLater DEF Knows
<1>12. StampsUpTo(t + 1)' /\ clock' <= t + 1
  BY <1>1, <1>2, <1>7, <1>8, <1>10, <1>11 DEF StampInvUpTo, StampsUpTo, StampedBase
<1>13. KnownKeysExist'
  BY <1>1, <1>6, <1>10, <1>11 DEF KnownKeysExist, Knows
<1>14. QED
  BY <1>12, <1>13 DEF StampInvUpTo

\* A step that writes moves the bound with the clock, no other step moves it.
LEMMA StampStep ==
  ASSUME NEW t \in Nat, StampInvUpTo(t), [Next]_vars
  PROVE  \/ StampInvUpTo(t)' /\ clock' <= clock
         \/ StampInvUpTo(t + 1)' /\ clock' = clock + 1
<1>1. TypeOK' /\ clock \in Nat /\ clock <= t
  BY TypeStep DEF StampInvUpTo, TypeOK
<1>2. CASE UNCHANGED store
  BY <1>1, <1>2 DEF store, StampInvUpTo, StampsUpTo, KnownKeysExist
<1>3. ASSUME NEW p \in Pages, PageStep(p)
      PROVE  \/ StampInvUpTo(t)' /\ clock' <= clock
             \/ StampInvUpTo(t + 1)' /\ clock' = clock + 1
  <2>1. CASE Serve(p)
    <3>1. StampInvUpTo(t)'
      BY <1>1, <2>1, ServeKeepsStampInv
    <3>2. clock' = clock
      BY <2>1 DEF Serve
    <3>3. QED
      BY <1>1, <3>1, <3>2
  <2>2. ASSUME NEW k \in Keys, NEW d \in Data, UpsertText(p, k, d)
        PROVE  StampInvUpTo(t + 1)' /\ clock' = clock + 1
    <3>1. StampInvUpTo(t + 1)'
      BY <1>1, <2>2, UpsertKeepsStampInv
    <3>2. QED
      BY <2>2, <3>1 DEF UpsertText
  <2>3. ASSUME NEW k \in Keys, DeleteText(p, k)
        PROVE  StampInvUpTo(t + 1)' /\ clock' = clock + 1
    <3>1. StampInvUpTo(t + 1)'
      BY <1>1, <2>3, DeleteKeepsStampInv
    <3>2. QED
      BY <2>3, <3>1 DEF DeleteText
  <2>4. CASE Boot(p) \/ (\E k \in Keys, d \in Content : Edit(p, k, d)) \/ SendSave(p)
             \/ FetchSnapshot(p) \/ ApplySnapshot(p) \/ Hide(p) \/ Exit(p)
    BY <1>2, <2>4 DEF Boot, Edit, SendSave, FetchSnapshot, ApplySnapshot, Hide, Exit
  <2>5. QED
    BY <1>3, <2>1, <2>2, <2>3, <2>4 DEF PageStep
<1>4. ASSUME NEW m \in net, RequestStep(m)
      PROVE  \/ StampInvUpTo(t)' /\ clock' <= clock
             \/ StampInvUpTo(t + 1)' /\ clock' = clock + 1
  <2>1. CASE Lose(m)
    BY <1>2, <2>1 DEF Lose
  <2>2. CASE HandleSave(m)
    <3>1. StampInvUpTo(t + 1)'
      BY <1>1, <2>2, SaveKeepsStampInv
    <3>2. QED
      BY <2>2, <3>1 DEF HandleSave
  <2>3. CASE HandleAck(m)
    <3>1. StampInvUpTo(t)'
      BY <1>1, <2>3, AckKeepsStampInv
    <3>2. QED
      BY <1>1, <2>3, <3>1 DEF HandleAck
  <2>4. QED
    BY <1>4, <2>1, <2>2, <2>3 DEF RequestStep
<1>5. CASE Restart
  <2>1. /\ UNCHANGED disk /\ cache' = None /\ served' = <<>> /\ clock' \in 0..clock
        /\ \A k \in Keys : base'[k] = None
    BY <1>5 DEF Restart, EmptyBase
  <2>2. StampsUpTo(t)' /\ KnownKeysExist' /\ clock' <= clock /\ clock' <= t
    BY <1>1, <2>1 DEF StampInvUpTo, StampsUpTo, KnownKeysExist, StampedBase, Knows
  <2>3. QED
    BY <1>1, <2>2 DEF StampInvUpTo
<1>6. CASE UNCHANGED vars
  BY <1>2, <1>6 DEF vars, store
<1>7. QED
  BY <1>3, <1>4, <1>5, <1>6 DEF Next

LEMMA StampInvStep ==
  ASSUME StampInv, [Next]_vars
  PROVE  StampInv'
<1>1. PICK t \in Nat : StampInvUpTo(t)
  BY DEF StampInv
<1>2. StampInvUpTo(t)' \/ StampInvUpTo(t + 1)'
  BY <1>1, StampStep
<1>3. QED
  BY <1>2 DEF StampInv

-------------------------------------------------------------------------------
(* What holds in every behaviour.                                          *)

\* The inductive invariant of the stamps.
THEOREM Stamps == Spec => []StampInv
<1>1. Init => StampInv
  BY InitStampInv
<1>2. StampInv /\ [Next]_vars => StampInv'
  BY StampInvStep
<1>3. QED
  BY <1>1, <1>2, PTL DEF Spec

\* Once the clock is past every stamp, no write bears a time that a record,
\* a cached record or a base already bears, until a start with the wall clock
\* set back (fingerprints.rs: now_millis; causal.rs: bump_causal).
THEOREM ClockIsAhead == Spec => ClockCoversEveryRecord
<1>1. StampInv /\ [Next]_vars
        => [StampsUpTo(clock) /\ clock' >= clock => StampsUpTo(clock)']_vars
  <2>1. SUFFICES ASSUME StampInv, [Next]_vars, StampsUpTo(clock), clock' >= clock
                 PROVE  StampsUpTo(clock)'
    OBVIOUS
  <2>2. clock \in Nat /\ TypeOK /\ KnownKeysExist
    BY <2>1 DEF StampInv, StampInvUpTo, TypeOK
  <2>3. PICK t \in Nat : t = clock
    BY <2>2
  <2>4. StampInvUpTo(t)
    BY <2>1, <2>2, <2>3 DEF StampInvUpTo
  <2>5. \/ StampInvUpTo(t)' /\ clock' <= clock
        \/ StampInvUpTo(t + 1)' /\ clock' = clock + 1
    BY <2>1, <2>4, StampStep
  <2>6. clock' \in Nat
    BY <2>5 DEF StampInvUpTo, TypeOK
  <2>7. CASE StampInvUpTo(t)' /\ clock' = t
    BY <2>7 DEF StampInvUpTo
  <2>8. CASE StampInvUpTo(t + 1)' /\ clock' = t + 1
    BY <2>8 DEF StampInvUpTo
  <2>9. QED
    BY <2>1, <2>2, <2>3, <2>5, <2>6, <2>7, <2>8
<1>2. QED
  BY <1>1, Stamps, PTL DEF Spec, ClockCoversEveryRecord

\* A record that a page changed and sends reaches the disk as it is, if its
\* stamp is later than that of the record there - which only a start with the
\* wall clock set back can prevent: no tombstone, no earlier write of the
\* backend or of another page wins over it (merge.rs: merge_records;
\* fingerprints.rs: prepare_local_records).
THEOREM SentEditsWin == Spec => SavedEditsWin
<1>1. StampInv /\ [Next]_vars =>
        [\A m \in net : \A k \in m.sent :
           /\ m.mem[k] # Gone /\ Entitled(m)
           /\ (Claim(m.page).base[k] = None \/ Claim(m.page).base[k].hash # m.mem[k])
           /\ OutstampsCurrent(m, k)
           /\ HandleSave(m)
           => disk'[k] # None /\ disk'[k].data = m.mem[k]]_vars
  <2>1. SUFFICES ASSUME StampInv, NEW m \in net, NEW k \in m.sent, m.mem[k] # Gone,
                        Claim(m.page).base[k] = None \/ Claim(m.page).base[k].hash # m.mem[k],
                        OutstampsCurrent(m, k), HandleSave(m)
                 PROVE  disk'[k] # None /\ disk'[k].data = m.mem[k]
    OBVIOUS
  <2> DEFINE c == Claim(m.page)
             inc == Incoming(m, c.base, clock + 1)
             merged == Merged(m, c.base, inc, clock + 1)
  <2>0. PICK t \in Nat : StampInvUpTo(t)
    BY <2>1 DEF StampInv
  <2>2. k \in Keys /\ clock \in Nat /\ Device \in Devices
    BY <2>0, <2>1, StoreAssumption DEF StampInvUpTo, TypeOK, Message
  <2>3. /\ c.base[k] \in Fingerprint \cup {None} /\ Current[k] \in Record \cup {None}
        /\ c.base[k] # None => Current[k] # None
        /\ inc[k] \in Record /\ inc[k].data = m.mem[k]
        /\ Outstamps(inc[k], c.base[k], Current[k], clock + 1)
        /\ Current[k] # None => StampedRecord(Current[k], t)
        /\ \E known \in BOOLEAN :
              merged[k] = MergeRecord(c.base[k], inc[k], Current[k], known, Device, clock + 1)
    BY <2>0, <2>1, <2>2, SaveMerges, NoneIsNoRecord
  <2>4. disk'[k] = IF merged[k] # None /\ RecordChangedSinceBase(merged[k], c.base[k])
                   THEN merged[k] ELSE disk[k]
    BY <2>1, <2>2 DEF HandleSave
  <2>5. \/ Current[k] = None \/ Current[k].causal[Device] <= clock
        \/ IF c.base[k] = None THEN IsTombstone(Current[k])
           ELSE c.base[k].causal[Device] >= Current[k].causal[Device]
    BY <2>1 DEF OutstampsCurrent
  <2> HIDE DEF c, inc, merged
  <2>6. Current[k] # None => Descends(inc[k].causal, Current[k].causal)
    <3>1. SUFFICES ASSUME Current[k] # None
                   PROVE  Descends(inc[k].causal, Current[k].causal)
      OBVIOUS
    <3>2. /\ Current[k] \in Record /\ Current[k].causal[Device] \in Nat
          /\ inc[k].causal[Device] \in Nat
          /\ c.base[k] # None => c.base[k].causal[Device] \in Nat
      BY <2>2, <2>3, <3>1 DEF Record, Fingerprint, Clock
    <3>3. inc[k].causal[Device] > Current[k].causal[Device]
      BY <2>2, <2>3, <2>5, <3>1, <3>2 DEF Outstamps
    <3>4. QED
      BY <2>3, <3>1, <3>2, <3>3, LaterDescends
  <2>7. PICK known \in BOOLEAN :
          merged[k] = MergeRecord(c.base[k], inc[k], Current[k], known, Device, clock + 1)
    BY <2>3
  <2>8. c.base[k] = None \/ c.base[k].hash # inc[k].data
    BY <2>1, <2>3 DEF c
  <2>9. merged[k] # None /\ merged[k].data = m.mem[k]
    <3>1. CurrentChanged(c.base[k], Current[k]) \/ IsTombstone(Current[k]) => Current[k] # None
      BY <2>3 DEF CurrentChanged, IsTombstone
    <3>2. QED
      BY <2>2, <2>3, <2>6, <2>7, <2>8, <3>1, ChangedRecordWins
  <2>10. QED
    BY <2>3, <2>4, <2>8, <2>9 DEF RecordChangedSinceBase
<1>2. QED
  BY <1>1, Stamps, PTL DEF Spec, SavedEditsWin

-------------------------------------------------------------------------------
(* What a page has not changed.                                            *)

\* m is a message there was, or what a live page sends of the records it
\* has not changed.
Derived(m) ==
  \/ \E n \in Messages : n.page = m.page /\ n.mem = m.mem
  \/ /\ phase[m.page] = "live"
     /\ \A k \in Keys \ touched'[m.page] : m.mem[k] = mem[m.page][k]

\* The part of a step that a base does not see.
PageSideKept ==
  /\ \A p \in Pages : touched[p] \subseteq touched'[p]
  /\ buried \subseteq buried'
  /\ \A p \in Pages : phase'[p] \in {"served", "live"} =>
       /\ phase[p] \in {"served", "live"}
       /\ \A k \in Keys \ touched'[p] : mem'[p][k] = mem[p][k]
  /\ \A m \in net' \cup ({pending'} \ {None}) : Derived(m)

LEMMA AgreementKept ==
  ASSUME PageSideKept, NEW p \in Pages, NEW b, Agrees(p, b),
         NEW c, \A k \in Keys \ (touched[p] \cup buried') : HashOf(c[k]) = HashOf(b[k])
  PROVE  \A k \in Keys \ (touched'[p] \cup buried') :
           /\ phase'[p] \in {"served", "live"} => mem'[p][k] = HashOf(c[k])
           /\ \A m \in net' \cup ({pending'} \ {None}) : m.page = p => m.mem[k] = HashOf(c[k])
<1>1. TAKE k \in Keys \ (touched'[p] \cup buried')
<1>2. k \in Keys \ (touched[p] \cup buried)
  BY DEF PageSideKept
<1>3. HashOf(c[k]) = HashOf(b[k])
  BY DEF PageSideKept
<1>4. phase'[p] \in {"served", "live"} => mem'[p][k] = HashOf(c[k])
  BY <1>2, <1>3 DEF PageSideKept, Agrees
<1>5. ASSUME NEW m \in net' \cup ({pending'} \ {None}), m.page = p
      PROVE  m.mem[k] = HashOf(c[k])
  <2>1. Derived(m)
    BY DEF PageSideKept
  <2>2. ASSUME NEW n \in Messages, n.page = m.page, n.mem = m.mem
        PROVE  m.mem[k] = HashOf(c[k])
    BY <1>2, <1>3, <1>5, <2>2 DEF Agrees
  <2>3. CASE phase[p] = "live" /\ m.mem[k] = mem[p][k]
    BY <1>2, <1>3, <2>3 DEF Agrees
  <2>4. QED
    BY <1>5, <2>1, <2>2, <2>3 DEF Derived
<1>6. QED
  BY <1>4, <1>5

LEMMA AgreesKept ==
  ASSUME PageSideKept, NEW p \in Pages, NEW b, Agrees(p, b)
  PROVE  Agrees(p, b)'
BY AgreementKept DEF Agrees, HashOf, Messages

LEMMA QuietStep ==
  ASSUME TypeOK, UntouchedIsBase, PageSideKept, UNCHANGED <<base, owner, served>>
  PROVE  UntouchedIsBase'
<1>1. owner # NoPage => owner \in Pages
  BY DEF TypeOK
<1>2. ASSUME owner # NoPage
      PROVE  Agrees(owner, base)'
  <2>1. Agrees(owner, base)
    BY <1>2 DEF UntouchedIsBase
  <2>2. \A b : \A p \in Pages : Agrees(p, b) => Agrees(p, b)'
    BY AgreesKept
  <2>3. QED
    BY <1>1, <1>2, <2>1, <2>2 DEF Agrees, Messages
<1>3. ASSUME NEW i \in DOMAIN served
      PROVE  Agrees(served[i].page, served[i].base)'
  <2>1. Agrees(served[i].page, served[i].base) /\ served[i].page \in Pages
    BY ServedElements DEF UntouchedIsBase
  <2>2. QED
    BY <2>1, AgreesKept DEF Agrees, Messages
<1>4. QED
  BY <1>2, <1>3 DEF UntouchedIsBase

LEMMA DerivedOld ==
  ASSUME NEW m \in Messages
  PROVE  Derived(m)
BY DEF Derived

LEMMA PageStepKeepsAgreement ==
  ASSUME IInv, UntouchedIsBase, NEW p \in Pages,
         \/ Boot(p)
         \/ \E k \in Keys, d \in Content : Edit(p, k, d)
         \/ SendSave(p)
         \/ FetchSnapshot(p)
         \/ ApplySnapshot(p)
         \/ Hide(p)
         \/ Exit(p)
         \/ \E k \in Keys, d \in Data : UpsertText(p, k, d)
         \/ \E k \in Keys : DeleteText(p, k)
  PROVE  UntouchedIsBase'
<1> DEFINE Own(m) == m.page = p /\ \A k \in Keys \ touched'[p] : m.mem[k] = mem[p][k]
<1>1. TypeOK /\ pending \in Message \cup {None} /\ net \subseteq Message
  BY DEF IInv, TypeOK
<1>2. \A m : Own(m) /\ phase[p] = "live" => Derived(m)
  BY DEF Derived
<1>3. ASSUME UNCHANGED <<base, owner, served, buried, mem, touched>>,
             \A q \in Pages : phase'[q] \in {"served", "live"} => phase[q] \in {"served", "live"},
             \A m \in net' \cup ({pending'} \ {None}) : Derived(m)
      PROVE  UntouchedIsBase'
  BY <1>1, <1>3, QuietStep DEF PageSideKept
<1>4. CASE Boot(p)
  <2>1. /\ UNCHANGED <<base, owner, served, buried, mem, touched, pending>>
        /\ phase' = [phase EXCEPT ![p] = "live"] /\ phase[p] = "served"
        /\ net' = net \cup Replayed(p)
    BY <1>4 DEF Boot, store, history, ghosts
  <2>2. \A m \in Replayed(p) : Derived(m)
    <3>1. ASSUME pending # None
          PROVE  Derived([pending EXCEPT !.kind = "replay", !.from = p])
      <4> DEFINE r == [pending EXCEPT !.kind = "replay", !.from = p]
      <4>1. pending \in Messages
        BY <3>1 DEF Messages
      <4>2. pending \in Message
        BY <1>1, <3>1
      <4>3. pending.page = r.page /\ pending.mem = r.mem
        BY <4>2 DEF Message
      <4> HIDE DEF r
      <4>4. QED
        BY <4>1, <4>3 DEF Derived, r
    <3>2. QED
      BY <3>1 DEF Replayed
  <2>3. \A m \in net' \cup ({pending'} \ {None}) : Derived(m)
    BY <2>1, <2>2, DerivedOld DEF Messages
  <2>4. \A q \in Pages : phase'[q] \in {"served", "live"} => phase[q] \in {"served", "live"}
    BY <1>1, <2>1 DEF TypeOK
  <2>5. QED
    BY <1>3, <2>1, <2>3, <2>4
<1>5. ASSUME NEW k \in Keys, NEW d \in Content, Edit(p, k, d)
      PROVE  UntouchedIsBase'
  <2>1. /\ UNCHANGED <<base, owner, served, buried, phase, pending, net>>
        /\ mem' = [mem EXCEPT ![p][k] = d] /\ touched' = [touched EXCEPT ![p] = @ \cup {k}]
    BY <1>5 DEF Edit, store
  <2>2. \A q \in Pages : /\ touched[q] \subseteq touched'[q]
                         /\ \A j \in Keys \ touched'[q] : mem'[q][j] = mem[q][j]
    BY <1>1, <2>1 DEF TypeOK, Memory
  <2>3. \A m \in net' \cup ({pending'} \ {None}) : Derived(m)
    BY <2>1, DerivedOld DEF Messages
  <2>4. PageSideKept
    BY <2>1, <2>2, <2>3 DEF PageSideKept
  <2>5. QED
    BY <1>1, <2>1, <2>4, QuietStep
<1>6. CASE SendSave(p)
  <2>1. /\ UNCHANGED <<base, owner, served, buried, phase, pending, mem, touched>>
        /\ phase[p] = "live"
        /\ \E sent \in {dirty[p], Keys} : net' = net \cup {Request("save", p, p, sent, mem[p])}
    BY <1>6 DEF SendSave, store, ghosts
  <2>2. \A sent : Own(Request("save", p, p, sent, mem[p]))
    BY DEF Request
  <2>3. \A m \in net' \cup ({pending'} \ {None}) : Derived(m)
    BY <1>2, <2>1, <2>2, DerivedOld DEF Messages
  <2>4. QED
    BY <1>3, <2>1, <2>3
<1>7. CASE FetchSnapshot(p)
  <2>1. UNCHANGED <<base, owner, served, buried, phase, pending, mem, touched, net>>
    BY <1>7 DEF FetchSnapshot, store, ghosts
  <2>2. \A m \in net' \cup ({pending'} \ {None}) : Derived(m)
    BY <2>1, DerivedOld DEF Messages
  <2>3. QED
    BY <1>3, <2>1, <2>2
<1>8. CASE ApplySnapshot(p)
  <2>1. /\ UNCHANGED <<base, owner, served, buried, phase, pending>> /\ phase[p] = "live"
        /\ mem' = [mem EXCEPT ![p] = fetched[p]]
        /\ touched' = [touched EXCEPT ![p] = @ \cup {k \in Keys : mem[p][k] # fetched[p][k]}]
        /\ net' = net \cup {Request("ack", p, p, Keys, fetched[p])}
    BY <1>8 DEF ApplySnapshot, store
  <2>2. \A k \in Keys \ touched'[p] : mem[p][k] = fetched[p][k]
    BY <1>1, <2>1 DEF TypeOK
  <2>3. \A q \in Pages : /\ touched[q] \subseteq touched'[q]
                         /\ \A j \in Keys \ touched'[q] : mem'[q][j] = mem[q][j]
    BY <1>1, <2>1, <2>2 DEF TypeOK
  <2>4. Own(Request("ack", p, p, Keys, fetched[p]))
    BY <2>2 DEF Request
  <2>5. \A m \in net' \cup ({pending'} \ {None}) : Derived(m)
    BY <1>2, <2>1, <2>4, DerivedOld DEF Messages
  <2>6. PageSideKept
    BY <2>1, <2>3, <2>5 DEF PageSideKept
  <2>7. QED
    BY <1>1, <2>1, <2>6, QuietStep
<1>9. Own(LastSave(p))
  BY DEF LastSave, Request
<1>10. CASE Hide(p)
  <2>1. /\ UNCHANGED <<base, owner, served, buried, phase, pending, mem, touched>>
        /\ phase[p] = "live" /\ net' \subseteq net \cup {LastSave(p)}
    BY <1>10 DEF Hide, Flushed, store, ghosts
  <2>2. \A m \in net' \cup ({pending'} \ {None}) : Derived(m)
    BY <1>2, <1>9, <2>1, DerivedOld DEF Messages
  <2>3. QED
    BY <1>3, <2>1, <2>2
<1>11. CASE Exit(p)
  <2>1. /\ UNCHANGED <<base, owner, served, buried, touched>>
        /\ phase[p] = "live" /\ phase' = [phase EXCEPT ![p] = "gone"]
        /\ mem' = [mem EXCEPT ![p] = EmptyMemory]
        /\ net' \subseteq net \cup {LastSave(p)} /\ pending' \in {LastSave(p), pending}
    BY <1>11 DEF Exit, Flushed, store
  <2>2. \A m \in net' \cup ({pending'} \ {None}) : Derived(m)
    BY <1>2, <1>9, <2>1, DerivedOld DEF Messages
  <2>3. \A q \in Pages : phase'[q] \in {"served", "live"} =>
          phase[q] \in {"served", "live"} /\ mem'[q] = mem[q]
    BY <1>1, <2>1 DEF TypeOK
  <2>4. PageSideKept
    BY <2>1, <2>2, <2>3 DEF PageSideKept
  <2>5. QED
    BY <1>1, <2>1, <2>4, QuietStep
<1>12. ASSUME NEW k \in Keys, NEW d \in Data, UpsertText(p, k, d)
       PROVE  UntouchedIsBase'
  <2>1. UNCHANGED <<base, owner, served, buried, phase, pending, mem, touched, net>>
    BY <1>12 DEF UpsertText, browser
  <2>2. \A m \in net' \cup ({pending'} \ {None}) : Derived(m)
    BY <2>1, DerivedOld DEF Messages
  <2>3. QED
    BY <1>3, <2>1, <2>2
<1>13. ASSUME NEW k \in Keys, DeleteText(p, k)
       PROVE  UntouchedIsBase'
  <2>1. /\ UNCHANGED <<base, owner, served, phase, pending, mem, touched, net>>
        /\ buried \subseteq buried'
    BY <1>13 DEF DeleteText, browser
  <2>2. \A m \in net' \cup ({pending'} \ {None}) : Derived(m)
    BY <2>1, DerivedOld DEF Messages
  <2>3. PageSideKept
    BY <2>1, <2>2 DEF PageSideKept
  <2>4. QED
    BY <1>1, <2>1, <2>3, QuietStep
<1>14. QED
  BY <1>4, <1>5, <1>6, <1>7, <1>8, <1>10, <1>11, <1>12, <1>13

LEMMA LoseKeepsAgreement ==
  ASSUME IInv, UntouchedIsBase, NEW m \in net, Lose(m)
  PROVE  UntouchedIsBase'
<1>1. /\ TypeOK
      /\ UNCHANGED <<base, owner, served, buried, phase, pending, mem, touched>> /\ net' \subseteq net
  BY DEF Lose, store, IInv
<1>2. \A r \in net' \cup ({pending'} \ {None}) : Derived(r)
  BY <1>1, DerivedOld DEF Messages
<1>3. PageSideKept
  BY <1>1, <1>2 DEF PageSideKept
<1>4. QED
  BY <1>1, <1>3, QuietStep

\* A page that is served gets the snapshot and a base that says the same.
LEMMA ServeKeepsAgreement ==
  ASSUME IInv, UntouchedIsBase, NEW p \in Pages, Serve(p)
  PROVE  UntouchedIsBase'
<1> DEFINE fp == Fingerprints(disk)
           new == [page |-> p, base |-> fp]
           queue == Append(served, new)
<1>1. /\ TypeOK /\ phase[p] = "unborn" /\ UNCHANGED <<owner, pending, net, touched, buried>>
      /\ base' = IF owner = NoPage THEN fp ELSE base
      /\ served' \in {queue, Tail(queue)}
      /\ phase' = [phase EXCEPT ![p] = "served"]
      /\ mem' = [mem EXCEPT ![p] = Snapshot]
  BY DEF Serve, IInv
<1>2. fp \in Base
  BY <1>1, FingerprintOfType DEF Fingerprints, Base, TypeOK, Tree
<1>3. \A k \in Keys : Snapshot[k] = HashOf(fp[k])
  <2>1. TAKE k \in Keys
  <2>2. disk[k] \in Record \cup {None} /\ FingerprintOf(disk[k]) \in Fingerprint \cup {None}
    BY <1>1, FingerprintOfType DEF TypeOK, Tree
  <2>3. fp[k] = FingerprintOf(disk[k])
    BY DEF Fingerprints
  <2>4. Snapshot[k] = IF IsLive(disk[k]) THEN disk[k].data ELSE Gone
    BY DEF Snapshot
  <2> HIDE DEF fp
  <2>5. CASE disk[k] = None
    BY <2>3, <2>4, <2>5 DEF FingerprintOf, HashOf, IsLive
  <2>6. CASE disk[k] # None
    <3>1. fp[k] = [hash |-> disk[k].data, causal |-> disk[k].causal]
      BY <2>3, <2>6 DEF FingerprintOf
    <3>2. fp[k] \in Fingerprint
      BY <2>2, <2>6, <3>1 DEF Record, Fingerprint
    <3>3. HashOf(fp[k]) = disk[k].data
      BY <3>1, <3>2, NoneIsNoRecord DEF HashOf
    <3>4. QED
      BY <2>4, <2>6, <3>3 DEF IsLive
  <2>7. QED
    BY <2>5, <2>6
<1>4. \A m \in Messages : m.page \in Pages /\ m.page # p
  BY <1>1 DEF IInv, PagesSendWhatTheyHold, Messages, TypeOK, Message
<1>5. \A q \in Pages \ {p} : phase'[q] = phase[q] /\ mem'[q] = mem[q]
  BY <1>1 DEF TypeOK
<1>6. Agrees(p, fp)'
  <2>1. mem'[p] = Snapshot
    BY <1>1 DEF TypeOK
  <2>2. SUFFICES ASSUME NEW k \in Keys
                 PROVE  /\ mem'[p][k] = HashOf(fp[k])'
                        /\ \A m \in Messages' : m.page # p
    BY DEF Agrees
  <2>3. Messages' = Messages
    BY <1>1 DEF Messages
  <2>4. fp' = fp
    BY DEF Fingerprints, Serve
  <2>5. HashOf(fp[k])' = HashOf(fp[k])
    BY <2>4 DEF HashOf
  <2>6. QED
    BY <1>3, <1>4, <2>1, <2>3, <2>5
<1>7. \A b : \A q \in Pages \ {p} : Agrees(q, b) => Agrees(q, b)'
  BY <1>1, <1>5 DEF Agrees, Messages, HashOf
<1>8. /\ \A j \in DOMAIN queue : queue[j] = new \/ \E i \in DOMAIN served : queue[j] = served[i]
      /\ \A j \in DOMAIN Tail(queue) : \E i \in DOMAIN queue : Tail(queue)[j] = queue[i]
  <2>1. queue = Append(served, [page |-> p, base |-> fp])
    OBVIOUS
  <2>2. new = [page |-> p, base |-> fp]
    OBVIOUS
  <2>3. TypeOK
    BY <1>1
  <2> HIDE DEF queue, fp, new
  <2>4. QED
    BY <1>2, <2>1, <2>2, <2>3, ServedQueueType
<1>9. new.page = p /\ new.base = fp /\ fp' = fp
  BY DEF Fingerprints, Serve
<1>0. served' \in {queue, Tail(queue)}
  BY <1>1
<1> HIDE DEF fp, new, queue
<1>10. \A j \in DOMAIN served' : served'[j] = new \/ \E i \in DOMAIN served : served'[j] = served[i]
  <2>1. CASE served' = queue
    BY <1>8, <2>1
  <2>2. CASE served' = Tail(queue)
    BY <1>8, <2>2
  <2>3. QED
    BY <1>0, <2>1, <2>2
<1>11. owner # p /\ \A i \in DOMAIN served : served[i].page \in Pages \ {p}
  BY <1>1, ServedElements, StoreAssumption DEF IInv, PagesSendWhatTheyHold
<1>12. ASSUME owner' # NoPage
       PROVE  Agrees(owner, base)'
  <2>1. owner \in Pages \ {p} /\ base' = base /\ owner' = owner
    BY <1>1, <1>11, <1>12 DEF TypeOK
  <2>2. Agrees(owner, base)
    BY <1>1, <1>12 DEF UntouchedIsBase
  <2>3. QED
    BY <1>7, <2>1, <2>2 DEF Agrees, Messages
<1>13. ASSUME NEW j \in DOMAIN served'
       PROVE  Agrees(served[j].page, served[j].base)'
  <2>1. CASE served'[j] = new
    BY <1>6, <1>9, <2>1 DEF Agrees, Messages
  <2>2. ASSUME NEW i \in DOMAIN served, served'[j] = served[i]
        PROVE  Agrees(served[j].page, served[j].base)'
    <3>1. Agrees(served[i].page, served[i].base) /\ served[i].page \in Pages \ {p}
      BY <1>11 DEF UntouchedIsBase
    <3>2. QED
      BY <1>7, <2>2, <3>1 DEF Agrees, Messages
  <2>3. QED
    BY <1>10, <2>1, <2>2
<1>14. QED
  BY <1>12, <1>13 DEF UntouchedIsBase

\* Whatever base a request claims agrees with the page it then belongs to.
LEMMA ClaimAgrees ==
  ASSUME IInv, UntouchedIsBase, NEW m \in net
  PROVE  LET c == Claim(m.page)
         IN  /\ c.granted => c.owner = m.page
             /\ c.owner \in Pages \cup {NoPage}
             /\ c.base \in Base
             /\ c.owner # NoPage => Agrees(c.owner, c.base)
             /\ \A j \in DOMAIN c.served : \E i \in DOMAIN served : c.served[j] = served[i]
<1> DEFINE c == Claim(m.page)
<1>1. TypeOK /\ m.page \in Pages
  BY DEF IInv, TypeOK, Message
<1>2. /\ c.owner \in Pages \cup {NoPage} /\ c.base \in Base
      /\ \/ c.owner = owner /\ c.base = base
         \/ c.owner = m.page /\ \E i \in DOMAIN served :
              served[i].page = m.page /\ c.base = served[i].base
      /\ \A j \in DOMAIN c.served : \E i \in DOMAIN served : c.served[j] = served[i]
  BY <1>1, ClaimProperties
<1>3. c.granted => c.owner = m.page
  BY ClaimedBaseIsKnown
<1> HIDE DEF c
<1>4. c.owner # NoPage => Agrees(c.owner, c.base)
  <2>1. CASE c.owner = owner /\ c.base = base
    BY <2>1 DEF UntouchedIsBase
  <2>2. ASSUME c.owner = m.page, NEW i \in DOMAIN served,
               served[i].page = m.page, c.base = served[i].base
        PROVE  Agrees(c.owner, c.base)
    <3>1. Agrees(served[i].page, served[i].base)
      BY DEF UntouchedIsBase
    <3>2. QED
      BY <2>2, <3>1
  <2>3. QED
    BY <1>2, <2>1, <2>2
<1>5. QED
  BY <1>2, <1>3, <1>4 DEF c

\* A handler that claims the base for m keeps the agreement if it moves the
\* base only where the page has changed something.
LEMMA ClaimKeepsAgreement ==
  ASSUME IInv, UntouchedIsBase, NEW m \in net,
         owner' = Claim(m.page).owner, served' = Claim(m.page).served,
         PageSideKept,
         \A k \in Keys \ (touched[m.page] \cup buried') :
           Claim(m.page).granted => HashOf(base'[k]) = HashOf(Claim(m.page).base[k]),
         ~Claim(m.page).granted => base' = Claim(m.page).base
  PROVE  UntouchedIsBase'
<1> DEFINE c == Claim(m.page)
<1>1. /\ c.granted => c.owner = m.page
      /\ c.owner \in Pages \cup {NoPage}
      /\ c.owner # NoPage => Agrees(c.owner, c.base)
      /\ \A j \in DOMAIN c.served : \E i \in DOMAIN served : c.served[j] = served[i]
  BY ClaimAgrees
<1>2. owner' = c.owner /\ served' = c.served
  OBVIOUS
<1>3. \A k \in Keys \ (touched[c.owner] \cup buried') : HashOf(base'[k]) = HashOf(c.base[k])
  BY <1>1
<1> HIDE DEF c
<1>4. ASSUME owner' # NoPage
      PROVE  Agrees(owner, base)'
  <2>1. c.owner \in Pages /\ Agrees(c.owner, c.base)
    BY <1>1, <1>2, <1>4
  <2> DEFINE b0 == c.base
             p0 == c.owner
             b1 == base'
  <2>3. p0 \in Pages /\ Agrees(p0, b0)
        /\ \A k \in Keys \ (touched[p0] \cup buried') : HashOf(b1[k]) = HashOf(b0[k])
    BY <1>3, <2>1
  <2>4. \A k \in Keys \ (touched'[p0] \cup buried') :
          /\ phase'[p0] \in {"served", "live"} => mem'[p0][k] = HashOf(b1[k])
          /\ \A r \in net' \cup ({pending'} \ {None}) : r.page = p0 => r.mem[k] = HashOf(b1[k])
    <3> HIDE DEF b0, p0, b1
    <3>1. QED
      BY <2>3, AgreementKept
  <2>5. QED
    BY <1>2, <2>4 DEF Agrees, Messages, HashOf
<1>5. ASSUME NEW j \in DOMAIN served'
      PROVE  Agrees(served[j].page, served[j].base)'
  <2>1. PICK i \in DOMAIN served : served'[j] = served[i]
    BY <1>1, <1>2
  <2>2. Agrees(served[i].page, served[i].base) /\ served[i].page \in Pages
    BY ServedElements DEF UntouchedIsBase, IInv
  <2>3. \A b : \A p \in Pages : Agrees(p, b) => Agrees(p, b)'
    BY AgreesKept
  <2>4. QED
    BY <2>1, <2>2, <2>3 DEF Agrees, Messages
<1>6. QED
  BY <1>4, <1>5 DEF UntouchedIsBase

\* What the acknowledgement of one key leaves: as much as was known, if the
\* page sent what the base says, or nothing where there is nothing.
LEMMA AcknowledgedSame ==
  ASSUME NEW b \in Fingerprint \cup {None}, NEW inc \in Record \cup {None},
         NEW merged \in Record \cup {None},
         inc # None => inc.data = HashOf(b),
         inc = None /\ ~IsLive(merged) => HashOf(b) = Gone
  PROVE  HashOf(AcknowledgedBase(b, inc, merged)) = HashOf(b)
<1>1. CASE inc = None
  BY <1>1 DEF AcknowledgedBase, HashOf
<1>2. CASE inc # None /\ ~(merged # None /\ merged.data = inc.data)
  BY <1>2 DEF AcknowledgedBase
<1>3. CASE inc # None /\ merged # None /\ merged.data = inc.data
  <2>1. AcknowledgedBase(b, inc, merged) = FingerprintOf(merged)
    BY <1>3 DEF AcknowledgedBase
  <2>2. FingerprintOf(merged) = [hash |-> merged.data, causal |-> merged.causal]
    BY <1>3 DEF FingerprintOf
  <2>3. FingerprintOf(merged) \in Fingerprint
    BY <1>3, <2>2 DEF Record, Fingerprint
  <2>4. HashOf(FingerprintOf(merged)) = merged.data
    BY <2>2, <2>3, NoneIsNoRecord DEF HashOf
  <2>5. QED
    BY <1>3, <2>1, <2>4
<1>4. QED
  BY <1>1, <1>2, <1>3

LEMMA AckKeepsAgreement ==
  ASSUME WriteInv, NEW m \in net, HandleAck(m)
  PROVE  UntouchedIsBase'
<1> DEFINE c == Claim(m.page)
           inc == [k \in Keys |-> IF m.mem[k] # Gone
                                  THEN LiveRecord(m.mem[k], Device, clock) ELSE None]
<1>1. /\ IInv /\ UntouchedIsBase /\ TypeOK /\ m \in Message /\ clock \in Nat /\ Device \in Devices
      /\ m \in Messages
  BY StoreAssumption DEF WriteInv, IInv, TypeOK, Messages
<1>2. /\ UNCHANGED <<mem, phase, touched, buried, pending>> /\ net' \subseteq net
      /\ owner' = c.owner /\ served' = c.served
      /\ base' = IF c.granted
                 THEN [k \in Keys |-> AcknowledgedBase(c.base[k], inc[k], Current[k])]
                 ELSE c.base
  BY DEF HandleAck, browser, history, ghosts
<1>3. \A r \in net' \cup ({pending'} \ {None}) : Derived(r)
  BY <1>2, DerivedOld DEF Messages
<1>4. PageSideKept
  BY <1>2, <1>3 DEF PageSideKept
<1>5. c.base \in Base /\ (c.granted => c.owner = m.page)
      /\ (c.owner # NoPage => Agrees(c.owner, c.base)) /\ m.page # NoPage
  BY <1>1, ClaimAgrees, StoreAssumption DEF Message
<1>6. Current \in Tree
  BY <1>1, CurrentType
<1>7. ASSUME NEW k \in Keys \ (touched[m.page] \cup buried'), c.granted
      PROVE  HashOf(base'[k]) = HashOf(c.base[k])
  <2>1. m.mem[k] = HashOf(c.base[k])
    BY <1>1, <1>2, <1>5, <1>7 DEF Agrees
  <2>2. inc[k] = IF m.mem[k] # Gone THEN LiveRecord(m.mem[k], Device, clock) ELSE None
    OBVIOUS
  <2>3. m.mem[k] # Gone => m.mem[k] \in Data
    BY <1>1 DEF Message, Memory, Content
  <2>4. inc[k] \in Record \cup {None} /\ (inc[k] # None => inc[k].data = m.mem[k])
        /\ (inc[k] = None => m.mem[k] = Gone)
    <3>1. CASE m.mem[k] = Gone
      BY <2>2, <3>1
    <3>2. CASE m.mem[k] # Gone
      <4>1. LiveRecord(m.mem[k], Device, clock) \in Record
            /\ LiveRecord(m.mem[k], Device, clock).data = m.mem[k]
        BY <1>1, <2>3, <3>2, LiveRecordType
      <4>2. QED
        BY <2>2, <3>2, <4>1, NoneIsNoRecord
    <3>3. QED
      BY <3>1, <3>2
  <2>5. base'[k] = AcknowledgedBase(c.base[k], inc[k], Current[k])
    BY <1>2, <1>7
  <2>6. c.base[k] \in Fingerprint \cup {None} /\ Current[k] \in Record \cup {None}
    BY <1>5, <1>6 DEF Base, Tree
  <2> HIDE DEF c, inc
  <2>7. QED
    BY <2>1, <2>4, <2>5, <2>6, AcknowledgedSame
<1>8. ~c.granted => base' = c.base
  BY <1>2
<1>9. QED
  BY <1>1, <1>2, <1>4, <1>7, <1>8, ClaimKeepsAgreement

LEMMA AnswerDerives ==
  ASSUME TypeOK, NEW m \in net, Answer(m), UNCHANGED touched
  PROVE  \A r \in net' \cup ({pending'} \ {None}) : Derived(r)
<1>1. m \in Message /\ m \in Messages /\ net \subseteq Messages /\ ({pending} \ {None}) \subseteq Messages
  BY DEF TypeOK, Messages
<1>2. CASE Succeed(m) /\ phase[m.from] = "live" /\ UNCHANGED pending
  <2>1. \A r \in net' : \/ r \in net
                        \/ r.page = m.from /\ r.mem = mem[m.from]
    BY <1>2 DEF Succeed, Request
  <2>2. QED
    BY <1>1, <1>2, <2>1, DerivedOld DEF Derived
<1>3. CASE net' = net \ {m} /\ pending' \in {None, pending}
  BY <1>1, <1>3, DerivedOld
<1>4. CASE net' = (net \ {m}) \cup {[m EXCEPT !.tries = @ + 1]} /\ UNCHANGED pending
  <2>1. [m EXCEPT !.tries = @ + 1].page = m.page /\ [m EXCEPT !.tries = @ + 1].mem = m.mem
    BY <1>1 DEF Message
  <2>2. Derived([m EXCEPT !.tries = @ + 1])
    BY <1>1, <2>1 DEF Derived
  <2>3. QED
    BY <1>1, <1>4, <2>2, DerivedOld
<1>5. QED
  BY <1>2, <1>3, <1>4, Zenon DEF Answer

\* Of a record the page has not changed, its save sends what the base says,
\* or nothing, and the merge keeps what is there.
LEMMA UntouchedIsKept ==
  ASSUME WriteInv, NEW m \in net, NEW k \in Keys \ (touched[m.page] \cup buried),
         NEW c, c = Claim(m.page), c.granted, NEW inc, inc = Incoming(m, c.base, clock + 1),
         NEW merged, merged = Merged(m, c.base, inc, clock + 1)
  PROVE  /\ merged[k] = Current[k]
         /\ m.mem[k] = HashOf(c.base[k])
         /\ inc[k] # None => inc[k].data = m.mem[k]
<1>1. /\ IInv /\ UntouchedIsBase /\ TypeOK /\ m \in Message /\ m \in Messages /\ clock + 1 \in Nat
      /\ m.page \in Pages /\ m.page # NoPage
  BY StoreAssumption DEF WriteInv, IInv, TypeOK, Messages, Message
<1>2. /\ c.base \in Base /\ c.owner = m.page /\ Agrees(m.page, c.base)
      /\ c.base[k] # None => c.base[k].hash # Gone
  BY <1>1, ClaimAgrees, ClaimedBaseIsKnown
<1>3. m.mem[k] = HashOf(c.base[k])
  BY <1>1, <1>2 DEF Agrees
<1>4. inc[k] # None => inc[k].data = m.mem[k] /\ inc[k].data # Gone
  BY <1>1, <1>2, IncomingType
<1>5. ~IncomingChanged(c.base[k], inc[k], k \in LiveKeys(m.mem))
  <2>1. inc[k] # None => c.base[k] # None /\ inc[k].data = c.base[k].hash
    BY <1>3, <1>4 DEF HashOf
  <2>2. c.base[k] # None => k \in LiveKeys(m.mem)
    BY <1>2, <1>3 DEF HashOf, LiveKeys
  <2>3. QED
    BY <2>1, <2>2 DEF IncomingChanged, IncomingDeleted
<1>6. merged[k] = MergeRecord(c.base[k], inc[k], Current[k], k \in LiveKeys(m.mem), Device, clock + 1)
  BY Zenon DEF Merged
<1>7. merged[k] = Current[k]
  BY <1>5, <1>6, Zenon DEF MergeRecord
<1>8. QED
  BY <1>3, <1>4, <1>7

LEMMA SaveKeepsAgreement ==
  ASSUME WriteInv, NEW m \in net, HandleSave(m)
  PROVE  UntouchedIsBase'
<1> DEFINE c == Claim(m.page)
           inc == Incoming(m, c.base, clock + 1)
           merged == Merged(m, c.base, inc, clock + 1)
<1>1. IInv /\ UntouchedIsBase /\ StampInv /\ TypeOK
  BY DEF WriteInv, IInv
<1>2. /\ UNCHANGED <<mem, phase, touched>> /\ Answer(m) /\ buried \subseteq buried'
      /\ NewTombstones(Current, merged) \subseteq buried'
      /\ owner' = c.owner /\ served' = c.served
      /\ base' = IF c.granted
                 THEN [k \in Keys |-> AcknowledgedBase(c.base[k], inc[k], merged[k])]
                 ELSE c.base
  BY DEF HandleSave
<1>3. \A r \in net' \cup ({pending'} \ {None}) : Derived(r)
  BY <1>1, <1>2, AnswerDerives
<1>4. PageSideKept
  BY <1>2, <1>3 DEF PageSideKept
<1>5. ASSUME NEW k \in Keys \ (touched[m.page] \cup buried'), c.granted
      PROVE  HashOf(base'[k]) = HashOf(c.base[k])
  <2>1. k \in Keys \ (touched[m.page] \cup buried)
    BY <1>2
  <2>2. /\ merged[k] = Current[k] /\ m.mem[k] = HashOf(c.base[k])
        /\ inc[k] # None => inc[k].data = m.mem[k]
    BY <1>5, <2>1, UntouchedIsKept
  <2>3. /\ c.base[k] \in Fingerprint \cup {None} /\ inc[k] \in Record \cup {None}
        /\ merged[k] \in Record \cup {None} /\ (c.base[k] # None => Current[k] # None)
    BY <1>1, SaveMerges DEF StampInv
  <2>4. ~IsTombstone(merged[k])
    <3>1. ~IsTombstone(Current[k])
      BY <1>1, <2>1 DEF IInv, TombstonesAreBuried, Current
    <3>2. QED
      BY <2>2, <3>1
  <2>5. base'[k] = AcknowledgedBase(c.base[k], inc[k], merged[k])
    BY <1>2, <1>5
  <2> HIDE DEF c, inc, merged
  <2>6. ~IsLive(merged[k]) => HashOf(c.base[k]) = Gone
    BY <2>2, <2>3, <2>4 DEF IsLive, IsTombstone, HashOf
  <2>7. QED
    BY <2>2, <2>3, <2>5, <2>6, AcknowledgedSame
<1>6. ~c.granted => base' = c.base
  BY <1>2
<1>7. QED
  BY <1>1, <1>2, <1>4, <1>5, <1>6, ClaimKeepsAgreement

LEMMA WriteInvStep ==
  ASSUME WriteInv, [Next]_vars
  PROVE  WriteInv'
<1>1. IInv /\ StampInv /\ UntouchedIsBase /\ TypeOK
  BY DEF WriteInv, IInv
<1>2. IInv' /\ StampInv'
  BY <1>1, IInvStep, StampInvStep
<1>3. UntouchedIsBase'
  <2>1. ASSUME NEW p \in Pages, PageStep(p)
        PROVE  UntouchedIsBase'
    BY <1>1, <2>1, ServeKeepsAgreement, PageStepKeepsAgreement DEF PageStep
  <2>2. ASSUME NEW m \in net, RequestStep(m)
        PROVE  UntouchedIsBase'
    BY <1>1, <2>2, SaveKeepsAgreement, AckKeepsAgreement, LoseKeepsAgreement DEF RequestStep, WriteInv
  <2>3. CASE Restart
    BY <2>3 DEF Restart, UntouchedIsBase
  <2>4. CASE UNCHANGED vars
    <3>1. UNCHANGED <<base, owner, served, buried, phase, pending, mem, touched, net>>
      BY <2>4 DEF vars, store, browser, history, ghosts
    <3>2. \A r \in net' \cup ({pending'} \ {None}) : Derived(r)
      BY <3>1, DerivedOld DEF Messages
    <3>3. PageSideKept
      BY <3>1, <3>2 DEF PageSideKept
    <3>4. QED
      BY <1>1, <3>1, <3>3, QuietStep
  <2>5. QED
    BY <2>1, <2>2, <2>3, <2>4 DEF Next
<1>4. QED
  BY <1>2, <1>3 DEF WriteInv

\* The inductive invariant of what is not changed.
THEOREM Writes == Spec => []WriteInv
<1>1. Init => WriteInv
  <2>1. SUFFICES ASSUME Init
                 PROVE  UntouchedIsBase
    BY InitIInv, InitStampInv DEF WriteInv
  <2>2. QED
    BY <2>1 DEF Init, UntouchedIsBase
<1>2. WriteInv /\ [Next]_vars => WriteInv'
  BY WriteInvStep
<1>3. QED
  BY <1>1, <1>2, PTL DEF Spec

\* However late, repeated or out of order saves arrive: one that speaks for
\* its page leaves the contents of a record alone that was never deleted and
\* that the page's user has not changed (merge.rs: merge_records;
\* snapshot.rs: acknowledged_frontend_base).
THEOREM ForeignWritesStay == Spec => UntouchedRecordsKeepForeignWrites
<1>1. WriteInv /\ [Next]_vars =>
        [\A m \in net : \A k \in Keys \ buried :
           /\ IsLive(disk[k]) /\ IsLive(disk'[k]) /\ disk[k].data # disk'[k].data
           /\ Entitled(m) /\ HandleSave(m)
           => k \in touched[m.page]]_vars
  <2>1. SUFFICES ASSUME WriteInv, NEW m \in net, NEW k \in Keys \ buried, k \notin touched[m.page],
                        IsLive(disk[k]), Entitled(m), HandleSave(m)
                 PROVE  disk[k].data = disk'[k].data
    OBVIOUS
  <2> DEFINE c == Claim(m.page)
             inc == Incoming(m, c.base, clock + 1)
             merged == Merged(m, c.base, inc, clock + 1)
  <2>2. c.granted
    BY <2>1 DEF Entitled
  <2>3. merged[k] = Current[k]
    BY <2>1, <2>2, UntouchedIsKept
  <2>4. Current[k].data = disk[k].data
    BY <2>1 DEF WriteInv, IInv, CacheAgreesWithDisk, Current, IsLive
  <2>5. disk'[k] \in {merged[k], disk[k]}
    BY <2>1 DEF HandleSave
  <2>6. QED
    BY <2>3, <2>4, <2>5
<1>2. QED
  BY <1>1, Writes, PTL DEF Spec, UntouchedRecordsKeepForeignWrites
-------------------------------------------------------------------------------
(* The pages take turns.                                                   *)

Turns == {q \in Pages : turn[q] > 0}

\* Pages are served one after the other, wait in that order, and a page
\* served after the one in use has not been shown.
PagesTakeTurns ==
  /\ \A p \in Pages : phase[p] = "unborn" <=> turn[p] = 0
  /\ \A p \in Pages : turn[p] <= Cardinality(Turns)
  /\ \A p, q \in Pages : phase[p] = "live" /\ turn[q] > turn[p] => phase[q] = "served"
  /\ owner # NoPage => \A i \in DOMAIN served : turn[owner] < turn[served[i].page]
  /\ \A i, j \in DOMAIN served : i < j => turn[served[i].page] < turn[served[j].page]

\* Who speaks for whom: a page that was never shown is silent, only what a
\* closed page left behind is sent by another one, and a page has one save,
\* or one acknowledgement, under way at a time.
OneSpeaksAtATime ==
  /\ \A m \in Messages : phase[m.page] # "served"
  /\ \A m \in net : IF m.kind = "replay" THEN phase[m.page] = "gone" ELSE m.page = m.from
  /\ pending # None => phase[pending.page] = "gone"
  /\ \A m, n \in net : /\ m.kind \in {"save", "ack"} /\ n.kind \in {"save", "ack"}
                       /\ m.from = n.from
                       => m = n

DataOf(r) == IF r = None THEN Gone ELSE r.data

\* The bases the store keeps for a page: at most one, as it turns out.
BasesOf(p) ==
  {b \in Base : \/ owner = p /\ b = base
                \/ \E i \in DOMAIN served : served[i].page = p /\ served[i].base = b}

\* Fingerprint f says what record r says; of a tombstone it also knows the
\* stamp, or a later one.
Mirrors(f, r) ==
  /\ HashOf(f) = DataOf(r)
  /\ f # None /\ f.hash = Gone /\ r # None => r.causal[Device] <= f.causal[Device]

\* Of a record that nobody else has written, the base of a page says what
\* the disk says, and so does the cache.
BasesMirrorTheDisk ==
  \A p \in Pages : phase[p] \in {"served", "live"} =>
    \A b \in BasesOf(p) : \A k \in Keys \ crossed[p] :
      Mirrors(b[k], disk[k]) /\ Mirrors(b[k], Current[k])

Shows(p, k) == mem[p][k] = DataOf(disk[k])
SavesOf(p) == {m \in net : m.kind = "save" /\ m.from = p}

\* What a page shows is on disk, or on its way there: in a save that names
\* it, or in the next one.  A save under way while there are new changes
\* promises nothing: its success is followed by a save of everything.
OnItsWay(p) ==
  /\ phase[p] = "served" => \A k \in Keys \ crossed[p] : Shows(p, k)
  /\ phase[p] = "live" =>
       /\ Saved(p) => \A k \in Keys \ crossed[p] : Shows(p, k)
       /\ unsaved[p] = "sent" => SavesOf(p) # {}
       /\ ExclusiveWrite(p) => unsaved[p] = "yes"
       /\ unsaved[p] = "yes" /\ SavesOf(p) = {} =>
            \A k \in Keys \ crossed[p] : k \in dirty[p] \/ Shows(p, k)
       /\ unsaved[p] # "yes" => \A m \in SavesOf(p) :
            m.mem = mem[p] /\ \A k \in Keys \ crossed[p] : k \in m.sent \/ Shows(p, k)

ChangesAreOnTheirWay == \A p \in Pages \ gaveUp : Remembered(p) => OnItsWay(p)

\* The inductive invariant of what a page may believe.
SaveInv ==
  WriteInv /\ PagesTakeTurns /\ OneSpeaksAtATime /\ BasesMirrorTheDisk /\ ChangesAreOnTheirWay

-------------------------------------------------------------------------------
(* One key.                                                                *)

LEMMA FingerprintMirrors ==
  ASSUME NEW r \in Record \cup {None}
  PROVE  Mirrors(FingerprintOf(r), r)
<1>1. CASE r = None
  BY <1>1 DEF FingerprintOf, HashOf, DataOf, Mirrors
<1>2. CASE r # None
  <2>1. FingerprintOf(r) = [hash |-> r.data, causal |-> r.causal]
    BY <1>2 DEF FingerprintOf
  <2>2. FingerprintOf(r) \in Fingerprint /\ r.causal[Device] \in Nat
    BY <1>2, <2>1, StoreAssumption DEF Record, Fingerprint, Clock
  <2>3. QED
    BY <1>2, <2>1, <2>2, NoneIsNoRecord DEF HashOf, DataOf, Mirrors
<1>3. QED
  BY <1>1, <1>2

LEMMA SnapshotShowsTheDisk ==
  ASSUME TypeOK, NEW k \in Keys
  PROVE  Snapshot[k] = DataOf(disk[k])
BY DEF TypeOK, Snapshot, IsLive, DataOf

\* What the base becomes says what the merged record r says, if it did; and
\* the same of another record d with the same contents.
LEMMA AcknowledgedMirrors ==
  ASSUME NEW b \in Fingerprint \cup {None}, NEW inc, inc # None => inc.data # Gone,
         NEW r \in Record \cup {None}, NEW d, Mirrors(b, r), Mirrors(b, d)
  PROVE  LET a == AcknowledgedBase(b, inc, r) IN Mirrors(a, r) /\ Mirrors(a, d)
<1> DEFINE a == AcknowledgedBase(b, inc, r)
<1>1. CASE inc # None /\ r # None /\ r.data = inc.data
  <2>1. a = FingerprintOf(r)
    BY <1>1 DEF AcknowledgedBase
  <2>2. Mirrors(a, r) /\ (a # None => a.hash # Gone)
    BY <1>1, <2>1, FingerprintMirrors DEF FingerprintOf
  <2>3. DataOf(r) = DataOf(d)
    BY DEF Mirrors
  <2>4. QED
    BY <2>2, <2>3 DEF Mirrors
<1>2. CASE inc = None /\ ~IsLive(r)
  <2>1. a = None
    BY <1>2 DEF AcknowledgedBase
  <2>2. DataOf(r) = Gone /\ DataOf(d) = Gone
    BY <1>2 DEF IsLive, DataOf, Mirrors
  <2>3. QED
    BY <2>1, <2>2 DEF Mirrors, HashOf
<1>3. CASE ~(inc # None /\ r # None /\ r.data = inc.data) /\ ~(inc = None /\ ~IsLive(r))
  BY <1>3 DEF AcknowledgedBase
<1>4. QED
  BY <1>1, <1>2, <1>3

\* The merge of one key of a save whose base says what the cache says: what
\* was sent is there afterwards, what the page no longer holds is not.
LEMMA KeyMerged ==
  ASSUME NEW b \in Fingerprint \cup {None}, NEW inc \in Record \cup {None},
         NEW cur \in Record \cup {None}, NEW known \in BOOLEAN, NEW t \in Nat, NEW now \in Nat,
         Mirrors(b, cur), b # None => cur # None, cur # None => StampedRecord(cur, t),
         inc # None /\ (b = None \/ b.hash # inc.data) => Outstamps(inc, b, cur, now),
         NEW r, r = MergeRecord(b, inc, cur, known, Device, now)
  PROVE  /\ inc # None => r # None /\ r.data = inc.data
         /\ inc = None /\ b # None /\ ~known => r # None /\ r.data = Gone
         /\ inc = None /\ (b = None \/ known) => r = cur
<1>1. CASE inc # None
  <2>1. CASE b # None /\ b.hash = inc.data
    <3>1. ~IncomingChanged(b, inc, known)
      BY <1>1, <2>1 DEF IncomingChanged, IncomingDeleted
    <3>2. r = cur
      BY <3>1, Zenon DEF MergeRecord
    <3>3. QED
      BY <1>1, <2>1, <3>2 DEF HashOf, DataOf, Mirrors
  <2>2. CASE b = None \/ b.hash # inc.data
    <3>1. inc \in Record /\ Outstamps(inc, b, cur, now)
      BY <1>1, <2>2
    <3>2. ASSUME CurrentChanged(b, cur) \/ IsTombstone(cur)
          PROVE  Descends(inc.causal, cur.causal)
      <4>1. /\ cur \in Record /\ IsTombstone(cur)
            /\ b # None => b.hash = Gone
        BY <3>2 DEF CurrentChanged, IsTombstone, Mirrors, HashOf, DataOf
      <4>2. cur.causal[Device] \in Nat /\ inc.causal[Device] \in Nat
            /\ (b # None => b.causal[Device] \in Nat)
        BY <3>1, <4>1, StoreAssumption DEF Record, Fingerprint, Clock
      <4>3. inc.causal[Device] > cur.causal[Device]
        BY <3>1, <4>1, <4>2 DEF Outstamps, Mirrors, IsTombstone
      <4>4. StampedRecord(cur, t)
        BY <4>1 DEF IsTombstone
      <4>5. QED
        BY <3>1, <4>1, <4>3, <4>4, LaterDescends
    <3>3. r # None /\ r.data = inc.data
      BY <2>2, <3>1, <3>2, ChangedRecordWins
    <3>4. QED
      BY <1>1, <3>3
  <2>3. QED
    BY <2>1, <2>2
<1>2. CASE inc = None /\ b # None /\ ~known
  <2>1. IncomingChanged(b, inc, known) /\ ~CurrentChanged(b, cur)
    BY <1>2 DEF IncomingChanged, IncomingDeleted, CurrentChanged, HashOf, DataOf, Mirrors
  <2>2. r = TombstoneWithBase(b, Device, now)
    BY <1>2, <2>1, Zenon DEF MergeRecord, TakeIncoming
  <2>3. r \in Record /\ r.data = Gone
    BY <1>2, <2>2, TombstoneType, StoreAssumption
  <2>4. QED
    BY <1>2, <2>3, NoneIsNoRecord
<1>3. CASE inc = None /\ (b = None \/ known)
  <2>1. ~IncomingChanged(b, inc, known)
    BY <1>3 DEF IncomingChanged, IncomingDeleted
  <2>2. r = cur
    BY <2>1, Zenon DEF MergeRecord
  <2>3. QED
    BY <1>3, <2>2
<1>4. QED
  BY <1>1, <1>2, <1>3

-------------------------------------------------------------------------------
(* The queue of the pages.                                                 *)

LEMMA ServedIsASequence ==
  ASSUME TypeOK
  PROVE  /\ served \in Seq(ServedPage) /\ Len(served) \in Nat /\ DOMAIN served = 1..Len(served)
         /\ \A i \in DOMAIN served : served[i].page \in Pages /\ served[i].base \in Base
BY ServedElements DEF TypeOK, ServedPage

\* A claim changes nothing, or cuts the queue behind the page that claims.
LEMMA ClaimCuts ==
  ASSUME TypeOK, NEW page \in Pages, NEW c, c = Claim(page)
  PROVE  \/ /\ owner = page /\ c.granted
            /\ c.owner = owner /\ c.base = base /\ c.served = served
         \/ /\ owner # page /\ \A i \in DOMAIN served : served[i].page # page
            /\ c.granted <=> owner = NoPage /\ served = <<>>
            /\ c.owner = owner /\ c.base = base /\ c.served = served
         \/ /\ owner # page /\ c.granted /\ c.owner = page
            /\ \E i \in DOMAIN served :
                 /\ served[i].page = page /\ c.base = served[i].base
                 /\ DOMAIN c.served = 1 .. Len(served) - i
                 /\ \A j \in DOMAIN c.served : i + j \in DOMAIN served /\ c.served[j] = served[i + j]
<1> DEFINE at == {i \in DOMAIN served : served[i].page = page}
           i == CHOOSE j \in at : TRUE
<1>1. served \in Seq(ServedPage) /\ DOMAIN served = 1..Len(served) /\ Len(served) \in Nat
  BY ServedIsASequence
<1>2. CASE owner = page
  BY <1>2 DEF Claim
<1>3. CASE owner # page /\ at = {}
  BY <1>3 DEF Claim
<1>4. CASE owner # page /\ at # {}
  <2>1. i \in DOMAIN served /\ served[i].page = page
    BY <1>4
  <2> DEFINE rest == SubSeq(served, i + 1, Len(served))
  <2>2. c = [granted |-> TRUE, owner |-> page, base |-> served[i].base, served |-> rest]
    BY <1>4 DEF Claim
  <2> HIDE DEF i, at
  <2>3. i \in Nat /\ Len(served) - i \in Nat /\ Len(served) \in Int /\ i + 1 \in Int
    BY <1>1, <2>1
  <2>4. \A j \in i + 1 .. Len(served) : served[j] \in ServedPage
    BY <1>1, <2>3
  <2>5. /\ Len(rest) = IF i + 1 <= Len(served) THEN Len(served) - (i + 1) + 1 ELSE 0
        /\ \A j \in 1 .. Len(served) - (i + 1) + 1 : rest[j] = served[(i + 1) + j - 1]
        /\ rest \in Seq(ServedPage)
    BY <2>3, <2>4, SubSeqProperties
  <2>6. Len(rest) = Len(served) - i /\ Len(served) - (i + 1) + 1 = Len(served) - i
    BY <2>3, <2>5
  <2> HIDE DEF rest
  <2>7. DOMAIN rest = 1 .. Len(served) - i
    BY <2>5, <2>6
  <2>8. ASSUME NEW j \in DOMAIN rest
        PROVE  i + j \in DOMAIN served /\ rest[j] = served[i + j]
    <3>1. j \in 1 .. Len(served) - i
      BY <2>7
    <3>2. (i + 1) + j - 1 = i + j /\ i + j \in 1 .. Len(served)
      BY <2>3, <3>1
    <3>3. rest[j] = served[(i + 1) + j - 1]
      BY <2>5, <2>6, <3>1
    <3>4. QED
      BY <1>1, <3>2, <3>3
  <2>9. QED
    BY <1>4, <2>1, <2>2, <2>7, <2>8
<1>5. QED
  BY <1>2, <1>3, <1>4

\* What a claim does to the bases: the claiming page takes the base over
\* that was kept for it, those who wait go on waiting, and no base of the
\* owner is left in the queue.
LEMMA ClaimInTurn ==
  ASSUME IInv, PagesTakeTurns, NEW m \in net, NEW c, c = Claim(m.page)
  PROVE  /\ c.granted => c.owner = m.page
         /\ ~c.granted => c.owner = owner /\ c.base = base /\ c.served = served
         /\ ~c.granted => c.owner # m.page /\ \A j \in DOMAIN c.served : c.served[j].page # m.page
         /\ \A p \in Pages : c.owner = p => c.base \in BasesOf(p)
         /\ \A j \in DOMAIN c.served : \E i \in DOMAIN served : c.served[j] = served[i]
         /\ c.owner # NoPage => \A j \in DOMAIN c.served : turn[c.owner] < turn[c.served[j].page]
         /\ \A i, j \in DOMAIN c.served :
              i < j => turn[c.served[i].page] < turn[c.served[j].page]
         /\ c.owner = owner \/ c.owner = m.page
         /\ \A p \in Pages : Remembered(p) =>
              \/ c.owner = p \/ (\E j \in DOMAIN c.served : c.served[j].page = p)
              \/ turn[p] < turn[m.page]
<1>1. /\ TypeOK /\ m.page \in Pages /\ m.page # NoPage /\ ~(owner = NoPage /\ served = <<>>)
      /\ base \in Base /\ turn \in [Pages -> Nat]
  BY StoreAssumption DEF IInv, TypeOK, Message, NoPageNoRequest
<1>2. /\ served \in Seq(ServedPage) /\ Len(served) \in Nat /\ DOMAIN served = 1..Len(served)
      /\ \A i \in DOMAIN served : served[i].page \in Pages /\ served[i].base \in Base
  BY <1>1, ServedIsASequence
<1>3. /\ owner # NoPage => \A i \in DOMAIN served : turn[owner] < turn[served[i].page]
      /\ \A i, j \in DOMAIN served : i < j => turn[served[i].page] < turn[served[j].page]
  BY DEF PagesTakeTurns
<1>4. CASE /\ owner = m.page /\ c.granted
           /\ c.owner = owner /\ c.base = base /\ c.served = served
  BY <1>1, <1>2, <1>3, <1>4 DEF BasesOf, Remembered
<1>5. CASE /\ owner # m.page /\ \A i \in DOMAIN served : served[i].page # m.page
           /\ c.granted <=> owner = NoPage /\ served = <<>>
           /\ c.owner = owner /\ c.base = base /\ c.served = served
  BY <1>1, <1>2, <1>3, <1>5 DEF BasesOf, Remembered
<1>6. CASE /\ owner # m.page /\ c.granted /\ c.owner = m.page
           /\ \E i \in DOMAIN served :
                /\ served[i].page = m.page /\ c.base = served[i].base
                /\ DOMAIN c.served = 1 .. Len(served) - i
                /\ \A j \in DOMAIN c.served : i + j \in DOMAIN served /\ c.served[j] = served[i + j]
  <2>1. PICK i \in DOMAIN served :
           /\ served[i].page = m.page /\ c.base = served[i].base
           /\ DOMAIN c.served = 1 .. Len(served) - i
           /\ \A j \in DOMAIN c.served : i + j \in DOMAIN served /\ c.served[j] = served[i + j]
    BY <1>6
  <2>2. c.base \in BasesOf(m.page)
    BY <1>2, <2>1 DEF BasesOf
  <2>3. \A j \in DOMAIN c.served : turn[m.page] < turn[c.served[j].page]
    <3>1. SUFFICES ASSUME NEW j \in DOMAIN c.served
                   PROVE  turn[m.page] < turn[c.served[j].page]
      OBVIOUS
    <3>2. i < i + j
      BY <1>2, <2>1, <3>1
    <3>3. turn[served[i].page] < turn[served[i + j].page]
      BY <1>3, <2>1, <3>1, <3>2
    <3>4. QED
      BY <2>1, <3>1, <3>3
  <2>4. \A j, l \in DOMAIN c.served : j < l => turn[c.served[j].page] < turn[c.served[l].page]
    <3>1. SUFFICES ASSUME NEW j \in DOMAIN c.served, NEW l \in DOMAIN c.served, j < l
                   PROVE  turn[c.served[j].page] < turn[c.served[l].page]
      OBVIOUS
    <3>2. i + j < i + l
      BY <1>2, <2>1, <3>1
    <3>3. QED
      BY <1>3, <2>1, <3>1, <3>2
  <2>5. ASSUME NEW p \in Pages, Remembered(p), c.owner # p, ~(turn[p] < turn[m.page])
        PROVE  \E j \in DOMAIN c.served : c.served[j].page = p
    <3>1. turn[m.page] = turn[served[i].page] /\ i \in 1 .. Len(served)
      BY <1>2, <2>1
    <3>2. owner # p
      <4>1. owner # NoPage => turn[owner] < turn[m.page]
        BY <1>3, <3>1
      <4>2. p # NoPage
        BY <1>1, <2>5, StoreAssumption
      <4>3. QED
        BY <2>5, <4>1, <4>2
    <3>3. PICK l \in DOMAIN served : served[l].page = p
      BY <2>5, <3>2 DEF Remembered
    <3>4. l # i
      BY <1>6, <2>1, <2>5, <3>3
    <3>5. ~(l < i)
      BY <1>3, <2>5, <3>1, <3>3
    <3>6. l - i \in 1 .. Len(served) - i /\ i + (l - i) = l
      BY <1>2, <3>1, <3>3, <3>4, <3>5
    <3>7. QED
      BY <2>1, <3>3, <3>6
  <2>6. \A j \in DOMAIN c.served : \E l \in DOMAIN served : c.served[j] = served[l]
    BY <2>1
  <2>7. \A p \in Pages : Remembered(p) =>
          \/ c.owner = p \/ (\E j \in DOMAIN c.served : c.served[j].page = p)
          \/ turn[p] < turn[m.page]
    BY <2>5
  <2>8. /\ \A p \in Pages : c.owner = p => c.base \in BasesOf(p)
        /\ c.owner # NoPage => \A j \in DOMAIN c.served : turn[c.owner] < turn[c.served[j].page]
    BY <1>6, <2>2, <2>3
  <2>9. QED
    BY <1>6, <2>4, <2>6, <2>7, <2>8
<1>7. QED
  BY <1>1, <1>4, <1>5, <1>6, ClaimCuts

LEMMA TurnsCounted ==
  ASSUME TypeOK
  PROVE  IsFiniteSet(Turns) /\ Cardinality(Turns) \in Nat
BY StoreAssumption, FS_Subset, FS_CardinalityType DEF Turns

LEMMA FingerprintsAreABase ==
  ASSUME TypeOK
  PROVE  Fingerprints(disk) \in Base
BY FingerprintOfType DEF TypeOK, Fingerprints, Base, Tree

\* Steps that serve and show no page.
LEMMA TurnsKept ==
  ASSUME PagesTakeTurns, UNCHANGED <<turn, owner, served>>,
         \A p \in Pages : phase'[p] = "unborn" <=> phase[p] = "unborn",
         \A p \in Pages : phase'[p] = "live" => phase[p] = "live",
         \A p \in Pages : phase[p] = "served" => phase'[p] = "served"
  PROVE  PagesTakeTurns'
BY DEF PagesTakeTurns, Turns

LEMMA ServeKeepsTurns ==
  ASSUME IInv, PagesTakeTurns, NEW p \in Pages, Serve(p)
  PROVE  PagesTakeTurns'
<1> DEFINE new == [page |-> p, base |-> Fingerprints(disk)]
           queue == Append(served, new)
           n == Cardinality(Turns)
<1>1. /\ TypeOK /\ phase[p] = "unborn" /\ UNCHANGED owner
      /\ phase' = [phase EXCEPT ![p] = "served"] /\ turn' = [turn EXCEPT ![p] = n + 1]
      /\ served' \in {queue, Tail(queue)}
  BY DEF IInv, Serve, Turns
<1>2. /\ phase \in [Pages -> {"unborn", "served", "live", "gone"}] /\ turn \in [Pages -> Nat]
      /\ served \in Seq(ServedPage) /\ Len(served) \in Nat /\ DOMAIN served = 1..Len(served)
      /\ \A i \in DOMAIN served : served[i].page \in Pages
      /\ \A i \in DOMAIN served : served[i].page # p
      /\ owner # NoPage => owner \in Pages /\ owner # p
  BY <1>1, ServedIsASequence DEF TypeOK, IInv, PagesSendWhatTheyHold
<1>3. IsFiniteSet(Turns) /\ n \in Nat /\ turn[p] = 0 /\ p \notin Turns
  BY <1>1, TurnsCounted DEF PagesTakeTurns, Turns
<1>4. Turns' = Turns \cup {p}
  <2> HIDE DEF n
  <2>1. turn'[p] > 0 /\ \A q \in Pages \ {p} : turn'[q] = turn[q]
    BY <1>1, <1>2, <1>3
  <2>2. QED
    BY <2>1 DEF Turns
<1>5. Cardinality(Turns') = n + 1
  <2> DEFINE T == Turns
  <2>1. IsFiniteSet(T) /\ p \notin T
    BY <1>3
  <2> HIDE DEF T
  <2>2. Cardinality(T \cup {p}) = Cardinality(T) + 1
    BY <2>1, FS_AddElement
  <2>3. QED
    BY <1>4, <2>2 DEF T
<1> HIDE DEF n
<1>6. /\ \A q \in Pages \ {p} : turn'[q] = turn[q] /\ phase'[q] = phase[q]
      /\ turn'[p] = n + 1 /\ phase'[p] = "served"
  BY <1>1, <1>2
<1>7. /\ \A q \in Pages : turn[q] <= n /\ (phase[q] = "unborn" <=> turn[q] = 0)
      /\ \A q, r \in Pages : phase[q] = "live" /\ turn[r] > turn[q] => phase[r] = "served"
      /\ owner # NoPage => \A i \in DOMAIN served : turn[owner] < turn[served[i].page]
      /\ \A i, j \in DOMAIN served : i < j => turn[served[i].page] < turn[served[j].page]
  BY DEF PagesTakeTurns, n
<1>8. \A q \in Pages : phase'[q] = "unborn" <=> turn'[q] = 0
  BY <1>2, <1>3, <1>6, <1>7
<1>9. \A q \in Pages : turn'[q] <= n + 1
  BY <1>2, <1>3, <1>6, <1>7
<1>10. \A q, r \in Pages : phase'[q] = "live" /\ turn'[r] > turn'[q] => phase'[r] = "served"
  BY <1>6, <1>7
<1>11. /\ DOMAIN queue = 1 .. Len(served) + 1
       /\ \A i \in DOMAIN served : queue[i] = served[i]
       /\ queue[Len(served) + 1] = new /\ new.page = p
       /\ queue # <<>> /\ Len(queue) = Len(served) + 1
  BY <1>2
<1>12. /\ \A i \in DOMAIN queue : queue[i].page \in Pages
       /\ \A i, j \in DOMAIN queue : i < j => turn'[queue[i].page] < turn'[queue[j].page]
       /\ owner # NoPage => \A i \in DOMAIN queue : turn'[owner] < turn'[queue[i].page]
  <2>1. \A i \in DOMAIN queue : i \in DOMAIN served \/ i = Len(served) + 1
    BY <1>2, <1>11
  <2>2. \A i \in DOMAIN served :
          queue[i].page = served[i].page /\ turn'[queue[i].page] = turn[served[i].page]
    BY <1>2, <1>6, <1>11
  <2>3. turn'[queue[Len(served) + 1].page] = n + 1
    BY <1>6, <1>11
  <2> HIDE DEF queue
  <2>4. \A i \in DOMAIN served : turn[served[i].page] \in Nat /\ turn[served[i].page] <= n
    BY <1>2, <1>7
  <2>5. ASSUME NEW i \in DOMAIN queue, NEW j \in DOMAIN queue, i < j
        PROVE  turn'[queue[i].page] < turn'[queue[j].page]
    <3>1. i \in DOMAIN served
      BY <1>2, <1>11, <2>1, <2>5
    <3>2. CASE j \in DOMAIN served
      BY <1>7, <2>2, <2>5, <3>1, <3>2
    <3>3. CASE j = Len(served) + 1
      BY <1>3, <2>2, <2>3, <2>4, <3>1, <3>3
    <3>4. QED
      BY <2>1, <3>2, <3>3
  <2>6. ASSUME owner # NoPage, NEW i \in DOMAIN queue
        PROVE  turn'[owner] < turn'[queue[i].page]
    <3>1. turn'[owner] = turn[owner] /\ turn[owner] \in Nat /\ turn[owner] <= n
      BY <1>2, <1>6, <1>7, <2>6
    <3>2. CASE i \in DOMAIN served
      BY <1>7, <2>2, <2>6, <3>1, <3>2
    <3>3. CASE i = Len(served) + 1
      BY <1>3, <2>3, <3>1, <3>3
    <3>4. QED
      BY <2>1, <3>2, <3>3
  <2>7. \A i \in DOMAIN queue : queue[i].page \in Pages
    BY <1>2, <1>11, <2>1, <2>2
  <2>8. QED
    BY <2>5, <2>6, <2>7
<1>13. \A i \in DOMAIN served' :
         \/ served' = queue /\ i \in DOMAIN queue
         \/ served' = Tail(queue) /\ i + 1 \in DOMAIN queue /\ served'[i] = queue[i + 1] /\ i \in Nat
  <2>1. CASE served' = queue
    BY <2>1
  <2>2. CASE served' = Tail(queue)
    <3>1. queue \in Seq(ServedPage)
      BY <1>2, <1>1, FingerprintsAreABase DEF ServedPage
    <3>2. queue # <<>> /\ Len(queue) = Len(served) + 1 /\ DOMAIN queue = 1 .. Len(served) + 1
      BY <1>11
    <3> HIDE DEF queue
    <3>3. /\ Tail(queue) \in Seq(ServedPage) /\ Len(Tail(queue)) = Len(served)
          /\ \A i \in 1 .. Len(Tail(queue)) : Tail(queue)[i] = queue[i + 1]
      BY <1>2, <3>1, <3>2, HeadTailProperties
    <3>4. DOMAIN Tail(queue) = 1 .. Len(served)
      BY <3>3
    <3>5. QED
      BY <1>2, <2>2, <3>2, <3>3, <3>4
  <2>3. QED
    BY <1>1, <2>1, <2>2
<1> HIDE DEF queue
<1>14. \A i, j \in DOMAIN served' : i < j => turn'[served'[i].page] < turn'[served'[j].page]
  <2>1. SUFFICES ASSUME NEW i \in DOMAIN served', NEW j \in DOMAIN served', i < j
                 PROVE  turn'[served'[i].page] < turn'[served'[j].page]
    OBVIOUS
  <2>2. CASE served' = queue
    BY <1>12, <2>1, <2>2
  <2>3. CASE served' # queue
    <3>1. /\ i + 1 \in DOMAIN queue /\ served'[i] = queue[i + 1] /\ i \in Nat
          /\ j + 1 \in DOMAIN queue /\ served'[j] = queue[j + 1] /\ j \in Nat
      BY <1>13, <2>1, <2>3
    <3>2. i + 1 < j + 1
      BY <2>1, <3>1
    <3>3. QED
      BY <1>12, <3>1, <3>2
  <2>4. QED
    BY <2>2, <2>3
<1>15. owner' # NoPage => \A i \in DOMAIN served' : turn'[owner'] < turn'[served'[i].page]
  <2>1. SUFFICES ASSUME owner # NoPage, NEW i \in DOMAIN served'
                 PROVE  turn'[owner] < turn'[served'[i].page]
    BY <1>1
  <2>2. \E l \in DOMAIN queue : served'[i] = queue[l]
    BY <1>13
  <2>3. QED
    BY <1>12, <2>1, <2>2
<1>16. QED
  BY <1>5, <1>8, <1>9, <1>10, <1>14, <1>15 DEF PagesTakeTurns

LEMMA BootKeepsTurns ==
  ASSUME IInv, PagesTakeTurns, NEW p \in Pages, Boot(p)
  PROVE  PagesTakeTurns'
<1>1. /\ UNCHANGED <<turn, owner, served>> /\ phase[p] = "served"
      /\ \A q \in Pages : phase[q] # "live"
      /\ \A q \in Pages : turn[q] > turn[p] => phase[q] = "served"
      /\ phase' = [phase EXCEPT ![p] = "live"]
  BY DEF Boot, store
<1>2. /\ phase \in [Pages -> {"unborn", "served", "live", "gone"}] /\ turn \in [Pages -> Nat]
  BY DEF IInv, TypeOK
<1>3. \A q \in Pages : phase'[q] = IF q = p THEN "live" ELSE phase[q]
  BY <1>1, <1>2
<1>4. \A q, r \in Pages : phase'[q] = "live" /\ turn'[r] > turn'[q] => phase'[r] = "served"
  BY <1>1, <1>2, <1>3
<1>5. \A q \in Pages : phase'[q] = "unborn" <=> turn'[q] = 0
  BY <1>1, <1>3 DEF PagesTakeTurns
<1>6. QED
  BY <1>1, <1>4, <1>5 DEF PagesTakeTurns, Turns

LEMMA ClaimKeepsTurns ==
  ASSUME IInv, PagesTakeTurns, NEW m \in net,
         owner' = Claim(m.page).owner, served' = Claim(m.page).served, UNCHANGED <<phase, turn>>
  PROVE  PagesTakeTurns'
<1> DEFINE c == Claim(m.page)
<1>1. /\ c.owner # NoPage => \A j \in DOMAIN c.served : turn[c.owner] < turn[c.served[j].page]
      /\ \A i, j \in DOMAIN c.served :
           i < j => turn[c.served[i].page] < turn[c.served[j].page]
  BY ClaimInTurn
<1>2. QED
  BY <1>1 DEF PagesTakeTurns, Turns

LEMMA TurnsStep ==
  ASSUME IInv, PagesTakeTurns, [Next]_vars
  PROVE  PagesTakeTurns'
<1>1. /\ phase \in [Pages -> {"unborn", "served", "live", "gone"}]
  BY DEF IInv, TypeOK
<1>2. ASSUME NEW p \in Pages, PageStep(p)
      PROVE  PagesTakeTurns'
  <2>1. CASE Exit(p)
    <3>1. /\ UNCHANGED <<turn, owner, served>> /\ phase[p] = "live"
          /\ phase' = [phase EXCEPT ![p] = "gone"]
      BY <2>1 DEF Exit, store
    <3>2. QED
      BY <1>1, <3>1, TurnsKept
  <2>2. CASE \/ \E k \in Keys, d \in Content : Edit(p, k, d)
             \/ SendSave(p) \/ FetchSnapshot(p) \/ ApplySnapshot(p) \/ Hide(p)
             \/ \E k \in Keys, d \in Data : UpsertText(p, k, d)
             \/ \E k \in Keys : DeleteText(p, k)
    <3>1. UNCHANGED <<turn, owner, served, phase>>
      BY <2>2 DEF Edit, SendSave, FetchSnapshot, ApplySnapshot, Hide, UpsertText, DeleteText,
                  store, browser
    <3>2. QED
      BY <3>1, TurnsKept
  <2>3. QED
    BY <1>2, <2>1, <2>2, ServeKeepsTurns, BootKeepsTurns DEF PageStep
<1>3. ASSUME NEW m \in net, RequestStep(m)
      PROVE  PagesTakeTurns'
  <2>1. CASE HandleSave(m) \/ HandleAck(m)
    <3>1. /\ owner' = Claim(m.page).owner /\ served' = Claim(m.page).served
          /\ UNCHANGED <<phase, turn>>
      BY <2>1 DEF HandleSave, HandleAck, browser
    <3>2. QED
      BY <3>1, ClaimKeepsTurns
  <2>2. CASE Lose(m)
    <3>1. UNCHANGED <<turn, owner, served, phase>>
      BY <2>2 DEF Lose, store
    <3>2. QED
      BY <3>1, TurnsKept
  <2>3. QED
    BY <1>3, <2>1, <2>2 DEF RequestStep
<1>4. CASE Restart
  <2>1. /\ UNCHANGED turn /\ owner' = NoPage /\ served' = <<>>
        /\ phase' = [p \in Pages |-> IF phase[p] = "unborn" THEN "unborn" ELSE "gone"]
    BY <1>4 DEF Restart
  <2>2. \A p \in Pages : phase'[p] # "live" /\ (phase'[p] = "unborn" <=> phase[p] = "unborn")
    BY <2>1
  <2>3. DOMAIN served' = {}
    BY <2>1
  <2>4. QED
    BY <2>1, <2>2, <2>3 DEF PagesTakeTurns, Turns
<1>5. CASE UNCHANGED vars
  BY <1>5, TurnsKept DEF vars, store, browser
<1>6. QED
  BY <1>2, <1>3, <1>4, <1>5 DEF Next

-------------------------------------------------------------------------------
(* Who speaks.                                                             *)

LEMMA Speakers ==
  ASSUME IInv, OneSpeaksAtATime, NEW m \in net
  PROVE  /\ m \in Message /\ m.page \in Pages /\ m.from \in Pages
         /\ phase[m.page] \in {"live", "gone"}
         /\ phase[m.page] # "unborn"
<1>1. m \in Message /\ m.page \in Pages /\ m.from \in Pages /\ m \in Messages
  BY DEF IInv, TypeOK, Message, Messages
<1>2. phase[m.page] # "unborn" /\ phase[m.page] # "served"
  BY <1>1 DEF IInv, PagesSendWhatTheyHold, OneSpeaksAtATime
<1>3. QED
  BY <1>1, <1>2 DEF IInv, TypeOK

\* Steps that add at most one request, of a live page for itself.
LEMMA SpeakersKept ==
  ASSUME IInv, OneSpeaksAtATime, NEW p \in Pages, NEW new, UNCHANGED phase,
         phase[p] = "live", new.from = p, new.page = p, new.kind \in {"save", "ack", "exit"},
         net' \subseteq net \cup {new}, pending' \in {pending, None},
         new \in net' /\ new.kind \in {"save", "ack"} =>
           \A n \in net' \ {new} : n.kind \in {"save", "ack"} => n.from # p
  PROVE  OneSpeaksAtATime'
<1>1. \A m \in net' \cup ({pending'} \ {None}) : m = new \/ m \in Messages
  BY DEF Messages
<1>2. \A m \in net' \cup ({pending'} \ {None}) : phase'[m.page] # "served"
  BY <1>1 DEF OneSpeaksAtATime
<1>3. \A m \in net' : IF m.kind = "replay" THEN phase'[m.page] = "gone" ELSE m.page = m.from
  BY DEF OneSpeaksAtATime
<1>4. pending' # None => phase'[pending'.page] = "gone"
  BY DEF OneSpeaksAtATime
<1>5. \A m, n \in net' : /\ m.kind \in {"save", "ack"} /\ n.kind \in {"save", "ack"}
                         /\ m.from = n.from
                         => m = n
  BY DEF OneSpeaksAtATime
<1>6. QED
  BY <1>2, <1>3, <1>4, <1>5 DEF OneSpeaksAtATime, Messages

LEMMA FewerSpeakers ==
  ASSUME OneSpeaksAtATime, net' \subseteq net, pending' \in {pending, None},
         \A p \in Pages : phase'[p] = "served" => phase[p] = "served",
         \A p \in Pages : phase[p] = "gone" => phase'[p] = "gone",
         \A m \in Messages : m.page \in Pages
  PROVE  OneSpeaksAtATime'
<1>1. \A m \in net' \cup ({pending'} \ {None}) : m \in Messages
  BY DEF Messages
<1>2. \A m \in net' \cup ({pending'} \ {None}) : phase'[m.page] # "served"
  BY <1>1 DEF OneSpeaksAtATime
<1>3. \A m \in net' : IF m.kind = "replay" THEN phase'[m.page] = "gone" ELSE m.page = m.from
  BY <1>1 DEF OneSpeaksAtATime
<1>4. pending' # None => phase'[pending'.page] = "gone"
  BY <1>1 DEF OneSpeaksAtATime, Messages
<1>5. QED
  BY <1>2, <1>3, <1>4 DEF OneSpeaksAtATime, Messages

LEMMA MessagesArePages ==
  ASSUME TypeOK
  PROVE  \A m \in Messages : m \in Message /\ m.page \in Pages /\ m.from \in Pages
BY DEF TypeOK, Messages, Message

LEMMA PageStepKeepsSpeakers ==
  ASSUME IInv, OneSpeaksAtATime, NEW p \in Pages, PageStep(p)
  PROVE  OneSpeaksAtATime'
<1>1. /\ phase \in [Pages -> {"unborn", "served", "live", "gone"}]
      /\ \A m \in Messages : m \in Message /\ m.page \in Pages /\ m.from \in Pages
      /\ \A m \in Messages : phase[m.page] # "unborn"
  BY MessagesArePages DEF IInv, TypeOK, PagesSendWhatTheyHold, Messages
<1>2. CASE Serve(p)
  <2>1. /\ UNCHANGED <<net, pending>> /\ phase[p] = "unborn"
        /\ phase' = [phase EXCEPT ![p] = "served"]
    BY <1>2 DEF Serve
  <2>2. \A m \in Messages : phase'[m.page] = phase[m.page]
    BY <1>1, <2>1
  <2>3. QED
    BY <2>1, <2>2 DEF OneSpeaksAtATime, Messages
<1>3. CASE Boot(p)
  <2>1. /\ UNCHANGED pending /\ phase[p] = "served"
        /\ phase' = [phase EXCEPT ![p] = "live"] /\ net' = net \cup Replayed(p)
    BY <1>3 DEF Boot
  <2>2. \A q \in Pages : phase'[q] = IF q = p THEN "live" ELSE phase[q]
    BY <1>1, <2>1
  <2>3. \A m \in Messages : m.page # p
    BY <2>1 DEF OneSpeaksAtATime
  <2>4. \A m \in Replayed(p) : m.kind = "replay" /\ phase'[m.page] = "gone"
    <3>1. SUFFICES ASSUME pending # None
                   PROVE  /\ [pending EXCEPT !.kind = "replay", !.from = p].kind = "replay"
                          /\ phase'[[pending EXCEPT !.kind = "replay", !.from = p].page] = "gone"
      BY DEF Replayed
    <3>2. pending \in Message /\ pending \in Messages
      BY <1>1, <3>1 DEF Messages
    <3>3. /\ [pending EXCEPT !.kind = "replay", !.from = p].kind = "replay"
          /\ [pending EXCEPT !.kind = "replay", !.from = p].page = pending.page
      BY <3>2 DEF Message
    <3>4. phase'[pending.page] = "gone"
      BY <1>1, <2>2, <2>3, <3>1, <3>2 DEF OneSpeaksAtATime
    <3>5. QED
      BY <3>3, <3>4
  <2>5. \A m \in net' \cup ({pending'} \ {None}) : phase'[m.page] # "served"
    BY <1>1, <2>1, <2>2, <2>3, <2>4 DEF OneSpeaksAtATime, Messages
  <2>6. \A m \in net' : IF m.kind = "replay" THEN phase'[m.page] = "gone" ELSE m.page = m.from
    BY <1>1, <2>1, <2>2, <2>3, <2>4 DEF OneSpeaksAtATime, Messages
  <2>7. pending' # None => phase'[pending'.page] = "gone"
    BY <1>1, <2>1, <2>2, <2>3 DEF OneSpeaksAtATime, Messages
  <2>8. \A m, n \in net' : /\ m.kind \in {"save", "ack"} /\ n.kind \in {"save", "ack"}
                           /\ m.from = n.from
                           => m = n
    BY <2>1, <2>4 DEF OneSpeaksAtATime
  <2>9. QED
    BY <2>5, <2>6, <2>7, <2>8 DEF OneSpeaksAtATime, Messages
<1>4. CASE SendSave(p)
  <2>1. /\ UNCHANGED <<pending, phase>> /\ phase[p] = "live"
        /\ \A n \in net : n.from = p => n.kind \notin {"save", "ack"}
    BY <1>4 DEF SendSave, SaveInFlight, ExclusiveWrite, Sent
  <2>2. PICK sent : net' = net \cup {Request("save", p, p, sent, mem[p])}
    BY <1>4 DEF SendSave
  <2> DEFINE new == Request("save", p, p, sent, mem[p])
  <2>3. new.from = p /\ new.page = p /\ new.kind = "save" /\ net' = net \cup {new}
    BY <2>2 DEF Request
  <2> HIDE DEF new
  <2>4. QED
    BY <2>1, <2>3, SpeakersKept
<1>5. CASE ApplySnapshot(p)
  <2> DEFINE new == Request("ack", p, p, Keys, fetched[p])
  <2>1. /\ UNCHANGED <<pending, phase>> /\ phase[p] = "live"
        /\ \A n \in net : n.from = p => n.kind \notin {"save", "ack"}
        /\ net' = net \cup {new}
    BY <1>5 DEF ApplySnapshot, SaveInFlight, ExclusiveWrite, Sent
  <2>2. new.from = p /\ new.page = p /\ new.kind = "ack"
    BY DEF Request
  <2> HIDE DEF new
  <2>3. QED
    BY <2>1, <2>2, SpeakersKept
<1>6. LastSave(p).from = p /\ LastSave(p).page = p /\ LastSave(p).kind = "exit"
  BY DEF LastSave, Request
<1>7. CASE Hide(p)
  <2> DEFINE new == LastSave(p)
  <2>1. /\ UNCHANGED <<pending, phase>> /\ phase[p] = "live" /\ net' \subseteq net \cup {new}
    BY <1>7 DEF Hide, Flushed
  <2> HIDE DEF new
  <2>2. new.from = p /\ new.page = p /\ new.kind = "exit"
    BY <1>6 DEF new
  <2>3. QED
    BY <2>1, <2>2, SpeakersKept
<1>8. CASE Exit(p)
  <2> DEFINE new == LastSave(p)
  <2>1. /\ phase[p] = "live" /\ net' \subseteq net \cup {new} /\ pending' \in {pending, new}
        /\ phase' = [phase EXCEPT ![p] = "gone"]
    BY <1>8 DEF Exit, Flushed
  <2>2. new.from = p /\ new.page = p /\ new.kind = "exit"
    BY <1>6
  <2> HIDE DEF new
  <2>3. \A q \in Pages : phase'[q] = IF q = p THEN "gone" ELSE phase[q]
    BY <1>1, <2>1
  <2>4. \A m \in net' \cup ({pending'} \ {None}) : m = new \/ m \in Messages
    BY <2>1 DEF Messages
  <2>5. \A m \in net' \cup ({pending'} \ {None}) : phase'[m.page] # "served"
    BY <1>1, <2>2, <2>3, <2>4 DEF OneSpeaksAtATime
  <2>6. \A m \in net' : IF m.kind = "replay" THEN phase'[m.page] = "gone" ELSE m.page = m.from
    BY <1>1, <2>1, <2>2, <2>3, <2>4 DEF OneSpeaksAtATime, Messages
  <2>7. pending' # None => phase'[pending'.page] = "gone"
    BY <1>1, <2>1, <2>2, <2>3 DEF OneSpeaksAtATime, Messages
  <2>8. \A m, n \in net' : /\ m.kind \in {"save", "ack"} /\ n.kind \in {"save", "ack"}
                           /\ m.from = n.from
                           => m = n
    BY <2>1, <2>2 DEF OneSpeaksAtATime
  <2>9. QED
    BY <2>5, <2>6, <2>7, <2>8 DEF OneSpeaksAtATime, Messages
<1>9. CASE \/ \E k \in Keys, d \in Content : Edit(p, k, d)
           \/ FetchSnapshot(p)
           \/ \E k \in Keys, d \in Data : UpsertText(p, k, d)
           \/ \E k \in Keys : DeleteText(p, k)
  <2>1. UNCHANGED <<net, pending, phase>>
    BY <1>9 DEF Edit, FetchSnapshot, UpsertText, DeleteText, browser
  <2>2. QED
    BY <1>1, <2>1, FewerSpeakers
<1>10. QED
  BY <1>2, <1>3, <1>4, <1>5, <1>7, <1>8, <1>9 DEF PageStep

LEMMA RequestStepKeepsSpeakers ==
  ASSUME IInv, OneSpeaksAtATime, NEW m \in net, RequestStep(m)
  PROVE  OneSpeaksAtATime'
<1>1. /\ \A r \in Messages : r \in Message /\ r.page \in Pages /\ r.from \in Pages
      /\ m \in Message /\ m.page \in Pages /\ m.from \in Pages
      /\ phase[m.page] \in {"live", "gone"}
  BY MessagesArePages, Speakers DEF IInv
<1>2. ASSUME net' \subseteq net, pending' \in {pending, None}, UNCHANGED phase
      PROVE  OneSpeaksAtATime'
  BY <1>1, <1>2, FewerSpeakers
<1>3. CASE HandleSave(m)
  <2>1. Answer(m) /\ UNCHANGED phase
    BY <1>3 DEF HandleSave
  <2>2. CASE m.kind = "save" /\ phase[m.from] = "live" /\ Succeed(m) /\ UNCHANGED pending
    <3> DEFINE p == m.from
               new == Request("save", p, p, Keys, mem[p])
    <3>1. net' \subseteq (net \ {m}) \cup {new}
      BY <2>2 DEF Succeed
    <3>2. new.from = p /\ new.page = p /\ new.kind = "save"
      BY DEF Request
    <3> HIDE DEF new
    <3>3. \A n \in net' \ {new} : n.kind \in {"save", "ack"} => n.from # p
      BY <2>2, <3>1 DEF OneSpeaksAtATime
    <3>4. p \in Pages /\ phase[p] = "live" /\ net' \subseteq net \cup {new} /\ UNCHANGED pending
      BY <1>1, <2>2, <3>1
    <3> HIDE DEF p
    <3>5. QED
      BY <2>1, <3>2, <3>3, <3>4, SpeakersKept
  <2>3. CASE net' = net \ {m} /\ pending' \in {None, pending}
    BY <1>2, <2>1, <2>3
  <2>4. CASE net' = (net \ {m}) \cup {[m EXCEPT !.tries = @ + 1]} /\ UNCHANGED pending
    <3> DEFINE new == [m EXCEPT !.tries = @ + 1]
    <3>1. new.from = m.from /\ new.page = m.page /\ new.kind = m.kind
      BY <1>1 DEF Message
    <3>2. net' = (net \ {m}) \cup {new}
      BY <2>4
    <3> HIDE DEF new
    <3>3. \A r \in net' \cup ({pending'} \ {None}) : r = new \/ r \in Messages
      BY <2>4, <3>2 DEF Messages
    <3>4. m \in Messages
      BY DEF Messages
    <3>5. \A r \in net' \cup ({pending'} \ {None}) : phase'[r.page] # "served"
      BY <2>1, <3>1, <3>3, <3>4 DEF OneSpeaksAtATime
    <3>6. \A r \in net' : IF r.kind = "replay" THEN phase'[r.page] = "gone" ELSE r.page = r.from
      BY <2>1, <3>1, <3>2 DEF OneSpeaksAtATime
    <3>7. pending' # None => phase'[pending'.page] = "gone"
      BY <2>1, <2>4 DEF OneSpeaksAtATime
    <3>8. \A r, n \in net' : /\ r.kind \in {"save", "ack"} /\ n.kind \in {"save", "ack"}
                             /\ r.from = n.from
                             => r = n
      BY <3>1, <3>2 DEF OneSpeaksAtATime
    <3>9. QED
      BY <3>5, <3>6, <3>7, <3>8 DEF OneSpeaksAtATime, Messages
  <2>5. QED
    BY <2>1, <2>2, <2>3, <2>4, Zenon DEF Answer
<1>4. CASE HandleAck(m) \/ Lose(m)
  <2>1. net' \subseteq net /\ pending' = pending /\ UNCHANGED phase
    BY <1>4 DEF HandleAck, Lose, browser
  <2>2. QED
    BY <1>2, <2>1
<1>5. QED
  BY <1>3, <1>4 DEF RequestStep

LEMMA SpeakersStep ==
  ASSUME IInv, OneSpeaksAtATime, [Next]_vars
  PROVE  OneSpeaksAtATime'
<1>1. /\ phase \in [Pages -> {"unborn", "served", "live", "gone"}]
      /\ \A m \in Messages : m \in Message /\ m.page \in Pages /\ m.from \in Pages
  BY MessagesArePages DEF IInv, TypeOK
<1>2. CASE Restart
  <2>1. /\ net' = {} /\ UNCHANGED pending
        /\ phase' = [p \in Pages |-> IF phase[p] = "unborn" THEN "unborn" ELSE "gone"]
    BY <1>2 DEF Restart
  <2>2. \A p \in Pages : phase'[p] # "served" /\ (phase[p] = "gone" => phase'[p] = "gone")
    BY <1>1, <2>1
  <2>3. QED
    BY <1>1, <2>1, <2>2, FewerSpeakers
<1>3. CASE UNCHANGED vars
  <2>1. UNCHANGED <<net, pending, phase>>
    BY <1>3 DEF vars, browser
  <2>2. QED
    BY <1>1, <2>1, FewerSpeakers
<1>4. QED
  BY <1>2, <1>3, PageStepKeepsSpeakers, RequestStepKeepsSpeakers DEF Next

-------------------------------------------------------------------------------
(* The bases and the disk.                                                 *)

LEMMA TreesAreThere ==
  ASSUME NEW tree \in Tree
  PROVE  tree # None
BY StoreAssumption DEF Tree

\* What somebody else's step does to a record that it does not cross.
LEMMA NotCrossed ==
  ASSUME IInv, NEW writer, crossed' = CrossedBy(writer), NEW p \in Pages, p # writer,
         phase[p] \in {"served", "live"}
  PROVE  /\ crossed[p] \subseteq crossed'[p]
         /\ \A k \in Keys \ crossed'[p] :
              disk'[k] = disk[k] /\ (cache' # None => cache'[k] = Current[k])
<1>1. crossed'[p] = crossed[p] \cup Written
  BY DEF CrossedBy
<1>2. QED
  BY <1>1 DEF Written

\* A base goes on mirroring a record that stays.
LEMMA MirrorKept ==
  ASSUME BasesMirrorTheDisk, NEW p \in Pages, phase[p] \in {"served", "live"},
         crossed[p] \subseteq crossed'[p], NEW b \in BasesOf(p),
         NEW k \in Keys \ crossed'[p], disk'[k] = disk[k],
         cache' # None => cache'[k] \in {disk[k], Current[k]}
  PROVE  Mirrors(b[k], disk'[k]) /\ Mirrors(b[k], Current'[k])
<1>1. Mirrors(b[k], disk[k]) /\ Mirrors(b[k], Current[k])
  BY DEF BasesMirrorTheDisk
<1>2. CASE cache' = None
  <2>1. Current'[k] = disk'[k]
    BY <1>2 DEF Current
  <2>2. QED
    BY <1>1, <2>1
<1>3. CASE cache' # None
  <2>1. Current'[k] = cache'[k]
    BY <1>3 DEF Current
  <2>2. QED
    BY <1>1, <1>3, <2>1
<1>4. QED
  BY <1>2, <1>3

LEMMA QuietMirror ==
  ASSUME BasesMirrorTheDisk, UNCHANGED store,
         \A p \in Pages : phase'[p] \in {"served", "live"} =>
           phase[p] \in {"served", "live"} /\ crossed'[p] = crossed[p]
  PROVE  BasesMirrorTheDisk'
BY DEF BasesMirrorTheDisk, BasesOf, store, Current, HashOf, DataOf, Mirrors

LEMMA TextWriteKeepsMirror ==
  ASSUME IInv, BasesMirrorTheDisk, UNCHANGED <<base, owner, served, phase>>,
         cache' = None, crossed' = CrossedBy(NoPage)
  PROVE  BasesMirrorTheDisk'
<1>1. ASSUME NEW p \in Pages, phase[p] \in {"served", "live"}, NEW b \in BasesOf(p),
             NEW k \in Keys \ crossed'[p]
      PROVE  Mirrors(b[k], disk'[k]) /\ Mirrors(b[k], Current'[k])
  <2>1. p # NoPage
    BY StoreAssumption
  <2>2. crossed[p] \subseteq crossed'[p] /\ disk'[k] = disk[k]
    BY <1>1, <2>1, NotCrossed
  <2>3. QED
    BY <1>1, <2>2, MirrorKept
<1>2. QED
  BY <1>1 DEF BasesMirrorTheDisk, BasesOf, HashOf, DataOf, Mirrors, Current

LEMMA ServeKeepsMirror ==
  ASSUME IInv, BasesMirrorTheDisk, NEW p \in Pages, Serve(p)
  PROVE  BasesMirrorTheDisk'
<1> DEFINE fp == Fingerprints(disk)
           queue == Append(served, [page |-> p, base |-> fp])
<1>1. /\ TypeOK /\ phase[p] = "unborn" /\ UNCHANGED <<disk, owner, crossed>> /\ cache' = disk
      /\ base' = IF owner = NoPage THEN fp ELSE base
      /\ phase' = [phase EXCEPT ![p] = "served"]
      /\ served' \in {queue, Tail(queue)}
  BY DEF IInv, Serve
<1>2. fp \in Base
  BY <1>1, FingerprintsAreABase
<1>3. \A j \in DOMAIN served' : \/ served'[j] = [page |-> p, base |-> fp]
                                \/ \E i \in DOMAIN served : served'[j] = served[i]
  <2>1. /\ \A j \in DOMAIN queue :
             queue[j] = [page |-> p, base |-> fp]
             \/ \E i \in DOMAIN served : queue[j] = served[i]
        /\ \A j \in DOMAIN Tail(queue) : \E i \in DOMAIN queue : Tail(queue)[j] = queue[i]
    <3> HIDE DEF fp
    <3>1. QED
      BY <1>1, <1>2, ServedQueueType
  <2> DEFINE new == [page |-> p, base |-> fp]
  <2> HIDE DEF queue, new, fp
  <2>2. /\ \A j \in DOMAIN queue : queue[j] = new \/ \E i \in DOMAIN served : queue[j] = served[i]
        /\ \A j \in DOMAIN Tail(queue) : \E i \in DOMAIN queue : Tail(queue)[j] = queue[i]
    BY <2>1 DEF new
  <2>3. \A j \in DOMAIN served' : served'[j] = new \/ \E i \in DOMAIN served : served'[j] = served[i]
    <3>1. CASE served' = queue
      BY <2>2, <3>1
    <3>2. CASE served' = Tail(queue)
      BY <2>2, <3>2
    <3>3. QED
      BY <1>1, <3>1, <3>2
  <2>4. QED
    BY <2>3 DEF new
<1>4. /\ \A q \in Pages \ {p} : phase'[q] = phase[q]
      /\ \A i \in DOMAIN served : served[i].page # p
      /\ owner # p
  BY <1>1, StoreAssumption DEF TypeOK, IInv, PagesSendWhatTheyHold
<1>5. \A k \in Keys : Mirrors(fp[k], disk[k])
  BY <1>1, FingerprintMirrors DEF Fingerprints, TypeOK, Tree
<1>6. \A k \in Keys : disk'[k] = disk[k] /\ Current'[k] = disk[k]
  BY <1>1 DEF Current
<1> HIDE DEF fp, queue
<1>7. \A b \in BasesOf(p)' : b = fp
  BY <1>1, <1>3, <1>4 DEF BasesOf
<1>8. \A q \in Pages \ {p} : \A b \in BasesOf(q)' : b \in BasesOf(q)
  <2>1. SUFFICES ASSUME NEW q \in Pages \ {p}, NEW b \in BasesOf(q)'
                 PROVE  b \in BasesOf(q)
    OBVIOUS
  <2>2. b \in Base /\ (\/ owner' = q /\ b = base'
                       \/ \E j \in DOMAIN served' : served'[j].page = q /\ served'[j].base = b)
    BY <2>1 DEF BasesOf
  <2>3. CASE owner' = q /\ b = base'
    BY <1>1, <2>2, <2>3, StoreAssumption DEF BasesOf
  <2>4. ASSUME NEW j \in DOMAIN served', served'[j].page = q, served'[j].base = b
        PROVE  b \in BasesOf(q)
    <3>1. \E i \in DOMAIN served : served'[j] = served[i]
      BY <1>3, <2>4
    <3>2. QED
      BY <2>2, <2>4, <3>1 DEF BasesOf
  <2>5. QED
    BY <2>2, <2>3, <2>4
<1>9. ASSUME NEW q \in Pages, phase'[q] \in {"served", "live"}, NEW b \in BasesOf(q)',
             NEW k \in Keys \ crossed'[q]
      PROVE  Mirrors(b[k], disk'[k]) /\ Mirrors(b[k], Current'[k])
  <2>1. CASE q = p
    BY <1>5, <1>6, <1>7, <1>9, <2>1
  <2>2. CASE q # p
    <3>1. b \in BasesOf(q) /\ phase[q] \in {"served", "live"} /\ k \in Keys \ crossed[q]
      BY <1>1, <1>4, <1>8, <1>9, <2>2
    <3>2. Mirrors(b[k], disk[k])
      BY <3>1 DEF BasesMirrorTheDisk
    <3>3. QED
      BY <1>6, <3>2
  <2>3. QED
    BY <2>1, <2>2
<1>10. QED
  BY <1>9 DEF BasesMirrorTheDisk, HashOf, DataOf, Mirrors, BasesOf, Current

LEMMA AckKeepsMirror ==
  ASSUME IInv, PagesTakeTurns, BasesMirrorTheDisk, NEW m \in net, HandleAck(m)
  PROVE  BasesMirrorTheDisk'
<1> DEFINE c == Claim(m.page)
           inc == [k \in Keys |-> IF m.mem[k] # Gone
                                  THEN LiveRecord(m.mem[k], Device, clock) ELSE None]
<1>1. /\ TypeOK /\ UNCHANGED <<disk, phase, crossed>> /\ cache' \in {cache, Current}
      /\ owner' = c.owner /\ served' = c.served
      /\ base' = IF c.granted
                 THEN [k \in Keys |-> AcknowledgedBase(c.base[k], inc[k], Current[k])]
                 ELSE c.base
  BY DEF HandleAck, browser, history, ghosts, IInv
<1>2. /\ \A p \in Pages : c.owner = p => c.base \in BasesOf(p)
      /\ \A j \in DOMAIN c.served : \E i \in DOMAIN served : c.served[j] = served[i]
  BY ClaimInTurn
<1>3. Current \in Tree /\ Current' = Current
  BY <1>1, CurrentType DEF Current
<1> HIDE DEF c, inc
<1>4. ASSUME NEW p \in Pages, phase[p] \in {"served", "live"}, NEW b \in BasesOf(p)',
             NEW k \in Keys \ crossed[p]
      PROVE  Mirrors(b[k], disk[k]) /\ Mirrors(b[k], Current[k])
  <2>1. \A b0 \in BasesOf(p) : Mirrors(b0[k], disk[k]) /\ Mirrors(b0[k], Current[k])
    BY <1>4 DEF BasesMirrorTheDisk
  <2>2. b \in Base /\ (\/ owner' = p /\ b = base'
                       \/ \E j \in DOMAIN served' : served'[j].page = p /\ served'[j].base = b)
    BY <1>4 DEF BasesOf
  <2>3. CASE owner' = p /\ b = base'
    <3>1. c.base \in BasesOf(p) /\ c.base[k] \in Fingerprint \cup {None}
      BY <1>1, <1>2, <2>3 DEF BasesOf, Base
    <3>2. CASE ~c.granted
      BY <1>1, <2>1, <2>3, <3>1, <3>2
    <3>3. CASE c.granted
      <4>1. b[k] = AcknowledgedBase(c.base[k], inc[k], Current[k])
        BY <1>1, <2>3, <3>3
      <4>2. Current[k] \in Record \cup {None} /\ Mirrors(c.base[k], Current[k])
        BY <1>3, <2>1, <3>1 DEF Tree
      <4>3. inc[k] # None => inc[k].data # Gone
        BY DEF inc, LiveRecord
      <4>4. Mirrors(b[k], disk[k]) /\ Mirrors(b[k], Current[k])
        BY <2>1, <3>1, <4>1, <4>2, <4>3, AcknowledgedMirrors
      <4>5. QED
        BY <4>4
    <3>4. QED
      BY <3>2, <3>3
  <2>4. ASSUME NEW j \in DOMAIN served', served'[j].page = p, served'[j].base = b
        PROVE  b \in BasesOf(p)
    BY <1>1, <1>2, <2>2, <2>4 DEF BasesOf
  <2>5. QED
    BY <2>1, <2>2, <2>3, <2>4
<1>5. QED
  BY <1>1, <1>3, <1>4 DEF BasesMirrorTheDisk, HashOf, DataOf, Mirrors

\* A save that merges against a base that mirrors the disk: what it leaves
\* on disk, in the cache and in the base is the same; and that is what the
\* page sent, if it sent the record or had nothing to send.
LEMMA SavedKey ==
  ASSUME NEW t \in Nat, StampInvUpTo(t), NEW m \in net, HandleSave(m), NEW k \in Keys,
         Claim(m.page).granted,
         Mirrors(Claim(m.page).base[k], disk[k]),
         Mirrors(Claim(m.page).base[k], Current[k])
  PROVE  /\ Mirrors(base'[k], disk'[k]) /\ Mirrors(base'[k], cache'[k])
         /\ k \in m.sent \/ m.mem[k] = DataOf(disk[k]) => DataOf(disk'[k]) = m.mem[k]
<1> DEFINE c == Claim(m.page)
           inc == Incoming(m, c.base, clock + 1)
           merged == Merged(m, c.base, inc, clock + 1)
           b == c.base[k]
           i == inc[k]
           r == merged[k]
           cur == Current[k]
           x == m.mem[k]
           known == k \in LiveKeys(m.mem)
<1>1. /\ TypeOK /\ m \in Message /\ m.page \in Pages /\ clock \in Nat /\ clock + 1 \in Nat
  BY DEF StampInvUpTo, TypeOK, Message
<1>2. /\ disk'[k] = IF r # None /\ RecordChangedSinceBase(r, b) THEN r ELSE disk[k]
      /\ cache'[k] = r
      /\ base'[k] = AcknowledgedBase(b, i, r)
  BY DEF HandleSave
<1>3. /\ b \in Fingerprint \cup {None} /\ i \in Record \cup {None}
      /\ cur \in Record \cup {None} /\ r \in Record \cup {None}
      /\ b # None => cur # None
      /\ cur # None => StampedRecord(cur, t)
      /\ k \in m.sent /\ x # Gone =>
           i \in Record /\ i.data = x /\ (b = None \/ b.hash # x => Outstamps(i, b, cur, clock + 1))
  BY SaveMerges
<1>4. i = None => k \notin m.sent \/ x = Gone
  <2>1. c.base \in Base
    BY <1>1, ClaimProperties
  <2>2. QED
    BY <1>1, <2>1, IncomingType
<1>5. i # None => k \in m.sent /\ x # Gone
  BY DEF Incoming
<1>6. known \in BOOLEAN /\ (known <=> x # Gone)
  BY DEF LiveKeys
<1>7. r = MergeRecord(b, i, cur, known, Device, clock + 1)
  BY Zenon DEF Merged
<1>8. /\ Mirrors(b, disk[k]) /\ Mirrors(b, cur)
      /\ HashOf(b) = DataOf(disk[k]) /\ HashOf(b) = DataOf(cur)
  BY DEF Mirrors
<1> HIDE DEF c, inc, merged, b, i, r, cur, x, known
<1>9. /\ i # None => r # None /\ r.data = i.data
      /\ i = None /\ b # None /\ ~known => r # None /\ r.data = Gone
      /\ i = None /\ (b = None \/ known) => r = cur
  <2>1. i # None => (b = None \/ b.hash # i.data => Outstamps(i, b, cur, clock + 1))
    BY <1>3, <1>5
  <2>2. QED
    BY <1>1, <1>3, <1>6, <1>7, <1>8, <2>1, KeyMerged
<1>10. DataOf(disk'[k]) = DataOf(r)
  <2>1. CASE r = None
    <3>1. r = cur
      BY <1>6, <1>9, <2>1
    <3>2. QED
      BY <1>2, <1>8, <2>1, <3>1
  <2>2. CASE r # None /\ RecordChangedSinceBase(r, b)
    BY <1>2, <2>2
  <2>3. CASE r # None /\ ~RecordChangedSinceBase(r, b)
    BY <1>2, <1>8, <2>3 DEF RecordChangedSinceBase, HashOf, DataOf
  <2>4. QED
    BY <2>1, <2>2, <2>3
<1>11. Mirrors(AcknowledgedBase(b, i, r), disk'[k]) /\ Mirrors(AcknowledgedBase(b, i, r), r)
  <2> DEFINE a == AcknowledgedBase(b, i, r)
  <2>1. CASE i # None
    <3>1. a = FingerprintOf(r) /\ r # None /\ r.data # Gone
      BY <1>3, <1>5, <1>9, <2>1 DEF AcknowledgedBase
    <3>2. Mirrors(a, r) /\ a.hash # Gone
      BY <1>3, <3>1, FingerprintMirrors DEF FingerprintOf
    <3>3. QED
      BY <1>10, <3>2 DEF Mirrors
  <2>2. CASE i = None /\ b # None /\ ~known
    <3>1. a = None
      BY <1>9, <2>2 DEF AcknowledgedBase, IsLive
    <3>2. QED
      BY <1>9, <1>10, <2>2, <3>1 DEF HashOf, DataOf, Mirrors
  <2>3. CASE i = None /\ (b = None \/ known)
    <3>1. r = cur
      BY <1>9, <2>3
    <3>2. disk'[k] \in {r, disk[k]}
      BY <1>2
    <3>3. QED
      BY <1>3, <1>8, <2>3, <3>1, <3>2, AcknowledgedMirrors
  <2>4. QED
    BY <1>6, <2>1, <2>2, <2>3
<1>12. k \in m.sent \/ x = DataOf(disk[k]) => DataOf(r) = x
  <2>1. SUFFICES ASSUME k \in m.sent \/ x = DataOf(disk[k])
                 PROVE  DataOf(r) = x
    OBVIOUS
  <2>2. CASE i # None
    BY <1>3, <1>5, <1>9, <2>2 DEF DataOf
  <2>3. CASE i = None /\ x = Gone
    BY <1>6, <1>8, <1>9, <2>3 DEF DataOf, HashOf
  <2>4. CASE i = None /\ x # Gone
    BY <1>4, <1>6, <1>8, <1>9, <2>1, <2>4
  <2>5. QED
    BY <2>2, <2>3, <2>4
<1>13. QED
  BY <1>2, <1>10, <1>11, <1>12 DEF x

\* What a save leaves: the cache is what was merged, and there is one.
LEMMA SaveCaches ==
  ASSUME IInv, NEW m \in net, HandleSave(m)
  PROVE  /\ cache' \in Tree /\ cache' # None /\ Current' = cache'
         /\ Claim(m.page).granted =>
              \A k \in Keys : \E inc :
                /\ inc # None => inc.data # Gone
                /\ base'[k] = AcknowledgedBase(Claim(m.page).base[k], inc, cache'[k])
<1> DEFINE c == Claim(m.page)
           inc == Incoming(m, c.base, clock + 1)
<1>1. TypeOK /\ m \in Message /\ m.page \in Pages /\ clock + 1 \in Nat
  BY DEF IInv, TypeOK, Message
<1>2. c.base \in Base
  BY <1>1, ClaimProperties
<1>3. /\ inc \in [Keys -> Record \cup {None}]
      /\ \A k \in Keys : inc[k] # None => inc[k].data # Gone
  BY <1>1, <1>2, IncomingType
<1>4. /\ cache' = Merged(m, c.base, inc, clock + 1)
      /\ c.granted => base' = [k \in Keys |-> AcknowledgedBase(c.base[k], inc[k], cache'[k])]
  BY DEF HandleSave
<1> HIDE DEF c, inc
<1>5. cache' \in Tree
  BY <1>1, <1>2, <1>3, <1>4, MergedType
<1>6. cache' # None
  BY <1>5, TreesAreThere
<1>7. Current' = cache'
  BY <1>6 DEF Current
<1>8. c.granted => \A k \in Keys : \E x :
        (x # None => x.data # Gone) /\ base'[k] = AcknowledgedBase(c.base[k], x, cache'[k])
  <2>1. SUFFICES ASSUME c.granted, NEW k \in Keys
                 PROVE  \E x : /\ x # None => x.data # Gone
                               /\ base'[k] = AcknowledgedBase(c.base[k], x, cache'[k])
    OBVIOUS
  <2>2. base'[k] = AcknowledgedBase(c.base[k], inc[k], cache'[k])
    BY <1>4, <2>1
  <2>3. QED
    BY <1>3, <2>2
<1>9. QED
  BY <1>5, <1>6, <1>7, <1>8 DEF c

\* After the save of a live page, granted, nothing is kept for the page but
\* the base.
LEMMA OwnSave ==
  ASSUME IInv, PagesTakeTurns, OneSpeaksAtATime, NEW m \in net, m.kind = "save", HandleSave(m)
  PROVE  /\ m.page = m.from
         /\ BasesOf(m.page)' \subseteq (IF Claim(m.page).granted THEN {base'} ELSE {})
         /\ Claim(m.page).granted => Claim(m.page).base \in BasesOf(m.page)
         /\ crossed'[m.page] = crossed[m.page]
         /\ Remembered(m.page)' => Claim(m.page).granted
<1> DEFINE c == Claim(m.page)
<1>1. m.page = m.from /\ m.page \in Pages
  BY Speakers DEF OneSpeaksAtATime
<1>2. owner' = c.owner /\ served' = c.served /\ crossed' = CrossedBy(m.from)
  BY DEF HandleSave
<1>3. turn \in [Pages -> Nat] /\ m.page # NoPage
  BY <1>1, StoreAssumption DEF IInv, TypeOK
<1>4. /\ c.granted => c.owner = m.page
      /\ ~c.granted => c.owner # m.page /\ \A j \in DOMAIN c.served : c.served[j].page # m.page
      /\ c.owner = m.page => c.base \in BasesOf(m.page)
      /\ c.owner # NoPage => \A j \in DOMAIN c.served : turn[c.owner] < turn[c.served[j].page]
  BY <1>1, ClaimInTurn
<1>5. crossed'[m.page] = crossed[m.page]
  BY <1>1, <1>2 DEF CrossedBy
<1> HIDE DEF c
<1>6. c.granted => \A j \in DOMAIN c.served : c.served[j].page # m.page
  <2>1. SUFFICES ASSUME c.granted, NEW j \in DOMAIN c.served, c.served[j].page = m.page
                 PROVE  FALSE
    OBVIOUS
  <2>2. turn[m.page] < turn[m.page]
    BY <1>3, <1>4, <2>1
  <2>3. QED
    BY <1>1, <1>3, <2>2
<1>7. BasesOf(m.page)' \subseteq (IF c.granted THEN {base'} ELSE {})
  BY <1>2, <1>4, <1>6 DEF BasesOf
<1>8. Remembered(m.page)' => c.granted
  BY <1>2, <1>4 DEF Remembered
<1>9. QED
  BY <1>1, <1>4, <1>5, <1>7, <1>8 DEF c

LEMMA SaveKeepsMirror ==
  ASSUME IInv, StampInv, PagesTakeTurns, OneSpeaksAtATime, BasesMirrorTheDisk,
         NEW m \in net, HandleSave(m)
  PROVE  BasesMirrorTheDisk'
<1> DEFINE c == Claim(m.page)
           writer == IF m.kind = "save" THEN m.from ELSE NoPage
<1>1. /\ TypeOK /\ UNCHANGED phase /\ owner' = c.owner /\ served' = c.served
      /\ crossed' = CrossedBy(writer) /\ base' = IF c.granted THEN base' ELSE c.base
  BY DEF HandleSave, IInv
<1>2. /\ cache' \in Tree /\ cache' # None /\ Current' = cache'
      /\ c.granted => \A k \in Keys : \E x :
           (x # None => x.data # Gone) /\ base'[k] = AcknowledgedBase(c.base[k], x, cache'[k])
  BY SaveCaches
<1>3. /\ \A p \in Pages : c.owner = p => c.base \in BasesOf(p)
      /\ \A j \in DOMAIN c.served : \E i \in DOMAIN served : c.served[j] = served[i]
  BY ClaimInTurn
<1>4. ASSUME NEW q \in Pages, phase[q] \in {"served", "live"}, NEW b \in BasesOf(q)',
             NEW k \in Keys \ crossed'[q]
      PROVE  Mirrors(b[k], disk'[k]) /\ Mirrors(b[k], cache'[k])
  <2>1. CASE q = writer
    <3>1. m.kind = "save" /\ q = m.from
      BY <1>4, <2>1, StoreAssumption
    <3>2. q = m.page /\ c.granted /\ b = base' /\ c.base \in BasesOf(q) /\ crossed'[q] = crossed[q]
      <4> HIDE DEF c, writer
      <4>1. /\ m.page = m.from
            /\ BasesOf(m.page)' \subseteq (IF c.granted THEN {base'} ELSE {})
            /\ c.granted => c.base \in BasesOf(m.page)
            /\ crossed'[m.page] = crossed[m.page]
        BY <3>1, OwnSave DEF c
      <4>2. q = m.page /\ b \in BasesOf(m.page)'
        BY <1>4, <3>1, <4>1
      <4>3. c.granted
        BY <4>1, <4>2
      <4>4. QED
        BY <4>1, <4>2, <4>3
    <3>3. Mirrors(c.base[k], disk[k]) /\ Mirrors(c.base[k], Current[k])
      BY <1>4, <3>2 DEF BasesMirrorTheDisk
    <3>4. Mirrors(base'[k], disk'[k]) /\ Mirrors(base'[k], cache'[k])
      BY <3>2, <3>3, SavedKey DEF StampInv
    <3>5. QED
      BY <3>2, <3>4
  <2>2. CASE q # writer
    <3>1. /\ crossed[q] \subseteq crossed'[q]
          /\ disk'[k] = disk[k] /\ cache'[k] = Current[k]
      <4> HIDE DEF writer
      <4>1. QED
        BY <1>1, <1>2, <1>4, <2>2, NotCrossed
    <3>2. \A b0 \in BasesOf(q) : Mirrors(b0[k], disk[k]) /\ Mirrors(b0[k], Current[k])
      BY <1>4, <3>1 DEF BasesMirrorTheDisk
    <3>3. b \in Base /\ (\/ owner' = q /\ b = base'
                         \/ \E j \in DOMAIN served' : served'[j].page = q /\ served'[j].base = b)
      BY <1>4 DEF BasesOf
    <3> HIDE DEF c, writer
    <3>4. CASE owner' = q /\ b = base'
      <4>1. c.base \in BasesOf(q) /\ c.base[k] \in Fingerprint \cup {None}
        BY <1>1, <1>3, <3>4 DEF BasesOf, Base
      <4>2. CASE ~c.granted
        BY <1>1, <3>1, <3>2, <3>4, <4>1, <4>2
      <4>3. CASE c.granted
        <5>1. PICK x : /\ x # None => x.data # Gone
                       /\ b[k] = AcknowledgedBase(c.base[k], x, cache'[k])
          BY <1>2, <3>4, <4>3
        <5>2. cache'[k] \in Record \cup {None} /\ Mirrors(c.base[k], cache'[k])
          BY <1>2, <3>1, <3>2, <4>1 DEF Tree
        <5>3. Mirrors(b[k], disk[k]) /\ Mirrors(b[k], cache'[k])
          BY <3>2, <4>1, <5>1, <5>2, AcknowledgedMirrors
        <5>4. QED
          BY <3>1, <5>3
      <4>4. QED
        BY <4>2, <4>3
    <3>5. ASSUME NEW j \in DOMAIN served', served'[j].page = q, served'[j].base = b
          PROVE  b \in BasesOf(q)
      BY <1>1, <1>3, <3>3, <3>5 DEF BasesOf
    <3>6. QED
      BY <3>1, <3>2, <3>3, <3>4, <3>5
  <2>3. QED
    BY <2>1, <2>2
<1>5. QED
  BY <1>1, <1>2, <1>4 DEF BasesMirrorTheDisk, HashOf, DataOf, Mirrors

LEMMA MirrorStep ==
  ASSUME IInv, StampInv, PagesTakeTurns, OneSpeaksAtATime, BasesMirrorTheDisk, [Next]_vars
  PROVE  BasesMirrorTheDisk'
<1>1. phase \in [Pages -> {"unborn", "served", "live", "gone"}]
  BY DEF IInv, TypeOK
<1>2. ASSUME NEW p \in Pages, PageStep(p)
      PROVE  BasesMirrorTheDisk'
  <2>1. CASE Boot(p)
    <3>1. /\ UNCHANGED store /\ UNCHANGED crossed /\ phase[p] = "served"
          /\ phase' = [phase EXCEPT ![p] = "live"]
      BY <2>1 DEF Boot, history, ghosts
    <3>2. QED
      BY <1>1, <3>1, QuietMirror
  <2>2. CASE Exit(p)
    <3>1. /\ UNCHANGED store /\ crossed' = [crossed EXCEPT ![p] = {}]
          /\ phase' = [phase EXCEPT ![p] = "gone"]
      BY <2>2 DEF Exit
    <3>2. \A q \in Pages : phase'[q] \in {"served", "live"} =>
             phase[q] \in {"served", "live"} /\ crossed'[q] = crossed[q]
      BY <1>1, <3>1 DEF IInv, TypeOK
    <3>3. QED
      BY <3>1, <3>2, QuietMirror
  <2>3. CASE \/ \E k \in Keys, d \in Content : Edit(p, k, d)
             \/ SendSave(p) \/ FetchSnapshot(p) \/ ApplySnapshot(p) \/ Hide(p)
    <3>1. UNCHANGED store /\ UNCHANGED <<crossed, phase>>
      BY <2>3 DEF Edit, SendSave, FetchSnapshot, ApplySnapshot, Hide, ghosts
    <3>2. QED
      BY <3>1, QuietMirror
  <2>4. CASE \/ \E k \in Keys, d \in Data : UpsertText(p, k, d)
             \/ \E k \in Keys : DeleteText(p, k)
    <3>1. UNCHANGED <<base, owner, served, phase>> /\ cache' = None /\ crossed' = CrossedBy(NoPage)
      BY <2>4 DEF UpsertText, DeleteText, browser
    <3>2. QED
      BY <3>1, TextWriteKeepsMirror
  <2>5. QED
    BY <1>2, <2>1, <2>2, <2>3, <2>4, ServeKeepsMirror DEF PageStep
<1>3. ASSUME NEW m \in net, RequestStep(m)
      PROVE  BasesMirrorTheDisk'
  <2>1. CASE Lose(m)
    <3>1. UNCHANGED store /\ UNCHANGED <<crossed, phase>>
      BY <2>1 DEF Lose
    <3>2. QED
      BY <3>1, QuietMirror
  <2>2. QED
    BY <1>3, <2>1, SaveKeepsMirror, AckKeepsMirror DEF RequestStep
<1>4. CASE Restart
  <2>1. \A p \in Pages : phase'[p] \notin {"served", "live"}
    BY <1>4 DEF Restart
  <2>2. QED
    BY <2>1 DEF BasesMirrorTheDisk
<1>5. CASE UNCHANGED vars
  <2>1. UNCHANGED store /\ UNCHANGED <<crossed, phase>>
    BY <1>5 DEF vars, browser, history, ghosts
  <2>2. QED
    BY <2>1, QuietMirror
<1>6. QED
  BY <1>2, <1>3, <1>4, <1>5 DEF Next

-------------------------------------------------------------------------------
(* What a page shows.                                                      *)

\* A page about whose base the store knew nothing is not remembered again.
LEMMA RememberedBefore ==
  ASSUME IInv, PagesTakeTurns, [Next]_vars, NEW p \in Pages,
         phase[p] # "unborn", Remembered(p)'
  PROVE  Remembered(p)
<1>1. TypeOK /\ p # NoPage
  BY StoreAssumption DEF IInv
<1>2. CASE UNCHANGED <<owner, served>>
  BY <1>2 DEF Remembered
<1>3. ASSUME NEW q \in Pages, Serve(q)
      PROVE  Remembered(p)
  <2> DEFINE fp == Fingerprints(disk)
             queue == Append(served, [page |-> q, base |-> fp])
  <2>1. UNCHANGED owner /\ served' \in {queue, Tail(queue)} /\ q # p
    BY <1>3 DEF Serve
  <2>2. fp \in Base
    BY <1>1, FingerprintsAreABase
  <2> HIDE DEF fp
  <2>3. /\ \A j \in DOMAIN queue :
             queue[j] = [page |-> q, base |-> fp] \/ \E i \in DOMAIN served : queue[j] = served[i]
        /\ \A j \in DOMAIN Tail(queue) : \E i \in DOMAIN queue : Tail(queue)[j] = queue[i]
    BY <1>1, <2>2, ServedQueueType
  <2> HIDE DEF queue
  <2>4. CASE owner' = p
    BY <2>1, <2>4 DEF Remembered
  <2>5. ASSUME NEW j \in DOMAIN served', served'[j].page = p
        PROVE  Remembered(p)
    <3>1. PICK l \in DOMAIN queue : served'[j] = queue[l]
      BY <2>1, <2>3
    <3>2. queue[l].page = p
      BY <2>5, <3>1
    <3>3. queue[l] # [page |-> q, base |-> fp]
      BY <2>1, <3>2
    <3>4. \E i \in DOMAIN served : queue[l] = served[i]
      BY <2>3, <3>3
    <3>5. QED
      BY <3>2, <3>4 DEF Remembered
  <2>6. QED
    BY <2>4, <2>5 DEF Remembered
<1>4. ASSUME NEW m \in net, owner' = Claim(m.page).owner, served' = Claim(m.page).served
      PROVE  Remembered(p)
  <2> DEFINE c == Claim(m.page)
  <2>1. /\ c.owner = p => c.base \in BasesOf(p)
        /\ \A j \in DOMAIN c.served : \E i \in DOMAIN served : c.served[j] = served[i]
    BY ClaimInTurn
  <2> HIDE DEF c
  <2>2. owner' = c.owner /\ served' = c.served
    BY <1>4 DEF c
  <2>3. QED
    BY <2>1, <2>2 DEF Remembered, BasesOf
<1>5. ASSUME NEW q \in Pages, PageStep(q), ~Serve(q)
      PROVE  UNCHANGED <<owner, served>>
  BY <1>5 DEF PageStep, Boot, Edit, SendSave, FetchSnapshot, ApplySnapshot, UpsertText, DeleteText,
              Hide, Exit, store
<1>6. ASSUME NEW m \in net, RequestStep(m)
      PROVE  \/ UNCHANGED <<owner, served>>
             \/ owner' = Claim(m.page).owner /\ served' = Claim(m.page).served
  BY <1>6 DEF RequestStep, HandleSave, HandleAck, Lose, store
<1>7. ~Restart
  <2>1. SUFFICES ASSUME Restart
                 PROVE  FALSE
    OBVIOUS
  <2>2. owner' = NoPage /\ DOMAIN served' = {}
    BY <2>1 DEF Restart
  <2>3. QED
    BY <1>1, <2>2 DEF Remembered
<1>8. CASE UNCHANGED vars
  BY <1>2, <1>8 DEF vars, store
<1>9. QED
  BY <1>2, <1>3, <1>4, <1>5, <1>6, <1>7, <1>8 DEF Next

\* Nothing changes for a page when another one acts.
LEMMA BystanderWaits ==
  ASSUME NEW p \in Pages, OnItsWay(p), phase'[p] = phase[p], mem'[p] = mem[p],
         dirty'[p] = dirty[p], unsaved'[p] = unsaved[p], SavesOf(p)' = SavesOf(p),
         ExclusiveWrite(p)' => ExclusiveWrite(p), crossed[p] \subseteq crossed'[p],
         \A k \in Keys \ crossed'[p] : disk'[k] = disk[k]
  PROVE  OnItsWay(p)'
<1>1. \A k \in Keys \ crossed'[p] : k \in Keys \ crossed[p] /\ (Shows(p, k)' <=> Shows(p, k))
  BY DEF Shows, DataOf
<1>2. Saved(p)' <=> Saved(p)
  BY DEF Saved
<1>3. phase'[p] = "served" => \A k \in Keys \ crossed'[p] : Shows(p, k)'
  BY <1>1 DEF OnItsWay
<1>4. ASSUME phase'[p] = "live"
      PROVE  /\ Saved(p)' => \A k \in Keys \ crossed'[p] : Shows(p, k)'
             /\ unsaved'[p] = "sent" => SavesOf(p)' # {}
             /\ ExclusiveWrite(p)' => unsaved'[p] = "yes"
             /\ unsaved'[p] = "yes" /\ SavesOf(p)' = {} =>
                  \A k \in Keys \ crossed'[p] : k \in dirty'[p] \/ Shows(p, k)'
             /\ unsaved'[p] # "yes" => \A m \in SavesOf(p)' :
                  m.mem = mem'[p] /\ \A k \in Keys \ crossed'[p] : k \in m.sent \/ Shows(p, k)'
  BY <1>1, <1>2, <1>4 DEF OnItsWay
<1>5. QED
  BY <1>3, <1>4 DEF OnItsWay, SavesOf, Shows, DataOf, Saved, ExclusiveWrite, Sent

LEMMA PageStepKeepsWay ==
  ASSUME SaveInv, NEW a \in Pages, PageStep(a), NEW p \in Pages \ gaveUp,
         phase'[p] \in {"served", "live"}, Remembered(p)'
  PROVE  OnItsWay(p)'
<1>1. /\ TypeOK /\ phase \in [Pages -> {"unborn", "served", "live", "gone"}]
      /\ mem \in [Pages -> Memory] /\ dirty \in [Pages -> SUBSET Keys]
      /\ unsaved \in [Pages -> Progress] /\ crossed \in [Pages -> SUBSET Keys]
      /\ p # NoPage
  BY StoreAssumption DEF SaveInv, WriteInv, IInv, TypeOK
<1>2. phase[p] # "unborn" => OnItsWay(p)
  <2>1. ASSUME phase[p] # "unborn"
        PROVE  Remembered(p)
    <3>1. [Next]_vars
      BY DEF Next
    <3>2. QED
      BY <2>1, <3>1, RememberedBefore DEF SaveInv, WriteInv
  <2>2. QED
    BY <2>1 DEF SaveInv, ChangesAreOnTheirWay
<1>3. CASE Serve(a)
  <2>1. /\ phase' = [phase EXCEPT ![a] = "served"] /\ phase[a] = "unborn"
        /\ mem' = [mem EXCEPT ![a] = Snapshot]
        /\ UNCHANGED <<disk, dirty, unsaved, net, crossed>>
    BY <1>3 DEF Serve
  <2>2. CASE p = a
    <3>1. phase'[p] = "served" /\ mem'[p] = Snapshot
      BY <1>1, <2>1, <2>2
    <3>2. \A k \in Keys : mem'[p][k] = DataOf(disk'[k])
      BY <1>1, <2>1, <3>1, SnapshotShowsTheDisk
    <3>3. QED
      BY <3>1, <3>2 DEF OnItsWay, Shows, DataOf
  <2>3. CASE p # a
    <3>1. phase'[p] = phase[p] /\ mem'[p] = mem[p] /\ phase[p] # "unborn"
      BY <1>1, <2>1, <2>3
    <3>2. QED
      BY <1>2, <2>1, <3>1, BystanderWaits DEF SavesOf, ExclusiveWrite, Sent
  <2>4. QED
    BY <2>2, <2>3
<1>4. CASE Boot(a)
  <2>1. /\ phase' = [phase EXCEPT ![a] = "live"] /\ phase[a] = "served"
        /\ dirty' = [dirty EXCEPT ![a] = IF Android THEN Keys ELSE {}]
        /\ unsaved' = [unsaved EXCEPT ![a] = IF Android THEN "yes" ELSE "no"]
        /\ net' = net \cup Replayed(a)
        /\ UNCHANGED <<disk, mem, crossed>>
    BY <1>4 DEF Boot, store, history, ghosts
  <2>2. \A m \in Replayed(a) : m.kind = "replay"
    <3>1. pending # None => pending \in Message
      BY <1>1 DEF TypeOK
    <3>2. QED
      BY <3>1 DEF Replayed, Message
  <2>3. SavesOf(p)' = SavesOf(p) /\ (ExclusiveWrite(p)' <=> ExclusiveWrite(p))
    BY <2>1, <2>2 DEF SavesOf, ExclusiveWrite, Sent
  <2>4. CASE p = a
    <3>1. /\ phase[p] = "served" /\ phase'[p] = "live"
          /\ dirty'[p] = (IF Android THEN Keys ELSE {})
          /\ unsaved'[p] = (IF Android THEN "yes" ELSE "no")
      BY <1>1, <2>1, <2>4
    <3>2. SavesOf(p) = {} /\ ~ExclusiveWrite(p)
      <4>1. \A m \in net : m.kind \in {"save", "ack"} => m.from # p
        BY <3>1 DEF SaveInv, OneSpeaksAtATime, Messages
      <4>2. QED
        BY <4>1 DEF SavesOf, ExclusiveWrite, Sent
    <3>3. \A k \in Keys \ crossed'[p] : Shows(p, k)'
      BY <1>2, <2>1, <3>1 DEF OnItsWay, Shows, DataOf
    <3>4. CASE Android
      <4>1. unsaved'[p] = "yes" /\ dirty'[p] = Keys /\ ~Saved(p)'
        BY <3>1, <3>4 DEF Saved
      <4>2. QED
        BY <3>1, <4>1 DEF OnItsWay
    <3>5. CASE ~Android
      <4>1. unsaved'[p] = "no"
        BY <3>1, <3>5
      <4>2. QED
        BY <2>3, <3>1, <3>2, <3>3, <4>1 DEF OnItsWay
    <3>6. QED
      BY <3>4, <3>5
  <2>5. CASE p # a
    <3>1. phase'[p] = phase[p] /\ dirty'[p] = dirty[p] /\ unsaved'[p] = unsaved[p]
      BY <1>1, <2>1, <2>5
    <3>2. phase[p] # "unborn"
      BY <3>1
    <3>3. QED
      BY <1>2, <2>1, <2>3, <3>1, <3>2, BystanderWaits
  <2>6. QED
    BY <2>4, <2>5
<1>5. ASSUME NEW k \in Keys, NEW d \in Content, Edit(a, k, d)
      PROVE  OnItsWay(p)'
  <2>1. /\ UNCHANGED <<phase, net, disk, crossed>>
        /\ mem' = [mem EXCEPT ![a][k] = d]
        /\ dirty' = [dirty EXCEPT ![a] = @ \cup {k}]
        /\ unsaved' = [unsaved EXCEPT ![a] = "yes"]
    BY <1>5 DEF Edit, store
  <2>2. SavesOf(p)' = SavesOf(p) /\ (ExclusiveWrite(p)' <=> ExclusiveWrite(p)) /\ OnItsWay(p)
    BY <1>2, <2>1 DEF SavesOf, ExclusiveWrite, Sent
  <2>3. CASE p = a
    <3>1. phase'[p] = "live" /\ phase[p] = "live"
      BY <1>5, <2>1, <2>3 DEF Edit
    <3>2. /\ unsaved'[p] = "yes" /\ ~Saved(p)' /\ dirty'[p] = dirty[p] \cup {k}
          /\ \A j \in Keys \ {k} : mem'[p][j] = mem[p][j]
      BY <1>1, <2>1, <2>3 DEF Saved, Memory
    <3>3. ASSUME SavesOf(p) = {}, NEW j \in Keys \ crossed[p]
          PROVE  j \in dirty[p] \/ Shows(p, j)
      <4>1. unsaved[p] = "yes" \/ Saved(p)
        BY <1>1, <2>2, <3>1, <3>3 DEF OnItsWay, Saved, Progress
      <4>2. QED
        BY <2>2, <3>1, <3>3, <4>1 DEF OnItsWay
    <3>4. ASSUME SavesOf(p)' = {}, NEW j \in Keys \ crossed'[p]
          PROVE  j \in dirty'[p] \/ Shows(p, j)'
      <4>1. j \in dirty[p] \/ Shows(p, j)
        BY <2>1, <2>2, <3>3, <3>4
      <4>2. QED
        BY <2>1, <3>2, <4>1 DEF Shows, DataOf
    <3>5. QED
      BY <3>1, <3>2, <3>4 DEF OnItsWay
  <2>4. CASE p # a
    <3>1. mem'[p] = mem[p] /\ dirty'[p] = dirty[p] /\ unsaved'[p] = unsaved[p]
      BY <1>1, <2>1, <2>4
    <3>2. QED
      BY <2>1, <2>2, <3>1, BystanderWaits
  <2>5. QED
    BY <2>3, <2>4
<1>6. CASE SendSave(a)
  <2>1. /\ phase[a] = "live" /\ UNCHANGED <<phase, disk, crossed, mem, dirty>>
        /\ ~SaveInFlight(a) /\ ~ExclusiveWrite(a)
        /\ unsaved' = IF unsaved[a] = "yes" THEN [unsaved EXCEPT ![a] = "sent"] ELSE unsaved
    BY <1>6 DEF SendSave, store, ghosts
  <2>2. PICK sent \in {dirty[a], Keys} : net' = net \cup {Request("save", a, a, sent, mem[a])}
    BY <1>6 DEF SendSave
  <2> DEFINE new == Request("save", a, a, sent, mem[a])
  <2>3. new.kind = "save" /\ new.from = a /\ new.sent = sent /\ new.mem = mem[a]
    BY DEF Request
  <2>4. net' = net \cup {new} /\ OnItsWay(p)
    BY <1>2, <2>1, <2>2
  <2> HIDE DEF new
  <2>5. ExclusiveWrite(p)' <=> ExclusiveWrite(p)
    BY <2>3, <2>4 DEF ExclusiveWrite, Sent
  <2>6. CASE p = a
    <3>1. SavesOf(p) = {} /\ SavesOf(p)' = {new} /\ ~ExclusiveWrite(p)'
      BY <2>1, <2>3, <2>4, <2>5, <2>6 DEF SavesOf, SaveInFlight, Sent
    <3>2. phase[p] = "live" /\ phase'[p] = "live" /\ mem'[p] = mem[p] /\ unsaved'[p] # "yes"
      BY <1>1, <2>1, <2>6
    <3>3. unsaved[p] = "yes" \/ Saved(p)
      BY <1>1, <2>4, <3>1, <3>2 DEF OnItsWay, Saved, Progress
    <3>4. \A j \in Keys \ crossed[p] : j \in sent \/ Shows(p, j)
      BY <1>1, <2>4, <2>6, <3>1, <3>2, <3>3 DEF OnItsWay
    <3>5. \A j \in Keys : Shows(p, j)' <=> Shows(p, j)
      BY <2>1 DEF Shows, DataOf
    <3>6. Saved(p)' => Saved(p)
      BY <1>1, <2>1, <2>6 DEF Saved
    <3>7. Saved(p)' => \A j \in Keys \ crossed'[p] : Shows(p, j)'
      BY <2>1, <2>4, <3>2, <3>5, <3>6 DEF OnItsWay
    <3>8. \A m \in SavesOf(p)' :
            m.mem = mem'[p] /\ \A j \in Keys \ crossed'[p] : j \in m.sent \/ Shows(p, j)'
      BY <2>1, <2>3, <2>6, <3>1, <3>4, <3>5
    <3>9. QED
      BY <3>1, <3>2, <3>7, <3>8 DEF OnItsWay
  <2>7. CASE p # a
    <3>1. unsaved'[p] = unsaved[p] /\ SavesOf(p)' = SavesOf(p)
      BY <1>1, <2>1, <2>3, <2>4, <2>7 DEF SavesOf
    <3>2. QED
      BY <2>1, <2>4, <2>5, <3>1, BystanderWaits
  <2>8. QED
    BY <2>6, <2>7
<1>7. CASE ApplySnapshot(a)
  <2> DEFINE new == Request("ack", a, a, Keys, fetched[a])
  <2>1. /\ phase[a] = "live" /\ UNCHANGED <<phase, disk, crossed>>
        /\ mem' = [mem EXCEPT ![a] = fetched[a]]
        /\ dirty' = [dirty EXCEPT ![a] = Keys]
        /\ unsaved' = [unsaved EXCEPT ![a] = "yes"]
        /\ net' = net \cup {new} /\ OnItsWay(p)
    BY <1>2, <1>7 DEF ApplySnapshot, store
  <2>2. new.kind = "ack" /\ new.from = a
    BY DEF Request
  <2> HIDE DEF new
  <2>3. CASE p = a
    <3>1. phase'[p] = "live" /\ unsaved'[p] = "yes" /\ dirty'[p] = Keys /\ ~Saved(p)'
      BY <1>1, <2>1, <2>3 DEF Saved
    <3>2. QED
      BY <3>1 DEF OnItsWay
  <2>4. CASE p # a
    <3>1. mem'[p] = mem[p] /\ dirty'[p] = dirty[p] /\ unsaved'[p] = unsaved[p]
      BY <1>1, <2>1, <2>4
    <3>2. SavesOf(p)' = SavesOf(p) /\ (ExclusiveWrite(p)' <=> ExclusiveWrite(p))
      BY <2>1, <2>2, <2>4 DEF SavesOf, ExclusiveWrite, Sent
    <3>3. QED
      BY <2>1, <3>1, <3>2, BystanderWaits
  <2>5. QED
    BY <2>3, <2>4
<1>8. LastSave(a).kind = "exit"
  BY DEF LastSave, Request
<1>9. CASE Hide(a)
  <2>1. /\ UNCHANGED <<phase, disk, crossed, mem, dirty>>
        /\ net' = net \cup Flushed(a) /\ OnItsWay(p)
        /\ unsaved' = [unsaved EXCEPT ![a] = IF Saved(a) THEN "no" ELSE @]
    BY <1>2, <1>9 DEF Hide, store, ghosts
  <2>2. SavesOf(p)' = SavesOf(p) /\ (ExclusiveWrite(p)' <=> ExclusiveWrite(p))
    BY <1>8, <2>1 DEF SavesOf, ExclusiveWrite, Sent, Flushed
  <2>3. CASE unsaved'[p] = unsaved[p]
    BY <2>1, <2>2, <2>3, BystanderWaits
  <2>4. CASE unsaved'[p] # unsaved[p]
    <3>1. Saved(p) /\ unsaved'[p] = "no"
      BY <1>1, <2>1, <2>4
    <3>2. \A k \in Keys : Shows(p, k)' <=> Shows(p, k)
      BY <2>1 DEF Shows, DataOf
    <3>3. /\ unsaved[p] # "yes"
          /\ phase[p] = "served" => \A k \in Keys \ crossed[p] : Shows(p, k)
          /\ phase[p] = "live" => /\ \A k \in Keys \ crossed[p] : Shows(p, k)
                                  /\ ~ExclusiveWrite(p)
                                  /\ \A m \in SavesOf(p) : m.mem = mem[p]
      BY <2>1, <3>1 DEF OnItsWay, Saved
    <3>4. QED
      BY <2>1, <2>2, <3>1, <3>2, <3>3 DEF OnItsWay
  <2>5. QED
    BY <2>3, <2>4
<1>10. CASE Exit(a)
  <2>1. /\ phase' = [phase EXCEPT ![a] = "gone"] /\ UNCHANGED disk
        /\ mem' = [mem EXCEPT ![a] = EmptyMemory]
        /\ dirty' = [dirty EXCEPT ![a] = {}]
        /\ unsaved' = [unsaved EXCEPT ![a] = "no"]
        /\ crossed' = [crossed EXCEPT ![a] = {}]
        /\ net' = net \cup Flushed(a)
    BY <1>10 DEF Exit, store
  <2>2. p # a
    BY <1>1, <2>1
  <2>3. /\ phase'[p] = phase[p] /\ mem'[p] = mem[p] /\ dirty'[p] = dirty[p]
        /\ unsaved'[p] = unsaved[p] /\ crossed'[p] = crossed[p]
    BY <1>1, <2>1, <2>2
  <2>4. SavesOf(p)' = SavesOf(p) /\ (ExclusiveWrite(p)' <=> ExclusiveWrite(p)) /\ OnItsWay(p)
    BY <1>2, <1>8, <2>1, <2>3 DEF SavesOf, ExclusiveWrite, Sent, Flushed
  <2>5. QED
    BY <2>1, <2>3, <2>4, BystanderWaits
<1>11. CASE \/ \E k \in Keys, d \in Data : UpsertText(a, k, d)
            \/ \E k \in Keys : DeleteText(a, k)
  <2>1. /\ UNCHANGED <<phase, mem, dirty, unsaved, net>> /\ crossed' = CrossedBy(NoPage)
    BY <1>11 DEF UpsertText, DeleteText, browser
  <2>2. SavesOf(p)' = SavesOf(p) /\ (ExclusiveWrite(p)' <=> ExclusiveWrite(p)) /\ OnItsWay(p)
    BY <1>2, <2>1 DEF SavesOf, ExclusiveWrite, Sent
  <2>3. crossed[p] \subseteq crossed'[p] /\ \A k \in Keys \ crossed'[p] : disk'[k] = disk[k]
    BY <1>1, <2>1, NotCrossed DEF SaveInv, WriteInv
  <2>4. QED
    BY <2>1, <2>2, <2>3, BystanderWaits
<1>12. CASE FetchSnapshot(a)
  <2>1. UNCHANGED <<disk, phase, mem, dirty, unsaved, net, crossed>>
    BY <1>12 DEF FetchSnapshot, store, ghosts
  <2>2. SavesOf(p)' = SavesOf(p) /\ (ExclusiveWrite(p)' <=> ExclusiveWrite(p)) /\ OnItsWay(p)
    BY <1>2, <2>1 DEF SavesOf, ExclusiveWrite, Sent
  <2>3. QED
    BY <2>1, <2>2, BystanderWaits
<1>13. QED
  BY <1>3, <1>4, <1>5, <1>6, <1>7, <1>9, <1>10, <1>11, <1>12 DEF PageStep

\* The save of the page itself: answered, repeated, or followed by another.
LEMMA OwnSaveKeepsWay ==
  ASSUME SaveInv, NEW m \in net, HandleSave(m), m.kind = "save", NEW p \in Pages, p = m.from,
         OnItsWay(p), phase[p] = "live", Remembered(p)'
  PROVE  OnItsWay(p)'
<1>1. /\ TypeOK /\ m \in Message /\ mem \in [Pages -> Memory]
      /\ dirty \in [Pages -> SUBSET Keys] /\ unsaved \in [Pages -> Progress]
      /\ UNCHANGED <<phase, mem>> /\ Answer(m)
  BY DEF SaveInv, WriteInv, IInv, TypeOK, HandleSave
<1>2. /\ p = m.page /\ Claim(p).granted /\ Claim(p).base \in BasesOf(p) /\ crossed'[p] = crossed[p]
  BY OwnSave DEF SaveInv, WriteInv
<1>3. SavesOf(p) = {m} /\ ~ExclusiveWrite(p)
  <2>1. \A n \in net : n.kind \in {"save", "ack"} /\ n.from = p => n = m
    BY DEF SaveInv, OneSpeaksAtATime
  <2>2. m.kind # "ack"
    OBVIOUS
  <2>3. QED
    BY <2>1, <2>2 DEF SavesOf, ExclusiveWrite, Sent
<1>4. ASSUME NEW k \in Keys \ crossed[p], k \in m.sent \/ m.mem[k] = DataOf(disk[k])
      PROVE  DataOf(disk'[k]) = m.mem[k]
  <2>1. Mirrors(Claim(p).base[k], disk[k]) /\ Mirrors(Claim(p).base[k], Current[k])
    BY <1>2 DEF SaveInv, BasesMirrorTheDisk
  <2>2. QED
    BY <1>2, <1>4, <2>1, SavedKey DEF SaveInv, WriteInv, StampInv
<1>5. ASSUME unsaved[p] # "yes"
      PROVE  m.mem = mem[p] /\ \A k \in Keys \ crossed'[p] : Shows(p, k)'
  <2>1. m.mem = mem[p] /\ \A k \in Keys \ crossed[p] : k \in m.sent \/ Shows(p, k)
    BY <1>3, <1>5 DEF OnItsWay
  <2>2. \A k \in Keys \ crossed[p] : DataOf(disk'[k]) = m.mem[k]
    BY <1>4, <2>1 DEF Shows
  <2>3. QED
    BY <1>1, <1>2, <2>1, <2>2 DEF Shows, DataOf
<1>6. CASE Succeed(m) /\ unsaved[p] = "yes"
  <2> DEFINE new == Request("save", p, p, Keys, mem[p])
  <2>1. net' = (net \ {m}) \cup {new} /\ unsaved' = [unsaved EXCEPT ![p] = "sent"]
    BY <1>6 DEF Succeed
  <2>2. new.kind = "save" /\ new.from = p /\ new.sent = Keys /\ new.mem = mem[p]
    BY DEF Request
  <2> HIDE DEF new
  <2>3. SavesOf(p)' = {new} /\ ~ExclusiveWrite(p)'
    BY <1>3, <2>1, <2>2 DEF SavesOf, ExclusiveWrite, Sent
  <2>4. unsaved'[p] = "sent" /\ ~Saved(p)' /\ phase'[p] = "live" /\ mem'[p] = mem[p]
    BY <1>1, <2>1 DEF Saved
  <2>5. QED
    BY <2>2, <2>3, <2>4 DEF OnItsWay
<1>7. CASE Succeed(m) /\ unsaved[p] # "yes"
  <2>1. /\ net' = net \ {m}
        /\ \E rest \in {"no", "timer"} : unsaved' = [unsaved EXCEPT ![p] = rest]
    BY <1>7 DEF Succeed
  <2>2. SavesOf(p)' = {} /\ ~ExclusiveWrite(p)'
    BY <1>3, <2>1 DEF SavesOf, ExclusiveWrite, Sent
  <2>3. unsaved'[p] \in {"no", "timer"}
    BY <1>1, <2>1
  <2>4. \A k \in Keys \ crossed'[p] : Shows(p, k)'
    BY <1>5, <1>7
  <2>5. QED
    BY <1>1, <2>2, <2>3, <2>4 DEF OnItsWay
<1>8. CASE net' = (net \ {m}) \cup {[m EXCEPT !.tries = @ + 1]} /\ UNCHANGED <<dirty, unsaved>>
  <2> DEFINE new == [m EXCEPT !.tries = @ + 1]
  <2>1. new.kind = "save" /\ new.from = p /\ new.sent = m.sent /\ new.mem = m.mem
    BY <1>1 DEF Message
  <2>2. net' = (net \ {m}) \cup {new}
    BY <1>8
  <2> HIDE DEF new
  <2>3. SavesOf(p)' = {new} /\ ~ExclusiveWrite(p)'
    BY <1>3, <2>1, <2>2 DEF SavesOf, ExclusiveWrite, Sent
  <2>4. unsaved'[p] # "yes" => new.mem = mem'[p] /\ \A k \in Keys \ crossed'[p] : Shows(p, k)'
    BY <1>1, <1>5, <1>8, <2>1
  <2>5. Saved(p)' => unsaved'[p] # "yes"
    BY DEF Saved
  <2>6. QED
    BY <1>1, <2>3, <2>4, <2>5 DEF OnItsWay
<1>9. QED
  BY <1>1, <1>6, <1>7, <1>8, Zenon DEF Answer

\* What the answer to a request leaves alone.
LEMMA AnswerIsForOne ==
  ASSUME TypeOK, NEW m \in net, Answer(m), NEW p \in Pages, ~(m.kind = "save" /\ m.from = p)
  PROVE  /\ dirty'[p] = dirty[p] /\ unsaved'[p] = unsaved[p]
         /\ SavesOf(p)' = SavesOf(p) /\ (ExclusiveWrite(p)' => ExclusiveWrite(p))
<1>1. /\ m \in Message /\ dirty \in [Pages -> SUBSET Keys] /\ unsaved \in [Pages -> Progress]
  BY DEF TypeOK
<1>2. CASE m.kind = "save" /\ Succeed(m)
  <2> DEFINE q == m.from
             new == Request("save", q, q, Keys, mem[q])
  <2>1. /\ net \ {m} \subseteq net' /\ net' \subseteq (net \ {m}) \cup {new}
        /\ dirty' = [dirty EXCEPT ![q] = {}]
        /\ \E rest : unsaved' = [unsaved EXCEPT ![q] = rest]
    BY <1>2 DEF Succeed
  <2>2. new.kind = "save" /\ new.from = q /\ q # p
    BY <1>2 DEF Request
  <2> HIDE DEF new, q
  <2>3. SavesOf(p)' = SavesOf(p) /\ (ExclusiveWrite(p)' => ExclusiveWrite(p))
    BY <1>2, <2>1, <2>2 DEF SavesOf, ExclusiveWrite, Sent, q
  <2>4. QED
    BY <1>1, <2>1, <2>2, <2>3
<1>3. CASE net' = net \ {m} /\ UNCHANGED <<dirty, unsaved>>
  BY <1>3 DEF SavesOf, ExclusiveWrite, Sent
<1>4. CASE /\ net' = (net \ {m}) \cup {[m EXCEPT !.tries = @ + 1]} /\ UNCHANGED <<dirty, unsaved>>
  <2> DEFINE new == [m EXCEPT !.tries = @ + 1]
  <2>1. new.kind = m.kind /\ new.from = m.from
    BY <1>1 DEF Message
  <2>2. net' = (net \ {m}) \cup {new}
    BY <1>4
  <2> HIDE DEF new
  <2>3. QED
    BY <1>4, <2>1, <2>2 DEF SavesOf, ExclusiveWrite, Sent
<1>5. QED
  BY <1>2, <1>3, <1>4, Zenon DEF Answer

LEMMA RequestStepKeepsWay ==
  ASSUME SaveInv, NEW m \in net, RequestStep(m), NEW p \in Pages \ gaveUp', p \notin gaveUp,
         phase'[p] \in {"served", "live"}, Remembered(p)'
  PROVE  OnItsWay(p)'
<1>1. /\ TypeOK /\ phase \in [Pages -> {"unborn", "served", "live", "gone"}]
      /\ unsaved \in [Pages -> Progress] /\ p # NoPage
  BY StoreAssumption DEF SaveInv, WriteInv, IInv, TypeOK
<1>2. UNCHANGED <<phase, mem>>
  BY DEF RequestStep, HandleSave, HandleAck, Lose, browser
<1>3. OnItsWay(p)
  <2>1. [Next]_vars
    BY DEF Next
  <2>2. Remembered(p)
    BY <1>2, <2>1, RememberedBefore DEF SaveInv, WriteInv
  <2>3. QED
    BY <2>2 DEF SaveInv, ChangesAreOnTheirWay
<1>4. m.kind = "save" /\ m.from = p => phase[p] = "live"
  <2>1. m.kind = "save" /\ m.from = p => phase[p] # "served"
    BY DEF SaveInv, OneSpeaksAtATime, Messages
  <2>2. QED
    BY <1>2, <2>1
<1>5. CASE HandleSave(m)
  <2>1. CASE m.kind = "save" /\ m.from = p
    BY <1>3, <1>4, <1>5, <2>1, OwnSaveKeepsWay
  <2>2. CASE ~(m.kind = "save" /\ m.from = p)
    <3> DEFINE writer == IF m.kind = "save" THEN m.from ELSE NoPage
    <3>1. crossed' = CrossedBy(writer) /\ p # writer /\ Answer(m)
      BY <1>1, <1>5, <2>2 DEF HandleSave
    <3> HIDE DEF writer
    <3>2. crossed[p] \subseteq crossed'[p] /\ \A k \in Keys \ crossed'[p] : disk'[k] = disk[k]
      BY <1>2, <3>1, NotCrossed DEF SaveInv, WriteInv
    <3>3. /\ dirty'[p] = dirty[p] /\ unsaved'[p] = unsaved[p]
          /\ SavesOf(p)' = SavesOf(p) /\ (ExclusiveWrite(p)' => ExclusiveWrite(p))
      BY <1>1, <2>2, <3>1, AnswerIsForOne
    <3>4. QED
      BY <1>2, <1>3, <3>2, <3>3, BystanderWaits
  <2>3. QED
    BY <2>1, <2>2
<1>6. CASE HandleAck(m)
  <2>1. UNCHANGED <<disk, dirty, unsaved, crossed>> /\ net' = net \ {m} /\ m.kind = "ack"
    BY <1>6 DEF HandleAck, browser, history, ghosts
  <2>2. SavesOf(p)' = SavesOf(p) /\ (ExclusiveWrite(p)' => ExclusiveWrite(p))
    BY <2>1 DEF SavesOf, ExclusiveWrite, Sent
  <2>3. QED
    BY <1>2, <1>3, <2>1, <2>2, BystanderWaits
<1>7. CASE Lose(m)
  <2>1. ~(m.kind = "save" /\ m.from = p)
    BY <1>4, <1>7 DEF Lose
  <2>2. /\ UNCHANGED <<disk, dirty, crossed>> /\ net' = net \ {m} /\ unsaved'[p] = unsaved[p]
    BY <1>1, <1>4, <1>7, <2>1 DEF Lose, store
  <2>3. SavesOf(p)' = SavesOf(p) /\ (ExclusiveWrite(p)' => ExclusiveWrite(p))
    BY <2>1, <2>2 DEF SavesOf, ExclusiveWrite, Sent
  <2>4. QED
    BY <1>2, <1>3, <2>2, <2>3, BystanderWaits
<1>8. QED
  BY <1>5, <1>6, <1>7 DEF RequestStep

LEMMA SaveInvStep ==
  ASSUME SaveInv, [Next]_vars
  PROVE  SaveInv'
<1>1. WriteInv' /\ PagesTakeTurns' /\ OneSpeaksAtATime' /\ BasesMirrorTheDisk'
  BY WriteInvStep, TurnsStep, SpeakersStep, MirrorStep DEF SaveInv, WriteInv
<1>2. ASSUME NEW p \in Pages \ gaveUp', Remembered(p)', phase'[p] \in {"served", "live"}
      PROVE  OnItsWay(p)'
  <2>1. CASE \E a \in Pages : PageStep(a)
    <3>1. PICK a \in Pages : PageStep(a)
      BY <2>1
    <3>2. p \notin gaveUp
      <4>1. gaveUp' = gaveUp \/ (Exit(a) /\ gaveUp' = gaveUp \ {a})
        BY <3>1 DEF PageStep, Serve, Boot, Edit, SendSave, FetchSnapshot, ApplySnapshot, UpsertText,
                    DeleteText, Hide, Exit, history, ghosts
      <4>2. Exit(a) => phase'[a] = "gone"
        BY <3>1 DEF Exit, SaveInv, WriteInv, IInv, TypeOK
      <4>3. QED
        BY <1>2, <4>1, <4>2
    <3>3. QED
      BY <1>2, <3>1, <3>2, PageStepKeepsWay
  <2>2. CASE \E m \in net : RequestStep(m)
    <3>1. PICK m \in net : RequestStep(m)
      BY <2>2
    <3>2. p \notin gaveUp
      BY <1>2, <3>1 DEF RequestStep, HandleSave, HandleAck, Lose, history, ghosts
    <3>3. QED
      BY <1>2, <3>1, <3>2, RequestStepKeepsWay
  <2>3. ~Restart
    BY <1>2 DEF Restart
  <2>4. CASE UNCHANGED vars
    <3>1. UNCHANGED <<disk, owner, served, phase, mem, dirty, unsaved, net, crossed, gaveUp>>
      BY <2>4 DEF vars, store, browser, history, ghosts
    <3>2. OnItsWay(p)
      BY <1>2, <3>1 DEF SaveInv, ChangesAreOnTheirWay, Remembered
    <3>3. QED
      BY <3>1, <3>2, BystanderWaits DEF SavesOf, ExclusiveWrite, Sent
  <2>5. QED
    BY <2>1, <2>2, <2>3, <2>4 DEF Next
<1>3. ChangesAreOnTheirWay'
  <2>1. \A p \in Pages : phase'[p] \notin {"served", "live"} => OnItsWay(p)'
    BY DEF OnItsWay
  <2>2. QED
    BY <1>2, <2>1 DEF ChangesAreOnTheirWay
<1>4. QED
  BY <1>1, <1>3 DEF SaveInv

LEMMA InitSaveInv == Init => SaveInv
<1>1. SUFFICES ASSUME Init
               PROVE  SaveInv
  OBVIOUS
<1>2. WriteInv
  BY <1>1, InitIInv, InitStampInv DEF WriteInv, Init, UntouchedIsBase
<1>3. \A p \in Pages : phase[p] = "unborn" /\ turn[p] = 0
  BY <1>1 DEF Init
<1>4. PagesTakeTurns
  <2>1. Turns = {}
    BY <1>3 DEF Turns
  <2>2. Cardinality(Turns) = 0
    BY <2>1, FS_EmptySet
  <2>3. QED
    BY <1>1, <1>3, <2>2 DEF Init, PagesTakeTurns
<1>5. OneSpeaksAtATime
  BY <1>1 DEF Init, OneSpeaksAtATime, Messages
<1>6. BasesMirrorTheDisk /\ ChangesAreOnTheirWay
  BY <1>3 DEF BasesMirrorTheDisk, ChangesAreOnTheirWay, OnItsWay
<1>7. QED
  BY <1>2, <1>4, <1>5, <1>6 DEF SaveInv

\* The inductive invariant of what a page may believe.
THEOREM Saves == Spec => []SaveInv
<1>1. SaveInv /\ [Next]_vars => SaveInv'
  BY SaveInvStep
<1>2. QED
  BY <1>1, InitSaveInv, PTL DEF Spec

\* A page whose saves were answered, none of them lost for good, shows what
\* is on disk of every record that nobody else has written, as long as the
\* store remembers the page (autosave.ts: markSucceeded; snapshot.rs:
\* bulk_save_from).
THEOREM SavedIsOnDisk == Spec => []SavedMeansOnDisk
<1>1. SaveInv => SavedMeansOnDisk
  <2>1. SUFFICES ASSUME SaveInv, NEW p \in Pages \ gaveUp, AtRest(p), Remembered(p),
                        NEW k \in Keys \ crossed[p]
                 PROVE  mem[p][k] = Snapshot[k]
    BY DEF SavedMeansOnDisk
  <2>2. Shows(p, k)
    BY <2>1 DEF SaveInv, ChangesAreOnTheirWay, OnItsWay, AtRest
  <2>3. QED
    BY <2>1, <2>2, SnapshotShowsTheDisk DEF Shows, SaveInv, WriteInv, IInv
<1>2. QED
  BY <1>1, Saves, PTL

\* Whatever requests of other pages arrive, however late or often, the store
\* forgets the page in use only when it serves one page more than the queue
\* of the waiting holds (snapshot.rs: claim_base, records_snapshot).
THEOREM TheStoreRemembers == Spec => ThePageInUseIsRemembered
<1>1. SaveInv /\ [Next]_vars =>
        [\A p \in Pages :
           phase[p] = "live" /\ phase'[p] = "live" /\ Remembered(p) /\ ~Remembered(p)'
           => Len(served) >= ServedKept /\ \E q \in Pages : Serve(q)]_vars
  <2>1. SUFFICES ASSUME SaveInv, Next, NEW p \in Pages, phase[p] = "live", phase'[p] = "live",
                        Remembered(p), ~Remembered(p)'
                 PROVE  Len(served) >= ServedKept /\ \E q \in Pages : Serve(q)
    OBVIOUS
  <2>2. IInv /\ TypeOK /\ PagesTakeTurns /\ OneSpeaksAtATime
    BY <2>1 DEF SaveInv, WriteInv, IInv
  <2>3. ~UNCHANGED <<owner, served>>
    BY <2>1 DEF Remembered
  <2>4. ASSUME NEW m \in net, RequestStep(m)
        PROVE  FALSE
    <3> DEFINE c == Claim(m.page)
    <3>1. owner' = c.owner /\ served' = c.served
      BY <2>3, <2>4 DEF RequestStep, HandleSave, HandleAck, Lose, store
    <3>2. \/ c.owner = p \/ (\E j \in DOMAIN c.served : c.served[j].page = p)
          \/ turn[p] < turn[m.page]
      BY <2>1, <2>2, ClaimInTurn
    <3> HIDE DEF c
    <3>3. turn[p] < turn[m.page]
      BY <2>1, <3>1, <3>2 DEF Remembered
    <3>4. m.page \in Pages /\ phase[m.page] # "served"
      BY <2>2, Speakers
    <3>5. turn[m.page] > turn[p]
      BY <2>2, <3>3, <3>4 DEF TypeOK
    <3>6. QED
      BY <2>1, <2>2, <3>4, <3>5 DEF PagesTakeTurns
  <2>5. ~Restart
    BY <2>1 DEF Restart
  <2>6. \E q \in Pages : Serve(q)
    <3>1. PICK q \in Pages : PageStep(q)
      BY <2>1, <2>4, <2>5 DEF Next
    <3>2. Serve(q)
      BY <2>3, <3>1 DEF PageStep, Boot, Edit, SendSave, FetchSnapshot, ApplySnapshot, UpsertText,
                        DeleteText, Hide, Exit, store
    <3>3. QED
      BY <3>2
  <2>7. Len(served) >= ServedKept
    <3>1. SUFFICES ASSUME ~(Len(served) >= ServedKept)
                   PROVE  FALSE
      OBVIOUS
    <3>2. PICK q \in Pages : Serve(q)
      BY <2>6
    <3> DEFINE new == [page |-> q, base |-> Fingerprints(disk)]
               queue == Append(served, new)
    <3>3. /\ served \in Seq(ServedPage) /\ Len(served) \in Nat /\ DOMAIN served = 1..Len(served)
          /\ ServedKept \in Nat
      BY <2>2, ServedIsASequence, StoreAssumption
    <3>4. /\ Len(queue) = Len(served) + 1 /\ DOMAIN queue = 1 .. Len(served) + 1
          /\ \A i \in DOMAIN served : queue[i] = served[i]
      BY <3>3
    <3>5. UNCHANGED owner /\ served' = IF Len(queue) > ServedKept THEN Tail(queue) ELSE queue
      BY <3>2 DEF Serve
    <3> HIDE DEF queue
    <3>6. served' = queue
      BY <3>1, <3>3, <3>4, <3>5
    <3>7. \A i \in DOMAIN served : i \in DOMAIN served' /\ served'[i] = served[i]
      BY <3>3, <3>4, <3>6
    <3>8. QED
      BY <2>1, <3>5, <3>7 DEF Remembered
  <2>8. QED
    BY <2>6, <2>7
<1>2. QED
  BY <1>1, Saves, PTL DEF Spec, ThePageInUseIsRemembered
===============================================================================
