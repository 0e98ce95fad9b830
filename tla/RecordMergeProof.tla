--------------------------- MODULE RecordMergeProof ---------------------------
(***************************************************************************)
(* What the merge of one key may and may not do, for all payloads, clocks  *)
(* and devices.                                                            *)
(***************************************************************************)
EXTENDS RecordMerge, TLAPS

LEMMA MaxOfNat ==
  ASSUME NEW a \in Nat, NEW b \in Nat
  PROVE  MaxOf(a, b) \in Nat /\ MaxOf(a, b) >= a /\ MaxOf(a, b) >= b
BY DEF MaxOf

LEMMA NoneIsNoRecord == ~(None \in Record) /\ ~(None \in Fingerprint)
BY NoneAssumption

\* bump_causal yields a clock whose entry for the device has grown, is not
\* behind the wall clock, and is the only entry that moved.
LEMMA BumpCausalType ==
  ASSUME NEW c \in Clock, NEW dev \in Devices, NEW now \in Nat
  PROVE  /\ BumpCausal(c, dev, now) \in Clock
         /\ BumpCausal(c, dev, now)[dev] > c[dev]
         /\ BumpCausal(c, dev, now)[dev] >= now
         /\ \A d \in Devices \ {dev} : BumpCausal(c, dev, now)[d] = c[d]
<1>1. c[dev] \in Nat
  BY DEF Clock
<1>2. MaxOf(c[dev] + 1, now) \in Nat /\ MaxOf(c[dev] + 1, now) > c[dev]
      /\ MaxOf(c[dev] + 1, now) >= now
  BY <1>1 DEF MaxOf
<1>3. QED
  BY <1>2 DEF BumpCausal, Clock

LEMMA NoClockType == NoClock \in Clock
BY DEF NoClock, Clock

LEMMA JoinCausalType ==
  ASSUME NEW a \in Clock, NEW b \in Clock
  PROVE  JoinCausal(a, b) \in Clock
BY MaxOfNat DEF JoinCausal, Clock

LEMMA FingerprintOfType ==
  ASSUME NEW r \in Record \cup {None}
  PROVE  FingerprintOf(r) \in Fingerprint \cup {None}
BY DEF FingerprintOf, Record, Fingerprint

LEMMA BaseClockType ==
  ASSUME NEW base \in Fingerprint \cup {None}
  PROVE  BaseClock(base) \in Clock
BY NoClockType DEF BaseClock, Fingerprint

LEMMA TombstoneType ==
  ASSUME NEW base \in Fingerprint \cup {None}, NEW dev \in Devices, NEW now \in Nat
  PROVE  /\ TombstoneWithBase(base, dev, now) \in Record
         /\ IsTombstone(TombstoneWithBase(base, dev, now))
         /\ TombstoneWithBase(base, dev, now).data = Gone
<1>1. BumpCausal(BaseClock(base), dev, now) \in Clock
  BY BaseClockType, BumpCausalType
<1>2. TombstoneWithBase(base, dev, now) \in Record
  BY <1>1 DEF TombstoneWithBase, Record, Content
<1>3. QED
  BY <1>2, NoneIsNoRecord DEF TombstoneWithBase, IsTombstone

LEMMA LiveRecordType ==
  ASSUME NEW x \in Data, NEW dev \in Devices, NEW now \in Nat
  PROVE  /\ LiveRecord(x, dev, now) \in Record
         /\ LiveRecord(x, dev, now).data = x
         /\ LiveRecord(x, dev, now).at = now
         /\ x # Gone
<1>1. BumpCausal(NoClock, dev, now) \in Clock
  BY NoClockType, BumpCausalType
<1>2. QED
  BY <1>1, DataAssumption DEF LiveRecord, Record, Content, Gone

\* prepare_local_records touches nothing but the clock of a record.
LEMMA PrepareLocalType ==
  ASSUME NEW inc \in Record, NEW base \in Fingerprint \cup {None},
         NEW cur \in Record \cup {None}, NEW dev \in Devices, NEW now \in Nat
  PROVE  /\ PrepareLocal(inc, base, cur, dev, now) \in Record
         /\ PrepareLocal(inc, base, cur, dev, now).data = inc.data
         /\ PrepareLocal(inc, base, cur, dev, now).at = inc.at
<1> DEFINE from == IF base # None THEN base.causal
                   ELSE IF IsTombstone(cur) THEN cur.causal ELSE NoClock
<1>1. from \in Clock
  BY NoClockType DEF Fingerprint, Record, IsTombstone
<1>2. BumpCausal(from, dev, now) \in Clock
  BY <1>1, BumpCausalType
<1> HIDE DEF from
<1>3. [inc EXCEPT !.causal = BumpCausal(from, dev, now)] \in Record
  BY <1>2 DEF Record
<1>4. PrepareLocal(inc, base, cur, dev, now)
        \in {inc, [inc EXCEPT !.causal = BumpCausal(from, dev, now)]}
  BY DEF PrepareLocal, from
<1>5. QED
  BY <1>3, <1>4 DEF Record

LEMMA MergeEqualType ==
  ASSUME NEW inc \in Record, NEW cur \in Record, inc.data = cur.data
  PROVE  /\ MergeEqualRecords(inc, cur) \in Record
         /\ MergeEqualRecords(inc, cur).data = cur.data
<1>1. JoinCausal(inc.causal, cur.causal) \in Clock
  BY JoinCausalType DEF Record
<1>2. MaxOf(inc.at, cur.at) \in Nat
  BY MaxOfNat DEF Record
<1>3. (IF ShouldKeepIncoming(inc, cur) THEN inc ELSE cur) \in Record
  OBVIOUS
<1>4. (IF ShouldKeepIncoming(inc, cur) THEN inc ELSE cur).data = cur.data
  OBVIOUS
<1>5. QED
  BY <1>1, <1>2, <1>3, <1>4 DEF MergeEqualRecords, Record

-------------------------------------------------------------------------------
(* The merge of one key.                                                   *)

\* merge_records keeps one of the two records, joins two equal ones, or
\* buries the key; it never makes up a third record.
LEMMA MergeRecordCases ==
  ASSUME NEW base \in Fingerprint \cup {None}, NEW inc \in Record \cup {None},
         NEW cur \in Record \cup {None}, NEW held \in BOOLEAN,
         NEW dev \in Devices, NEW now \in Nat
  PROVE  LET merged == MergeRecord(base, inc, cur, held, dev, now)
         IN \/ merged = cur
            \/ inc # None /\ merged = inc
            \/ merged = TombstoneWithBase(base, dev, now)
            \/ inc # None /\ cur # None /\ inc.data = cur.data
               /\ merged = MergeEqualRecords(inc, cur)
BY DEF MergeRecord, TakeIncoming, Resolve

LEMMA MergeRecordType ==
  ASSUME NEW base \in Fingerprint \cup {None}, NEW inc \in Record \cup {None},
         NEW cur \in Record \cup {None}, NEW held \in BOOLEAN,
         NEW dev \in Devices, NEW now \in Nat
  PROVE  MergeRecord(base, inc, cur, held, dev, now) \in Record \cup {None}
<1>1. TombstoneWithBase(base, dev, now) \in Record
  BY TombstoneType
<1>2. inc # None /\ cur # None /\ inc.data = cur.data => MergeEqualRecords(inc, cur) \in Record
  BY MergeEqualType
<1>3. QED
  BY <1>1, <1>2, MergeRecordCases

\* A save buries a live record only where the page is known to have been
\* given that record and now holds it no more (merge_records:
\* incoming_deleted).
THEOREM MergeDeletesOnlyWhatTheBaseKnows ==
  ASSUME NEW base \in Fingerprint \cup {None}, NEW inc \in Record \cup {None},
         NEW cur \in Record \cup {None}, NEW held \in BOOLEAN,
         NEW dev \in Devices, NEW now \in Nat,
         inc # None => inc.data # Gone,
         IsLive(cur),
         IsTombstone(MergeRecord(base, inc, cur, held, dev, now))
  PROVE  inc = None /\ base # None /\ ~held
<1>1. SUFFICES ASSUME ~IncomingDeleted(base, inc, held)
               PROVE  FALSE
  BY DEF IncomingDeleted
<1> DEFINE merged == MergeRecord(base, inc, cur, held, dev, now)
<1>2. merged # None /\ merged.data = Gone
  BY DEF IsTombstone
<1>3. merged # cur /\ (inc # None => merged # inc)
  BY <1>2 DEF IsLive
<1>4. inc # None
  BY <1>1, <1>3 DEF MergeRecord, IncomingChanged
<1>5. CASE cur # None /\ inc.data = cur.data /\ merged = MergeEqualRecords(inc, cur)
  BY <1>2, <1>4, <1>5, MergeEqualType DEF IsLive
<1>6. CASE merged = TombstoneWithBase(base, dev, now)
  BY <1>1, <1>3, <1>4, <1>5, <1>6 DEF MergeRecord, TakeIncoming, Resolve, IsLive
<1>7. QED
  BY <1>3, <1>5, <1>6, <1>4, MergeRecordCases

\* A merged record that hashes like the base is not written, and need not
\* be: the record on disk has that very content - unless it is a tombstone
\* (commit_bulk_save_with_context: record_changed_since_base).
THEOREM UnwrittenRecordsAreOnDisk ==
  ASSUME NEW base \in Fingerprint \cup {None}, NEW inc \in Record \cup {None},
         NEW cur \in Record \cup {None}, NEW held \in BOOLEAN,
         NEW dev \in Devices, NEW now \in Nat,
         MergeRecord(base, inc, cur, held, dev, now) # None,
         ~IsTombstone(MergeRecord(base, inc, cur, held, dev, now)),
         ~RecordChangedSinceBase(MergeRecord(base, inc, cur, held, dev, now), base)
  PROVE  cur # None /\ cur.data = MergeRecord(base, inc, cur, held, dev, now).data
<1> DEFINE merged == MergeRecord(base, inc, cur, held, dev, now)
<1>1. base # None /\ base.hash = merged.data
  BY DEF RecordChangedSinceBase
<1>2. merged # TombstoneWithBase(base, dev, now)
  BY TombstoneType
<1>3. CASE merged = cur
  BY <1>3
<1>4. CASE inc # None /\ merged = inc
  <2>1. ~IncomingChanged(base, inc, held)
    BY <1>1, <1>4 DEF IncomingChanged, IncomingDeleted
  <2>2. merged = cur
    BY <2>1 DEF MergeRecord
  <2>3. QED
    BY <2>2
<1>5. CASE inc # None /\ cur # None /\ inc.data = cur.data
           /\ merged = MergeEqualRecords(inc, cur)
  BY <1>5, MergeEqualType
<1>6. QED
  BY <1>2, <1>3, <1>4, <1>5, MergeRecordCases

\* No key vanishes: a record on disk is followed by a record or a tombstone.
LEMMA MergeKeepsKeys ==
  ASSUME NEW base \in Fingerprint \cup {None}, NEW inc \in Record \cup {None},
         NEW cur \in Record \cup {None}, NEW held \in BOOLEAN,
         NEW dev \in Devices, NEW now \in Nat,
         MergeRecord(base, inc, cur, held, dev, now) = None
  PROVE  cur = None
<1>1. TombstoneWithBase(base, dev, now) # None
  BY TombstoneType, NoneIsNoRecord
<1>2. inc # None /\ cur # None /\ inc.data = cur.data => MergeEqualRecords(inc, cur) # None
  BY MergeEqualType, NoneIsNoRecord
<1>3. QED
  BY <1>1, <1>2, MergeRecordCases

LEMMA AcknowledgedBaseType ==
  ASSUME NEW base \in Fingerprint \cup {None}, NEW inc \in Record \cup {None},
         NEW merged \in Record \cup {None}
  PROVE  AcknowledgedBase(base, inc, merged) \in Fingerprint \cup {None}
BY FingerprintOfType DEF AcknowledgedBase

\* The base learns of a record only from the page that sent it, and keeps
\* what it knew (acknowledged_frontend_base).
THEOREM TheBaseLearnsOnlyFromThePage ==
  ASSUME NEW base \in Fingerprint \cup {None}, NEW inc \in Record \cup {None},
         NEW merged \in Record \cup {None},
         AcknowledgedBase(base, inc, merged) # None
  PROVE  \/ AcknowledgedBase(base, inc, merged) = base
         \/ inc # None /\ AcknowledgedBase(base, inc, merged).hash = inc.data
BY DEF AcknowledgedBase, FingerprintOf
===============================================================================
