------------------------------ MODULE RecordMerge ------------------------------
(***************************************************************************)
(* The record algebra of the store: causal clocks, fingerprints, and the   *)
(* three-way merge that decides, key by key, what a save leaves on disk.   *)
(*                                                                         *)
(* The operators work on ONE key at a time, as the loop of merge_records   *)
(* does.  A record's payload is a number: what matters to the merge is     *)
(* whether two payloads hash alike, and 0 (Gone) is the payload of a       *)
(* tombstone.  The record kinds meant are those without a field-level      *)
(* merge (texts, books, hidden entries, plain preferences): for them the   *)
(* vocabulary, bookmark and counter branches of the loop change nothing.   *)
(***************************************************************************)
EXTENDS Integers

CONSTANTS
  Devices,  \* device ids; they are compared, as the strings of the code are
  Data,     \* payloads of live records; numbers are ordered as hashes are
  None      \* "no such record" and "no such fingerprint"

(* Definitions marked "Slip" are plausible mistakes in the definition that *)
(* follows them.  Nothing uses them: they are there to be put in its place *)
(* when one wants to see that a property notices.                          *)

Gone == 0
Content == Data \cup {Gone}
Clock == [Devices -> Nat]
Record == [data : Content, at : Nat, by : Devices, causal : Clock]
Fingerprint == [hash : Content, causal : Clock]

ASSUME DataAssumption == Data \subseteq Int \ {Gone}
ASSUME DevicesAssumption == Devices \subseteq Nat
ASSUME NoneAssumption == None \notin Record /\ None \notin Fingerprint

-------------------------------------------------------------------------------
(* Causal clocks: one counter per device, an absent entry counts as 0.     *)

MaxOf(a, b) == IF a >= b THEN a ELSE b

NoClock == [d \in Devices |-> 0]

\* The writing device's counter jumps to the wall clock, and always grows.
BumpCausal(clock, device, now) ==
  [clock EXCEPT ![device] = MaxOf(@ + 1, now)]

\* Slip: equal records add their clocks up.
SumCausal(a, b) == [d \in Devices |-> a[d] + b[d]]

JoinCausal(a, b) == [d \in Devices |-> MaxOf(a[d], b[d])]

Exceeds(a, b) == \E d \in Devices : a[d] > b[d]

\* CausalOrder::IncomingDescends for (a, b), CurrentDescends for (b, a).
Descends(a, b) == Exceeds(a, b) /\ ~Exceeds(b, a)

-------------------------------------------------------------------------------
(* Records and their fingerprints.                                         *)

IsLive(r) == r # None /\ r.data # Gone
IsTombstone(r) == r # None /\ r.data = Gone

FingerprintOf(r) ==
  IF r = None THEN None ELSE [hash |-> r.data, causal |-> r.causal]

BaseClock(base) == IF base = None THEN NoClock ELSE base.causal

TombstoneWithBase(base, device, now) ==
  [data |-> Gone, at |-> now, by |-> device,
   causal |-> BumpCausal(BaseClock(base), device, now)]

\* A record as payload_to_records builds it from a page's request.
LiveRecord(data, device, now) ==
  [data |-> data, at |-> now, by |-> device,
   causal |-> BumpCausal(NoClock, device, now)]

\* Slip: the changed record takes the clock over as it is.
PrepareLocalUnbumped(inc, base, cur, device, now) ==
  IF base # None /\ base.hash = inc.data
  THEN inc
  ELSE LET from == IF base # None THEN base.causal
                   ELSE IF IsTombstone(cur) THEN cur.causal ELSE NoClock
       IN  [inc EXCEPT !.causal = from]

\* A record the page changed continues the clock it was based on, or the
\* clock of the tombstone it replaces.
PrepareLocal(inc, base, cur, device, now) ==
  IF base # None /\ base.hash = inc.data
  THEN inc
  ELSE LET from == IF base # None THEN base.causal
                   ELSE IF IsTombstone(cur) THEN cur.causal ELSE NoClock
       IN  [inc EXCEPT !.causal = BumpCausal(from, device, now)]

\* Last writer by time, then by device id, then by hash.
ShouldKeepIncoming(inc, cur) ==
  \/ inc.at > cur.at
  \/ inc.at = cur.at /\ inc.by > cur.by
  \/ inc.at = cur.at /\ inc.by = cur.by /\ inc.data >= cur.data

MergeEqualRecords(inc, cur) ==
  [(IF ShouldKeepIncoming(inc, cur) THEN inc ELSE cur) EXCEPT
     !.causal = JoinCausal(inc.causal, cur.causal),
     !.at = MaxOf(inc.at, cur.at)]

-------------------------------------------------------------------------------
(* The merge of one key: base is the fingerprint the page is known to hold *)
(* (or None), inc the record it sent (or None), cur the record on disk (or *)
(* None), and held says whether the key is in the request's fullKeys.      *)

\* Slip: what is not sent is deleted, though the page holds it.
IncomingAbsent(base, inc, held) == inc = None /\ base # None

IncomingDeleted(base, inc, held) == inc = None /\ base # None /\ ~held

IncomingChanged(base, inc, held) ==
  \/ IncomingDeleted(base, inc, held)
  \/ inc # None /\ (base = None \/ inc.data # base.hash)

CurrentChanged(base, cur) ==
  IF cur = None THEN base # None ELSE base = None \/ cur.data # base.hash

\* Slip: whatever is deleted stays deleted.
TakeIncomingUnlessBuried(base, inc, cur, device, now) ==
  IF inc # None
  THEN IF IsLive(inc) /\ IsTombstone(cur) THEN cur ELSE inc
  ELSE TombstoneWithBase(base, device, now)

\* Only the page changed the record: take its version, but a live record
\* that does not descend from the tombstone on disk stays deleted.
TakeIncoming(base, inc, cur, device, now) ==
  IF inc # None
  THEN IF /\ IsLive(inc) /\ IsTombstone(cur)
          /\ ~Descends(inc.causal, cur.causal)
       THEN cur
       ELSE inc
  ELSE TombstoneWithBase(base, device, now)

\* Both sides changed the record, to different contents.
Resolve(base, inc, cur, device, now) ==
  LET tombstone == TombstoneWithBase(base, device, now)
      i == IF inc = None THEN tombstone ELSE inc
      c == IF cur = None THEN tombstone ELSE cur
  IN  IF Descends(i.causal, c.causal) THEN i
      ELSE IF Descends(c.causal, i.causal) THEN c
      ELSE IF ShouldKeepIncoming(i, c) THEN i ELSE c

MergeRecord(base, inc, cur, held, device, now) ==
  IF ~IncomingChanged(base, inc, held) THEN cur
  ELSE IF ~CurrentChanged(base, cur)
       THEN TakeIncoming(base, inc, cur, device, now)
  ELSE IF inc # None /\ cur # None /\ inc.data = cur.data
       THEN MergeEqualRecords(inc, cur)
  ELSE IF IncomingDeleted(base, inc, held) /\ IsTombstone(cur) THEN cur
  ELSE Resolve(base, inc, cur, device, now)

-------------------------------------------------------------------------------
(* What the page is known to hold once its request has been merged: the    *)
(* merged record where the merge kept the page's version, nothing where    *)
(* the page's deletion took effect, and what it held before otherwise.     *)

\* Slip: the base becomes the merged record, whoever it comes from.
AcknowledgedMerged(base, inc, merged) == FingerprintOf(merged)

AcknowledgedBase(base, inc, merged) ==
  IF inc # None
  THEN IF merged # None /\ merged.data = inc.data
       THEN FingerprintOf(merged) ELSE base
  ELSE IF ~IsLive(merged) THEN None ELSE base

\* Slip: a record the base does not know counts as unchanged.
RecordEditedSinceBase(r, base) == base # None /\ base.hash # r.data

\* write_records is asked to write only what differs from the base.
RecordChangedSinceBase(r, base) == base = None \/ base.hash # r.data
===============================================================================
