----------------------------- MODULE SaveRequest ------------------------------
(***************************************************************************)
(* A save request and its merge with the whole record tree: what the       *)
(* journal keeps, and what committing it means.                            *)
(***************************************************************************)
EXTENDS RecordMerge

CONSTANTS
  Keys,    \* record keys
  Device   \* the id of this installation

ASSUME DeviceAssumption == Device \in Devices

Tree == [Keys -> Record \cup {None}]
Base == [Keys -> Fingerprint \cup {None}]
Memory == [Keys -> Content]

EmptyBase == [k \in Keys |-> None]
Fingerprints(tree) == [k \in Keys |-> FingerprintOf(tree[k])]
LiveKeys(memory) == {k \in Keys : memory[k] # Gone}

\* The content of the live records.
Contents(tree) == [k \in Keys |-> IF IsLive(tree[k]) THEN tree[k].data ELSE Gone]

\* A save with all its outcome depends on: the records the page holds
\* (fullKeys) and those of them it sends, the base they are merged against,
\* and the time they are stamped with.
Request ==
  {r \in [mem : Memory, sent : SUBSET Keys, base : Base, at : Nat] :
     r.sent \subseteq LiveKeys(r.mem)}

\* payload_to_records and prepare_local_records, for one key.
Incoming(r, cur, k) ==
  IF k \in r.sent
  THEN PrepareLocal(LiveRecord(r.mem[k], Device, r.at), r.base[k], cur, Device, r.at)
  ELSE None

\* merge_records, for one key.
MergedRecord(r, cur, k) ==
  MergeRecord(r.base[k], Incoming(r, cur, k), cur, k \in LiveKeys(r.mem), Device, r.at)

Merged(r, current) == [k \in Keys |-> MergedRecord(r, current[k], k)]

\* Only what differs from the base is written.
IsWritten(r, merged, k) == merged # None /\ RecordChangedSinceBase(merged, r.base[k])

\* The files once the request, merged with current, has been committed.
After(r, current, disk) ==
  [k \in Keys |-> LET merged == MergedRecord(r, current[k], k)
                  IN  IF IsWritten(r, merged, k) THEN merged ELSE disk[k]]

\* acknowledged_frontend_base
Acknowledged(r, current, merged) ==
  [k \in Keys |-> AcknowledgedBase(r.base[k], Incoming(r, current[k], k), merged[k])]

\* A tombstone over every record there is.
Tombstones(tree, now) ==
  [k \in Keys |-> IF tree[k] = None THEN None
                  ELSE TombstoneWithBase(FingerprintOf(tree[k]), Device, now)]
===============================================================================
