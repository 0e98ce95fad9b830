----------------------------- MODULE SaveJournal ------------------------------
(***************************************************************************)
(* Saving through a journal.  A save is a request merged with the whole    *)
(* record tree and written one file at a time; a wipe is a tombstone over  *)
(* every record, written one file at a time.  Either is announced in a     *)
(* journal first, and every operation of the store begins by finishing     *)
(* what the journals say has been begun.  Each write is atomic and durable *)
(* by itself (durable.rs: write to a temp file, sync, rename); between two *)
(* of them the process may die or an operation may fail.                   *)
(*                                                                         *)
(* One page is in use; its first save makes it the owner of the save base. *)
(* The page before it, which may still own the base, or an older one may   *)
(* have a save arrive late: a stranger's save.  What pages and their       *)
(* retries do to each other is StoreSync's subject.                        *)
(***************************************************************************)
EXTENDS SaveRequest

CONSTANTS
  Torn,        \* a temp file whose writing was cut short
  MaxActs,     \* bound: operations begun and edits made
  MaxCrashes,  \* bound: how often the process dies
  MaxErrors    \* bound: how often an operation fails

ASSUME JournalAssumption ==
  /\ Torn \notin Request /\ Torn # None
  /\ None \notin Request /\ None \notin Tree
  /\ MaxActs \in Nat /\ MaxCrashes \in Nat /\ MaxErrors \in Nat

VARIABLES
  \* files
  disk,     \* the records
  journal,  \* save-journal.json: a request, or None
  temp,     \* save-journal.tmp: a request, Torn, or None
  wiping,   \* wipe-journal.json or its temp file is there
  \* the process
  cache,    \* Store.records_cache
  base,     \* Store.base_records
  served,   \* PageBases.served: what the page in use was served, until it
            \* claims the base; or None
  owner,    \* PageBases.owner: "nobody", the page in use, or one before it
  clock,    \* LAST_CLOCK_MS: the latest time the process has seen
  op,       \* the operation holding the write lock
  \* the page
  mem,      \* the records it shows, or None while there is no page
  dirty,    \* what it changed since a save last succeeded
  \* history
  held,     \* every key the page has shown
  fresh,    \* every key a save has sent since the last wipe began
  wipeFailed, \* a wipe reported failure, and none has succeeded since
  stale,    \* the cache holds other contents than the files: a wipe failed,
            \* or a save buried in the cache only what its base knew as
            \* deleted; until the files are read anew
  acts, crashes, errors

files == <<disk, journal, temp, wiping>>
ownership == <<served, owner>>
process == <<cache, base, ownership, clock>>
page == <<mem, dirty>>
ghosts == <<held, fresh, wipeFailed, stale>>
bounds == <<acts, crashes, errors>>
vars == <<files, process, op, page, ghosts, bounds>>

Kinds == {"none", "boot", "peek", "serve", "save", "wipe"}
Owners == {"nobody", "earlier", "current"}
Pages == {"older", "earlier", "current"}
Stages == {"down", "idle", "recover", "body", "stage", "fill", "install",
           "write", "bury", "unlog", "unstage", "unwipe", "done"}

\* What a page sends: its records, and which of them it includes.
Payload == {p \in [mem : Memory, sent : SUBSET Keys] : p.sent \subseteq LiveKeys(p.mem)}
NoPayload == [mem |-> [k \in Keys |-> Gone], sent |-> {}]

\* at: where it stands; recovering: it is finishing earlier work; payload: the
\* save's, sender: the page it is from, and moves: whether it moves the base
\* (advance_base); job: the request being committed; tree: what is being
\* written, and todo: the records of it not yet written.
Operation == [kind : Kinds, at : Stages, recovering : BOOLEAN,
              payload : Payload, sender : Pages, moves : BOOLEAN,
              job : Request \cup {None}, tree : Tree \cup {None}, todo : SUBSET Keys]

NoOp == [kind |-> "none", at |-> "idle", recovering |-> FALSE,
         payload |-> NoPayload, sender |-> "current", moves |-> FALSE,
         job |-> None, tree |-> None, todo |-> {}]
Down == [NoOp EXCEPT !.at = "down"]

TypeOK ==
  /\ disk \in Tree
  /\ journal \in Request \cup {None}
  /\ temp \in Request \cup {Torn, None}
  /\ wiping \in BOOLEAN
  /\ cache \in Tree \cup {None}
  /\ base \in Base
  /\ served \in Base \cup {None}
  /\ owner \in Owners
  /\ clock \in Nat
  /\ op \in Operation
  /\ mem \in Memory \cup {None}
  /\ dirty \subseteq Keys
  /\ held \subseteq Keys
  /\ fresh \subseteq Keys
  /\ wipeFailed \in BOOLEAN /\ stale \in BOOLEAN
  /\ acts \in Nat /\ crashes \in Nat /\ errors \in Nat

-------------------------------------------------------------------------------

\* records_cache_or_load
Current == IF cache = None THEN disk ELSE cache

Act == acts < MaxActs /\ acts' = acts + 1 /\ UNCHANGED <<crashes, errors>>

\* The operation goes on to the next step.
Goto(stage) == op' = [op EXCEPT !.at = stage]
Finish == op' = NoOp

(* As in RecordMerge, "Slip" marks a plausible mistake in the definition   *)
(* that follows; nothing uses it.                                          *)

\* Slip: the request is merged against the base of the process, not its own.
BeginMergeOnTheBase(r) ==
  LET own == [r EXCEPT !.base = base]
      merged == Merged(own, Current)
  IN  [op EXCEPT !.at = "write", !.job = own, !.tree = merged,
                 !.todo = {k \in Keys : IsWritten(own, merged[k], k)}]

\* commit_bulk_save_with_context, up to its first write.
BeginMerge(r) ==
  LET merged == Merged(r, Current)
  IN  [op EXCEPT !.at = "write", !.job = r, !.tree = merged,
                 !.todo = {k \in Keys : IsWritten(r, merged[k], k)}]

\* write_wipe_tombstones, up to its first write.
BeginBurying ==
  [op EXCEPT !.at = "bury", !.tree = Tombstones(disk, clock + 1),
             !.todo = {k \in Keys : disk[k] # None}]

-------------------------------------------------------------------------------
(* The lock is taken.                                                      *)

Take(kind) == op' = [NoOp EXCEPT !.kind = kind, !.at = "recover"]

\* Store::new
Start ==
  /\ op.at = "down"
  /\ Take("boot")
  /\ UNCHANGED <<files, process, page, ghosts, bounds>>

\* snapshot_unacknowledged, snapshot_for_page, wipe
Call(kind) ==
  /\ op.at = "idle" /\ Act
  /\ kind # "serve" => mem # None
  /\ Take(kind)
  /\ UNCHANGED <<files, process, page, ghosts>>

\* bulk_save_from: the page in use sends what it changed, or everything; a
\* page before it, the owner of the base or not, sends what it held.
CallSave(sender, memory, sent) ==
  /\ op.at = "idle" /\ mem # None /\ Act
  /\ IF sender = "current"
     THEN memory = mem /\ sent \in {dirty \cap LiveKeys(mem), LiveKeys(mem)}
     ELSE sender = "earlier" => owner = "earlier"
  /\ op' = [NoOp EXCEPT !.kind = "save", !.at = "recover", !.sender = sender,
                        !.payload = [mem |-> memory, sent |-> sent]]
  /\ UNCHANGED <<files, process, page, ghosts>>

-------------------------------------------------------------------------------
(* recover_pending_operations, before anything else is done.               *)

NothingPending ==
  /\ op.at = "recover"
  /\ ~wiping /\ journal = None /\ temp = None
  /\ Goto("body")
  /\ UNCHANGED <<files, process, page, ghosts, bounds>>

\* The save that was begun: the temp file counts if the journal is not there.
Pending == IF journal # None THEN journal ELSE IF temp = Torn THEN None ELSE temp

RecoverSave ==
  /\ op.at = "recover" /\ ~wiping /\ Pending # None
  /\ cache' = Current
  /\ op' = [BeginMerge(Pending) EXCEPT !.recovering = TRUE]
  /\ UNCHANGED <<files, base, ownership, clock, page, ghosts, bounds>>

\* quarantine_journal: what cannot be read is moved out of the way.
Quarantine ==
  /\ op.at = "recover" /\ ~wiping /\ journal = None /\ temp = Torn
  /\ temp' = None
  /\ Goto("body")
  /\ UNCHANGED <<disk, journal, wiping, process, page, ghosts, bounds>>

RecoverWipe ==
  /\ op.at = "recover" /\ wiping
  /\ clock' = clock + 1
  /\ op' = [BeginBurying EXCEPT !.recovering = TRUE]
  /\ UNCHANGED <<files, cache, base, ownership, page, ghosts, bounds>>

-------------------------------------------------------------------------------
(* The body of each operation.                                             *)

\* snapshot_unacknowledged leaves everything as it is, and so does the rest
\* of Store::new.
Look ==
  /\ op.at = "body" /\ op.kind \in {"boot", "peek"}
  /\ Finish
  /\ UNCHANGED <<files, process, page, ghosts, bounds>>

\* snapshot_for_page: the page replaces the one before it, but takes over
\* the base only with its first save - or at once, if nobody owns it.
Serve ==
  /\ op.at = "body" /\ op.kind = "serve"
  /\ cache' = disk
  /\ served' = Fingerprints(disk)
  /\ base' = IF owner = "nobody" THEN Fingerprints(disk) ELSE base
  /\ owner' = IF owner = "current" THEN "earlier" ELSE owner
  /\ mem' = Contents(disk)
  /\ dirty' = {}
  /\ held' = LiveKeys(Contents(disk))
  /\ stale' = FALSE
  /\ Finish
  /\ UNCHANGED <<files, clock, fresh, wipeFailed, bounds>>

\* claim_base: a page's first request makes it the owner of the base.  A
\* base that belongs to nobody moves with any page's save.
Claims == op.sender = "current" /\ served # None
MovesTheBase == Claims \/ op.sender = owner \/ (owner = "nobody" /\ served = None)

\* bulk_save_from: the request is complete with base and time.
Prepare ==
  /\ op.at = "body" /\ op.kind = "save"
  /\ clock' = clock + 1
  /\ base' = IF Claims THEN served ELSE base
  /\ served' = IF Claims THEN None ELSE served
  /\ owner' = IF Claims THEN "current" ELSE owner
  /\ op' = [op EXCEPT !.at = "stage", !.moves = MovesTheBase,
                      !.job = [mem |-> op.payload.mem, sent |-> op.payload.sent,
                               base |-> base', at |-> clock + 1]]
  /\ UNCHANGED <<files, cache, page, ghosts, bounds>>

\* write_file_atomic creates the temp file, fills it and renames it.
StageJournal ==
  /\ op.at = "stage"
  /\ temp' = Torn
  /\ Goto("fill")
  /\ UNCHANGED <<disk, journal, wiping, process, page, ghosts, bounds>>

\* Slip: the file is renamed before its content is on disk.
FillJournalLater ==
  /\ op.at = "fill"
  /\ temp' = Torn
  /\ fresh' = fresh \cup op.job.sent
  /\ Goto("install")
  /\ UNCHANGED <<disk, journal, wiping, process, page, held, wipeFailed, stale, bounds>>

FillJournal ==
  /\ op.at = "fill"
  /\ temp' = op.job
  /\ fresh' = fresh \cup op.job.sent
  /\ Goto("install")
  /\ UNCHANGED <<disk, journal, wiping, process, page, held, wipeFailed, stale, bounds>>

\* Slip: the journal is gone before the first record is written.
InstallJournalTooBriefly ==
  /\ op.at = "install"
  /\ temp' = None
  /\ cache' = Current
  /\ op' = BeginMerge(op.job)
  /\ UNCHANGED <<disk, journal, wiping, base, ownership, clock, page, ghosts, bounds>>

InstallJournal ==
  /\ op.at = "install"
  /\ journal' = temp
  /\ temp' = None
  /\ cache' = Current
  /\ op' = BeginMerge(op.job)
  /\ UNCHANGED <<disk, wiping, base, ownership, clock, page, ghosts, bounds>>

\* write_records, tombstone_all: one record file.
WriteRecord(k) ==
  /\ op.at \in {"write", "bury"} /\ k \in op.todo
  /\ disk' = [disk EXCEPT ![k] = op.tree[k]]
  /\ op' = [op EXCEPT !.todo = @ \ {k}]
  /\ UNCHANGED <<journal, temp, wiping, process, page, ghosts, bounds>>

\* The request deletes what its base knows as deleted already: nothing is
\* written, though somebody may have brought the record back meanwhile.
BuriesInTheCacheOnly == \E k \in Keys : IsTombstone(op.tree[k]) /\ IsLive(disk[k])

\* All records are written: the base moves - always, if the save was found
\* in the journal - and the cache holds what was merged.
Committed ==
  /\ op.at = "write" /\ op.todo = {}
  /\ base' = IF op.recovering \/ op.moves
             THEN Acknowledged(op.job, Current, op.tree) ELSE base
  /\ cache' = op.tree
  /\ stale' = (stale \/ BuriesInTheCacheOnly)
  /\ Goto("unlog")
  /\ UNCHANGED <<files, ownership, clock, page, held, fresh, wipeFailed, bounds>>

\* The journal goes: the save is over, the recovery nearly.
RemoveJournal ==
  /\ op.at = "unlog"
  /\ journal' = None
  /\ Goto(IF op.recovering THEN "unstage" ELSE "done")
  /\ UNCHANGED <<disk, temp, wiping, process, page, ghosts, bounds>>

\* What the lock was taken for.  A save that recovered another one trusts
\* no base.
Resume == op' = [op EXCEPT !.at = "body", !.recovering = FALSE]

\* Slip: only the journal itself is removed.
RemoveNoTemp ==
  /\ op.at = "unstage"
  /\ IF wiping THEN Goto("unwipe") ELSE Resume
  /\ base' = IF op.kind = "save" /\ ~wiping THEN EmptyBase ELSE base
  /\ UNCHANGED <<disk, journal, temp, wiping, cache, ownership, clock, page, ghosts, bounds>>

RemoveTemp ==
  /\ op.at = "unstage"
  /\ temp' = None
  /\ IF wiping THEN Goto("unwipe") ELSE Resume
  /\ base' = IF op.kind = "save" /\ ~wiping THEN EmptyBase ELSE base
  /\ UNCHANGED <<disk, journal, wiping, cache, ownership, clock, page, ghosts, bounds>>

\* The page learns that its save succeeded.
Confirm ==
  /\ op.at = "done"
  /\ dirty' = IF op.sender = "current" THEN {} ELSE dirty
  /\ Finish
  /\ UNCHANGED <<files, process, mem, ghosts, bounds>>

\* Store::wipe announces itself: from here on it will happen.
AnnounceWipe ==
  /\ op.at = "body" /\ op.kind = "wipe"
  /\ wiping' = TRUE
  /\ fresh' = {}
  /\ clock' = clock + 1
  /\ op' = BeginBurying
  /\ UNCHANGED <<disk, journal, temp, cache, base, ownership, page, held, wipeFailed, stale, bounds>>

\* All tombstones are written: nobody may take an older base over.  A
\* recovery also drops the save journal.
Buried ==
  /\ op.at = "bury" /\ op.todo = {}
  /\ base' = Fingerprints(op.tree)
  /\ served' = None
  /\ Goto(IF op.recovering THEN "unlog" ELSE "unwipe")
  /\ UNCHANGED <<files, cache, owner, clock, page, ghosts, bounds>>

\* Slip: the wipe leaves the cache as it was.
WipeOverUnnoticed ==
  /\ op.at = "unwipe"
  /\ wiping' = FALSE
  /\ IF op.recovering
     THEN /\ IF op.kind = "save" THEN Finish ELSE Resume
          /\ UNCHANGED <<page, wipeFailed>>
     ELSE /\ Finish
          /\ mem' = [k \in Keys |-> Gone]
          /\ dirty' = {}
          /\ wipeFailed' = FALSE
  /\ UNCHANGED <<disk, journal, temp, process, held, fresh, stale, bounds>>

\* A wipe has happened.  A save that finds it so fails: its page has to
\* reload.  Only the wipe itself drops the cache, and its page starts anew.
WipeOver ==
  /\ op.at = "unwipe"
  /\ wiping' = FALSE
  /\ IF op.recovering
     THEN /\ IF op.kind = "save" THEN Finish ELSE Resume
          /\ UNCHANGED <<cache, page, wipeFailed, stale>>
     ELSE /\ Finish
          /\ cache' = None
          /\ mem' = [k \in Keys |-> Gone]
          /\ dirty' = {}
          /\ wipeFailed' = FALSE /\ stale' = FALSE
  /\ UNCHANGED <<disk, journal, temp, base, ownership, clock, held, fresh, bounds>>

-------------------------------------------------------------------------------
(* The user, and what can go wrong.                                        *)

Edit(k, d) ==
  /\ mem # None /\ mem[k] # d /\ op.at # "down" /\ Act
  /\ mem' = [mem EXCEPT ![k] = d]
  /\ dirty' = dirty \cup {k}
  /\ held' = held \cup {k}
  /\ UNCHANGED <<files, process, op, fresh, wipeFailed, stale>>

\* The process dies: files stay, the rest is lost, the page with it.  The
\* next process takes its time from the wall clock, which may have been set
\* back meanwhile.
Crash ==
  /\ op.at # "down"
  /\ crashes < MaxCrashes /\ crashes' = crashes + 1
  /\ op' = Down
  /\ cache' = None
  /\ base' = EmptyBase
  /\ served' = None /\ owner' = "nobody"
  /\ mem' = None
  /\ dirty' = {}
  /\ stale' = FALSE
  /\ clock' \in 0..clock
  /\ UNCHANGED <<files, held, fresh, wipeFailed, acts, errors>>

\* The next step of an operation fails, and with it the operation; the
\* program does not start if that was its start.
Fail ==
  /\ op.at \notin {"down", "idle"}
  /\ errors < MaxErrors /\ errors' = errors + 1
  /\ op' = IF op.kind = "boot" THEN Down ELSE NoOp
  /\ wipeFailed' = (wipeFailed \/ op.kind = "wipe")
  /\ stale' = (stale \/ (wiping /\ cache # None))
  /\ UNCHANGED <<files, process, page, held, fresh, acts, crashes>>

-------------------------------------------------------------------------------

Init ==
  /\ clock = 1
  /\ disk \in [Keys -> {None} \cup {LiveRecord(d, Device, 1) : d \in Data}]
  /\ journal = None /\ temp = None /\ wiping = FALSE
  /\ cache = None
  /\ base = EmptyBase
  /\ served = None /\ owner = "nobody"
  /\ op = Down
  /\ mem = None
  /\ dirty = {}
  /\ held = {}
  /\ fresh = Keys
  /\ wipeFailed = FALSE /\ stale = FALSE
  /\ acts = 0 /\ crashes = 0 /\ errors = 0

Recover == NothingPending \/ RecoverSave \/ Quarantine \/ RecoverWipe

Body ==
  \/ Look \/ Serve \/ AnnounceWipe
  \/ Prepare \/ StageJournal \/ FillJournal \/ InstallJournal

Finishing ==
  \/ \E k \in Keys : WriteRecord(k)
  \/ Committed \/ Buried
  \/ RemoveJournal \/ RemoveTemp \/ WipeOver \/ Confirm

Next ==
  \/ Start
  \/ \E kind \in {"peek", "serve", "wipe"} : Call(kind)
  \/ \E sender \in Pages, memory \in Memory :
       \E sent \in SUBSET LiveKeys(memory) : CallSave(sender, memory, sent)
  \/ Recover \/ Body \/ Finishing
  \/ \E k \in Keys, d \in Content : Edit(k, d)
  \/ Crash \/ Fail

Spec == Init /\ [][Next]_vars

-------------------------------------------------------------------------------
(* Correctness.                                                            *)

\* The records as they are once everything begun has been finished.
Settled ==
  IF wiping THEN [k \in Keys |-> IF IsLive(disk[k]) THEN Tombstones(disk, clock)[k]
                                 ELSE disk[k]]
  ELSE IF Pending # None THEN After(Pending, Current, disk)
  ELSE disk

Requested ==
  IF op.at \in {"stage", "fill"} THEN op.job ELSE None

Atomic == INSTANCE AtomicStore WITH tree <- Settled, asked <- Requested

\* Of a clock: no device but this one has written, and nothing after t.
Stamped(causal, t) == causal[Device] <= t /\ \A d \in Devices \ {Device} : causal[d] = 0
StampedTree(tree, t) == \A k \in Keys : tree[k] # None => Stamped(tree[k].causal, t)
StampedBase(b, t) == \A k \in Keys : b[k] # None => Stamped(b[k].causal, t)
BuriedBefore(r, t) == IsTombstone(r) => Stamped(r.causal, t - 1)

\* The save asked for, or begun and not finished.
Job == IF op.at \in {"stage", "fill"} THEN op.job ELSE Pending

\* Everything the save is based on, and all it would have to dig up, is older
\* than the save.  The clock sees to it until it is set back.
JobComesAfter ==
  Job # None =>
    /\ Job.at > 0 /\ StampedBase(Job.base, Job.at - 1)
    /\ \A k \in Job.sent : BuriedBefore(disk[k], Job.at) /\ BuriedBefore(Current[k], Job.at)

\* A record is buried in the cache and in its file, but not at the same time:
\* a tombstone that equals the base is not written (snapshot.rs:343).
BuriedTwice ==
  \E k \in Keys : IsTombstone(Current[k]) /\ IsTombstone(disk[k]) /\ Current[k] # disk[k]

\* Saves and wipes happen as a whole or not at all, and once, wherever the
\* process dies or an operation fails between two writes (snapshot.rs:
\* recover_pending_operations, bulk_save_from, wipe): every step is one of
\* the atomic store's, or changes nothing there.  This needs a cache that
\* holds what the files do; a wipe that fails leaves it as it was
\* (snapshot.rs:110), and a tombstone that equals the base is not written
\* (snapshot.rs:343).  Where only the stamps of tombstones differ it makes no
\* difference, as long as the save is later than both: what a start with the
\* clock set back may bring about is excepted.
SavesAreAtomic ==
  Atomic!Init
  /\ [][stale \/ (BuriedTwice /\ ~JobComesAfter) \/ Atomic!Next]_<<Settled, Requested>>

\* What the files look like at each stage of an operation: the part of the
\* inductive invariant that carries the two properties below.
NothingLeft == journal = None /\ temp = None /\ ~wiping
FilesMatchTheStage ==
  /\ op.at \in {"down", "idle", "recover", "body", "stage", "fill", "install", "done"}
       => ~op.recovering
  /\ op.at \in {"body", "stage"} => NothingLeft
  /\ op.at = "fill" => journal = None /\ temp = Torn /\ ~wiping
  /\ op.at = "install" => journal = None /\ temp = op.job /\ ~wiping
  /\ op.at = "write" => Pending = op.job /\ ~wiping
  /\ op.at = "bury" => wiping /\ (~op.recovering => journal = None /\ temp = None)
  /\ op.at = "unstage" => journal = None /\ op.recovering
  /\ op.at = "unwipe" => journal = None /\ temp = None
OperationIsComplete ==
  /\ op.at \in {"stage", "fill", "install", "write"} => op.job \in Request
  /\ op.at \in {"write", "bury"} => op.tree \in Tree
IInv == TypeOK /\ FilesMatchTheStage /\ OperationIsComplete

\* No operation goes to work on records that a save or a wipe was writing:
\* whatever was left behind is finished or set aside first.
BodyFindsNothingPending ==
  op.at = "body" => journal = None /\ temp = None /\ ~wiping

\* A record file is touched only while a journal says why (bulk_save_from,
\* wipe): what a stop leaves half written can be finished.
RecordsAreWrittenUnderAJournal ==
  [][disk' # disk => Pending # None \/ wiping]_vars

\* Nothing that was wiped comes back: a record is there after a wipe only
\* if a save sent it since.  (Unless the user was told that a wipe failed.)
WipedStaysWiped ==
  ~wipeFailed /\ ~wiping /\ op.at = "idle" =>
    LiveKeys(Contents(disk)) \subseteq fresh
===============================================================================
