------------------------------- MODULE StoreSync -------------------------------
(***************************************************************************)
(* Pages and the store.  The backend keeps one record tree; the renderer   *)
(* is a sequence of pages (every reload or app start is a new page with a  *)
(* fresh id), each holding a copy of the records and sending back what it  *)
(* changed.  A request says which records the page holds (fullKeys), so    *)
(* the backend reads an absent key as a deletion - which is right only if  *)
(* the backend remembers what that very page was given: the save base.     *)
(*                                                                         *)
(* Every handler of the store holds the write lock from its first to its   *)
(* last line, so a handler is one action.  Requests are concurrent: the    *)
(* worker that takes the lock next is any of the waiting ones, a retry may *)
(* repeat a request that was already applied, and the last save of a page  *)
(* may arrive long after its successor was served.                         *)
(***************************************************************************)
EXTENDS RecordMerge, Sequences, FiniteSets

CONSTANTS
  Keys,         \* record keys
  TextKeys,     \* the keys the backend also writes itself (upsert_text)
  Pages,        \* page ids
  NoPage,       \* no page owns the save base
  Device,       \* the id of this installation
  ServedKept,   \* SERVED_PAGES_KEPT
  Android,      \* TRUE: exit saves are frozen in localStorage and replayed
  Tries,        \* how often a lost reply may be followed by a retry
  MaxClock,     \* bound: the store stamps MaxClock - 1 writes
  MaxActs       \* bound: the users act MaxActs times

ASSUME StoreAssumption ==
  /\ TextKeys \subseteq Keys
  /\ IsFiniteSet(Pages) /\ NoPage \notin Pages
  /\ None \notin [Keys -> Record \cup {None}]
  /\ Device \in Devices
  /\ ServedKept \in Nat \ {0}
  /\ Android \in BOOLEAN
  /\ Tries \in Nat
  /\ MaxClock \in Nat
  /\ MaxActs \in Nat

VARIABLES
  \* the backend
  disk,    \* the record files: Keys -> Record or None
  cache,   \* Store.records_cache: what the next merge takes for the disk
  base,    \* Store.base_records: fingerprints of what the owner holds
  owner,   \* BasePage.owner
  served,  \* BasePage.served: pages served but not yet heard from
  clock,   \* LAST_CLOCK_MS
  \* the pages
  phase,   \* "unborn", "served", "live" or "gone"
  turn,    \* how many pages had been served when the page was, or 0
  mem,     \* the records each page holds; Gone where it holds none
  dirty,   \* records changed since a save last succeeded
  unsaved, \* "yes", "sent" (a save under way covers all changes), "timer"
           \* (all saved, by a timer not yet forgotten) or "no"
  fetched, \* a snapshot read for reconciliation and not yet applied, or None
  pending, \* the teardown delta in localStorage, or None
  net,     \* requests sent and not yet answered
  \* history
  held,    \* every key the page's user has had before his eyes
  touched,  \* every key of which the page has changed its copy
  crossed, \* keys somebody else wrote (or cached) since the page was served
  gaveUp,  \* live pages one of whose saves failed for good
  buried,  \* every key that has ever been a tombstone
  acts     \* how often the users have acted

store == <<disk, cache, base, owner, served, clock>>
browser == <<phase, turn, mem, dirty, unsaved, fetched, pending>>
ghosts == <<held, touched, crossed, gaveUp, buried>>
history == <<ghosts, acts>>
vars == <<store, browser, net, history>>

Tree == [Keys -> Record \cup {None}]
Base == [Keys -> Fingerprint \cup {None}]
Memory == [Keys -> Content]
Progress == {"no", "timer", "sent", "yes"}
Kinds == {"save", "exit", "replay", "ack"}
Message == [kind : Kinds, from : Pages, page : Pages, sent : SUBSET Keys,
            mem : Memory, tries : 0..Tries]

EmptyBase == [k \in Keys |-> None]
EmptyMemory == [k \in Keys |-> Gone]

TypeOK ==
  /\ disk \in Tree
  /\ cache \in Tree \cup {None}
  /\ base \in Base
  /\ owner \in Pages \cup {NoPage}
  /\ served \in Seq([page : Pages, base : Base])
  /\ clock \in Nat
  /\ phase \in [Pages -> {"unborn", "served", "live", "gone"}]
  /\ turn \in [Pages -> Nat]
  /\ mem \in [Pages -> Memory]
  /\ dirty \in [Pages -> SUBSET Keys]
  /\ unsaved \in [Pages -> Progress]
  /\ fetched \in [Pages -> Memory \cup {None}]
  /\ pending \in Message \cup {None}
  /\ net \subseteq Message
  /\ held \in [Pages -> SUBSET Keys]
  /\ touched \in [Pages -> SUBSET Keys]
  /\ crossed \in [Pages -> SUBSET Keys]
  /\ gaveUp \subseteq Pages
  /\ buried \subseteq Keys
  /\ acts \in Nat

-------------------------------------------------------------------------------
(* Reading the state.                                                      *)

\* records_cache_or_load
Current == IF cache = None THEN disk ELSE cache

Fingerprints(tree) == [k \in Keys |-> FingerprintOf(tree[k])]
LiveKeys(memory) == {k \in Keys : memory[k] # Gone}

\* A snapshot carries the live records only.
Snapshot == [k \in Keys |-> IF IsLive(disk[k]) THEN disk[k].data ELSE Gone]

Sent(p, kind) == \E m \in net : m.from = p /\ m.kind = kind
SaveInFlight(p) == Sent(p, "save")
ExclusiveWrite(p) == Sent(p, "ack")
Saved(p) == unsaved[p] \in {"no", "timer"}

\* What no timer does, and the bound on it.
UserActs == acts < MaxActs /\ acts' = acts + 1

\* Only the save of a live page is its own write: it is told the outcome.
Written ==
  {k \in Keys : disk'[k] # disk[k] \/ (cache' # None /\ cache'[k] # Current[k])}
CrossedBy(writer) ==
  [q \in Pages |-> IF q = writer \/ phase[q] \notin {"served", "live"}
                   THEN crossed[q] ELSE crossed[q] \cup Written]

NewTombstones(before, after) ==
  {k \in Keys : IsTombstone(after[k]) /\ ~IsTombstone(before[k])}

-------------------------------------------------------------------------------
(* The backend.                                                            *)

\* Slip: any page moves the base.
ClaimByAnyone(page) ==
  LET at == {i \in DOMAIN served : served[i].page = page}
      i == CHOOSE j \in at : TRUE
  IN  IF owner # page /\ at # {}
      THEN [granted |-> TRUE, owner |-> page, base |-> served[i].base,
            served |-> SubSeq(served, i + 1, Len(served))]
      ELSE [granted |-> TRUE, owner |-> owner, base |-> base, served |-> served]

\* Slip: the new owner inherits the base of the last one.
ClaimKeepingTheBase(page) ==
  LET at == {i \in DOMAIN served : served[i].page = page}
      i == CHOOSE j \in at : TRUE
  IN  IF owner # page /\ at # {}
      THEN [granted |-> TRUE, owner |-> page, base |-> base,
            served |-> SubSeq(served, i + 1, Len(served))]
      ELSE [granted |-> owner = page \/ (owner = NoPage /\ served = <<>>),
            owner |-> owner, base |-> base, served |-> served]

\* Slip: the new owner clears the queue, the pages served after it included.
ClaimClearingTheQueue(page) ==
  LET at == {i \in DOMAIN served : served[i].page = page}
      i == CHOOSE j \in at : TRUE
  IN  IF owner # page /\ at # {}
      THEN [granted |-> TRUE, owner |-> page, base |-> served[i].base, served |-> <<>>]
      ELSE [granted |-> owner = page \/ (owner = NoPage /\ served = <<>>),
            owner |-> owner, base |-> base, served |-> served]

\* The page a request speaks for may take the base over: it owns it, or it
\* is a page that was served and is heard from for the first time.  Pages
\* served before that one are forgotten.
Claim(page) ==
  LET at == {i \in DOMAIN served : served[i].page = page}
      i == CHOOSE j \in at : TRUE
  IN  IF owner = page
      THEN [granted |-> TRUE, owner |-> owner, base |-> base, served |-> served]
      ELSE IF at # {}
      THEN [granted |-> TRUE, owner |-> page, base |-> served[i].base,
            served |-> SubSeq(served, i + 1, Len(served))]
      ELSE [granted |-> owner = NoPage /\ served = <<>>,
            owner |-> owner, base |-> base, served |-> served]

\* Slip: serving a page moves the base at once.
ServeMovingTheBase(p) ==
  LET fp == Fingerprints(disk)
      queue == Append(served, [page |-> p, base |-> fp])
  IN  /\ phase[p] = "unborn"
      /\ cache' = disk
      /\ base' = fp
      /\ served' = IF Len(queue) > ServedKept THEN Tail(queue) ELSE queue
      /\ phase' = [phase EXCEPT ![p] = "served"]
      /\ turn' = [turn EXCEPT ![p] = Cardinality({q \in Pages : turn[q] > 0}) + 1]
      /\ mem' = [mem EXCEPT ![p] = Snapshot]
      /\ held' = [held EXCEPT ![p] = LiveKeys(Snapshot)]
      /\ UNCHANGED <<disk, owner, clock, dirty, unsaved, fetched, pending, net, touched, crossed, gaveUp, buried, acts>>

\* GET / on the desktop, /__store/load on Android: the page is served the
\* records on disk.  They become its base when it is heard from, or at once
\* while no page owns the base.  Page ids are fresh, so the page is not in
\* the queue yet.
Serve(p) ==
  LET fp == Fingerprints(disk)
      queue == Append(served, [page |-> p, base |-> fp])
  IN  /\ phase[p] = "unborn"
      /\ cache' = disk
      /\ base' = IF owner = NoPage THEN fp ELSE base
      /\ served' = IF Len(queue) > ServedKept THEN Tail(queue) ELSE queue
      /\ phase' = [phase EXCEPT ![p] = "served"]
      /\ turn' = [turn EXCEPT ![p] = Cardinality({q \in Pages : turn[q] > 0}) + 1]
      /\ mem' = [mem EXCEPT ![p] = Snapshot]
      /\ held' = [held EXCEPT ![p] = LiveKeys(Snapshot)]
      /\ UNCHANGED <<disk, owner, clock, dirty, unsaved, fetched, pending, net, touched, crossed, gaveUp, buried, acts>>

\* What the request carries, prepared for the merge.
Incoming(m, known, now) ==
  [k \in Keys |->
     IF k \in m.sent /\ m.mem[k] # Gone
     THEN PrepareLocal(LiveRecord(m.mem[k], Device, now),
                       known[k], Current[k], Device, now)
     ELSE None]

Merged(m, known, inc, now) ==
  [k \in Keys |->
     MergeRecord(known[k], inc[k], Current[k], k \in LiveKeys(m.mem), Device, now)]

Request(kind, from, page, sent, memory) ==
  [kind |-> kind, from |-> from, page |-> page, sent |-> sent, mem |-> memory, tries |-> 0]

\* Slip: what was edited while the save was under way counts as saved.
SucceedForAll(m) ==
  /\ dirty' = [dirty EXCEPT ![m.from] = {}]
  /\ unsaved' = [unsaved EXCEPT ![m.from] = "no"]
  /\ net' = net \ {m}

\* markSucceeded: the page forgets all changes of record, and if it was
\* edited since it sent m it saves anew, everything, at once.  If it was
\* the timer that sent m, saveTimer is not null yet.
Succeed(m) ==
  LET p == m.from
      again == unsaved[p] = "yes"
  IN  /\ dirty' = [dirty EXCEPT ![p] = {}]
      /\ \E rest \in {"no", "timer"} :
           unsaved' = [unsaved EXCEPT ![p] = IF again THEN "sent" ELSE rest]
      /\ net' = (net \ {m}) \cup
                  (IF again THEN {Request("save", p, p, Keys, mem[p])} ELSE {})

\* Slip: retries are not counted.
AnswerRetriedForever(m) ==
  \/ IF m.kind = "save" /\ phase[m.from] = "live"
     THEN Succeed(m) /\ UNCHANGED pending
     ELSE /\ net' = net \ {m}
          /\ pending' = IF m.kind = "replay" /\ phase[m.from] = "live" THEN None ELSE pending
          /\ UNCHANGED <<dirty, unsaved>>
  \/ /\ m.kind \in {"save", "replay"} /\ phase[m.from] = "live"
     /\ net' = (net \ {m}) \cup {[m EXCEPT !.tries = @ + 1]}
     /\ UNCHANGED <<dirty, unsaved, pending>>

\* The reply reaches the page; or it is lost and the request is sent again.
Answer(m) ==
  \/ IF m.kind = "save" /\ phase[m.from] = "live"
     THEN Succeed(m) /\ UNCHANGED pending
     ELSE /\ net' = net \ {m}
          /\ pending' = IF m.kind = "replay" /\ phase[m.from] = "live" THEN None ELSE pending
          /\ UNCHANGED <<dirty, unsaved>>
  \/ /\ m.kind \in {"save", "replay"} /\ phase[m.from] = "live" /\ m.tries < Tries
     /\ net' = (net \ {m}) \cup {[m EXCEPT !.tries = @ + 1]}
     /\ UNCHANGED <<dirty, unsaved, pending>>

\* POST /__store/save: claim the base, merge key by key, write the records
\* that differ from the base, and move the base if the claim was granted.
HandleSave(m) ==
  LET now == clock + 1
      c == Claim(m.page)
      inc == Incoming(m, c.base, now)
      merged == Merged(m, c.base, inc, now)
      writer == IF m.kind = "save" THEN m.from ELSE NoPage
  IN  /\ m.kind \in {"save", "exit", "replay"}
      /\ clock < MaxClock
      /\ disk' = [k \in Keys |->
                    IF merged[k] # None /\ RecordChangedSinceBase(merged[k], c.base[k])
                    THEN merged[k] ELSE disk[k]]
      /\ cache' = merged
      /\ base' = IF c.granted
                 THEN [k \in Keys |-> AcknowledgedBase(c.base[k], inc[k], merged[k])]
                 ELSE c.base
      /\ owner' = c.owner
      /\ served' = c.served
      /\ clock' = now
      /\ Answer(m)
      /\ crossed' = CrossedBy(writer)
      /\ buried' = buried \cup NewTombstones(disk, disk') \cup NewTombstones(Current, merged)
      /\ UNCHANGED <<phase, turn, mem, fetched, held, touched, gaveUp, acts>>

\* POST /__store/ack_snapshot: the page has replaced its state by m.mem.
HandleAck(m) ==
  LET c == Claim(m.page)
      inc == [k \in Keys |-> IF m.mem[k] # Gone
                             THEN LiveRecord(m.mem[k], Device, clock) ELSE None]
  IN  /\ m.kind = "ack"
      /\ cache' = IF c.granted THEN Current ELSE cache
      /\ base' = IF c.granted
                 THEN [k \in Keys |-> AcknowledgedBase(c.base[k], inc[k], Current[k])]
                 ELSE c.base
      /\ owner' = c.owner
      /\ served' = c.served
      /\ net' = net \ {m}
      /\ UNCHANGED <<disk, clock, browser, history>>

\* POST /__store/upsert_text: the backend writes a book text itself.  The
\* record continues the clock of the file it replaces; the base stays.
UpsertText(p, k, d) ==
  LET now == clock + 1
      from == IF disk[k] = None THEN NoClock ELSE disk[k].causal
  IN  /\ phase[p] = "live" /\ k \in TextKeys
      /\ UserActs
      /\ clock < MaxClock
      /\ disk' = [disk EXCEPT ![k] = [data |-> d, at |-> now, by |-> Device,
                                      causal |-> BumpCausal(from, Device, now)]]
      /\ cache' = None
      /\ clock' = now
      /\ crossed' = CrossedBy(NoPage)
      /\ UNCHANGED <<base, owner, served, browser, net, held, touched, gaveUp, buried>>

\* POST /__store/delete_text: sent for a text the page no longer refers to.
DeleteText(p, k) ==
  LET now == clock + 1
  IN  /\ phase[p] = "live" /\ k \in TextKeys /\ mem[p][k] = Gone
      /\ UserActs
      /\ clock < MaxClock
      /\ disk' = [disk EXCEPT ![k] = TombstoneWithBase(FingerprintOf(disk[k]), Device, now)]
      /\ cache' = None
      /\ clock' = now
      /\ crossed' = CrossedBy(NoPage)
      /\ buried' = buried \cup {k}
      /\ UNCHANGED <<base, owner, served, browser, net, held, touched, gaveUp>>

\* The process ends and starts again: the records stay, the base and the
\* pages do not, and requests under way are lost.  LAST_CLOCK_MS starts at 0
\* and follows the wall clock, which may have been set back meanwhile.
Restart ==
  /\ \E p \in Pages : phase[p] \in {"served", "live"}
  /\ clock' \in 0..clock
  /\ cache' = None
  /\ base' = EmptyBase
  /\ owner' = NoPage
  /\ served' = <<>>
  /\ phase' = [p \in Pages |-> IF phase[p] = "unborn" THEN "unborn" ELSE "gone"]
  /\ mem' = [p \in Pages |-> EmptyMemory]
  /\ dirty' = [p \in Pages |-> {}]
  /\ unsaved' = [p \in Pages |-> "no"]
  /\ fetched' = [p \in Pages |-> None]
  /\ net' = {}
  /\ crossed' = [p \in Pages |-> {}]
  /\ gaveUp' = {}
  /\ UNCHANGED <<disk, turn, pending, held, touched, buried, acts>>

-------------------------------------------------------------------------------
(* A page.                                                                 *)

\* recoverPendingFlush: what a page froze is sent on its behalf.
Replayed(p) ==
  IF pending = None THEN {} ELSE {[pending EXCEPT !.kind = "replay", !.from = p]}

\* The boot has its snapshot.  One window shows one page at a time, and never
\* one it loaded before the one it showed last; a page that is served and
\* never shown stays "served".  On Android the snapshot arrives after the
\* boot and replaces the state, which counts as a change of everything.
Boot(p) ==
  /\ phase[p] = "served"
  /\ \A q \in Pages : phase[q] # "live"
  /\ \A q \in Pages : turn[q] > turn[p] => phase[q] = "served"
  /\ phase' = [phase EXCEPT ![p] = "live"]
  /\ dirty' = [dirty EXCEPT ![p] = IF Android THEN Keys ELSE {}]
  /\ unsaved' = [unsaved EXCEPT ![p] = IF Android THEN "yes" ELSE "no"]
  /\ net' = net \cup Replayed(p)
  /\ UNCHANGED <<store, turn, mem, fetched, pending, history>>

\* The user adds, changes (d \in Data) or removes (d = Gone) a record; the
\* durable state revision moves, which voids a fetched snapshot.
Edit(p, k, d) ==
  /\ phase[p] = "live" /\ mem[p][k] # d
  /\ UserActs
  /\ mem' = [mem EXCEPT ![p][k] = d]
  /\ dirty' = [dirty EXCEPT ![p] = @ \cup {k}]
  /\ unsaved' = [unsaved EXCEPT ![p] = "yes"]
  /\ fetched' = [fetched EXCEPT ![p] = None]
  /\ held' = [held EXCEPT ![p] = @ \cup {k}]
  /\ touched' = [touched EXCEPT ![p] = @ \cup {k}]
  /\ UNCHANGED <<store, phase, turn, pending, net, crossed, gaveUp, buried>>

\* doSave: the delta holds at least what changed (the records of a changed
\* language go together); the full snapshot - the delta of all keys - goes
\* out when there are changes that dirty no longer names.
SendSave(p) ==
  /\ phase[p] = "live"
  /\ ~SaveInFlight(p) /\ ~ExclusiveWrite(p)
  /\ \E sent \in {dirty[p], Keys} :
       /\ unsaved[p] = "yes" => sent # {}
       /\ net' = net \cup {Request("save", p, p, sent, mem[p])}
  /\ IF unsaved[p] = "yes"
     THEN /\ unsaved' = [unsaved EXCEPT ![p] = "sent"]
          /\ UNCHANGED acts
     ELSE UserActs /\ UNCHANGED unsaved
  /\ UNCHANGED <<store, phase, turn, mem, dirty, fetched, pending, ghosts>>

\* saveStateAndReloadBridge reads the whole store, without making it a base.
FetchSnapshot(p) ==
  /\ phase[p] = "live" /\ ~ExclusiveWrite(p)
  /\ UserActs
  /\ fetched' = [fetched EXCEPT ![p] = Snapshot]
  /\ UNCHANGED <<store, phase, turn, mem, dirty, unsaved, pending, net, ghosts>>

\* ... and, with every change saved and autosave held off, applies it if
\* the page was not touched meanwhile, then acknowledges it.
ApplySnapshot(p) ==
  /\ phase[p] = "live" /\ fetched[p] # None
  /\ Saved(p) /\ ~SaveInFlight(p) /\ ~ExclusiveWrite(p)
  /\ mem' = [mem EXCEPT ![p] = fetched[p]]
  /\ dirty' = [dirty EXCEPT ![p] = Keys]
  /\ unsaved' = [unsaved EXCEPT ![p] = "yes"]
  /\ fetched' = [fetched EXCEPT ![p] = None]
  /\ held' = [held EXCEPT ![p] = @ \cup LiveKeys(fetched[p])]
  /\ touched' = [touched EXCEPT ![p] = @ \cup {k \in Keys : mem[p][k] # fetched[p][k]}]
  /\ net' = net \cup {Request("ack", p, p, Keys, fetched[p])}
  /\ UNCHANGED <<store, phase, turn, pending, crossed, gaveUp, buried, acts>>

\* What a page flushes when it is hidden or closed: nothing when nothing is
\* pending - but a timer that has fired counts as pending, since only
\* saveState and the flush forget it.  Only the desktop's flush knows of
\* changes dirty does not name.
HasPendingChanges(p) == unsaved[p] # "no" \/ SaveInFlight(p)
LastSave(p) ==
  Request("exit", p, p, IF dirty[p] = {} /\ ~Android THEN Keys ELSE dirty[p], mem[p])
Flushed(p) ==
  IF HasPendingChanges(p) /\ ~Android /\ ~ExclusiveWrite(p) THEN {LastSave(p)} ELSE {}

\* The desktop window is hidden, or minimised: the flush goes out, the page
\* lives on and does not learn what became of it.
Hide(p) ==
  /\ phase[p] = "live" /\ Flushed(p) # {}
  /\ ~Sent(p, "exit")
  /\ UserActs
  /\ net' = net \cup Flushed(p)
  /\ unsaved' = [unsaved EXCEPT ![p] = IF Saved(p) THEN "no" ELSE @]
  /\ UNCHANGED <<store, phase, turn, mem, dirty, fetched, pending, ghosts>>

\* A page closes: its flush goes out as a keepalive request on the desktop
\* and into localStorage on Android.
Exit(p) ==
  /\ phase[p] = "live"
  /\ phase' = [phase EXCEPT ![p] = "gone"]
  /\ mem' = [mem EXCEPT ![p] = EmptyMemory]
  /\ dirty' = [dirty EXCEPT ![p] = {}]
  /\ unsaved' = [unsaved EXCEPT ![p] = "no"]
  /\ fetched' = [fetched EXCEPT ![p] = None]
  /\ net' = net \cup Flushed(p)
  /\ pending' = IF HasPendingChanges(p) /\ Android THEN LastSave(p) ELSE pending
  /\ crossed' = [crossed EXCEPT ![p] = {}]
  /\ gaveUp' = gaveUp \ {p}
  /\ UNCHANGED <<store, turn, held, touched, buried, acts>>

\* A request is lost for good: its page is gone or its retries are used up.
\* A page whose save failed keeps what is dirty, and saves again later.
Lose(m) ==
  LET failed == m.kind = "save" /\ phase[m.from] = "live"
  IN  /\ phase[m.from] = "gone" \/ m.tries = Tries
      /\ net' = net \ {m}
      /\ unsaved' = IF failed
                    THEN [unsaved EXCEPT ![m.from] = IF @ = "sent" THEN "yes" ELSE @]
                    ELSE unsaved
      /\ gaveUp' = IF failed THEN gaveUp \cup {m.from} ELSE gaveUp
      /\ UNCHANGED <<store, phase, turn, mem, dirty, fetched, pending, held, touched, crossed, buried, acts>>

-------------------------------------------------------------------------------

\* The profile may hold records and tombstones from earlier sessions.
Init ==
  /\ clock = 1
  /\ disk \in [Keys -> {None, TombstoneWithBase(None, Device, 1)}
                         \cup {LiveRecord(d, Device, 1) : d \in Data}]
  /\ cache = None
  /\ base = EmptyBase
  /\ owner = NoPage
  /\ served = <<>>
  /\ phase = [p \in Pages |-> "unborn"]
  /\ turn = [p \in Pages |-> 0]
  /\ mem = [p \in Pages |-> EmptyMemory]
  /\ dirty = [p \in Pages |-> {}]
  /\ unsaved = [p \in Pages |-> "no"]
  /\ fetched = [p \in Pages |-> None]
  /\ pending = None
  /\ net = {}
  /\ held = [p \in Pages |-> {}]
  /\ touched = [p \in Pages |-> {}]
  /\ buried = {k \in Keys : IsTombstone(disk[k])}
  /\ crossed = [p \in Pages |-> {}]
  /\ gaveUp = {}
  /\ acts = 0

PageStep(p) ==
  \/ Serve(p)
  \/ Boot(p)
  \/ \E k \in Keys, d \in Content : Edit(p, k, d)
  \/ SendSave(p)
  \/ FetchSnapshot(p)
  \/ ApplySnapshot(p)
  \/ \E k \in Keys, d \in Data : UpsertText(p, k, d)
  \/ \E k \in Keys : DeleteText(p, k)
  \/ Hide(p)
  \/ Exit(p)

RequestStep(m) == HandleSave(m) \/ HandleAck(m) \/ Lose(m)

Next ==
  \/ \E p \in Pages : PageStep(p)
  \/ \E m \in net : RequestStep(m)
  \/ Restart

Spec == Init /\ [][Next]_vars

-------------------------------------------------------------------------------
(* Correctness.                                                            *)

\* A request speaks for its page's base: its claim would be granted.
Entitled(m) == Claim(m.page).granted

\* The base describes nothing its owner has not had before its eyes, and
\* neither does the base waiting for a served page (snapshot.rs: claim_base,
\* records_snapshot, acknowledged_frontend_base).
OwnerKnowsItsBase ==
  /\ owner # NoPage =>
       \A k \in Keys : base[k] # None /\ base[k].hash # Gone => k \in held[owner]
  /\ \A i \in DOMAIN served : \A k \in Keys :
       LET fp == served[i].base[k]
       IN  fp # None /\ fp.hash # Gone => k \in held[served[i].page]

\* A page with nothing left to save, and no request under way.
AtRest(p) ==
  /\ phase[p] = "live" /\ Saved(p)
  /\ ~SaveInFlight(p) /\ ~ExclusiveWrite(p)

\* The store knows what this page holds: it owns the base, or its base waits
\* for its first request.
Remembered(p) == owner = p \/ \E i \in DOMAIN served : served[i].page = p

\* Once a page the store remembers has had its saves answered, and none of
\* them had failed for good, the disk holds what the page shows, for every
\* record that nobody else has written since the page was served
\* (autosave.ts: markSucceeded; snapshot.rs: bulk_save_from).  Of a page
\* that SERVED_PAGES_KEPT others have pushed out of the queue the store
\* knows nothing: its saves are merged against the base of somebody else.
SavedMeansOnDisk ==
  \A p \in Pages \ gaveUp : AtRest(p) /\ Remembered(p) =>
    \A k \in Keys \ crossed[p] : mem[p][k] = Snapshot[k]

\* The same, though saves had failed before the last one succeeded.
FailedSavesAreMadeUpFor ==
  \A p \in Pages : AtRest(p) /\ Remembered(p) =>
    \A k \in Keys \ crossed[p] : mem[p][k] = Snapshot[k]

\* No late, repeated or replayed request of another page makes the store
\* forget the page in use: only serving one more page, with the queue full,
\* does (PageBases' doc comment, mod.rs; snapshot.rs: claim_base).
ThePageInUseIsRemembered ==
  [][\A p \in Pages :
       phase[p] = "live" /\ phase'[p] = "live" /\ Remembered(p) /\ ~Remembered(p)'
       => Len(served) >= ServedKept /\ \E q \in Pages : Serve(q)]_vars

\* The cache the merge reads agrees with the files about every record that
\* has never been deleted (commit_bulk_save_with_context writes only what
\* differs from the base, yet caches everything it merged).
CacheAgreesWithDisk ==
  cache # None =>
    \A k \in Keys \ buried :
      \/ cache[k] = None /\ disk[k] = None
      \/ cache[k] # None /\ disk[k] # None /\ cache[k].data = disk[k].data

\* A save deletes a record for the first time only if the page it speaks
\* for has held that record: the words another page saved behind its back
\* survive (bulk_save_from's doc comment).
FirstDeletionsAreTheUsers ==
  [][\A m \in net : \A k \in Keys \ buried :
       /\ IsLive(disk[k]) /\ IsTombstone(disk'[k])
       /\ Entitled(m) /\ HandleSave(m)
       => k \in held[m.page]]_vars

\* Of a clock, a record, a tree or a base: no device but this one has
\* written, and nothing is stamped later than t.
Stamped(causal, t) == \A d \in Devices : causal[d] <= (IF d = Device THEN t ELSE 0)
StampedRecord(r, t) == r.at <= t /\ Stamped(r.causal, t)
StampedTree(tree, t) == \A k \in Keys : tree[k] # None => StampedRecord(tree[k], t)
StampedBase(b, t) == \A k \in Keys : b[k] # None => Stamped(b[k].causal, t)

StampsUpTo(t) ==
  /\ StampedTree(disk, t)
  /\ cache # None => StampedTree(cache, t)
  /\ StampedBase(base, t)
  /\ \A i \in DOMAIN served : StampedBase(served[i].base, t)

\* Whatever pages send, and however often the process starts again, no write
\* is stamped with a time the store has already used, so that a later write
\* descends from an earlier one of the same device: once the clock is past
\* every stamp, only a start with the wall clock set back leaves it behind
\* one (fingerprints.rs: now_millis; causal.rs: bump_causal).
ClockCoversEveryRecord ==
  [][StampsUpTo(clock) /\ clock' >= clock => StampsUpTo(clock)']_vars

\* The stamp of a change that m sends is later than that of the record it
\* replaces: the clock is past it, or the change continues it.
OutstampsCurrent(m, k) ==
  LET b == Claim(m.page).base[k]
  IN  \/ Current[k] = None \/ Current[k].causal[Device] <= clock
      \/ IF b = None THEN IsTombstone(Current[k])
         ELSE b.causal[Device] >= Current[k].causal[Device]

\* A save that speaks for its page puts every record the page changed on
\* disk as the page has it: no tombstone and no earlier write of this device
\* wins over it.  After a start with the wall clock set back that holds of
\* the records whose latest write the base knows, and of those written since
\* (fingerprints.rs: prepare_local_records; merge.rs: merge_records).
SavedEditsWin ==
  [][\A m \in net : \A k \in m.sent :
       /\ m.mem[k] # Gone /\ Entitled(m)
       /\ (Claim(m.page).base[k] = None \/ Claim(m.page).base[k].hash # m.mem[k])
       /\ OutstampsCurrent(m, k)
       /\ HandleSave(m)
       => disk'[k] # None /\ disk'[k].data = m.mem[k]]_vars

\* A save merged for the page that the base belongs to does not touch the
\* contents of a record that was never deleted and that its user did not
\* edit: what another page or the backend wrote there meanwhile stays.
\* (Once a record was deleted, the base forgets it, and a page that still
\* holds it writes its own version back.)  Nothing of the kind holds of a
\* save that is not entitled to the base - the late exit save of a page
\* whose successor has been heard from: it is merged against the base of its
\* successor, and where it carries everything its old contents win.
UntouchedRecordsKeepForeignWrites ==
  [][\A m \in net : \A k \in Keys \ buried :
       /\ IsLive(disk[k]) /\ IsLive(disk'[k]) /\ disk[k].data # disk'[k].data
       /\ Entitled(m) /\ HandleSave(m)
       => k \in touched[m.page]]_vars

-------------------------------------------------------------------------------
(* Why the base and the cache may be trusted: the parts of the inductive   *)
(* invariant.                                                              *)

\* Whatever a page shows, sends or leaves behind has been before its user's
\* eyes, and only pages that were served send and own anything.
PagesSendWhatTheyHold ==
  /\ \A p \in Pages : LiveKeys(mem[p]) \subseteq held[p]
  /\ \A m \in net \cup ({pending} \ {None}) :
       LiveKeys(m.mem) \subseteq held[m.page] /\ phase[m.page] # "unborn"
  /\ owner # NoPage => phase[owner] # "unborn"
  /\ \A i \in DOMAIN served : phase[served[i].page] # "unborn"

\* While no page is known to the store, there is no page and no request.
NoPageNoRequest ==
  owner = NoPage /\ served = <<>> =>
    /\ net = {} /\ base = EmptyBase
    /\ \A p \in Pages : phase[p] \in {"unborn", "gone"}

\* A tombstone, or the fingerprint of one, means that the key was deleted.
TombstonesAreBuried ==
  \A k \in Keys \ buried :
    /\ ~IsTombstone(disk[k])
    /\ cache # None => ~IsTombstone(cache[k])
    /\ base[k] # None => base[k].hash # Gone
    /\ \A i \in DOMAIN served : served[i].base[k] # None => served[i].base[k].hash # Gone

\* The inductive invariant behind the theorems about the base and the cache.
IInv ==
  /\ TypeOK /\ OwnerKnowsItsBase /\ CacheAgreesWithDisk
  /\ PagesSendWhatTheyHold /\ NoPageNoRequest /\ TombstonesAreBuried
===============================================================================
