------------------------------- MODULE Transfer -------------------------------
(***************************************************************************)
(* Packages (store/transfer.rs, handlers.rs, sync-actions.ts): a package   *)
(* is a copy of the live records, made from a snapshot while the page goes *)
(* on; one is made before words, the library or everything is cleared, and *)
(* importing that one takes the clear back.  Importing merges by time, and *)
(* is undone when a step of it fails - but not when the program dies.      *)
(*                                                                         *)
(* One page and its store: a save, a wipe and an import each hold the      *)
(* write lock throughout.  Every text is a PDF book, with page images.     *)
(* Left out: the entries of bookmark and archive lists, which imports      *)
(* unite, and the format of a package.                                     *)
(***************************************************************************)
EXTENDS SaveRequest, FiniteSets

CONSTANTS
  Words, Texts, Prefs,  \* the kinds of keys
  LangOf,       \* the learning language of a word or text
  Default,      \* what a preference is when nobody has set it
  Foreign,      \* packages made elsewhere
  Window,       \* CLEAR_RESTORE_WINDOW_MS
  MaxActs, MaxClock, MaxFaults  \* bounds: what users do; stamps; errors and crashes

Languages == {LangOf[k] : k \in DOMAIN LangOf}
Clears == {"words", "library", "all"}

VARIABLES
  disk, base, clock,  \* the store
  images,    \* the texts whose page images are there
  mem, dirty,\* the page's records, and those it has edited since its last save
  lang,      \* preferences.learningLanguage
  stage,     \* transfer: "idle", "asked", "copying", "saved", "clearing" or "reloading"
  backup,    \* the package of the last clear, or None
  \* history
  taken,     \* what the last clear took away: key -> contents, Gone if nothing
  restored,  \* the records an import has brought back, until the page touches them
  acts, faults

store == <<disk, base, clock, images>>
history == <<taken, restored, acts, faults>>
vars == <<store, mem, dirty, lang, stage, backup, history>>

Acts == acts < MaxActs /\ acts' = acts + 1
Fault == faults < MaxFaults /\ faults' = faults + 1
Now == clock + 1

-------------------------------------------------------------------------------
(* The page and its store.                                                 *)

SaveAt(now, memory, sent) ==
  [mem |-> memory, sent |-> sent \cap LiveKeys(memory), base |-> base, at |-> now]

\* What a save leaves, for the records and for the images of texts that are gone.
Saves(r) ==
  /\ clock < MaxClock /\ clock' = r.at
  /\ disk' = After(r, disk, disk)
  /\ base' = Acknowledged(r, disk, Merged(r, disk))
  /\ images' = images \ {k \in Texts : IsLive(disk[k]) /\ IsTombstone(disk'[k])}
  /\ restored' = restored \ {k \in Keys : ~IsLive(disk'[k]) \/ disk'[k].data # disk[k].data}

Edit(k, d) ==
  /\ Acts /\ stage # "clearing" /\ mem[k] # d /\ (k \in Prefs => d # Gone)
  /\ mem' = [mem EXCEPT ![k] = d] /\ dirty' = dirty \cup {k}
  /\ taken' = [taken EXCEPT ![k] = Gone]
  /\ restored' = IF mem[k] = Gone THEN restored ELSE restored \ {k}
  /\ UNCHANGED <<store, lang, stage, backup, faults>>

SwitchLanguage ==
  /\ Acts /\ stage # "clearing" /\ lang' \in Languages \ {lang}
  /\ UNCHANGED <<store, mem, dirty, stage, backup, taken, restored, faults>>

Save ==
  /\ dirty # {} /\ stage # "clearing"
  /\ Saves(SaveAt(Now, mem, dirty)) /\ dirty' = {}
  /\ UNCHANGED <<mem, lang, stage, backup, taken, acts, faults>>

\* The page takes the records over, and they become its base.
Adopted(tree) == mem' = Contents(tree)
AckBase(tree, known) ==
  [k \in Keys |-> AcknowledgedBase(known[k],
                    IF IsLive(tree[k]) THEN LiveRecord(tree[k].data, Device, clock) ELSE None,
                    tree[k])]

\* The page is loaded anew.
Restart ==
  /\ Acts /\ dirty = {} /\ stage \in {"idle", "reloading"}
  /\ Adopted(disk) /\ base' = Fingerprints(disk) /\ stage' = "idle"
  /\ UNCHANGED <<disk, clock, images, dirty, lang, backup, taken, restored, faults>>

-------------------------------------------------------------------------------
(* The backup that precedes a clear, and the clear.                        *)

Packed == [k \in Keys |-> IF IsLive(disk[k]) THEN disk[k] ELSE None]

\* backupBeforeClear: everything is saved first; the user chooses a file.
AskForBackup(c) ==
  /\ Acts /\ stage = "idle" /\ dirty = {} /\ stage' = "asked"
  /\ backup' = [clear |-> c, lang |-> lang, at |-> 0, begun |-> clock, images |-> {}, recs |-> EmptyBase]
  /\ UNCHANGED <<store, mem, dirty, lang, taken, restored, faults>>

\* export_transfer reads the records under the lock,
TakeSnapshot ==
  /\ stage = "asked" /\ stage' = "copying"
  /\ backup' = [backup EXCEPT !.recs = Packed, !.begun = clock]
  /\ UNCHANGED <<store, mem, dirty, lang, taken, restored, acts, faults>>

\* stamps the manifest, and copies the images without it.
Pack ==
  /\ stage = "copying" /\ stage' = "saved" /\ clock < MaxClock /\ clock' = Now
  /\ backup' = [backup EXCEPT !.at = Now,
                              !.images = {k \in images : backup.recs[k] # None}]
  /\ UNCHANGED <<disk, base, images, mem, dirty, lang, taken, restored, acts, faults>>

\* Slip: whatever came of the backup, the clear goes on.
BackupFailsUnnoticed ==
  /\ Fault /\ stage \in {"asked", "copying"} /\ stage' = "saved"
  /\ UNCHANGED <<store, mem, dirty, lang, backup, taken, restored, acts>>

\* The export fails, is cancelled or stalls: nothing is cleared.
BackupFails ==
  /\ Fault /\ stage \in {"asked", "copying"} /\ stage' = "idle" /\ backup' = None
  /\ UNCHANGED <<store, mem, dirty, lang, taken, restored, acts>>

\* What a clear of one language takes away.
InClear(c, l, k) ==
  CASE c = "words" -> k \in Words /\ LangOf[k] = l
    [] c = "library" -> k \in Texts /\ LangOf[k] = l
    [] c = "all" -> TRUE

Takes(memory) == [k \in Keys |-> IF memory[k] = Gone THEN mem[k] ELSE Gone]

\* clearWords, clearLibrary: the page's own records go first,
Clear ==
  /\ stage = "saved" /\ backup.clear # "all" /\ stage' = "clearing"
  /\ mem' = [k \in Keys |-> IF InClear(backup.clear, lang, k) THEN Gone ELSE mem[k]]
  /\ taken' = Takes(mem')
  /\ dirty' = dirty \cup {k \in Keys : mem[k] # mem'[k]}
  /\ UNCHANGED <<store, lang, backup, restored, acts, faults>>

\* then a save and a snapshot follow; without them the records come back.
ClearIsSaved ==
  /\ stage = "clearing" /\ stage' = "idle" /\ dirty' = {}
  /\ LET r == SaveAt(Now, mem, dirty)
         after == After(r, disk, disk)
     IN  /\ clock < MaxClock /\ clock' = Now
         /\ disk' = after
         /\ base' = AckBase(after, Acknowledged(r, disk, Merged(r, disk)))
         /\ images' = images \ {k \in Texts : IsLive(disk[k]) /\ IsTombstone(after[k])}
         /\ restored' = restored \ {k \in Keys : ~IsLive(after[k])}
         /\ Adopted(after)
  /\ UNCHANGED <<lang, backup, taken, acts, faults>>

ClearFails ==
  /\ Fault /\ stage = "clearing" /\ stage' = "idle" /\ dirty' = {}
  /\ Adopted(disk) /\ base' = AckBase(disk, base)
  /\ taken' = [k \in Keys |-> Gone]
  /\ UNCHANGED <<disk, clock, images, lang, backup, restored, acts>>

\* clearLocalState: a wipe, then the defaults.
ClearAll ==
  /\ stage = "saved" /\ backup.clear = "all" /\ stage' = "idle"
  /\ clock < MaxClock /\ clock' = Now
  /\ disk' = Tombstones(disk, Now) /\ base' = AckBase(disk', Fingerprints(disk')) /\ images' = {}
  /\ mem' = [k \in Keys |-> IF k \in Prefs THEN Default ELSE Gone]
  /\ taken' = [k \in Keys |-> IF k \in Prefs THEN Gone ELSE mem[k]]
  /\ dirty' = Prefs /\ restored' = {}
  /\ UNCHANGED <<lang, backup, acts, faults>>

-------------------------------------------------------------------------------
(* Import.                                                                 *)

Within(time, from) == time >= from /\ time - from <= Window

RestoreOver(inc, saved, now) ==
  [inc EXCEPT !.at = now, !.by = Device,
     !.causal = BumpCausal(JoinCausal(inc.causal, IF saved = None THEN NoClock ELSE saved.causal),
                           Device, now)]

\* Slip: of two of the same time the incoming one wins.
IsNewerStrictly(saved, inc) == saved # None /\ saved.at > inc.at

IsNewer(saved, inc) == saved # None /\ saved.at >= inc.at

\* Slip: the language is the one learnt now.
ClearedAfterHere(p, k, saved) ==
  /\ p.clear # "none" /\ InClear(p.clear, lang, k)
  /\ IsTombstone(saved) /\ Within(saved.at, p.at)

\* ClearBackup::deleted, ::edited and what follows from them.
ClearedAfter(p, k, saved) ==
  /\ p.clear # "none" /\ InClear(p.clear, p.lang, k)
  /\ IsTombstone(saved) /\ Within(saved.at, p.at)

EditedByClear(p, k, saved) ==
  p.clear = "all" /\ k \in Prefs /\ IsLive(saved) /\ Within(saved.at, p.at)

\* A device without words or books takes the package's settings.
ForFreshDevice(p, k, saved) ==
  /\ p.clear = "none" /\ \A t \in Words \cup Texts : ~IsLive(disk[t])
  /\ k \in Prefs /\ IsLive(saved) /\ saved.data # p.recs[k].data

\* What becomes of one record: None if it is skipped.
Accepted(p, k, now) ==
  LET inc == p.recs[k]
      saved == disk[k]
      over == \/ ClearedAfter(p, k, saved)
              \/ IsNewer(saved, inc) /\ (EditedByClear(p, k, saved) \/ ForFreshDevice(p, k, saved))
  IN  CASE inc = None -> None
        [] inc # None /\ over -> RestoreOver(inc, saved, now)
        [] inc # None /\ ~over -> IF IsNewer(saved, inc) THEN None ELSE inc

\* texts_missing_pdf_images
IsComplete(p, k) == k \in Texts => k \in p.images \cup images

Chosen(p, now) == {k \in Keys : Accepted(p, k, now) # None /\ IsComplete(p, k)}

Imported(p, now, done) ==
  [k \in Keys |-> IF k \in done \cap Chosen(p, now) THEN Accepted(p, k, now) ELSE disk[k]]

Packages == Foreign \cup (IF backup # None /\ backup.at > 0 THEN {backup} ELSE {})

\* import_transfer: everything unsaved is saved first; assets, records and the
\* media manifest are in place when it returns.
Import(p) ==
  /\ Acts /\ stage = "idle" /\ dirty = {} /\ stage' = "reloading"
  /\ clock < MaxClock /\ clock' = Now
  /\ disk' = Imported(p, Now, Keys)
  /\ images' = images \cup (p.images \cap Chosen(p, Now))
  /\ restored' = restored \cup {k \in Keys : ~IsLive(disk[k]) /\ IsLive(disk'[k])}
  /\ UNCHANGED <<base, mem, dirty, lang, backup, taken, faults>>

\* A step of it fails, and what was written is put back.
ImportFails ==
  /\ Acts /\ Fault /\ stage = "idle" /\ dirty = {}
  /\ UNCHANGED <<store, mem, dirty, lang, stage, backup, taken, restored>>

\* The program dies of it: some of the files are new, and stay.
ImportDies(p, done) ==
  /\ Acts /\ Fault /\ stage = "idle" /\ dirty = {}
  /\ clock < MaxClock /\ clock' = Now
  /\ disk' = Imported(p, Now, done)
  /\ images' \in {images, images \cup (p.images \cap Chosen(p, Now))}
  /\ done \cap Chosen(p, Now) # {} => images' = images \cup (p.images \cap Chosen(p, Now))
  /\ Adopted(disk') /\ base' = Fingerprints(disk')
  /\ UNCHANGED <<dirty, lang, stage, backup, taken, restored>>

\* Slip: the base is taken over even if the records are not.
ReloadTakesBase ==
  /\ stage = "reloading" /\ stage' = "idle"
  /\ base' = AckBase(disk, base)
  /\ IF dirty = {} THEN Adopted(disk) ELSE UNCHANGED mem
  /\ UNCHANGED <<disk, clock, images, dirty, lang, backup, history>>

\* reloadBridgeSnapshot: changes made meanwhile keep the page's state.
Reload ==
  /\ stage = "reloading" /\ stage' = "idle"
  /\ IF dirty = {} THEN Adopted(disk) /\ base' = AckBase(disk, base) ELSE UNCHANGED <<mem, base>>
  /\ UNCHANGED <<disk, clock, images, dirty, lang, backup, history>>

-------------------------------------------------------------------------------
Init ==
  /\ \E m \in [Keys -> Data] :
       /\ mem = [k \in Keys |-> IF k \in Prefs THEN Default ELSE m[k]]
       /\ disk = [k \in Keys |-> LiveRecord(mem[k], Device, 1)]
  /\ base = Fingerprints(disk) /\ clock = 1 /\ images = Texts
  /\ dirty = {} /\ lang \in Languages /\ stage = "idle" /\ backup = None
  /\ taken = [k \in Keys |-> Gone] /\ restored = {} /\ acts = 0 /\ faults = 0

Next ==
  \/ \E k \in Keys, d \in Content : Edit(k, d)
  \/ SwitchLanguage \/ Save \/ Restart
  \/ \E c \in Clears : AskForBackup(c)
  \/ TakeSnapshot \/ Pack \/ BackupFails
  \/ Clear \/ ClearIsSaved \/ ClearFails \/ ClearAll
  \/ \E p \in Packages : Import(p) \/ \E done \in SUBSET Keys : ImportDies(p, done)
  \/ ImportFails \/ Reload

Spec == Init /\ [][Next]_vars

-------------------------------------------------------------------------------
TypeOK ==
  /\ disk \in Tree /\ base \in Base /\ clock \in 1..MaxClock /\ images \subseteq Texts
  /\ mem \in Memory /\ dirty \subseteq Keys /\ lang \in Languages
  /\ stage \in {"idle", "asked", "copying", "saved", "clearing", "reloading"}
  /\ taken \in Memory /\ restored \subseteq Keys

(* Importing the backup takes the clear back (sync-actions.ts:281): what   *)
(* the clear took away is there again, as the backup had it, unless it was *)
(* touched meanwhile, its images are missing, or the clear was of another  *)
(* language than its backup.                                               *)
BackupTakesTheClearBack ==
  [][\A k \in Keys :
       /\ backup # None /\ stage = "idle" /\ stage' = "reloading" /\ disk' = Imported(backup, Now, Keys)
       /\ taken[k] # Gone /\ backup.recs[k] # None /\ IsComplete(backup, k)
       /\ InClear(backup.clear, backup.lang, k)
       /\ IsTombstone(disk[k]) /\ Within(disk[k].at, backup.at)
       => disk'[k].data = backup.recs[k].data]_vars

\* A clear takes nothing from the store that is not in the package made before
\* it, except what was saved since that was begun (sync-actions.ts:279-295).
NothingIsClearedUnsaved ==
  [][stage' = "idle" /\ stage \in {"saved", "clearing"} =>
       \A k \in Keys :
         IsLive(disk[k]) /\ ~IsLive(disk'[k]) /\ disk[k].at <= backup.begun =>
           (backup.recs[k] = disk[k])]_vars

\* An import deletes nothing, and changes a record that is newer here only
\* where a clear has changed it, or the device is fresh (transfer.rs:351-446).
ImportsDeleteNothing ==
  [][stage = "idle" /\ (stage' = "reloading" \/ faults' > faults) =>
       \A k \in Keys : IsLive(disk[k]) =>
         \/ disk'[k] = disk[k]
         \/ IsLive(disk'[k]) /\ (disk'[k].at > disk[k].at)]_vars

(* What an import has brought back, no save takes away before the page has *)
(* held it - unless the page's base knows it as deleted, as it does when   *)
(* the page was loaded between the deletion and the import.                *)
RestoredRecordsStay ==
  [][dirty # {} /\ dirty' = {} =>
       \A k \in restored :
         IsLive(disk[k]) /\ mem[k] = Gone /\ k \notin dirty /\ (base[k] = None \/ base[k].hash # Gone)
           => IsLive(disk'[k])]_vars
===============================================================================
