------------------------------ MODULE Relocation -------------------------------
(***************************************************************************)
(* Moving the store to another data directory (store/mod.rs: relocate;     *)
(* media_assets.rs; paths.rs).  A directory without data is filled by      *)
(* copying, one with data is merged into; then the store is switched over  *)
(* and the choice is remembered in a file of its own.  Any step may fail   *)
(* or be the last one before the process dies, and the user tries again.   *)
(* A directory nobody uses may get another device's work from a tool that  *)
(* synchronises it, and may be gone when the program is started.           *)
(*                                                                         *)
(* The write lock is held throughout, and the page takes over what it is   *)
(* given afterwards (StoreSync).  A record file cut short is skipped by    *)
(* its readers, so that it is not there at all.  Left out: the packages of *)
(* the offline translator and the UI state, which are copied over whatever *)
(* is there, and imports under way, which are refused meanwhile (Server).  *)
(***************************************************************************)
EXTENDS SaveRequest

CONSTANTS
  Dirs, DefaultDir,  \* directories; the one used when none has been chosen
  Texts,             \* the keys of books, each with one image
  Cut,               \* what is in an image file whose copying was cut short
  MaxActs, MaxClock, MaxFaults  \* bounds

\* An entry of an image manifest
ManifestEntry == [hash : Content \cup {Cut}, at : Nat, by : Devices, dead : BOOLEAN]

ASSUME RelocationAssumption ==
  DefaultDir \in Dirs /\ Texts \subseteq Keys /\ Cut \notin Content /\ None \notin ManifestEntry

VARIABLES
  recs,     \* directory -> its records
  image,    \* directory -> book -> what its image file holds, Gone if there is none
  manifest, \* directory -> book -> the entry of its image, or None
  dir,      \* StoreInner.dir
  pointer,  \* WordHunter-data-dir.txt
  cache,    \* Store.records_cache
  move,     \* the move at work, or Settled
  clock,
  \* history
  saved,    \* key -> when it was last saved here
  mishaps,  \* "gone": a directory was at some start; "broken": bringing images to one was broken off
  acts, faults

trees == <<recs, image, manifest>>
moveHistory == <<saved, mishaps, acts, faults>>
moveVars == <<trees, dir, pointer, cache, move, clock, moveHistory>>

Settled == [at |-> "idle"]
MoveStages == {"copy images", "copy records", "merge records", "merge images", "switch"}

Acts == acts < MaxActs /\ acts' = acts + 1
Tick == clock < MaxClock /\ clock' = clock + 1
Put(tree, k, x) == [tree EXCEPT ![dir] = [@ EXCEPT ![k] = x]]
Current == IF cache = None THEN recs[dir] ELSE cache

-------------------------------------------------------------------------------
(* Image manifests.                                                        *)

Entry(data, at, by) == [hash |-> data, at |-> at, by |-> by, dead |-> FALSE]

\* update_manifest_from_files: a file the manifest does not know, or knows
\* otherwise, is a new version of this device; a deleted one stays deleted.
Refreshed(files, m, now) ==
  [t \in Texts |->
     IF files[t] = Gone \/ (m[t] # None /\ (m[t].dead \/ m[t].hash = files[t])) THEN m[t]
     ELSE Entry(files[t], now, Device)]

\* should_keep_asset
KeepsAsset(cur, inc) ==
  \/ cur.at > inc.at
  \/ /\ cur.at = inc.at
     /\ \/ cur.dead /\ ~inc.dead
        \/ cur.dead = inc.dead /\ (cur.by > inc.by \/ (cur.by = inc.by /\ cur.hash >= inc.hash))

\* Slip: what is already there stays.
MergedManifestsKeepRight(left, right) ==
  [t \in Texts |-> IF right[t] = None THEN left[t] ELSE right[t]]

MergedManifests(left, right) ==
  [t \in Texts |->
     IF right[t] = None \/ (left[t] # None /\ KeepsAsset(left[t], right[t])) THEN left[t] ELSE right[t]]

\* apply_manifest
Applied(m, from, to) ==
  [t \in Texts |->
     IF m[t] = None THEN to[t]
     ELSE IF m[t].dead THEN Gone
     ELSE IF to[t] # m[t].hash /\ from[t] = m[t].hash THEN from[t] ELSE to[t]]

-------------------------------------------------------------------------------
(* The store in use.                                                       *)

\* A save of one record by a page that holds what the store holds; a book is
\* saved with its image, and deleted with it.
Save(k, d) ==
  /\ Acts /\ move = Settled /\ Tick
  /\ LET r == [mem |-> [Contents(Current) EXCEPT ![k] = d], sent |-> {k} \ {x \in {k} : d = Gone},
               base |-> Fingerprints(Current), at |-> clock']
         after == After(r, Current, recs[dir])
     IN  /\ d # Contents(Current)[k]
         /\ recs' = [recs EXCEPT ![dir] = after]
         /\ cache' = Merged(r, Current)
  /\ saved' = [saved EXCEPT ![k] = clock']
  /\ IF k \in Texts
     THEN /\ image' = Put(image, k, d)
          /\ manifest' = Put(manifest, k, [Entry(d, clock', Device) EXCEPT !.dead = (d = Gone)])
     ELSE UNCHANGED <<image, manifest>>
  /\ UNCHANGED <<dir, pointer, move, mishaps, faults>>

\* Another device's version of a record reaches a directory that is not in use.
OtherDeviceWrites(f, k, d) ==
  /\ Acts /\ move = Settled /\ f # dir /\ Tick
  /\ \E other \in Devices \ {Device} :
       /\ recs' = [recs EXCEPT ![f] = [@ EXCEPT ![k] =
            [data |-> d, at |-> clock', by |-> other,
             causal |-> BumpCausal(BaseClock(FingerprintOf(recs[f][k])), other, clock')]]]
       /\ IF k \in Texts
          THEN /\ image' = [image EXCEPT ![f] = [@ EXCEPT ![k] = d]]
               /\ manifest' = [manifest EXCEPT ![f] = [@ EXCEPT ![k] =
                                 [Entry(d, clock', other) EXCEPT !.dead = (d = Gone)]]]
          ELSE UNCHANGED <<image, manifest>>
  /\ UNCHANGED <<dir, pointer, cache, move, saved, mishaps, faults>>

-------------------------------------------------------------------------------
(* relocate                                                                *)

MoveOn(stage) == move' = [move EXCEPT !.at = stage]

\* has_wordhunter_data
HasData(f) == (\E k \in Keys : recs[f][k] # None) \/ (\E t \in Texts : image[f][t] # Gone)

Choose(f) ==
  /\ Acts /\ move = Settled /\ f # dir
  /\ move' = [at |-> IF HasData(f) THEN "merge records" ELSE "copy images",
            to |-> f, found |-> recs[f]]
  /\ UNCHANGED <<trees, dir, pointer, cache, clock, saved, mishaps, faults>>

\* copy_data_dir: some image files, the last of them perhaps cut short,
CopySomeImages(some, cut) ==
  /\ move.at = "copy images" /\ cut \subseteq some /\ (some # Texts \/ cut # {}) /\ faults < MaxFaults
  /\ image' = [image EXCEPT ![move.to] =
                 [t \in Texts |-> IF t \notin some \/ image[dir][t] = Gone THEN Gone
                                  ELSE IF t \in cut THEN Cut ELSE image[dir][t]]]
  /\ move' = Settled /\ faults' = faults + 1 /\ mishaps' = mishaps \cup {"broken"}
  /\ UNCHANGED <<recs, manifest, dir, pointer, cache, clock, saved, acts>>

\* or all of them;
CopyImages ==
  /\ move.at = "copy images" /\ image' = [image EXCEPT ![move.to] = image[dir]]
  /\ MoveOn("copy records")
  /\ UNCHANGED <<recs, manifest, dir, pointer, cache, clock, moveHistory>>

\* then the records and the manifest, all or some of them.
CopyRecords(some) ==
  /\ move.at = "copy records"
  /\ recs' = [recs EXCEPT ![move.to] = [k \in Keys |-> IF k \in some THEN recs[dir][k] ELSE None]]
  /\ \/ some = Keys /\ manifest' = [manifest EXCEPT ![move.to] = manifest[dir]]
        /\ MoveOn("switch") /\ UNCHANGED <<faults, mishaps>>
     \/ /\ faults < MaxFaults /\ faults' = faults + 1 /\ mishaps' = mishaps \cup {"broken"}
        /\ move' = Settled /\ UNCHANGED manifest
  /\ UNCHANGED <<image, dir, pointer, cache, clock, saved, acts>>

\* Slip: the records of the chosen directory count as known.
MergeDirectoriesAsKnown(from, to, now) ==
  [k \in Keys |-> MergeRecord(FingerprintOf(to[k]), from[k], to[k], from[k] # None, Device, now)]

\* merge_data_dir: neither directory is the base of the other.
MergeDirectories(from, to, now) ==
  [k \in Keys |-> MergeRecord(None, from[k], to[k], from[k] # None, Device, now)]

\* All of the records are written, or some.
MergeRecords(some) ==
  /\ move.at = "merge records" /\ Tick
  /\ LET merged == MergeDirectories(recs[dir], recs[move.to], clock')
     IN  recs' = [recs EXCEPT ![move.to] =
                    [k \in Keys |-> IF k \in some THEN merged[k] ELSE recs[move.to][k]]]
  /\ \/ some = Keys /\ MoveOn("merge images") /\ UNCHANGED faults
     \/ faults < MaxFaults /\ faults' = faults + 1 /\ move' = Settled
  /\ UNCHANGED <<image, manifest, dir, pointer, cache, saved, mishaps, acts>>

\* merge_book_assets_into: the target's manifest is brought up to date, files are
\* applied one by one, and the merged manifest is written; all of it, or some.
MergeImages(some) ==
  /\ move.at = "merge images" /\ Tick
  /\ LET right == Refreshed(image[move.to], manifest[move.to], clock')
         merged == MergedManifests(Refreshed(image[dir], manifest[dir], clock'), right)
         applied == Applied(merged, image[dir], image[move.to])
     IN  /\ image' = [image EXCEPT ![move.to] =
                        [t \in Texts |-> IF t \in some THEN applied[t] ELSE image[move.to][t]]]
         /\ \/ some = Texts /\ manifest' = [manifest EXCEPT ![move.to] = merged]
               /\ MoveOn("switch") /\ UNCHANGED <<faults, mishaps>>
            \/ /\ faults < MaxFaults /\ faults' = faults + 1 /\ mishaps' = mishaps \cup {"broken"}
               /\ move' = Settled /\ manifest' = [manifest EXCEPT ![move.to] = right]
  /\ UNCHANGED <<recs, dir, pointer, cache, saved, acts>>

\* Slip: the cached records stay.
SwitchKeepingTheCache ==
  /\ move.at = "switch" /\ dir' = move.to /\ pointer' = move.to /\ move' = Settled
  /\ UNCHANGED <<trees, cache, clock, moveHistory>>

\* The choice is remembered, and the caches are dropped.
Switch ==
  /\ move.at = "switch" /\ dir' = move.to /\ pointer' = move.to /\ cache' = None /\ move' = Settled
  /\ UNCHANGED <<trees, clock, moveHistory>>

BrokenOff == {"broken" : stage \in {move.at} \cap {"copy images", "copy records"}}

\* A step fails: the old directory stays in use.
Fail ==
  /\ move # Settled /\ faults < MaxFaults /\ faults' = faults + 1 /\ move' = Settled
  /\ cache' \in (IF move.at = "switch" THEN {None} ELSE {cache})
  /\ mishaps' = mishaps \cup BrokenOff
  /\ UNCHANGED <<trees, dir, pointer, clock, saved, acts>>

\* The program is started again, after a crash or not,
Restart ==
  /\ Acts /\ move' = Settled /\ cache' = None /\ dir' = pointer /\ mishaps' = mishaps \cup BrokenOff
  /\ UNCHANGED <<trees, pointer, clock, saved, faults>>

\* or while the directory is gone: the default takes its place (data_dir).
RestartWithout ==
  /\ Acts /\ faults < MaxFaults /\ faults' = faults + 1 /\ pointer # DefaultDir
  /\ pointer' = DefaultDir /\ dir' = DefaultDir /\ cache' = None /\ move' = Settled
  /\ mishaps' = mishaps \cup {"gone"} \cup BrokenOff
  /\ UNCHANGED <<trees, clock, saved>>

-------------------------------------------------------------------------------
NoImages == [t \in Texts |-> Gone]
NoManifest == [t \in Texts |-> None]

MoveInit ==
  /\ recs = [f \in Dirs |-> EmptyBase]
  /\ image = [f \in Dirs |-> NoImages] /\ manifest = [f \in Dirs |-> NoManifest]
  /\ dir = DefaultDir /\ pointer = DefaultDir /\ cache = None /\ move = Settled /\ clock = 1
  /\ saved = [k \in Keys |-> 0] /\ mishaps = {} /\ acts = 0 /\ faults = 0

MoveNext ==
  \/ \E k \in Keys, d \in Content : Save(k, d) \/ \E f \in Dirs : OtherDeviceWrites(f, k, d)
  \/ \E f \in Dirs : Choose(f)
  \/ \E some, cut \in SUBSET Texts : CopySomeImages(some, cut)
  \/ \E some \in SUBSET Texts : MergeImages(some)
  \/ \E some \in SUBSET Keys : CopyRecords(some) \/ MergeRecords(some)
  \/ CopyImages \/ Switch \/ Fail \/ Restart \/ RestartWithout

MoveSpec == MoveInit /\ [][MoveNext]_moveVars

-------------------------------------------------------------------------------
MoveTypeOK ==
  /\ recs \in [Dirs -> Tree]
  /\ image \in [Dirs -> [Texts -> Content \cup {Cut}]]
  /\ manifest \in [Dirs -> [Texts -> ManifestEntry \cup {None}]]
  /\ dir \in Dirs /\ pointer \in Dirs /\ cache \in Tree \cup {None}
  /\ clock \in Nat /\ saved \in [Keys -> Nat]
  /\ move \in {Settled} \cup [at : MoveStages, to : Dirs \ {dir}, found : Tree]

\* Whatever fails or dies on the way, the directory the next start uses has
\* every save, or a version that was newer (mod.rs:235-249), and the cached
\* records show what the directory in use holds (mod.rs:250-256).
SavesAreWhereTheStoreIs ==
  /\ move = Settled => pointer = dir
  /\ "gone" \notin mishaps => \A k \in Keys : saved[k] > 0 => recs[pointer][k] # None /\ recs[pointer][k].at >= saved[k]
  /\ cache # None => Contents(cache) = Contents(recs[dir])

\* A move is complete.
Moves == move.at = "switch" /\ dir' = move.to /\ faults' = faults

(* What a move arrives at descends from what either directory held: no     *)
(* record of either is missing, and none is older than it was there.       *)
MovesKeepBothSides ==
  [][Moves =>
       \A k \in Keys :
         LET ends == recs[dir'][k]
         IN  \A r \in {recs[dir][k], move.found[k]} \ {None} :
               ends # None /\ ~Descends(r.causal, ends.causal)]_moveVars

\* The image of a book, its manifest entry being the book's own version, is in
\* the directory moved to what it is in the one in use, if the book is the same.
KeepsImages ==
  \A t \in Texts :
    LET r == recs[dir][t]
    IN  r # None /\ manifest[dir][t] = Entry(image[dir][t], r.at, r.by) /\ recs[dir'][t] = r
          => image[dir'][t] = image[dir][t]

\* "relocation into existing target keeps source text and media" (mod.rs:606),
MovesKeepImages == [][Moves => KeepsImages]_moveVars

\* which holds when bringing images to a directory has not been broken off before.
UnbrokenMovesKeepImages == [][Moves /\ "broken" \notin mishaps => KeepsImages]_moveVars

\* A move loses no record of either directory, and no image unless bringing
\* images to one was broken off before.
MovesLoseNothing == MovesKeepBothSides /\ UnbrokenMovesKeepImages
===============================================================================
