------------------------------ MODULE AtomicFile ------------------------------
(***************************************************************************)
(* Replacing one file so that a crash or an error at any point leaves      *)
(* something to go on with.  Every file has two companions, <name>.tmp and *)
(* <name>.bak; who reads it decides what is made of them:                  *)
(*   "settings"  paths.rs, media_assets.rs: recover_replace, unchecked     *)
(*   "ui"        ui-state.json: every candidate is parsed                  *)
(*   "record"    a record file: the backup stands in for the primary, the  *)
(*               temp file is never looked at; a tombstone is mirrored in  *)
(*               the backup                                                *)
(* The store's write lock admits one operation at a time.  An operation    *)
(* may stop after any step, with an error or because the process dies:     *)
(* nothing but the files outlives it, so the two are the same here.        *)
(***************************************************************************)
EXTENDS Naturals

CONSTANTS
  Values,  \* what may be written
  Dead,    \* of these, the tombstone
  Torn,    \* the contents of a file whose writing was cut short: no value
  NoFile   \* there is no such file

ASSUME FileAssumption ==
  Dead \in Values /\ Torn \notin Values /\ NoFile \notin Values \cup {Torn}

VARIABLES
  style,        \* who uses the file
  target, tmp, bak,
  fileOp,       \* the operation at work
  \* history
  last,         \* what was last confirmed to a writer or shown to a reader
  maybe,        \* what writers have tried since
  exposed,      \* copying the backup over the file was cut short since
  damaged,      \* something else than this program spoilt the file since
  deleted       \* a deletion was confirmed, and nothing else tried since

files == <<target, tmp, bak>>
fileHistory == <<last, maybe, exposed, damaged, deleted>>
fileVars == <<style, files, fileOp, fileHistory>>

Styles == {"settings", "ui", "record"}
FileStages == {"recover", "restore", "clean", "create", "fill", "copy", "rename", "aside",
               "move", "retry", "putback", "drop", "mirror", "reply"}
FileContent == Values \cup {Torn, NoFile}
AtRest == [do |-> "nothing"]
Operation == [do : {"read", "write"}, at : FileStages, value : Values \cup {NoFile}, keep : BOOLEAN]

FileTypeOK ==
  /\ style \in Styles
  /\ target \in FileContent /\ tmp \in FileContent /\ bak \in FileContent
  /\ fileOp \in Operation \cup {AtRest}
  /\ last \in FileContent /\ maybe \subseteq Values
  /\ exposed \in BOOLEAN /\ damaged \in BOOLEAN /\ deleted \in BOOLEAN

Valid(x) == x \in Values

FirstOf(x, y, z) == IF Valid(x) THEN x ELSE IF Valid(y) THEN y ELSE IF Valid(z) THEN z ELSE NoFile

\* What would be read if the process died now and was started again.
Recovered ==
  CASE style = "settings" -> IF target # NoFile THEN target ELSE IF tmp # NoFile THEN tmp ELSE bak
    [] style = "ui"       -> FirstOf(tmp, target, bak)
    [] style = "record"   -> FirstOf(target, bak, NoFile)

FileAt(stage) == fileOp # AtRest /\ fileOp.at = stage
GoOn(stage) == fileOp' = [fileOp EXCEPT !.at = stage]
\* write_file_atomic is called (copy_file_atomic differs only in where the
\* contents come from).
Replace(v, keep) == fileOp' = [fileOp EXCEPT !.at = "clean", !.value = v, !.keep = keep]
Keeps == UNCHANGED <<style, fileHistory>>

-------------------------------------------------------------------------------
(* An operation begins.                                                    *)

\* load_ui_state, read_config_file, read_record_file
Load ==
  /\ fileOp = AtRest
  /\ fileOp' = [do |-> "read", at |-> IF style = "record" THEN "reply" ELSE "recover",
            value |-> NoFile, keep |-> FALSE]
  /\ UNCHANGED <<files>> /\ Keeps

\* Slip: a tombstone already on disk is left as it is, backup and all.
RecordPlanSkips(v) ==
  [do |-> "write", at |-> IF FirstOf(target, bak, NoFile) = v THEN "reply" ELSE "clean",
   value |-> v, keep |-> v # Dead]

\* write_record_to_path
RecordPlan(v) ==
  [do |-> "write", value |-> v, keep |-> v # Dead,
   at |-> IF v = Dead /\ target = Dead THEN "mirror"
          ELSE IF v # Dead /\ FirstOf(target, bak, NoFile) = v THEN "reply" ELSE "clean"]

\* write_config_file, save_ui_state, write_record_with_backup
Store(v) ==
  /\ fileOp = AtRest
  /\ fileOp' = IF style = "record" THEN RecordPlan(v)
           ELSE [do |-> "write", at |-> IF style = "ui" THEN "clean" ELSE "recover",
                 value |-> v, keep |-> TRUE]
  /\ maybe' = maybe \cup {v}
  /\ deleted' = (deleted /\ v = Dead)
  /\ UNCHANGED <<style, files, last, exposed, damaged>>

-------------------------------------------------------------------------------
(* Recovery.                                                               *)

Onwards == GoOn(IF fileOp.do = "read" THEN "reply" ELSE "clean")

\* recover_replace
RecoverReplace ==
  /\ style = "settings" /\ FileAt("recover")
  /\ \/ /\ target # NoFile /\ tmp' \in {NoFile, tmp} /\ Onwards /\ UNCHANGED <<target, bak>>
     \/ /\ target = NoFile /\ tmp # NoFile
        /\ target' = tmp /\ tmp' = NoFile /\ Onwards /\ UNCHANGED bak
     \/ /\ target = NoFile /\ tmp = NoFile /\ bak # NoFile
        /\ target' = Torn /\ GoOn("restore") /\ UNCHANGED <<tmp, bak>>
     \/ /\ target = NoFile /\ tmp = NoFile /\ bak = NoFile
        /\ Onwards /\ UNCHANGED files
  /\ Keeps

\* ... the copy of the backup is complete.
Restore == FileAt("restore") /\ target' = bak /\ Onwards /\ UNCHANGED <<tmp, bak>> /\ Keeps

\* Slip: a temp file is taken for complete because it is there.
RecoverUiStateUnchecked ==
  /\ style = "ui" /\ FileAt("recover")
  /\ IF tmp # NoFile
     THEN target' = tmp /\ tmp' = NoFile /\ GoOn("reply") /\ UNCHANGED bak
     ELSE GoOn("reply") /\ UNCHANGED files
  /\ Keeps

\* recover_ui_state_file
RecoverUiState ==
  /\ style = "ui" /\ FileAt("recover")
  /\ \/ Valid(tmp) /\ Replace(tmp, Valid(target)) /\ UNCHANGED files
     \/ /\ ~Valid(tmp) /\ tmp' = NoFile /\ UNCHANGED <<target, bak>>
        /\ IF ~Valid(target) /\ Valid(bak) THEN Replace(bak, FALSE) ELSE GoOn("reply")
  /\ Keeps

-------------------------------------------------------------------------------
(* write_file_atomic and copy_file_atomic.                                 *)

RemoveStaleTemp == FileAt("clean") /\ tmp' = NoFile /\ GoOn("create") /\ UNCHANGED <<target, bak>> /\ Keeps

CreateTemp == FileAt("create") /\ tmp' = Torn /\ GoOn("fill") /\ UNCHANGED <<target, bak>> /\ Keeps

\* The temp file is written and synced; then the backup is begun.
FillTemp ==
  /\ FileAt("fill") /\ tmp' = fileOp.value
  /\ IF fileOp.keep /\ target # NoFile THEN bak' = Torn /\ GoOn("copy")
                                 ELSE bak' = bak /\ GoOn("rename")
  /\ UNCHANGED target /\ Keeps

\* copy_file_synced
CopyToBackup == FileAt("copy") /\ bak' = target /\ GoOn("rename") /\ UNCHANGED <<target, tmp>> /\ Keeps

\* After the last rename: a tombstone is mirrored, everything else is done.
Written == GoOn(IF style = "record" /\ fileOp.value = Dead THEN "mirror" ELSE "reply")

RenameTemp ==
  /\ FileAt("rename")
  /\ \/ target' = tmp /\ tmp' = NoFile /\ Written /\ UNCHANGED bak
     \/ \* refused, as Windows does while the file is open
        target # NoFile /\ GoOn("aside") /\ UNCHANGED files
  /\ Keeps

\* replace_existing_with_backup: the file makes way,
MoveAside ==
  /\ FileAt("aside")
  /\ IF fileOp.keep THEN target' = NoFile /\ GoOn("retry") /\ UNCHANGED <<tmp, bak>>
                ELSE bak' \in {NoFile, bak} /\ GoOn("move") /\ UNCHANGED <<target, tmp>>
  /\ Keeps

MoveToBackup ==
  FileAt("move") /\ bak' = target /\ target' = NoFile /\ GoOn("retry") /\ UNCHANGED tmp /\ Keeps

\* the rename is tried again, and if it fails again the backup is copied back,
RetryRename ==
  /\ FileAt("retry")
  /\ \/ /\ target' = tmp /\ tmp' = NoFile /\ UNCHANGED bak
        /\ IF fileOp.keep THEN Written ELSE GoOn("drop")
     \/ bak # NoFile /\ target' = Torn /\ GoOn("putback") /\ UNCHANGED <<tmp, bak>>
  /\ Keeps

\* in vain for whoever wanted to write.
PutBack ==
  FileAt("putback") /\ target' = bak /\ fileOp' = AtRest /\ UNCHANGED <<tmp, bak>> /\ Keeps

DropBackup == FileAt("drop") /\ bak' \in {NoFile, bak} /\ Written /\ UNCHANGED <<target, tmp>> /\ Keeps

\* write_record_recovery_backup, by way of a temp file of its own
MirrorTombstone ==
  /\ FileAt("mirror")
  /\ \/ bak' = target /\ GoOn("reply")
     \/ bak # NoFile /\ bak' = NoFile /\ UNCHANGED fileOp
  /\ UNCHANGED <<target, tmp>> /\ Keeps

-------------------------------------------------------------------------------
\* The operation returns: a writer is told it is done, a reader what there is.
Reply ==
  /\ FileAt("reply") /\ fileOp' = AtRest
  /\ last' = CASE fileOp.do = "write" -> fileOp.value
               [] fileOp.do = "read" /\ style = "settings" -> target
               [] fileOp.do = "read" /\ style = "ui" -> FirstOf(target, NoFile, NoFile)
               [] fileOp.do = "read" /\ style = "record" -> FirstOf(target, bak, NoFile)
  /\ maybe' = {}
  /\ exposed' = (exposed /\ target # last')
  /\ damaged' = (damaged /\ target # last')
  /\ deleted' = IF fileOp.do = "write" THEN fileOp.value = Dead ELSE deleted
  /\ UNCHANGED <<style, files>>

\* An error is returned, or the process dies.
Stop ==
  /\ fileOp # AtRest /\ fileOp' = AtRest
  /\ exposed' = (exposed \/ fileOp.at \in {"restore", "putback"})
  /\ UNCHANGED <<style, files, last, maybe, damaged, deleted>>

\* Something else spoils the primary file of a record, or removes a file that
\* is recovered from its backup.
Damage ==
  /\ style \in {"record", "settings"} /\ fileOp = AtRest /\ target # NoFile
  /\ target' \in IF style = "record" THEN {Torn, NoFile} ELSE {NoFile}
  /\ damaged' = TRUE
  /\ UNCHANGED <<style, tmp, bak, fileOp, last, maybe, exposed, deleted>>

FileInit ==
  /\ style \in Styles
  /\ target = NoFile /\ tmp = NoFile /\ bak = NoFile /\ fileOp = AtRest
  /\ last = NoFile /\ maybe = {} /\ exposed = FALSE /\ damaged = FALSE /\ deleted = FALSE

FileNext ==
  \/ Load \/ \E v \in Values : Store(v)
  \/ RecoverReplace \/ Restore \/ RecoverUiState
  \/ RemoveStaleTemp \/ CreateTemp \/ FillTemp \/ CopyToBackup \/ RenameTemp
  \/ MoveAside \/ MoveToBackup \/ RetryRename \/ PutBack \/ DropBackup
  \/ MirrorTombstone \/ Reply \/ Stop \/ Damage

FileSpec == FileInit /\ [][FileNext]_fileVars

-------------------------------------------------------------------------------
(* Whenever the process dies, the next reader finds what was last          *)
(* confirmed or shown, or what somebody has tried to write since: never an *)
(* older value, and never half a file.  It may be lost after copying the   *)
(* backup over the file was itself cut short (durable.rs:50, :229);        *)
(* settings also when their first write was (any temp file is taken,       *)
(* durable.rs:43), and records while something else has spoilt the file.   *)
LastWriteSurvives ==
  \/ Recovered \in {last} \cup maybe
  \/ exposed \/ FileAt("restore") \/ FileAt("putback")
  \/ style = "settings" /\ last = NoFile /\ Recovered = Torn
  \/ damaged

\* A deletion that was confirmed is not undone by damage to the record's file:
\* the backup, read in its place, never holds what was deleted (io.rs:299-314).
DeletionOutlivesDamage == style = "record" /\ deleted => Recovered \in {Dead, NoFile}

\* Whatever crashes or fails, a file keeps its last contents, and damage to
\* it never shows what was deleted.
FilesKeepTheirContents == LastWriteSurvives /\ DeletionOutlivesDamage
===============================================================================
