------------------------------- MODULE MCBackend -------------------------------
(* Four parts of the backend that share no state, each on a small          *)
(* instance: which of them moves is chosen at the start.                   *)
EXTENDS Server, AtomicFile, Relocation, TLC

CONSTANTS w, t, p            \* a word, a book, a preference

MCNumWorkers == [regular |-> 1, store |-> 1, control |-> 1]
MCAsked == {"save", "wipe", "choose_data_dir", "ocr", "explain", "cancel", "close"}

VARIABLES
  part,
  disk, base, images, mem, dirty, lang, stage, backup, taken, restored  \* packages

Elsewhere(d, at) == [data |-> d, at |-> at, by |-> 2, causal |-> <<0, at>>]
MCForeign == [clear |-> "none", lang |-> "de", at |-> 3, begun |-> 0, images |-> {},
              recs |-> [k \in {w, t, p} |-> Elsewhere(2, 3)]]
Package == INSTANCE Transfer WITH
  Keys <- {w, t, p}, Words <- {w}, Texts <- {t}, Prefs <- {p}, LangOf <- (w :> "de" @@ t :> "en"),
  Data <- {1, 2}, Devices <- {1, 2}, Device <- 1, Default <- 1, Foreign <- {MCForeign},
  Window <- 3, MaxActs <- 4, MaxClock <- 6, MaxFaults <- 1

packageVars == <<disk, base, images, mem, dirty, lang, stage, backup, taken, restored>>

MCInit ==
  /\ part \in {"server", "file", "package", "directories"}
  /\ Init /\ FileInit /\ Package!Init /\ MoveInit
  /\ part # "file" => style = "ui"
  /\ part # "package" => lang = "de"
  /\ \A k \in {w, t, p} : mem[k] = 1

\* Packages and directories are about the same store, each with its clock.
DirectoriesStay == UNCHANGED <<trees, dir, pointer, cache, move, saved, mishaps>>

MCNext ==
  /\ UNCHANGED part
  /\ \/ part = "server" /\ Next /\ UNCHANGED <<fileVars, packageVars, moveVars>>
     \/ part = "file" /\ FileNext /\ UNCHANGED <<vars, packageVars, moveVars>>
     \/ part = "package" /\ Package!Next /\ UNCHANGED <<vars, fileVars>> /\ DirectoriesStay
     \/ part = "directories" /\ MoveNext /\ UNCHANGED <<vars, fileVars, packageVars>>

\* Only the server's threads are relied on to go on.
MCSpec == MCInit /\ [][MCNext]_<<part, vars, fileVars, packageVars, moveVars>> /\ Fairness

-------------------------------------------------------------------------------
(* Only what is in the package made before is cleared, and importing that  *)
(* package takes the clear back.  Imports delete nothing, overwrite only   *)
(* what is older, and what they restore is not deleted by the saves that   *)
(* follow.                                                                 *)
TransfersLoseNothing ==
  /\ Package!NothingIsClearedUnsaved /\ Package!BackupTakesTheClearBack
  /\ Package!ImportsDeleteNothing /\ Package!RestoredRecordsStay
===============================================================================
