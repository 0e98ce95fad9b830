-------------------------------- MODULE MCWords --------------------------------
(* Words, on the page and on disk: how the learner's actions change them,  *)
(* and how their records are saved.  The parts share no state, and which   *)
(* of them moves is chosen at the start.                                   *)
EXTENDS MCSaveJournal, Vocabulary

VARIABLE part

MCInit ==
  /\ part \in {"disk", "page"}
  /\ Init /\ VocabularyInit
  /\ lang = "de" /\ Has("de", "a") /\ vocab["de"]["a"].status = "learning"
  /\ IF part = "disk" THEN TRUE ELSE \A k \in Keys : disk[k] = None

MCNext ==
  /\ UNCHANGED part
  /\ \/ part = "disk" /\ Next /\ UNCHANGED vocabularyVars
     \/ part = "page" /\ VocabularyNext /\ UNCHANGED vars

MCSpec == MCInit /\ [][MCNext]_<<part, vars, vocabularyVars>>
===============================================================================
