-------------------------------- MODULE MCBooks --------------------------------
(* The books of a learner in four parts that share no state, each on a      *)
(* small instance: imports of scanned documents, the corrections of their   *)
(* pages, the library, and what is counted in its books.  Which of them     *)
(* moves is chosen at the start.                                            *)
EXTENDS BookImport, Library, TextStats

VARIABLES part, pages, stamp, kept, dialog, pending, pdfActs

\* "ab" is recognised as one word and read as two; "." ends a sentence
MCParts(chunk) == CASE chunk = "ab" -> <<"a", "b">>
                    [] chunk = "." -> <<>>
                    [] OTHER -> <<chunk>>
Correction == INSTANCE PdfText WITH
  Texts <- {<<>>, <<"ab">>, <<"a", ".", "b">>}, Parts <- MCParts,
  Stop <- ".", MaxPdfActs <- 2

correctionVars == <<pages, stamp, kept, dialog, pending, pdfActs>>

\* The parts at rest start one way; of two documents the first may be long.
MCInit ==
  /\ part \in {"imports", "corrections", "shelf", "counts"}
  /\ Init /\ Correction!PdfInit /\ LibraryInit /\ StatsInit
  /\ part # "imports" => platform = "desktop"
  /\ long \subseteq {1}
  /\ part # "corrections" => pages = <<Correction!Recognised(<<"ab">>), Correction!Recognised(<<"ab">>)>>
  /\ part # "counts" => words = "old"

MCNext ==
  /\ UNCHANGED part
  /\ \/ part = "imports" /\ Next /\ UNCHANGED <<correctionVars, libraryVars, statsVars>>
     \/ part = "corrections" /\ Correction!PdfNext /\ UNCHANGED <<vars, libraryVars, statsVars>>
     \/ part = "shelf" /\ LibraryNext /\ UNCHANGED <<vars, correctionVars, statsVars>>
     \/ part = "counts" /\ StatsNext /\ UNCHANGED <<vars, correctionVars, libraryVars>>

\* BookImport's Fairness, where imports are what moves
MCFairness ==
  \A i \in Imports : /\ WF_vars(part = "imports" /\ JobStep(i))
                     /\ WF_vars(part = "imports" /\ Handle(i))
                     /\ WF_vars(part = "imports" /\ PageStep(i))

\* Only jobs, requests and the page's own steps are relied on to go on.
MCSpec == MCInit /\ [][MCNext]_<<part, vars, correctionVars, libraryVars, statsVars>> /\ MCFairness

-------------------------------------------------------------------------------
(* The properties of the corrections, as their module states them.         *)

\* Corrections are made to the text that was shown, are kept once they are
\* said to be, and the words laid over a page are those of its text.
CorrectionsHold ==
  /\ [](part = "corrections" => Correction!OverlayIsTheText /\ Correction!SavedCorrectionsAreKept)
  /\ Correction!CorrectsWhatWasShown
===============================================================================
