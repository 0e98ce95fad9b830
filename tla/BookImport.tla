------------------------------ MODULE BookImport ------------------------------
(***************************************************************************)
(* A PDF or an image becomes a book (events/book-import/pdf-ocr.ts,        *)
(* pdf_ocr/mod.rs, runner.rs, store/books.rs).  The desktop's backend      *)
(* recognises the pages in a process of its own, stages their images and   *)
(* renames them into place when all are there; Android's reads the text    *)
(* and the page sends the images it has rendered.  The page then stores    *)
(* the text, and deletes it again when anything went wrong.  A marker in   *)
(* the book's directory says that its text has not arrived; at its next    *)
(* start the program clears away what is still marked.                     *)
(*                                                                         *)
(* Requests arrive in any order, and a page that gives up on one does not  *)
(* take it back.  One image stands for all that are rendered.  The store's *)
(* lock makes each of its operations one step.                             *)
(***************************************************************************)
EXTENDS Naturals, FiniteSets

CONSTANTS
  NumImports, \* bound: imports, each with its own job and book id
  MaxFaults   \* bound: errors, answers given up on, restarts, reloads and wipes

VARIABLES
  platform,   \* "desktop" or "android"
  long,       \* the imports with more pages than Android renders
  page,       \* what the page is doing about an import
  pressed,    \* the imports whose Cancel button was pressed
  job,        \* what the backend is doing about it
  answer,     \* what it has answered: "none", "error", "text" or "images"
  cancelled,  \* OcrJobState.cancelled
  sent,       \* requests on their way
  staged,     \* the imports with images in ocr-import-staging
  marked,     \* the books whose directory holds IMPORT_PENDING_MARKER
  images,     \* a book's page images: "none", "some" or "all"
  record,     \* a book's text record: "none", "live" or "dead"
  \* history
  littered,   \* the imports whose removal failed half-way, or was not asked for
  late,       \* the imports whose text the page gave up storing
  faults      \* those so far

backend == <<job, answer, cancelled>>
store == <<staged, marked, images, record>>
vars == <<platform, long, page, pressed, backend, sent, store, littered, late, faults>>

Imports == 1..NumImports

Ended == {"stored", "cancelled", "failed", "gone"}
Busy == {"waiting", "rendering", "posting", "storing", "saving", "deleting"}
Recognising == {"auto", "cpu"}
Active == {"body"} \cup Recognising \cup {"layer", "pages", "finalize", "leaving"}
Message == [kind : {"cancel", "image", "text", "delete"}, of : Imports]

TypeOK ==
  /\ platform \in {"desktop", "android"} /\ long \subseteq Imports
  /\ page \in [Imports -> {"idle"} \cup Busy \cup Ended]
  /\ job \in [Imports -> {"none", "queued", "over"} \cup Active]
  /\ answer \in [Imports -> {"none", "error", "text", "images"}]
  /\ sent \subseteq Message
  /\ images \in [Imports -> {"none", "some", "all"}]
  /\ record \in [Imports -> {"none", "live", "dead"}]
  /\ \A s \in {pressed, cancelled, staged, marked, littered, late} : s \subseteq Imports

Msg(kind, i) == [kind |-> kind, of |-> i]
SlotTaken == \E i \in Imports : job[i] \in Active
Fault == faults < MaxFaults /\ faults' = faults + 1
NoFault == faults' = faults

-------------------------------------------------------------------------------
(* The page.                                                               *)

\* importPdfFile, importOcrImageFile: one at a time
StartImport(i) ==
  /\ page[i] = "idle" /\ \A j \in Imports : page[j] \notin Busy /\ (j < i => page[j] # "idle")
  /\ page' = [page EXCEPT ![i] = "waiting"] /\ job' = [job EXCEPT ![i] = "queued"]
  /\ UNCHANGED <<platform, long, pressed, answer, cancelled, sent, store, littered, late, faults>>

\* The catch clause: whatever there is of the book is deleted.
CleanUp(i) == page' = [page EXCEPT ![i] = "deleting"] /\ sent' = sent \cup {Msg("delete", i)}

\* On the desktop the request is aborted too, unless it has been answered.
PressCancel(i) ==
  /\ i \notin pressed /\ pressed' = pressed \cup {i}
  /\ \/ /\ platform = "desktop" /\ page[i] = "waiting"
        /\ page' = [page EXCEPT ![i] = "deleting"]
        /\ sent' = sent \cup {Msg("cancel", i), Msg("delete", i)}
     \/ /\ platform = "desktop" /\ page[i] \in {"storing", "saving"}
        /\ sent' = sent \cup {Msg("cancel", i)} /\ UNCHANGED page
     \/ /\ platform = "android" /\ page[i] \in {"rendering", "posting"}
        /\ UNCHANGED <<page, sent>>
  /\ UNCHANGED <<platform, long, backend, store, littered, late, faults>>

\* The backend's answer is there.
Receive(i) ==
  /\ page[i] = "waiting" /\ answer[i] # "none"
  /\ \/ answer[i] = "error" /\ CleanUp(i)
     \/ /\ answer[i] = "images" /\ platform = "android"
        /\ page' = [page EXCEPT ![i] = "rendering"] /\ UNCHANGED sent
     \/ /\ answer[i] = "text" \/ (answer[i] = "images" /\ platform = "desktop")
        /\ page' = [page EXCEPT ![i] = "storing"] /\ sent' = sent \cup {Msg("text", i)}
  /\ UNCHANGED <<platform, long, pressed, backend, store, littered, late, faults>>

\* renderAndSaveAndroidPdfPages, then importCustomText
Render(i) ==
  /\ page[i] = "rendering"
  /\ \/ i \in pressed /\ CleanUp(i)
     \/ /\ i \notin pressed /\ images[i] = "none"
        /\ page' = [page EXCEPT ![i] = "posting"] /\ sent' = sent \cup {Msg("image", i)}
     \/ /\ images[i] # "none"
        /\ page' = [page EXCEPT ![i] = "storing"] /\ sent' = sent \cup {Msg("text", i)}
  /\ UNCHANGED <<platform, long, pressed, backend, store, littered, late, faults>>

\* A request of the page takes too long, or cannot be sent.
GiveUp(i) ==
  /\ Fault
  /\ \/ /\ page[i] \in {"posting", "storing"} /\ CleanUp(i)
        /\ late' = IF page[i] = "storing" THEN late \cup {i} ELSE late
        /\ UNCHANGED littered
     \/ /\ page[i] = "deleting"
        /\ page' = [page EXCEPT ![i] = IF i \in pressed THEN "cancelled" ELSE "failed"]
        /\ sent' \in {sent, sent \ {Msg("delete", i)}}
        /\ littered' = littered \cup {i} /\ UNCHANGED late
  /\ UNCHANGED <<platform, long, pressed, backend, store>>

\* saveStateAndReloadBridge at the end of importCustomText
SaveProfile(i) ==
  /\ page[i] = "saving"
  /\ \/ page' = [page EXCEPT ![i] = "stored"] /\ NoFault /\ UNCHANGED sent
     \/ Fault /\ CleanUp(i)
  /\ UNCHANGED <<platform, long, pressed, backend, store, littered, late>>

-------------------------------------------------------------------------------
(* The backend's worker on the import.                                     *)

Goto(i, stage) == job' = [job EXCEPT ![i] = stage] /\ UNCHANGED answer

\* FailedImportAssetCleanup: what is staged is discarded, unless that fails.
Fail(i) ==
  /\ job' = [job EXCEPT ![i] = "leaving"] /\ answer' = [answer EXCEPT ![i] = "error"]
  /\ \/ staged' = staged \ {i} /\ UNCHANGED <<littered, faults>>
     \/ i \in staged /\ Fault /\ littered' = littered \cup {i} /\ UNCHANGED staged

Worker == UNCHANGED <<platform, long, page, pressed, sent, late>>

\* The OCR slot is tried, the job registered.
BeginJob(i) ==
  /\ job[i] = "queued"
  /\ IF SlotTaken
     THEN /\ job' = [job EXCEPT ![i] = "over"] /\ answer' = [answer EXCEPT ![i] = "error"]
          /\ UNCHANGED cancelled
     ELSE Goto(i, "body") /\ cancelled' = cancelled \ {i}
  /\ Worker /\ UNCHANGED <<store, littered, faults>>

\* Slip: a deleted record is no obstacle.
EnsureNewUnlessLive(i) == record[i] # "live" /\ images[i] = "none" /\ i \notin marked

\* ensure_new_book_import_id
EnsureNew(i) == record[i] = "none" /\ images[i] = "none" /\ i \notin marked

\* The body is read; on Android the text too.
ReadBody(i) ==
  /\ job[i] = "body" /\ Worker
  /\ \/ /\ platform = "desktop" /\ i \notin cancelled /\ EnsureNew(i)
        /\ \/ Goto(i, "auto")
           \/ Goto(i, "layer") \* no runner is installed
        /\ UNCHANGED <<store, littered, faults>>
     \/ /\ platform = "android" /\ EnsureNew(i)
        /\ marked' = marked \cup {i}
        /\ job' = [job EXCEPT ![i] = "leaving"] /\ answer' = [answer EXCEPT ![i] = "images"]
        /\ UNCHANGED <<staged, images, record, littered, faults>>
     \/ Fail(i) /\ UNCHANGED <<marked, images, record>>
  /\ UNCHANGED cancelled

\* Slip: the second attempt is retried as the first.
RunnerFailsAgain(i) == Goto(i, "cpu") /\ UNCHANGED <<staged, littered, faults>>

\* An attempt ends badly: without acceleration it is tried once more, unless
\* the import is cancelled or the hour is over.
RunnerFails(i) ==
  \/ /\ job[i] = "auto" /\ i \notin cancelled
     /\ Goto(i, "cpu") /\ UNCHANGED <<staged, littered, faults>>
  \/ Fail(i)

\* run_runner_attempt; cancelled jobs are killed
Recognise(i) ==
  /\ job[i] \in Recognising /\ Worker
  /\ \/ i \notin cancelled /\ Goto(i, "pages") /\ UNCHANGED <<staged, littered, faults>>
     \/ RunnerFails(i)
  /\ UNCHANGED <<cancelled, marked, images, record>>

\* import_text_layer_pdf: the text is read, the pages are rendered if possible
ReadLayer(i) ==
  /\ job[i] = "layer" /\ Worker
  /\ \/ i \notin cancelled /\ Goto(i, "pages") /\ UNCHANGED <<staged, littered, faults>>
     \/ i \notin cancelled /\ Goto(i, "finalize") /\ UNCHANGED <<staged, littered, faults>>
     \/ Fail(i)
  /\ UNCHANGED <<cancelled, marked, images, record>>

\* save_book_import_image_bytes, page by page
StagePages(i) ==
  /\ job[i] = "pages" /\ Worker
  /\ \/ /\ i \notin cancelled \cup staged /\ staged' = staged \cup {i}
        /\ UNCHANGED <<job, answer, littered, faults>>
     \/ /\ i \notin cancelled /\ i \in staged /\ Goto(i, "finalize")
        /\ UNCHANGED <<staged, littered, faults>>
     \/ Fail(i)
  /\ UNCHANGED <<cancelled, marked, images, record>>

\* finalize_book_import_assets.  A failure after the rename is rolled back.
Finalize(i) ==
  /\ job[i] = "finalize" /\ Worker
  /\ \/ /\ EnsureNew(i)
        /\ job' = [job EXCEPT ![i] = "leaving"]
        /\ answer' = [answer EXCEPT ![i] = IF i \in staged THEN "images" ELSE "text"]
        /\ images' = [images EXCEPT ![i] = IF i \in staged THEN "all" ELSE @]
        /\ marked' = IF i \in staged THEN marked \cup {i} ELSE marked
        /\ staged' = staged \ {i}
        /\ UNCHANGED <<littered, faults>>
     \/ Fail(i) /\ UNCHANGED <<marked, images>>
  /\ UNCHANGED <<cancelled, record>>

\* The answer is on its way; only now the slot and the job are given back.
Leave(i) ==
  /\ job[i] = "leaving" /\ Goto(i, "over") /\ cancelled' = cancelled \ {i}
  /\ Worker /\ UNCHANGED <<store, littered, faults>>

JobStep(i) ==
  \/ BeginJob(i) \/ ReadBody(i) \/ Recognise(i) \/ ReadLayer(i)
  \/ StagePages(i) \/ Finalize(i) \/ Leave(i)

-------------------------------------------------------------------------------
(* The backend's other handlers.                                           *)

\* The page hears of the outcome, if it is still waiting for it.
Answered(m, waiting, ok, next) ==
  /\ m \in sent
  /\ page' = [page EXCEPT ![m.of] = IF @ # waiting THEN @ ELSE IF ok THEN next ELSE "deleting"]
  /\ sent' = (sent \ {m}) \cup IF page[m.of] = waiting /\ ~ok THEN {Msg("delete", m.of)} ELSE {}

\* OcrJobState::request_cancel
HandleCancel(i) ==
  /\ Msg("cancel", i) \in sent /\ sent' = sent \ {Msg("cancel", i)}
  /\ cancelled' = IF job[i] \in Active THEN cancelled \cup {i} ELSE cancelled
  /\ UNCHANGED <<platform, long, page, pressed, job, answer, store, littered, late, faults>>

\* Slip: an image that arrives late is kept.
AcceptsImageAnyhow(i) == TRUE

\* save_book_image with pending_import: only while the marker is there
AcceptsImage(i) == i \in marked

\* A long document ends with the pages that are rendered.
HandleImage(i) ==
  /\ Answered(Msg("image", i), "posting", AcceptsImage(i), "rendering")
  /\ images' = IF ~AcceptsImage(i) THEN images
               ELSE [images EXCEPT ![i] = IF i \in long THEN "some" ELSE "all"]
  /\ UNCHANGED <<platform, long, pressed, backend, staged, marked, record, littered, late, faults>>

\* Slip: the text is taken for granted to have its images.
HasItsImagesAnyhow(i) == TRUE

\* validate_pdf_page_assets: every page that names an image has it.
HasItsImages(i) == answer[i] = "images" => images[i] = "all"

\* upsert_text; complete_pending_book_import, after the record, may fail
HandleText(i) ==
  \E completed \in BOOLEAN :
    /\ IF completed THEN NoFault ELSE HasItsImages(i) /\ i \in marked /\ Fault
    /\ Answered(Msg("text", i), "storing", completed /\ HasItsImages(i), "saving")
    /\ record' = IF HasItsImages(i) THEN [record EXCEPT ![i] = "live"] ELSE record
    /\ marked' = IF HasItsImages(i) /\ completed THEN marked \ {i} ELSE marked
    /\ UNCHANGED <<platform, long, pressed, backend, staged, images, littered, late>>

\* delete_text: the record first, then the directory
HandleDelete(i) ==
  /\ Answered(Msg("delete", i), "deleting", TRUE, IF i \in pressed THEN "cancelled" ELSE "failed")
  /\ record' = [record EXCEPT ![i] = "dead"]
  /\ \/ /\ images' = [images EXCEPT ![i] = "none"] /\ marked' = marked \ {i}
        /\ NoFault /\ UNCHANGED littered
     \/ Fault /\ littered' = littered \cup {i} /\ UNCHANGED <<images, marked>>
  /\ UNCHANGED <<platform, long, pressed, backend, staged, late>>

\* wipe, refused while the OCR slot is taken.  discard_abandoned_book_imports
\* leaves the marked books alone: their markers are younger than the process.
Wipe ==
  /\ ~SlotTaken /\ Fault
  /\ record' = [i \in Imports |-> IF record[i] = "live" THEN "dead" ELSE record[i]]
  /\ images' = [i \in Imports |-> IF i \in marked THEN images[i] ELSE "none"]
  /\ staged' = {}
  /\ UNCHANGED <<platform, long, page, pressed, backend, sent, marked, littered, late>>

-------------------------------------------------------------------------------
Abandoned == [i \in Imports |-> IF page[i] \in Busy THEN "gone" ELSE page[i]]

\* The page is reloaded; the backend does not notice.
Reload ==
  /\ Fault
  /\ page' = Abandoned
  /\ UNCHANGED <<platform, long, pressed, backend, sent, store, littered, late>>

\* discard_abandoned_book_imports: what is marked and has no live record goes.
ClearedAtStart(i) == i \in marked /\ record[i] # "live"

\* The program dies or is closed, and is started again.
Restart ==
  /\ Fault
  /\ page' = Abandoned
  /\ job' = [i \in Imports |-> IF job[i] = "none" THEN "none" ELSE "over"]
  /\ cancelled' = {} /\ sent' = {} /\ staged' = {} /\ marked' = {}
  /\ images' = [i \in Imports |-> IF ClearedAtStart(i) THEN "none" ELSE images[i]]
  /\ UNCHANGED <<platform, long, pressed, answer, record, littered, late>>

Init ==
  /\ platform \in {"desktop", "android"}
  /\ long \in SUBSET Imports /\ (platform = "desktop" => long = {})
  /\ page = [i \in Imports |-> "idle"] /\ job = [i \in Imports |-> "none"]
  /\ answer = [i \in Imports |-> "none"] /\ images = answer /\ record = answer
  /\ pressed = {} /\ cancelled = {} /\ sent = {} /\ staged = {} /\ marked = {}
  /\ littered = {} /\ late = {} /\ faults = 0

Handle(i) == HandleCancel(i) \/ HandleImage(i) \/ HandleText(i) \/ HandleDelete(i)

Next ==
  \/ \E i \in Imports :
       \/ StartImport(i) \/ PressCancel(i) \/ Receive(i) \/ Render(i) \/ GiveUp(i) \/ SaveProfile(i)
       \/ BeginJob(i) \/ ReadBody(i) \/ Recognise(i) \/ ReadLayer(i) \/ StagePages(i)
       \/ Finalize(i) \/ Leave(i)
       \/ HandleCancel(i) \/ HandleImage(i) \/ HandleText(i) \/ HandleDelete(i)
  \/ Wipe \/ Reload \/ Restart

(* The workers come to an end: an attempt at recognition after an hour at  *)
(* the latest (runner.rs:294), the requests by themselves; so do the steps *)
(* of a page, of which an import is at one at most.                        *)
PageStep(i) == Receive(i) \/ Render(i) \/ SaveProfile(i)

Fairness == \A i \in Imports : WF_vars(JobStep(i)) /\ WF_vars(Handle(i)) /\ WF_vars(PageStep(i))

Spec == Init /\ [][Next]_vars /\ Fairness

-------------------------------------------------------------------------------
(* A book in the library has the page images its text refers to, whatever  *)
(* was cancelled, given up on, wiped, reloaded or restarted while it was   *)
(* imported (books.rs:94-131, :234-284).                                   *)
LiveBooksHaveTheirImages ==
  \A i \in Imports : record[i] = "live" /\ answer[i] = "images" => images[i] = "all"

\* Images without a book are marked, so that the next start removes them,
\* unless their removal has failed half-way (books.rs:10-86, :144-163).
OrphansAreMarked ==
  \A i \in Imports \ littered : images[i] # "none" /\ record[i] # "live" => i \in marked

(* Once everything has come to rest, a cancelled import has left nothing   *)
(* behind, neither a book nor images: the cancellation may have overtaken  *)
(* the import, met it halfway, or come after its end (mod.rs:389,          *)
(* pdf-ocr.ts:255-259).                                                    *)
AtRest(i) == job[i] \in {"none", "over"} /\ \A m \in sent : m.of # i
CancelledImportsLeaveNothing ==
  \A i \in Imports \ (littered \cup late) :
    page[i] = "cancelled" /\ AtRest(i) =>
      record[i] # "live" /\ images[i] = "none" /\ i \notin marked \cup staged

\* Whatever an import leaves behind is known to be in the way: its images are
\* marked, and nothing is left of a cancelled one.
LeftoversAreMarked == OrphansAreMarked /\ CancelledImportsLeaveNothing

\* An import comes to an end for the page, and gives the OCR slot back
\* (runner.rs:296-316, router.rs:524-540).
ImportsEnd ==
  \A i \in Imports : /\ (page[i] \in Busy) ~> (page[i] \in Ended)
                     /\ (job[i] \in Active) ~> (job[i] = "over")
===============================================================================
