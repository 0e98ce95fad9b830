------------------------------ MODULE Editors ------------------------------
(***************************************************************************)
(* The two editors that open over the page, of a book and of a word, and   *)
(* the question they ask before unsaved edits are given up                 *)
(* (src/src/web/js/book-actions/edit-modal.ts, events/word-editor.ts,      *)
(* dialog-backdrop.ts, events/book-import/events.ts and the shortcuts of   *)
(* events/navigation.ts).                                                  *)
(*                                                                         *)
(* A book is edited in fields that are filled when its text has been       *)
(* loaded; pasted images are uploaded and covers read while the user goes  *)
(* on typing; saving first stores the text and then the profile, and each  *)
(* of these may fail.  A word is changed in memory at once and the profile *)
(* saved behind it.  A value of a field is the book it came from and the   *)
(* edit it stems from; 0 is an empty field.  Author, tags, level and       *)
(* article change like the title and the translation and are left out.     *)
(***************************************************************************)
EXTENDS Naturals, Sequences, FiniteSets, SequencesExt

CONSTANTS
    Texts,          \* the custom texts, which have a stored body
    UserBooks,      \* the books without one
    Typed,          \* the headwords typed; "" is an empty field
    Key(_),         \* the vocabulary key a headword resolves to
    Statuses,       \* the statuses of a word, "new" and "learning" among them
    MaxEditorActs   \* a bound on what the user does

\* Texts and UserBooks have no book in common.

VARIABLES
    library,    \* the books as the page knows them: id -> [title, text, cover]
    store,      \* the same as stored
    gone,       \* the books a reload has taken from the library
    editing,    \* editingBookId, or ""
    generation, \* editBookGeneration
    openings,   \* the bodies being loaded for the editor: [generation, id]
    fields,     \* what stands in the fields
    original,   \* editBookOriginalValues, or Nothing
    open,       \* the editor of books is open
    saving,     \* Idle, or [id, sent, phase] of the save under way
    pasted,     \* the images being uploaded: [generation, id]
    covers,     \* the books for which a cover file is being read
    vocab,      \* key -> [card, word, translation, status, examples, schedule], or Absent
    word,       \* the editor of words: [open, key, fields, original]
    saves,      \* the saves of words not yet answered
    asking,     \* the editor whose unsaved edits are asked about, or "none"
    editorActs

bookVars == <<library, store, gone, editing, generation, openings, fields, original, open,
              saving, pasted, covers>>
wordVars == <<vocab, word, saves>>
editorVars == <<bookVars, wordVars, asking, editorActs>>

Books == Texts \cup UserBooks

V(id, n) == [of |-> id, n |-> n]

Blank == [title |-> V("", 0), text |-> V("", 0), cover |-> V("", 0)]

Nothing == [title |-> V("none", 0), text |-> V("none", 0), cover |-> V("none", 0)]

Idle == [id |-> "", sent |-> Nothing, phase |-> "idle"]

Absent == [card |-> 0, word |-> "", translation |-> 0, status |-> "new", examples |-> <<>>,
           schedule |-> "none"]

NoWord == [word |-> "", translation |-> 0, example |-> 0, status |-> "none"]

MaxExamples == 3

EditorsTypeOK ==
    /\ editing \in Books \cup {""} /\ generation \in Nat /\ open \in BOOLEAN
    /\ \A o \in openings \cup pasted : o.generation \in 1 .. generation /\ o.id \in Texts
    /\ saving.phase \in {"idle", "text", "state"}
    /\ asking \in {"none", "book", "word"}
    /\ saves \in Nat
    /\ \A k \in DOMAIN vocab : Len(vocab[k].examples) <= MaxExamples

EditorActs ==
    /\ editorActs < MaxEditorActs
    /\ editorActs' = editorActs + 1

-----------------------------------------------------------------------------
(* The editor of books. *)

\* A dialog is modal: the page under it, and an editor under a question, take no clicks.
PageIsFree == ~open /\ ~word.open /\ asking = "none"

\* The fields are filled, and their values kept to tell edits by.
Fill(f) ==
    /\ fields' = f
    /\ original' = f
    /\ open' = TRUE

\* openEditBookModal: a custom text is loaded first, its title already in the field.
OpenBook(id) ==
    /\ EditorActs /\ PageIsFree
    /\ saving = Idle
    /\ id \notin gone
    /\ generation' = generation + 1
    /\ editing' = id
    /\ IF id \in Texts
         THEN /\ fields' = [fields EXCEPT !.title = library[id].title]
              /\ openings' = openings \cup {[generation |-> generation + 1, id |-> id]}
              /\ UNCHANGED <<original, open>>
         ELSE Fill(library[id]) /\ UNCHANGED openings
    /\ UNCHANGED <<library, store, gone, saving, pasted, covers, wordVars, asking>>

\* Slip: a body is taken for the editor of whatever book was opened since.
OfThisOpeningAnyhow(o) == editing # ""

\* What an await of the editor brought still is for the book being edited.
OfThisOpening(o) == o.generation = generation /\ o.id = editing

Loaded(o) ==
    /\ o \in openings
    /\ openings' = openings \ {o}
    /\ IF OfThisOpening(o)
         THEN Fill([fields EXCEPT !.text = library[o.id].text, !.cover = library[o.id].cover])
         ELSE UNCHANGED <<fields, original, open>>
    /\ UNCHANGED <<library, store, gone, editing, generation, saving, pasted, covers, wordVars,
                   asking, editorActs>>

LoadFails(o) ==
    /\ o \in openings
    /\ openings' = openings \ {o}
    /\ IF OfThisOpening(o) THEN editing' = "" /\ original' = Nothing
                           ELSE UNCHANGED <<editing, original>>
    /\ UNCHANGED <<library, store, gone, generation, fields, open, saving, pasted, covers,
                   wordVars, asking, editorActs>>

\* The fields stay open to typing while a save is under way; an OCR or user book's text
\* is read-only.
TypeTitle(n) ==
    /\ EditorActs /\ open /\ asking = "none"
    /\ fields' = [fields EXCEPT !.title.n = n]
    /\ UNCHANGED <<library, store, gone, editing, generation, openings, original, open, saving,
                   pasted, covers, wordVars, asking>>

TypeText(n) ==
    /\ EditorActs /\ open /\ asking = "none" /\ editing \in Texts
    /\ fields' = [fields EXCEPT !.text.n = n]
    /\ UNCHANGED <<library, store, gone, editing, generation, openings, original, open, saving,
                   pasted, covers, wordVars, asking>>

PasteImage ==
    /\ EditorActs /\ open /\ asking = "none" /\ editing \in Texts
    /\ pasted' = pasted \cup {[generation |-> generation, id |-> editing]}
    /\ UNCHANGED <<library, store, gone, editing, generation, openings, fields, original, open,
                   saving, covers, wordVars, asking>>

\* The image is stored, and named in the text it was pasted into.
Uploaded(p, well) ==
    /\ p \in pasted
    /\ pasted' = pasted \ {p}
    /\ fields' = IF well /\ OfThisOpening(p)
                   THEN [fields EXCEPT !.text = V(p.id, fields.text.n + 10)] ELSE fields
    /\ UNCHANGED <<library, store, gone, editing, generation, openings, original, open, saving,
                   covers, wordVars, asking, editorActs>>

ChooseCover ==
    /\ EditorActs /\ open /\ asking = "none"
    /\ covers' = covers \cup {editing}
    /\ UNCHANGED <<library, store, gone, editing, generation, openings, fields, original, open,
                   saving, pasted, wordVars, asking>>

\* setPendingEditCoverDataUrl, whichever book is edited by then.
CoverRead(id) ==
    /\ id \in covers
    /\ covers' = covers \ {id}
    /\ fields' = [fields EXCEPT !.cover = V(id, 1)]
    /\ UNCHANGED <<library, store, gone, editing, generation, openings, original, open, saving,
                   pasted, wordVars, asking, editorActs>>

Dirty == original # Nothing /\ fields # original

\* An empty title or text, and a book that is gone, cannot be saved.
CanSaveBook ==
    /\ editing # "" /\ saving = Idle
    /\ editing \notin gone
    /\ fields.title.n # 0
    /\ editing \in Texts => fields.text.n # 0

\* saveEditedBook up to its first request.
SaveBook ==
    /\ CanSaveBook
    /\ saving' = [id |-> editing, sent |-> fields,
                  phase |-> IF editing \in Texts THEN "text" ELSE "state"]
    /\ library' = IF editing \in Texts THEN library
                  ELSE [library EXCEPT ![editing].title = fields.title, ![editing].cover = fields.cover]

\* The answer to upsert_text; a failed request may have been carried out.
TextStored(well, done) ==
    LET id == saving.id
    IN  /\ saving.phase = "text" /\ (well => done)
        /\ store' = IF done THEN [store EXCEPT ![id] = saving.sent] ELSE store
        /\ IF well THEN /\ library' = [library EXCEPT ![id] = saving.sent]
                        /\ saving' = [saving EXCEPT !.phase = "state"]
                   ELSE saving' = Idle /\ UNCHANGED library
        /\ UNCHANGED <<gone, editing, generation, openings, fields, original, open, pasted, covers,
                       wordVars, asking, editorActs>>

\* The profile is saved and read back, and the editor closes.
BookSaved ==
    /\ saving.phase = "state"
    /\ store' = [store EXCEPT ![saving.id] = library[saving.id]]
    /\ saving' = Idle
    /\ original' = Nothing /\ open' = FALSE /\ editing' = ""
    /\ UNCHANGED <<library, gone, generation, openings, fields, pasted, covers, wordVars, asking,
                   editorActs>>

\* The save failed, carried out or not; the library is read back if that succeeds.
BookSaveFails(done, reloaded) ==
    LET kept == IF done THEN [store EXCEPT ![saving.id] = library[saving.id]] ELSE store
    IN  /\ saving.phase = "state"
        /\ store' = kept
        /\ library' = IF reloaded THEN kept ELSE library
        /\ saving' = Idle
        /\ UNCHANGED <<gone, editing, generation, openings, fields, original, open, pasted, covers,
                       wordVars, asking, editorActs>>

\* Slip: cancelling does not wait for a save under way.
MayCancelAnyhow == TRUE

MayCancel == saving = Idle

\* cancelEditBook
CancelBook ==
    IF MayCancel
      THEN /\ generation' = generation + 1
           /\ original' = Nothing /\ editing' = "" /\ open' = FALSE
           /\ fields' = [fields EXCEPT !.cover = V("", 0)]
      ELSE UNCHANGED <<generation, original, editing, open, fields>>

\* A reload of the library no longer lists a book.
Vanish(id) ==
    /\ EditorActs
    /\ id \notin gone
    /\ gone' = gone \cup {id}
    /\ UNCHANGED <<library, store, editing, generation, openings, fields, original, open, saving,
                   pasted, covers, wordVars, asking>>

-----------------------------------------------------------------------------
(* The editor of words. *)

\* The button "Add word" and the buttons "Edit" of the words.
OpenWord(key) ==
    LET e == vocab[key]
        f == IF key = "" THEN [NoWord EXCEPT !.status = "new"]
             ELSE [word |-> e.word, translation |-> e.translation,
                   example |-> IF e.examples = <<>> THEN 0 ELSE Head(e.examples),
                   status |-> e.status]
    IN  /\ EditorActs /\ PageIsFree
        /\ key # "" => e # Absent
        /\ word' = [open |-> TRUE, key |-> key, fields |-> f, original |-> f]
        /\ UNCHANGED <<bookVars, vocab, saves, asking>>

EditWord(f) ==
    /\ EditorActs /\ word.open /\ asking = "none"
    /\ f # word.fields
    /\ word' = [word EXCEPT !.fields = f]
    /\ UNCHANGED <<bookVars, vocab, saves, asking>>

WordDirty == word.original # NoWord /\ word.fields # word.original

Without(s, x) == SelectSeq(s, LAMBDA y : y # x)

Newest(s) == SubSeq(s, 1, IF Len(s) < MaxExamples THEN Len(s) ELSE MaxExamples)

\* setEntryStatus
WithStatus(e, status) ==
    [e EXCEPT !.status = status,
              !.schedule = IF status = "learning" /\ e.status # "learning" THEN "first" ELSE @]

\* An edited word takes all its fields; an emptied example drops the first one.
Edited(e, f) ==
    [WithStatus(e, f.status) EXCEPT
       !.word = f.word, !.translation = f.translation,
       !.examples = IF f.example # 0 THEN Newest(<<f.example>> \o Without(@, f.example))
                    ELSE IF @ = <<>> THEN <<>> ELSE Tail(@)]

\* An added word keeps what its fields leave empty.
Added(e, f) ==
    [WithStatus(e, f.status) EXCEPT
       !.translation = IF f.translation # 0 THEN f.translation ELSE @,
       !.examples = IF f.example # 0 /\ f.example \notin ToSet(@)
                      THEN Newest(<<f.example>> \o @) ELSE @]

\* Slip: a headword that is already in the vocabulary is not refused.
RenamableAnyhow(from, to) == TRUE

\* A word may take a key no other word has.
Renamable(from, to) == to = from \/ vocab[to] = Absent

\* A word that was not there yet becomes a card of its own.
Fresh(f) == [Absent EXCEPT !.card = 1 + Cardinality({k \in DOMAIN vocab : vocab[k] # Absent}),
                           !.word = f.word]

\* The words after "Save", by what stands in the fields.
Confirmed ==
    LET f == word.fields  from == word.key  to == Key(f.word)
    IN  IF from = "" THEN [vocab EXCEPT ![to] = Added(IF @ = Absent THEN Fresh(f) ELSE @, f)]
        ELSE [k \in DOMAIN vocab |->
                IF k = to THEN Edited(vocab[from], f)
                ELSE IF k = from THEN Absent ELSE vocab[k]]

\* An empty headword, a word that is gone and a collision are refused.
CanConfirmWord ==
    /\ word.fields.word # ""
    /\ word.key # "" => vocab[word.key] # Absent /\ Renamable(word.key, Key(word.fields.word))

\* The click on "Save".
ConfirmWord ==
    /\ CanConfirmWord
    /\ vocab' = Confirmed
    /\ saves' = saves + 1

\* The save behind it closes the editor, whichever word it shows by then.
WordSaved ==
    /\ saves > 0
    /\ saves' = saves - 1
    /\ word' = [word EXCEPT !.open = FALSE, !.original = NoWord]
    /\ UNCHANGED <<bookVars, vocab, asking, editorActs>>

WordSaveFails ==
    /\ saves > 0
    /\ saves' = saves - 1
    /\ UNCHANGED <<bookVars, vocab, word, asking, editorActs>>

CloseWord == word' = [word EXCEPT !.open = FALSE, !.original = NoWord]

-----------------------------------------------------------------------------
(* Leaving an editor: its buttons, Escape and the backdrop, Ctrl+S. *)

ClickSave ==
    /\ EditorActs /\ asking = "none"
    /\ \/ open /\ SaveBook /\ UNCHANGED <<store, gone, editing, generation, openings, fields,
                                           original, open, pasted, covers, wordVars>>
       \/ word.open /\ ConfirmWord /\ UNCHANGED <<bookVars, word>>
    /\ UNCHANGED asking

ClickCancel ==
    /\ EditorActs /\ asking = "none"
    /\ \/ /\ open /\ CancelBook
          /\ UNCHANGED <<library, store, gone, openings, saving, pasted, covers, wordVars>>
       \/ word.open /\ CloseWord /\ UNCHANGED <<bookVars, vocab, saves>>
    /\ UNCHANGED asking

\* requestClose: unsaved edits are asked about, others given up.
RequestClose ==
    /\ EditorActs /\ asking = "none"
    /\ \/ /\ open
          /\ IF Dirty THEN asking' = "book" /\ UNCHANGED bookVars
             ELSE /\ CancelBook /\ UNCHANGED asking
                  /\ UNCHANGED <<library, store, gone, openings, saving, pasted, covers>>
          /\ UNCHANGED wordVars
       \/ /\ word.open
          /\ IF WordDirty THEN asking' = "word" /\ UNCHANGED word
                          ELSE CloseWord /\ UNCHANGED asking
          /\ UNCHANGED <<bookVars, vocab, saves>>

\* showUnsavedConfirm: "Cancel", Escape.
KeepEditing ==
    /\ UNCHANGED editorActs /\ asking # "none" /\ asking' = "none"
    /\ UNCHANGED <<bookVars, wordVars>>

Discard ==
    /\ UNCHANGED editorActs /\ asking' = "none"
    /\ \/ /\ asking = "book" /\ CancelBook
          /\ UNCHANGED <<library, store, gone, openings, saving, pasted, covers, wordVars>>
       \/ asking = "word" /\ CloseWord /\ UNCHANGED <<bookVars, vocab, saves>>

\* "Save": what cannot be saved stays in its editor.
SaveAsked ==
    /\ UNCHANGED editorActs /\ asking' = "none"
    /\ \/ /\ asking = "book"
          /\ \/ SaveBook
             \/ ~CanSaveBook /\ UNCHANGED <<saving, library>>
          /\ UNCHANGED <<store, gone, editing, generation, openings, fields, original, open,
                         pasted, covers, wordVars>>
       \/ /\ asking = "word"
          /\ \/ ConfirmWord
             \/ ~CanConfirmWord /\ UNCHANGED <<vocab, saves>>
          /\ UNCHANGED <<bookVars, word>>

\* Ctrl+S reaches an editor even under the question.
Shortcut ==
    /\ EditorActs /\ asking # "none"
    /\ \/ open /\ SaveBook /\ UNCHANGED <<store, gone, editing, generation, openings, fields,
                                           original, open, pasted, covers, wordVars>>
       \/ word.open /\ ~open /\ ConfirmWord /\ UNCHANGED <<bookVars, word>>
    /\ UNCHANGED asking

-----------------------------------------------------------------------------

EditorsInit ==
    /\ library = [id \in Books |-> [title |-> V(id, 1), text |-> V(id, 1), cover |-> V(id, 1)]]
    /\ store = library
    /\ gone = {} /\ editing = "" /\ generation = 0 /\ openings = {}
    /\ fields = Blank /\ original = Nothing /\ open = FALSE
    /\ saving = Idle /\ pasted = {} /\ covers = {}
    /\ vocab \in {[k \in {Key(w) : w \in Typed} \ {""} |->
                     IF k \in known
                       THEN [card |-> IF k = CHOOSE x \in known : TRUE THEN 1 ELSE 2, word |-> k,
                             translation |-> 1, status |-> "new", examples |-> ex,
                             schedule |-> "none"]
                       ELSE Absent] :
                   known \in {s \in SUBSET ({Key(w) : w \in Typed} \ {""}) : s # {}},
                   ex \in {<<>>, <<1, 2, 3>>}}
    /\ word = [open |-> FALSE, key |-> "", fields |-> NoWord, original |-> NoWord]
    /\ saves = 0
    /\ asking = "none"
    /\ editorActs = 0

EditorsNext ==
    \/ \E id \in Books : OpenBook(id)
    \/ \E o \in openings : Loaded(o)
    \/ \E o \in openings : LoadFails(o)
    \/ \E n \in {0, 2} : TypeTitle(n)
    \/ \E n \in {0, 2} : TypeText(n)
    \/ PasteImage
    \/ \E p \in pasted, well \in BOOLEAN : Uploaded(p, well)
    \/ ChooseCover
    \/ \E id \in covers : CoverRead(id)
    \/ \E well, done \in BOOLEAN : TextStored(well, done)
    \/ BookSaved
    \/ \E done, reloaded \in BOOLEAN : BookSaveFails(done, reloaded)
    \/ \E id \in Books : Vanish(id)
    \/ \E key \in DOMAIN vocab \cup {""} : OpenWord(key)
    \/ \E w \in Typed, n \in {0, 2}, s \in {"new", "learning"} :
         EditWord([word |-> w, translation |-> n, example |-> n, status |-> s])
    \/ WordSaved
    \/ WordSaveFails
    \/ ClickSave
    \/ ClickCancel
    \/ RequestClose
    \/ KeepEditing
    \/ Discard
    \/ SaveAsked
    \/ Shortcut

-----------------------------------------------------------------------------

\* The fields of an open editor all belong to the book that a save would write, whichever
\* books were opened and left while their texts were loading and images uploading; no book
\* ever has the title or the text of another.
FieldsAreOfTheBook ==
    /\ open => editing # "" /\ fields.title.of = editing /\ fields.text.of = editing
    /\ saving # Idle => saving.id = editing /\ saving.sent.text.of = editing
    /\ \A id \in Books : /\ library[id].title.of = id /\ library[id].text.of = id
                         /\ store[id].title.of = id /\ store[id].text.of = id

\* The editor of books closes with everything that was sent in the library and in the store,
\* or else without a change to either; not while a save is under way.
ClosedIsAllOrNothing ==
    [][ open /\ ~open' =>
          IF saving # Idle
            THEN /\ library'[saving.id].title = saving.sent.title
                 /\ store'[saving.id].title = saving.sent.title
                 /\ saving.id \in Texts => store'[saving.id].text = saving.sent.text
            ELSE library' = library /\ store' = store ]_editorVars

\* Saving an edited word never loses another one, nor the review history of its own: every
\* card stays in the vocabulary under one key, with its schedule, also under a new headword.
CardsSurvive ==
    [][ \A k \in DOMAIN vocab : vocab[k] # Absent =>
          \E n \in DOMAIN vocab' :
             /\ vocab'[n].card = vocab[k].card
             /\ vocab'[n].schedule \in {vocab[k].schedule, "first"}
             /\ \A o \in DOMAIN vocab' \ {n} : vocab'[o].card # vocab[k].card ]_editorVars

\* An editor changes what it shows, wholly or not at all, and nothing else.
EditorsKeepFaith == [](EditorsTypeOK /\ FieldsAreOfTheBook) /\ ClosedIsAllOrNothing /\ CardsSurvive
=============================================================================
