------------------------------ MODULE Keyboard ------------------------------
(***************************************************************************)
(* The keys of the page: which of the handlers a key reaches and what it   *)
(* does there (src/src/web/js/events/navigation.ts, events/keyboard/       *)
(* global-keys.ts, reader-keys.ts and flashcards-keys.ts, with the word    *)
(* panel's in-text review and the review card they operate).               *)
(*                                                                         *)
(* A key reaches the view unless a field has the focus or a dialog is      *)
(* open.  The same digit grades a card, or sets the status of the word     *)
(* selected; a grade is computed elsewhere and counts if its word was not  *)
(* changed meanwhile.  Keys that only speak, copy, scroll, explain or      *)
(* change the appearance, the keys of find and of phrases, and key repeat  *)
(* are left out.                                                           *)
(***************************************************************************)
EXTENDS Naturals, Sequences, FiniteSets

CONSTANTS
    Page,       \* the words of the page, in order
    Deck,       \* the words of the vocabulary, in the order of review
    Statuses,   \* what the digits 1 to 4 set, in order
    MaxKeys     \* a bound on what the user does

VARIABLES
    view,       \* currentView: "reader", "flashcards" or "library"
    epoch,      \* navigationEpoch
    opening,    \* the epochs in which the Reader was asked for and is awaited
    dialog,     \* the open dialog: [kind, word, next]
    focus,      \* what has the focus
    selected,   \* the position of the selected word, or 0
    entries,    \* word -> [status, due, at, grades]
    panel,      \* the word panel as drawn: [of, answer, shown, drawn]
    card,       \* the review card: [index, revealed, pending]
    grading,    \* the grades being computed: [word, at, drawn, by, key]
    overlays,   \* [find, images]: the find bar and the image suggestions
    marks,      \* the bookmarked positions
    redrawn,    \* the words whose panel was drawn while their grade was awaited
    last,       \* the key pressed last, or "none"
    keys

keyVars == <<view, epoch, opening, dialog, focus, selected, entries, panel, card, grading,
             overlays, marks, redrawn, last, keys>>

Words == {Deck[i] : i \in DOMAIN Deck}

NoDialog == [kind |-> "none", word |-> "", next |-> 0]

Fields == {"panelField", "field", "find"}

KeyboardTypeOK ==
    /\ view \in {"reader", "flashcards", "library"}
    /\ opening \subseteq 0 .. epoch
    /\ dialog.kind \in {"none", "editor", "confirm", "youglish"}
    /\ focus \in Fields \cup {"page", "token", "panel"}
    /\ selected \in 0 .. Len(Page)
    /\ \A w \in Words : entries[w].status \in {Statuses[i] : i \in DOMAIN Statuses}
    /\ panel.shown \in {"none", "editor", "question", "grades"}
    /\ marks \subseteq DOMAIN Page

Due(e) == e.status = "learning" /\ e.due

\* renderInTextReview: a due word asks first and is graded then.
Shown(e, answer) == IF ~Due(e) THEN "editor" ELSE IF answer THEN "grades" ELSE "question"

\* renderWordPanel: the answer stays while the word is the same.
DrawnFor(w, e) ==
    LET answer == panel.of = w /\ panel.answer
    IN [of |-> w, answer |-> answer, shown |-> Shown(e, answer), drawn |-> panel.drawn + 1]

DrawPanel(i, es) ==
    /\ panel' = IF i = 0 THEN [panel EXCEPT !.shown = "none", !.drawn = @ + 1]
                ELSE DrawnFor(Page[i], es[Page[i]])
    /\ redrawn' = redrawn \cup {g.word : g \in {g \in grading : i # 0 /\ g.word = Page[i]}}

Queue == SelectSeq(Deck, LAMBDA w : Due(entries[w]))

Card == Queue[IF card.index > Len(Queue) THEN Len(Queue) ELSE card.index]

InField == focus \in Fields

\* A word is at hand: the one selected, or that of the review card.
HasWord == (view = "reader" /\ selected # 0) \/ (view = "flashcards" /\ Queue # <<>>)

\* What a key without Ctrl must pass before a view's own handler sees it
Free == ~InField /\ dialog.kind = "none"

Press(key) == keys < MaxKeys /\ keys' = keys + 1 /\ last' = key

KeyboardInit ==
    /\ view \in {"reader", "flashcards"} /\ epoch = 0 /\ opening = {} /\ dialog = NoDialog
    /\ focus = "page" /\ selected = 0
    /\ entries \in [Words -> {[status |-> "new", due |-> FALSE, at |-> 0, grades |-> 0],
                              [status |-> "learning", due |-> TRUE, at |-> 0, grades |-> 0]}]
    /\ panel = [of |-> "", answer |-> FALSE, shown |-> "none", drawn |-> 0]
    /\ card = [index |-> 1, revealed |-> FALSE, pending |-> FALSE]
    /\ grading = {} /\ overlays = [find |-> FALSE, images |-> FALSE] /\ marks = {}
    /\ redrawn = {} /\ last = "none" /\ keys = 0

-----------------------------------------------------------------------------
(* Selecting words                                                         *)

Select(i) ==
    /\ selected' = i /\ focus' = "token"
    /\ DrawPanel(i, entries)

\* By mouse, the arrows, Ctrl+Home and Ctrl+End, or Ctrl+Enter, which selects
\* the word again and works in fields, too
SelectWord(i) ==
    /\ UNCHANGED <<view, epoch, opening, dialog, entries, card, grading, overlays, marks>>
    /\ view = "reader" /\ dialog.kind = "none"
    /\ \/ i \in DOMAIN Page /\ Press("mouse")
       \/ i \in {selected - 1, selected + 1} \cap DOMAIN Page /\ ~InField /\ focus = "token" /\ Press("arrow")
       \/ i \in {1, Len(Page)} /\ ~InField /\ Press("ctrl+home/end")
       \/ i = selected /\ i # 0 /\ Press("ctrl+enter")
    /\ Select(i)

\* A field is clicked, or E and N go to one of the word panel.
EnterField ==
    /\ UNCHANGED <<view, epoch, opening, dialog, selected, entries, panel, card, grading,
                   overlays, marks, redrawn>>
    /\ dialog.kind = "none" /\ ~InField
    /\ \/ focus' = "field" /\ Press("mouse")
       \/ view = "reader" /\ selected # 0 /\ focus' = "panelField" /\ Press("e")

\* F6, in fields as well
TogglePane ==
    /\ UNCHANGED <<view, epoch, opening, dialog, selected, entries, panel, card, grading,
                   overlays, marks, redrawn>>
    /\ view = "reader" /\ dialog.kind = "none" /\ Press("f6")
    /\ focus' = IF focus \in {"panel", "panelField"} THEN "token" ELSE "panel"

ToggleBookmark ==
    /\ UNCHANGED <<view, epoch, opening, dialog, focus, selected, entries, panel, card, grading,
                   overlays, redrawn>>
    /\ view = "reader" /\ Free /\ selected # 0 /\ Press("b")
    /\ marks' = IF selected \in marks THEN marks \ {selected} ELSE marks \cup {selected}

\* Ctrl+F, whatever has the focus
OpenFind ==
    /\ UNCHANGED <<view, epoch, opening, dialog, selected, entries, panel, card, grading, marks,
                   redrawn>>
    /\ view = "reader" /\ Press("ctrl+f")
    /\ overlays' = [overlays EXCEPT !.find = TRUE]
    /\ focus' = IF dialog.kind = "none" THEN "find" ELSE focus

SearchImages ==
    /\ UNCHANGED <<view, epoch, opening, dialog, focus, selected, entries, panel, card, grading,
                   marks, redrawn>>
    /\ Free /\ HasWord
    /\ Press("i")
    /\ overlays' = [overlays EXCEPT !.images = TRUE]

-----------------------------------------------------------------------------
(* Dialogs and views                                                       *)

OpenEditor ==
    /\ UNCHANGED <<view, epoch, opening, selected, entries, panel, card, grading, overlays, marks,
                   redrawn>>
    /\ dialog.kind = "none" /\ Press("mouse")
    /\ dialog' = [NoDialog EXCEPT !.kind = "editor"]
    /\ focus' = "field"

OpenYouGlish ==
    /\ UNCHANGED <<view, epoch, opening, selected, entries, panel, card, grading, overlays, marks,
                   redrawn>>
    /\ Free /\ HasWord
    /\ Press("y")
    /\ dialog' = [NoDialog EXCEPT !.kind = "youglish"]
    /\ focus' = "page"

\* setView; the views are left to the mouse, too
SetView(v) ==
    /\ view' = v /\ epoch' = epoch + 1 /\ focus' = "page"
    /\ card' = IF v = "flashcards" /\ view # v THEN [card EXCEPT !.revealed = FALSE] ELSE card
    /\ IF v = "reader" THEN DrawPanel(selected, entries) ELSE UNCHANGED <<panel, redrawn>>

GoTo(v) ==
    /\ UNCHANGED <<opening, dialog, selected, entries, grading, overlays, marks>>
    /\ dialog.kind = "none" /\ v # view
    /\ \/ ~InField /\ Press("alt+view")
       \/ Press("mouse")
    /\ SetView(v)

\* Alt+R: the Reader opens once its code is there.
AskForReader ==
    /\ UNCHANGED <<view, epoch, dialog, focus, selected, entries, panel, card, grading, overlays,
                   marks, redrawn>>
    /\ Free /\ Press("alt+r")
    /\ opening' = opening \cup {epoch}

\* Slip: the Reader opens whatever was chosen meanwhile.
StillWantedAnyhow(asked) == TRUE

StillWanted(asked) == asked = epoch

ReaderArrives(asked) ==
    /\ UNCHANGED <<dialog, selected, entries, grading, overlays, marks, keys>>
    /\ asked \in opening /\ opening' = opening \ {asked}
    /\ last' = "arrival"
    /\ IF StillWanted(asked) THEN SetView("reader")
       ELSE UNCHANGED <<view, epoch, focus, card, panel, redrawn>>

-----------------------------------------------------------------------------
(* Digits, Enter and X                                                     *)

\* setWordStatus: nothing happens if the word has the status.
SetStatus(w, status) ==
    LET e == entries[w]
    IN IF e.status = status THEN UNCHANGED <<entries, panel, redrawn>>
       ELSE /\ entries' = [entries EXCEPT ![w].status = status, ![w].at = @ + 1,
                               ![w].due = IF status = "learning" THEN FALSE ELSE @]
            /\ DrawPanel(selected, entries')

\* applyReviewGrade is begun
Grade(w, by) ==
    grading' = grading \cup
        {[word |-> w, at |-> entries[w].at, drawn |-> panel.drawn, by |-> by, key |-> keys]}

\* Slip: a digit sets the status of the word even under a card's grades.
CardComesLast == FALSE

\* The grades of the word panel take the digit before the statuses.
CardComesFirst == panel.shown = "grades"

DigitInReader(d) ==
    /\ UNCHANGED <<view, epoch, opening, dialog, focus, selected, card, overlays, marks>>
    /\ view = "reader" /\ Free /\ selected # 0 /\ Press("digit")
    /\ IF CardComesFirst
       THEN Grade(Page[selected], "panel") /\ UNCHANGED <<entries, panel, redrawn>>
       ELSE SetStatus(Page[selected], Statuses[d]) /\ UNCHANGED grading

\* gradeReview: one grade at a time, of the card whose answer is shown
DigitInFlashcards ==
    /\ UNCHANGED <<view, epoch, opening, dialog, focus, selected, entries, panel, overlays, marks,
                   redrawn>>
    /\ view = "flashcards" /\ Free /\ Queue # <<>> /\ card.revealed /\ ~card.pending
    /\ Press("digit")
    /\ Grade(Card, "card")
    /\ card' = [card EXCEPT !.pending = TRUE]

EnterInReader ==
    /\ UNCHANGED <<view, epoch, opening, dialog, focus, selected, entries, card, grading, overlays,
                   marks, redrawn>>
    /\ view = "reader" /\ Free /\ panel.shown = "question" /\ Press("enter")
    /\ panel' = [panel EXCEPT !.answer = TRUE, !.shown = Shown(entries[Page[selected]], TRUE)]

EnterInFlashcards ==
    /\ UNCHANGED <<view, epoch, opening, dialog, focus, selected, entries, panel, grading, overlays,
                   marks, redrawn>>
    /\ view = "flashcards" /\ Free /\ Queue # <<>> /\ Press("enter")
    /\ card' = [card EXCEPT !.revealed = ~@]

ArrowInFlashcards(i) ==
    /\ UNCHANGED <<view, epoch, opening, dialog, focus, selected, entries, panel, grading, overlays,
                   marks, redrawn>>
    /\ view = "flashcards" /\ Free /\ Press("arrow")
    /\ i \in {card.index - 1, card.index + 1} \cap DOMAIN Queue
    /\ card' = [card EXCEPT !.index = i, !.revealed = FALSE]

\* Slip: the grade counts as long as the word is there.
UntouchedAnyhow(g) == TRUE

\* A grade counts if its word has not changed since it was begun.
Untouched(g) == entries[g.word].at = g.at

\* applyReviewGrade ends: the word is not due any more.
Graded(g, status) ==
    IF Untouched(g)
    THEN entries' = [entries EXCEPT ![g.word] =
                        [status |-> status, due |-> FALSE, at |-> @.at + 1, grades |-> @.grades + 1]]
    ELSE UNCHANGED entries

\* In the word panel the card is redrawn, unless the panel was drawn anew.
PanelGraded(g) ==
    /\ UNCHANGED <<card, focus>>
    /\ panel' = IF Untouched(g) /\ panel.drawn = g.drawn /\ selected # 0 /\ panel.of = g.word
                THEN [panel EXCEPT !.shown = Shown(entries'[g.word], panel.answer)]
                ELSE panel

\* The next review card follows.
CardGraded(g) ==
    /\ UNCHANGED panel
    /\ card' = [card EXCEPT !.pending = FALSE, !.revealed = IF Untouched(g) THEN FALSE ELSE @]
    /\ focus' = IF Untouched(g) /\ view = "flashcards" THEN "page" ELSE focus

GradeArrives(g, status) ==
    /\ UNCHANGED <<view, epoch, opening, dialog, selected, overlays, marks, redrawn, keys>>
    /\ g \in grading /\ grading' = grading \ {g}
    /\ status \in {"learning", "known"}
    /\ last' = "grade"
    /\ Graded(g, status)
    /\ IF g.by = "panel" THEN PanelGraded(g) ELSE CardGraded(g)

\* deleteWord; then the word after it is selected.
Deleted(w, next) ==
    /\ entries' = [entries EXCEPT ![w] = [status |-> "new", due |-> FALSE, at |-> @.at + 1, grades |-> 0]]
    /\ selected' = next
    /\ DrawPanel(next, entries')

\* X: a word with something to lose is asked about first.
DeleteKey ==
    LET w == Page[selected]
        next == IF selected < Len(Page) THEN selected + 1 ELSE 0
    IN /\ UNCHANGED <<view, epoch, opening, card, grading, overlays, marks>>
       /\ view = "reader" /\ Free /\ selected # 0 /\ Press("x")
       /\ IF entries[w].status # "new"
          THEN /\ dialog' = [kind |-> "confirm", word |-> w, next |-> next]
               /\ UNCHANGED <<entries, selected, panel, redrawn, focus>>
          ELSE Deleted(w, next) /\ focus' = (IF next = 0 THEN "page" ELSE "token") /\ UNCHANGED dialog

ConfirmDelete ==
    /\ UNCHANGED <<view, epoch, opening, card, grading, overlays, marks>>
    /\ dialog.kind = "confirm" /\ Press("confirm")
    /\ dialog' = NoDialog
    /\ Deleted(dialog.word, dialog.next)
    /\ focus' = IF dialog.next = 0 THEN "page" ELSE "token"

-----------------------------------------------------------------------------
(* Escape, by what it meets first                                          *)

\* In the find bar, which closes itself
EscapeFind ==
    /\ focus = "find"
    /\ overlays' = [overlays EXCEPT !.find = FALSE]
    /\ focus' = IF selected # 0 THEN "token" ELSE "page"
    /\ UNCHANGED <<dialog, selected, panel, redrawn>>

\* In a field, which loses the focus, to the word if it is of the word panel;
\* a dialog around it closes.
EscapeField ==
    /\ focus \in {"panelField", "field"}
    /\ focus' = IF focus = "panelField" /\ view = "reader" /\ selected # 0 THEN "token" ELSE "page"
    /\ dialog' = NoDialog
    /\ UNCHANGED <<overlays, selected, panel, redrawn>>

\* The image suggestions go; an open dialog closes of itself, as well.
EscapeImages ==
    /\ ~InField /\ overlays.images
    /\ overlays' = [overlays EXCEPT !.images = FALSE]
    /\ dialog' = NoDialog
    /\ UNCHANGED <<focus, selected, panel, redrawn>>

EscapeDialog ==
    /\ ~InField /\ ~overlays.images /\ dialog.kind # "none"
    /\ dialog' = NoDialog
    /\ UNCHANGED <<focus, overlays, selected, panel, redrawn>>

\* In the Reader: from the word panel to the word, from the word to none
EscapeReader ==
    /\ Free /\ ~overlays.images /\ view = "reader"
    /\ UNCHANGED <<dialog, overlays>>
    /\ IF focus = "panel" /\ selected # 0
       THEN focus' = "token" /\ UNCHANGED <<selected, panel, redrawn>>
       ELSE /\ focus' = IF focus = "token" THEN "page" ELSE focus
            /\ selected' = 0
            /\ IF selected # 0 THEN DrawPanel(0, entries) ELSE UNCHANGED <<panel, redrawn>>

Escape ==
    /\ UNCHANGED <<view, epoch, opening, entries, card, grading, marks>>
    /\ Press("escape")
    /\ EscapeFind \/ EscapeField \/ EscapeImages \/ EscapeDialog \/ EscapeReader

KeyboardNext ==
    \/ \E i \in DOMAIN Page : SelectWord(i)
    \/ EnterField \/ TogglePane \/ ToggleBookmark \/ OpenFind \/ SearchImages
    \/ OpenEditor \/ OpenYouGlish
    \/ \E v \in {"reader", "flashcards", "library"} : GoTo(v)
    \/ AskForReader
    \/ \E asked \in opening : ReaderArrives(asked)
    \/ \E d \in DOMAIN Statuses : DigitInReader(d)
    \/ DigitInFlashcards \/ EnterInReader \/ EnterInFlashcards
    \/ \E i \in DOMAIN Deck : ArrowInFlashcards(i)
    \/ \E g \in grading, status \in {"learning", "known"} : GradeArrives(g, status)
    \/ DeleteKey \/ ConfirmDelete \/ Escape

-----------------------------------------------------------------------------
(* What the user may rely on                                               *)

\* However often a digit is pressed over a card, on which path it is shown,
\* and in whatever order the grades are computed, a due word is graded once.
\* Only a panel drawn anew for the same word while the grade was awaited
\* keeps buttons that grade it again.
GradedOnce == \A w \in Words \ redrawn : entries[w].grades <= 1

\* The status of a word changes by a digit only where no card asks for a
\* grade, and in the view of the Reader.
DigitsMeanOneThing ==
    last' = "digit" /\ keys' # keys /\ entries' # entries =>
        view = "reader" /\ panel.shown # "grades"

\* While a dialog is open and stays open no key reaches what lies beneath:
\* the view, the selection and the bookmarks stay, and words change only by
\* grades asked for before (navigation.ts:166; F5, which reloads the page
\* under a dialog too, is left out).
DialogsShieldThePage ==
    dialog.kind # "none" /\ dialog'.kind # "none" =>
        /\ <<selected, marks>>' = <<selected, marks>>
        /\ view' # view => last' = "arrival"
        /\ entries' # entries => grading' # grading

\* Escape takes one thing away at a time: of the selection, the find bar, the
\* image suggestions and the dialog; only with a dialog over suggestions two.
EscapeTakesOne ==
    LET taken == {x \in {"selection", "find", "images", "dialog"} :
                    \/ x = "selection" /\ selected # 0 /\ selected' = 0
                    \/ x = "find" /\ overlays.find /\ ~overlays'.find
                    \/ x = "images" /\ overlays.images /\ ~overlays'.images
                    \/ x = "dialog" /\ dialog.kind # "none" /\ dialog'.kind = "none"}
    IN last' = "escape" /\ keys' # keys =>
         \/ Cardinality(taken) <= 1
         \/ dialog.kind # "none" /\ taken = {"images", "dialog"}

\* A Reader asked for before another view was chosen does not replace it.
LaterViewsStay == last' = "arrival" /\ view' # view => epoch \in opening

\* The five of them, as one property of the keys
KeysActOnWhatIsShown ==
    /\ [](KeyboardTypeOK /\ GradedOnce)
    /\ [][/\ DigitsMeanOneThing /\ DialogsShieldThePage
          /\ EscapeTakesOne /\ LaterViewsStay]_keyVars
=============================================================================
