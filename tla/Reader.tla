-------------------------------- MODULE Reader --------------------------------
(***************************************************************************)
(* The Reader (book-actions.ts, render.ts, reader/): opening a book, whose *)
(* text may first have to be loaded; rendering it, in timed passes that    *)
(* others overtake; turning its pages; and remembering the place in it.    *)
(* Words, statistics and the outline of a page are left out.  Of a place   *)
(* on a page only the top and one other are told apart; how it is found    *)
(* again, by a word or by the offset, is left out, and so are the repeated *)
(* tries to scroll a page that is not laid out yet.                        *)
(***************************************************************************)
EXTENDS Integers, Sequences

CONSTANTS
  Books, Pages,   \* the books, and how many pages each has
  Scans,          \* those rendered in one go (renderPdfOcrReader)
  Chunks,         \* in how many steps a page of text is written
  MaxMoves,       \* bound: what the user does
  MaxRerenders    \* bound: what else renders the Reader

VARIABLES
  ui,        \* the page's state and the Reader's element, see ReaderUi
  opening,   \* the last openBook under way: loading a text or mapping bookmarks
  jumping,   \* jumpToReaderBookmark waits for its save
  scrolled,  \* readerScrollSaveTimer is set
  place,     \* history: where the reader was last in each book, as far as known
  moves, rerenders

readerVars == <<ui, opening, jumping, scrolled, place, moves, rerenders>>

NoBook == "none"

\* A book has a page.
ASSUME ReaderAssumption ==
  /\ NoBook \notin Books /\ Scans \subseteq Books
  /\ Pages \in [Books -> Nat \ {0}] /\ Chunks \in Nat

Offsets == {0, 1}
Anywhere == 2
AnyPage == UNION {1..Pages[b] : b \in Books}

\* What the element shows: a message, a spinner, or parts of a page
Blank == [kind |-> "empty", parts |-> <<>>, at |-> 0, whole |-> FALSE]
Spinner == [Blank EXCEPT !.kind = "spinner"]
PageOf(parts, at, whole) == [kind |-> "page", parts |-> parts, at |-> at, whole |-> whole]
Whole(b, p) == [i \in 1..(IF b \in Scans THEN 1 ELSE Chunks) |-> <<b, p, i>>]

\* The place saved for a book, and page by page
Nowhere == [page |-> 0, at |-> 0]
Unseen == -1

-------------------------------------------------------------------------------
(* Remembering and restoring a place.                                      *)

\* Slip: a page that is not shown or not rendered has a place, too.
RememberAnyhow(s) ==
  IF s.current = NoBook THEN s
  ELSE [s EXCEPT !.scrolls[s.current] = [page |-> s.page, at |-> s.shown.at],
                 !.perPage[s.current][s.page] = s.shown.at]

\* rememberReaderScrollPosition
Remember(s) ==
  IF s.current = NoBook \/ s.view # "reader" \/ s.rendering \/ s.shown.kind = "spinner" THEN s
  ELSE [s EXCEPT !.scrolls[s.current] = [page |-> s.page, at |-> s.shown.at],
                 !.perPage[s.current][s.page] = s.shown.at]

\* restoreReaderPagePosition
Restored(s, b, saved) ==
  IF saved.page = s.page THEN saved.at
  ELSE IF s.perPage[b][s.page] # Unseen THEN s.perPage[b][s.page] ELSE 0

-------------------------------------------------------------------------------
(* Rendering.                                                              *)

\* The page that is opened: the one saved for the book, or else the number of
\* the page the Reader was at.
OpenedPage(s, b) ==
  LET p == IF s.pages[b] # 0 THEN s.pages[b] ELSE s.page
  IN  IF p > Pages[b] THEN Pages[b] ELSE p

AtPage(s, b) ==
  LET p == OpenedPage(s, b)
  IN  [s EXCEPT !.page = p, !.pages[b] = p, !.counted = b]

\* renderReader; the page of a scan is written at once.
Rendered(s) ==
  LET n == s.renders + 1
      t == [s EXCEPT !.renders = n, !.renderId = n, !.rendering = FALSE, !.shown = Spinner]
      b == s.current
  IN  IF s.loading # NoBook THEN t
      ELSE IF b = NoBook THEN [t EXCEPT !.shown = Blank]
      ELSE IF b \notin s.held THEN t
      ELSE IF b \in Scans
      THEN LET u == AtPage(t, b) IN
           [u EXCEPT !.shown = PageOf(Whole(b, u.page), Restored(u, b, s.scrolls[b]), TRUE)]
      ELSE [t EXCEPT !.rendering = TRUE,
                     !.passes = @ \cup {[step |-> 0, id |-> n, book |-> b, page |-> 0,
                                         saved |-> s.scrolls[b]]}]

\* The spinner is on the screen and the page is cut out of the text; the
\* chunks are numbered by a counter of their own (renderPlainText).
Started(s, pass) ==
  LET u == AtPage(s, pass.book)
      n == s.texts + 1
  IN  [u EXCEPT !.texts = n, !.renderId = n, !.shown = PageOf(<<>>, 0, FALSE),
                !.passes = @ \cup {[pass EXCEPT !.step = 1, !.id = n, !.page = u.page]}]

\* renderNextChunk
Written(s, pass) ==
  IF pass.step <= Chunks
  THEN [s EXCEPT !.shown.parts = Append(@, <<pass.book, pass.page, pass.step>>),
                 !.passes = @ \cup {[pass EXCEPT !.step = @ + 1]}]
  ELSE [s EXCEPT !.shown.at = IF s.current = pass.book THEN Restored(s, pass.book, pass.saved) ELSE @,
                 !.shown.whole = TRUE, !.rendering = FALSE]

\* Slip: a pass is not told that another has begun.
OvertakenLate(s, pass) == pass.step = 0 /\ s.renders # pass.id

Overtaken(s, pass) ==
  IF pass.step = 0 THEN s.renders # pass.id \/ s.current # pass.book
                   ELSE s.renderId # pass.id

-------------------------------------------------------------------------------
(* History: the place the reader should find a book at.  It is not known   *)
(* of a book that has not been rendered, whose page was turned, or that    *)
(* was left, before it was; after a jump to a bookmark; when the Reader is *)
(* rendered again before the last scrolling is remembered, and of what is  *)
(* scrolled while another book is on its way.                              *)

NotOpening == [book |-> NoBook, step |-> "remap", moved |-> FALSE]

Unknown == [page |-> 0, at |-> Anywhere]

\* What is not known is what the Reader shows first.
Settled(known) ==
  place' = [b \in Books |->
    IF b = ui'.current /\ ui'.view = "reader" /\ ui'.shown.whole /\ ~jumping'
       /\ opening' = NotOpening
    THEN [page |-> IF known[b].page = 0 THEN ui'.page ELSE known[b].page,
          at |-> IF known[b].at = Anywhere THEN ui'.shown.at ELSE known[b].at]
    ELSE known[b]]

Now(b, p, at) == [place EXCEPT ![b] = [page |-> p, at |-> at]]
Forgotten == IF ui.current = NoBook THEN place ELSE [place EXCEPT ![ui.current] = Unknown]

PassRuns(pass) ==
  /\ pass \in ui.passes
  /\ LET s == [ui EXCEPT !.passes = @ \ {pass}]
     IN  ui' = IF Overtaken(s, pass) THEN s
               ELSE IF pass.step = 0 THEN Started(s, pass) ELSE Written(s, pass)
  /\ UNCHANGED <<opening, jumping, scrolled, moves, rerenders>>
  /\ Settled(place)

\* setView
SetView(s, v) ==
  LET left == s.view = "reader" /\ v # "reader"
      t == IF left THEN Remember(s) ELSE s
      u == IF left /\ s.current # NoBook THEN [t EXCEPT !.pages[s.current] = s.page] ELSE t
      w == [u EXCEPT !.view = v]
  IN  IF v = "reader" THEN Rendered(w) ELSE w

-------------------------------------------------------------------------------
(* Opening a book.                                                         *)

\* openBook, up to its first wait
OpenBook(b) ==
  LET s == Remember([ui EXCEPT !.loading = NoBook])
  IN  IF b \in ui.held
      THEN ui' = s /\ opening' = [book |-> b, step |-> "remap", moved |-> FALSE]
      ELSE ui' = Rendered([s EXCEPT !.loading = b])
           /\ opening' = [book |-> b, step |-> "load", moved |-> FALSE]

\* The text arrives.
Loaded ==
  /\ opening.step = "load"
  /\ ui' = [ui EXCEPT !.loading = NoBook, !.held = @ \cup {opening.book}]
  /\ opening' = IF opening.moved THEN NotOpening ELSE [opening EXCEPT !.step = "remap"]
  /\ UNCHANGED <<jumping, scrolled, moves, rerenders>>
  /\ Settled(place)

NotLoaded ==
  /\ opening.step = "load"
  /\ LET s == [ui EXCEPT !.loading = NoBook]
     IN  ui' = IF ~opening.moved /\ s.view = "reader" THEN Rendered(s) ELSE s
  /\ opening' = NotOpening
  /\ UNCHANGED <<jumping, scrolled, moves, rerenders>>
  /\ Settled(place)

\* Its bookmarks are mapped, and it is the open book.
Opened ==
  /\ opening.step = "remap" /\ opening.book # NoBook
  /\ ui' = IF opening.moved THEN ui ELSE SetView([ui EXCEPT !.current = opening.book], "reader")
  /\ opening' = NotOpening
  /\ UNCHANGED <<jumping, scrolled, moves, rerenders>>
  /\ Settled(place)

-------------------------------------------------------------------------------
(* What the user does.                                                     *)

Moves == moves < MaxMoves /\ moves' = moves + 1

Open(b) ==
  /\ Moves /\ OpenBook(b)
  /\ UNCHANGED <<jumping, scrolled, rerenders>>
  /\ Settled(place)

\* Another view
Leave ==
  /\ Moves /\ ui.view = "reader"
  /\ ui' = SetView(ui, "library")
  /\ opening' = [opening EXCEPT !.moved = opening.book # NoBook]
  /\ UNCHANGED <<jumping, scrolled, rerenders>>
  /\ Settled(IF ui.current # NoBook /\ ui.pages[ui.current] # ui.page THEN Forgotten ELSE place)

\* openReaderView, openLastReadBook; with no book to be read yet an empty Reader
Return ==
  /\ Moves
  /\ IF ui.current # NoBook THEN OpenBook(ui.current)
     ELSE ui' = SetView(ui, "reader") /\ opening' = [opening EXCEPT !.moved = opening.book # NoBook]
  /\ UNCHANGED <<jumping, scrolled, rerenders>>
  /\ Settled(place)

\* changeReaderPage, goToReaderPage: before the book has been rendered, how
\* many pages it has is not known.
TurnPage(p) ==
  /\ Moves /\ ui.view = "reader" /\ ui.current # NoBook
  /\ ui.counted = ui.current => p <= Pages[ui.current]
  /\ p # ui.page
  /\ ui' = Rendered([ui EXCEPT !.page = p, !.pages[ui.current] = p])
  /\ UNCHANGED <<opening, jumping, scrolled, rerenders>>
  /\ Settled(IF ui.shown.whole /\ ~jumping THEN Now(ui.current, p, Anywhere) ELSE Forgotten)

Scroll ==
  /\ Moves /\ ui.view = "reader" /\ ui.shown.whole
  /\ ui' = [ui EXCEPT !.shown.at = 1 - @]
  /\ scrolled' = TRUE
  /\ UNCHANGED <<opening, jumping, rerenders>>
  /\ Settled(IF jumping \/ opening # NotOpening THEN Forgotten ELSE Now(ui.current, ui.page, ui'.shown.at))

\* 150 ms later
ScrollTimerFires ==
  /\ scrolled /\ scrolled' = FALSE
  /\ LET last == IF ui.current = NoBook THEN Nowhere ELSE ui.scrolls[ui.current]
     IN  ui' = IF last # Nowhere /\ last.page # ui.page THEN ui ELSE Remember(ui)
  /\ UNCHANGED <<opening, jumping, moves, rerenders>>
  /\ Settled(place)

\* jumpToReaderBookmark; the save it waits for takes its time.
Jump(p, at) ==
  /\ Moves /\ ui.view = "reader" /\ ui.current # NoBook /\ ~jumping
  /\ p <= Pages[ui.current]
  /\ ui' = [ui EXCEPT !.page = p, !.pages[ui.current] = p,
                      !.scrolls[ui.current] = [page |-> p, at |-> at],
                      !.perPage[ui.current][p] = Unseen]
  /\ jumping' = TRUE
  /\ UNCHANGED <<opening, scrolled, rerenders>>
  /\ Settled(Forgotten)

JumpEnds ==
  /\ jumping /\ jumping' = FALSE
  /\ ui' = Rendered(ui)
  /\ UNCHANGED <<opening, scrolled, moves, rerenders>>
  /\ Settled(place)

\* A setting, a new phrase, a synchronised change of the book
Rerender ==
  /\ rerenders < MaxRerenders /\ rerenders' = rerenders + 1
  /\ ui' = Rendered(ui)
  /\ UNCHANGED <<opening, jumping, scrolled, moves>>
  /\ Settled(IF ui.current # NoBook /\ ui.scrolls[ui.current] # [page |-> ui.page, at |-> ui.shown.at]
              THEN Forgotten ELSE place)

\* The number of words on a page is changed, in the settings; here all books
\* keep their pages.
ChangeWordsPerPage ==
  /\ rerenders < MaxRerenders /\ rerenders' = rerenders + 1
  /\ ui.view # "reader"
  /\ LET s == [ui EXCEPT !.page = 1]
     IN  ui' = Rendered(IF s.current = NoBook THEN s
                        ELSE [s EXCEPT !.scrolls[s.current] = [page |-> 1, at |-> 0]])
  /\ UNCHANGED <<opening, jumping, scrolled, moves>>
  /\ Settled(Forgotten)

\* The app starts with the book read last, if any, at its last page.
ReaderInit ==
  /\ \E last \in Books \cup {NoBook}, texts \in {{}, Books} :
       LET at(b, x, y) == IF b = last THEN x ELSE y IN
       /\ ui = [view |-> "library", current |-> last, page |-> 1,
               pages |-> [b \in Books |-> at(b, Pages[b], 0)],
               scrolls |-> [b \in Books |-> at(b, [page |-> Pages[b], at |-> 1], Nowhere)],
               perPage |-> [b \in Books |-> [p \in 1..Pages[b] |->
                              IF p = Pages[b] THEN at(b, 1, Unseen) ELSE Unseen]],
               held |-> texts, loading |-> NoBook, counted |-> NoBook, shown |-> Blank,
               rendering |-> FALSE, renders |-> 0, texts |-> 0, renderId |-> 0, passes |-> {}]
       /\ place = [b \in Books |-> at(b, [page |-> Pages[b], at |-> 1], Unknown)]
  /\ opening = NotOpening /\ jumping = FALSE /\ scrolled = FALSE
  /\ moves = 0 /\ rerenders = 0

ReaderNext ==
  \/ \E pass \in ui.passes : PassRuns(pass)
  \/ Loaded \/ NotLoaded \/ Opened
  \/ \E b \in Books : Open(b)
  \/ Leave \/ Return
  \/ \E p \in AnyPage : TurnPage(p)
  \/ Scroll \/ ScrollTimerFires
  \/ \E p \in AnyPage, at \in Offsets : Jump(p, at)
  \/ JumpEnds \/ Rerender \/ ChangeWordsPerPage

ReaderSpec == ReaderInit /\ [][ReaderNext]_readerVars

-------------------------------------------------------------------------------
\* The Reader shows the open page of the open book and nothing else: no pass
\* that has been overtaken writes another word of a page, or of a book, that
\* was left (generation and renderId), and when nothing is under way the page
\* is there as a whole, and no spinner.  Only a jump to a bookmark changes the
\* page before it renders.
ShowsWhatIsOpen ==
  /\ ui.shown.kind = "page" /\ ~jumping =>
       /\ \E n \in 0..Len(Whole(ui.current, ui.page)) :
            ui.shown.parts = SubSeq(Whole(ui.current, ui.page), 1, n)
       /\ ui.shown.whole => ui.shown.parts = Whole(ui.current, ui.page)
  /\ ui.view = "reader" /\ ui.current # NoBook /\ opening = NotOpening /\ ui.passes = {} /\ ~jumping
       => ui.shown.whole

\* A book is found where it was left, whatever was opened, loaded, rendered or
\* scrolled in between (docs/releases/1.1.5.md): neither a Reader that is
\* hidden or still rendering nor a late timer puts another place over it.
KeepsYourPlace ==
  ui.view = "reader" /\ ui.shown.whole /\ ~jumping /\ opening = NotOpening =>
    place[ui.current] = [page |-> ui.page, at |-> ui.shown.at]

\* The Reader shows the open page of the open book, whole, and nothing else;
\* a book is found where it was left.
ShowsTheOpenPlace == ShowsWhatIsOpen /\ KeepsYourPlace
===============================================================================
