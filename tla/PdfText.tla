------------------------------- MODULE PdfText -------------------------------
(* The pages of a recognised PDF in the Reader: a page keeps the boxes     *)
(* of the words the recognition found, the learner corrects its text in a  *)
(* dialog, and the words of the corrected text are laid over the boxes     *)
(* again (reader/pdf-page-text.ts), each with its place in the whole text  *)
(* (reader/pdf-ocr-renderer.ts).                                           *)
(*                                                                         *)
(* A text is a sequence of chunks, what stands between blanks; the         *)
(* algorithm that finds the words may part a chunk (Parts), and a stop     *)
(* ends a sentence.  A box is the set of the recognised boxes it covers.   *)
EXTENDS Integers, Sequences, FiniteSets, SequencesExt

CONSTANTS
  Texts,           \* what the learner may make of a page or a sentence
  Parts(_),        \* the words of a chunk; none of a stop
  Stop,            \* the chunk that ends a sentence
  MaxPdfActs       \* bound: dialogs, replacements

VARIABLES
  pages,           \* of the text record: [text, corrected, words]
  stamp,           \* its updatedAt
  kept,            \* the pages the store has
  dialog,          \* the correction dialog
  pending,         \* the page has a change of the text to save
  pdfActs

pdfVars == <<pages, stamp, kept, dialog, pending, pdfActs>>

AsRecognised == <<"as recognised">>    \* no own correctedText
NoDialog == [at |-> "closed"]

Words(text) == FlattenSeq([i \in DOMAIN text |-> Parts(text[i])])

EffectiveText(page) == IF page.corrected = AsRecognised THEN page.text ELSE page.corrected

DocumentWords(ps) == FlattenSeq([p \in DOMAIN ps |-> Words(EffectiveText(ps[p]))])

\* How many words of the whole text stand before a page.
PageOffset(ps, p) == Len(DocumentWords(SubSeq(ps, 1, p - 1)))

-------------------------------------------------------------------------------
(* Longest common subsequences, and the way through them that skips a word *)
(* on the left when that loses nothing.                                    *)

Common(left, right) ==
  LET lengths[l \in 1..Len(left) + 1, r \in 1..Len(right) + 1] ==
        IF l > Len(left) \/ r > Len(right) THEN 0
        ELSE IF left[l] = right[r] THEN lengths[l + 1, r + 1] + 1
        ELSE IF lengths[l + 1, r] >= lengths[l, r + 1] THEN lengths[l + 1, r]
        ELSE lengths[l, r + 1]
  IN lengths

Anchors(left, right) ==
  LET lengths == Common(left, right)
      from[l \in 1..Len(left) + 1, r \in 1..Len(right) + 1] ==
        IF l > Len(left) \/ r > Len(right) THEN <<>>
        ELSE IF left[l] = right[r] THEN <<<<l, r>>>> \o from[l + 1, r + 1]
        ELSE IF lengths[l + 1, r] >= lengths[l, r + 1] THEN from[l + 1, r] ELSE from[l, r + 1]
  IN from[1, 1]

TextsOf(words) == [i \in DOMAIN words |-> words[i].text]

\* The part of `of' that falls to the i-th of n, where of has at least as many.
Share(of, i, n) ==
  LET start == ((i - 1) * Len(of)) \div n
      end == (i * Len(of)) \div n
  IN SubSeq(of, start + 1, IF end > start THEN end ELSE start + 1)

Merged(sources, text) ==
  [text |-> text, box |-> UNION {sources[i].box : i \in DOMAIN sources}]

\* Between two anchors: as many words as boxes, boxes merged, or boxes split.
\* Words without any box between the anchors stay without one.
ReconcileSpan(sources, targets) ==
  IF sources = <<>> \/ targets = <<>> THEN <<>>
  ELSE IF Len(targets) <= Len(sources)
  THEN [i \in DOMAIN targets |-> Merged(Share(sources, i, Len(targets)), targets[i])]
  ELSE FlattenSeq([i \in DOMAIN sources |->
         LET own == Share(targets, i, Len(sources))
         IN [j \in DOMAIN own |-> [text |-> own[j], box |-> sources[i].box]]])

\* The words of the text, over the boxes of the words they match or replace.
Reconcile(source, text) ==
  LET target == Words(text)
      anchors == Anchors(TextsOf(source), target)
      last == <<Len(source) + 1, Len(target) + 1>>
      ends == <<<<0, 0>>>> \o anchors \o <<last>>
      spans == [k \in 1..Len(anchors) + 1 |->
        ReconcileSpan(SubSeq(source, ends[k][1] + 1, ends[k + 1][1] - 1),
                      SubSeq(target, ends[k][2] + 1, ends[k + 1][2] - 1))
        \o IF ends[k + 1] = last THEN <<>>
           ELSE <<[text |-> target[ends[k + 1][2]], box |-> source[ends[k + 1][1]].box]>>]
  IN IF source = <<>> \/ target = <<>> THEN <<>> ELSE FlattenSeq(spans)

\* The boxes laid out along the lines of a page, which keeps no other.
LaidOut(text) ==
  SelectSeq([i \in DOMAIN text |-> [text |-> text[i], box |-> {i}]], LAMBDA word : word.text # Stop)

PageWords(page) == IF page.words # <<>> THEN page.words ELSE LaidOut(page.text)

\* What lies over the picture of a page, and where in the whole text each word is.
Overlay(page) == Reconcile(PageWords(page), EffectiveText(page))

\* The same page as plain text: every word with its place.
TextMode(ps, p) ==
  LET words == Words(EffectiveText(ps[p]))
  IN [i \in DOMAIN words |-> [text |-> words[i], place |-> PageOffset(ps, p) + i]]

\* Slip: the place of a word on its page for its place in the whole text.
WordPositionsOnPage(ps, p) ==
  LET anchors == Anchors(TextsOf(Overlay(ps[p])), Words(EffectiveText(ps[p])))
  IN [i \in DOMAIN Overlay(ps[p]) |->
       {anchors[k][2] : k \in {n \in DOMAIN anchors : anchors[n][1] = i}}]

WordPositions(ps, p) ==
  LET anchors == Anchors(TextsOf(Overlay(ps[p])), Words(EffectiveText(ps[p])))
  IN [i \in DOMAIN Overlay(ps[p]) |->
       {PageOffset(ps, p) + anchors[k][2] : k \in {n \in DOMAIN anchors : anchors[n][1] = i}}]

-------------------------------------------------------------------------------
\* The sentence a word of a text is in: its first and its last chunk.
SentenceOf(text, word) ==
  LET chunk == CHOOSE c \in DOMAIN text :
        Len(Words(SubSeq(text, 1, c - 1))) < word /\ word <= Len(Words(SubSeq(text, 1, c)))
      stops == {c \in DOMAIN text : text[c] = Stop}
      before == {c \in stops : c < chunk}
      after == {c \in stops : c > chunk}
  IN [start |-> IF before = {} THEN 1 ELSE 1 + CHOOSE c \in before : \A d \in before : d <= c,
      end |-> IF after = {} THEN Len(text) ELSE CHOOSE c \in after : \A d \in after : c <= d]

ReplaceRange(text, range, by) ==
  SubSeq(text, 1, range.start - 1) \o by \o SubSeq(text, range.end + 1, Len(text))

\* The page with its corrected text; the recognised text again is no correction.
Corrected(page, text) ==
  [page EXCEPT !.words = Reconcile(page.words, text),
               !.corrected = IF text = page.text THEN AsRecognised ELSE text]

Recognised(text) ==
  [text |-> text, corrected |-> AsRecognised,
   words |-> LaidOut(text)]

PdfInit ==
  /\ \E first \in Texts, second \in {t \in Texts : Len(t) = 1} :
       pages = <<Recognised(first), Recognised(second)>>
  /\ stamp = 0 /\ kept = pages
  /\ dialog = NoDialog /\ pending = FALSE /\ pdfActs = 0

Act == pdfActs < MaxPdfActs /\ pdfActs' = pdfActs + 1

\* The dialog opens on a page or on the sentence of the word selected there.
OpenCorrection(p) ==
  LET text == EffectiveText(pages[p])
  IN /\ dialog.at = "closed" /\ Act
     /\ \E range \in {[start |-> 1, end |-> Len(text)]}
                     \cup {SentenceOf(text, w) : w \in DOMAIN Words(text)} :
          dialog' = [at |-> "open", page |-> p, text |-> text, range |-> range,
                     expected |-> stamp, made |-> <<>>, said |-> "nothing"]
     /\ UNCHANGED <<pages, stamp, kept, pending>>

\* The dialog with the text it has made of its page, on the way to the store
Making(made) ==
  [dialog EXCEPT !.at = "storing", !.made = made]
    @@ [pages |-> [pages EXCEPT ![dialog.page] = Corrected(@, made)]]

\* Slip: the text is corrected whatever has become of it.
SubmitAnyhow(typed) ==
  /\ dialog.at = "open" /\ dialog.said # "saved"
  /\ dialog' = Making(ReplaceRange(dialog.text, dialog.range, typed))
  /\ UNCHANGED <<pages, stamp, kept, pending, pdfActs>>

\* Nothing is saved over a text that is another since the dialog opened.
Submit(typed) ==
  /\ dialog.at = "open" /\ dialog.said # "saved"
  /\ dialog' = IF stamp = dialog.expected
               THEN Making(ReplaceRange(dialog.text, dialog.range, typed))
               ELSE [dialog EXCEPT !.said = "failed"]
  /\ UNCHANGED <<pages, stamp, kept, pending, pdfActs>>

\* The store takes the text as it was made, whatever has become of it since;
\* the page has it only with the answer.
Store ==
  /\ dialog.at = "storing"
  /\ kept' = dialog.pages /\ dialog' = [dialog EXCEPT !.at = "stored"]
  /\ UNCHANGED <<pages, stamp, pending, pdfActs>>

Without(d) == [f \in DOMAIN d \ {"pages"} |-> d[f]]

\* A refused or unheard request: the dialog stays open with what was typed.
StoreFails ==
  /\ dialog.at \in {"storing", "stored"}
  /\ dialog' = [Without(dialog) EXCEPT !.at = "open", !.said = "failed"]
  /\ UNCHANGED <<pages, stamp, kept, pending, pdfActs>>

Stored ==
  /\ dialog.at = "stored"
  /\ pages' = dialog.pages /\ stamp' = stamp + 1
  /\ dialog' = [Without(dialog) EXCEPT !.at = "saving"]
  /\ UNCHANGED <<kept, pending, pdfActs>>

SaveSucceeds ==
  /\ dialog.at = "saving"
  /\ kept' = pages /\ pending' = FALSE
  /\ dialog' = [dialog EXCEPT !.at = "closed", !.said = "saved"]
  /\ UNCHANGED <<pages, stamp, pdfActs>>

\* A failed save: what a reload brings, if one succeeds, decides what is said.
SaveFails ==
  /\ dialog.at = "saving"
  /\ \E reloaded \in BOOLEAN :
       LET after == IF reloaded THEN kept ELSE pages
           saved == EffectiveText(after[dialog.page]) = dialog.made
       IN /\ pages' = after /\ pending' = ~reloaded
          /\ stamp' = IF after = pages THEN stamp ELSE stamp + 1
          /\ dialog' = IF saved THEN [dialog EXCEPT !.at = "closed", !.said = "saved"]
                       ELSE [dialog EXCEPT !.at = "open", !.said = "failed"]
  /\ UNCHANGED <<kept, pdfActs>>

\* Cancel, or Escape with its question; neither while the dialog saves.
Cancel ==
  /\ dialog.at = "open" /\ dialog' = NoDialog
  /\ UNCHANGED <<pages, stamp, kept, pending, pdfActs>>

\* A snapshot brings the text as another device or a restore has left it.
Replace(p, text) ==
  /\ Act /\ ~pending
  /\ text # EffectiveText(kept[p])
  /\ kept' = [kept EXCEPT ![p] = Corrected(kept[p], text)]
  /\ pages' = kept' /\ stamp' = stamp + 1
  /\ UNCHANGED <<dialog, pending>>

Autosave ==
  /\ pending /\ kept' = pages /\ pending' = FALSE
  /\ UNCHANGED <<pages, stamp, dialog, pdfActs>>

PdfNext ==
  \/ \E p \in DOMAIN pages : OpenCorrection(p)
  \/ \E typed \in Texts : Submit(typed)
  \/ Store \/ StoreFails \/ Stored \/ SaveSucceeds \/ SaveFails \/ Cancel \/ Autosave
  \/ \E p \in DOMAIN pages, text \in Texts : Replace(p, text)

-------------------------------------------------------------------------------
\* Every word laid over a page is the word of the whole text its place says,
\* the one the page shows there as plain text, in the order of the text, and the boxes are in the order of the page;
\* a page nobody has corrected, and whose words are the recognised ones, shows
\* them all (a compound followed by its own last part would lose that word).
OverlayIsTheText ==
  \A p \in DOMAIN pages :
    LET shown == Overlay(pages[p])
        at == WordPositions(pages, p)
        place(i) == CHOOSE n \in at[i] : TRUE
    IN /\ \A i \in DOMAIN shown : /\ Cardinality(at[i]) = 1
                                  /\ DocumentWords(pages)[place(i)] = shown[i].text
                                  /\ [text |-> shown[i].text, place |-> place(i)]
                                       \in Range(TextMode(pages, p))
       /\ \A i, j \in DOMAIN shown : i < j =>
            /\ place(i) < place(j)
            /\ \A c \in shown[j].box : \E b \in shown[i].box : b <= c
            /\ \A b \in shown[i].box : \E c \in shown[j].box : b <= c
       /\ pages[p] = Recognised(pages[p].text) /\ TextsOf(pages[p].words) = Words(pages[p].text)
            => TextsOf(shown) = Words(pages[p].text)

\* A correction the learner was told is saved is in the store or on its way.
SavedCorrectionsAreKept ==
  dialog # NoDialog /\ dialog.said = "saved" /\ dialog.at = "closed" =>
    EffectiveText(pages[dialog.page]) = EffectiveText(kept[dialog.page]) \/ pending

\* What is corrected is the text the learner was shown, not a later one.
CorrectsWhatWasShown ==
  [][dialog.at = "open" /\ dialog'.at = "storing" =>
       dialog.text = EffectiveText(pages[dialog.page])]_pdfVars
===============================================================================
