------------------------------- MODULE Vocabulary -------------------------------
(***************************************************************************)
(* The words of a learner and what happens to them (vocab-actions.ts,      *)
(* review-card.ts, vocab-list.ts, word-editor.ts): they are met in a text, *)
(* translated, explained, edited, reviewed and removed.  Grades,           *)
(* translations and explanations wait for an answer; meanwhile the word    *)
(* may be edited, removed or replaced by a snapshot of the store, and the  *)
(* learner may turn to another language.  The list of words and the queue  *)
(* of reviews are kept from one rendering to the next.                     *)
(***************************************************************************)
EXTENDS Schedule, FiniteSets

CONSTANTS
  Langs,      \* profiles
  Words,      \* the keys of words, in any of them
  Algorithms, \* of preferences.srsAlgorithm
  Grades,     \* the grades given
  Statuses,   \* the statuses given
  NewWordsToo,\* not preferences.autoAddLearningOnly
  MaxDay,     \* bound: days
  MaxSteps    \* bound: what the learner does, and snapshots that change words

\* A selected word is a word, and a status is not that of a word there is not.
ASSUME VocabularyAssumption ==
  "" \notin Words /\ IsFiniteSet(Words) /\ "absent" \notin Statuses

\* Translations: none; none, and none is wanted; the learner's own; or an
\* automatic one, known by the language it is in.
NoText == 0
Rejected == -1
Typed == -2
Targets == 1..2

NoWord == [status |-> "absent", plan |-> NewPlan, due |-> 0, text |-> NoText, at |-> 0, born |-> 0]
Nowhere == [word |-> "", text |-> NoText]
Replaced == -1     \* an object replaced by a snapshot
NoExplanation == [word |-> "", card |-> FALSE]
NoCopy == [of |-> <<>>, entries |-> {}]

VARIABLES
  vocab,        \* profiles[lang].vocab: the words of each language
  days,         \* profiles[lang].reviewsByDay
  lang,         \* preferences.learningLanguage
  target,       \* the language of translations
  memo,         \* reviewQueueCache
  list,         \* cachedVocabBase
  answer,       \* reviewAnswerVisible
  card,         \* the word on the flashcard, or ""
  view,
  selected,     \* state.selectedWord, or ""
  field,        \* _pendingWordField: a translation typed and not yet taken over
  dialog,       \* the word editor: the word and the translation shown
  grades,       \* reviews waiting for their schedule
  translations, \* pendingAutoTranslations
  explaining,   \* the explanation waited for
  day, time,
  steps

words == <<vocab, days>>
prefs == <<lang, target>>
caches == <<memo, list>>
screen == <<view, selected, field, dialog>>
waiting == <<grades, translations, explaining>>
vocabularyVars == <<words, prefs, caches, card, answer, screen, waiting, day, time, steps>>

Has(l, w) == vocab[l][w].status # "absent"

-------------------------------------------------------------------------------
(* The list of words and the queue of reviews.                             *)

\* isInReviewQueue
InQueue(e) == e.status = "learning" \/ (NewWordsToo /\ e.status = "new")

\* What renderReview takes from the words
Queue(v) ==
  {[word |-> w, due |-> v[w].due, text |-> v[w].text, plan |-> v[w].plan] :
     w \in {x \in Words : InQueue(v[x])}}

\* The memo of the queue, and the copy of the list, are of a language; the list
\* is copied again when the number of words has changed (getVocabBase).  A memo
\* of an earlier revision, object or day is never used again: what changes one
\* of these gives it up.
MemoKey == <<lang>>
ListKey == <<lang, Cardinality({w \in Words : Has(lang, w)})>>

InvalidateVocabListCache == memo' = NoCopy /\ list' = NoCopy

RenderVocabulary(kept) ==
  list' = IF kept.of = ListKey' THEN kept ELSE [of |-> ListKey', entries |-> vocab'[lang']]

\* renderReview, with m for the memo.  The words due come in any order, and the
\* learner goes to and fro between them: any of them may be shown.
RenderReview(m, v) ==
  LET entries == IF m.of = MemoKey' THEN m.entries ELSE Queue(vocab'[lang'])
      due == {e.word : e \in {x \in entries : x.due <= day'}}
  IN  /\ memo' = [of |-> MemoKey', entries |-> entries]
      /\ card' \in IF v # "flashcards" \/ due = {} THEN {""} ELSE due

\* What a view shows is rendered again.
Render(v, m, kept) ==
  /\ IF v \in {"vocabulary", "flashcards"} THEN RenderReview(m, v) ELSE memo' = m /\ card' = ""
  /\ IF v = "vocabulary" THEN RenderVocabulary(kept) ELSE list' = kept

-------------------------------------------------------------------------------
(* What the learner does with a word.                                      *)

\* Not behind the word editor, nor while a field is being typed in: leaving
\* it takes its text over first (handleWordFieldBlur).
LearnerActs ==
  /\ steps < MaxSteps /\ steps' = steps + 1 /\ time' = time + 1
  /\ dialog = Nowhere /\ field = Nowhere
  /\ UNCHANGED <<prefs, day>>

\* getOrCreateEntry: the word as it is, or a new one
Entry(w) ==
  IF Has(lang, w) THEN vocab[lang][w]
  ELSE [NoWord EXCEPT !.status = "new", !.due = day, !.at = time + 1, !.born = time + 1]

\* setEntryStatus: a word to be learnt is due tomorrow.
WithStatus(e, status) ==
  [e EXCEPT !.status = status, !.at = time + 1,
            !.due = IF status = "learning" /\ e.status # "learning" THEN day + 1 ELSE @]

\* updateWordField, for a translation
WithText(e, empty) == [e EXCEPT !.text = IF empty THEN Rejected ELSE Typed, !.at = time + 1]

Put(w, e) == vocab' = [vocab EXCEPT ![lang][w] = e]

\* needsAutoTranslation
Wanting(e, to) == e.text # Rejected /\ e.text # Typed /\ e.text # to

\* maybeAutoTranslateWord asks once at a time for an object.
AskTranslation(w, e) ==
  LET asked == \E r \in translations : r.born = e.born /\ r.lang = lang
  IN  translations' =
        IF ~Wanting(e, target) \/ asked THEN translations
        ELSE translations \cup
               {[lang |-> lang, word |-> w, target |-> target, born |-> e.born]}

\* selectWord: a word of the text, with the sentence it is in there, which may be
\* new to a word and always is to a new one; only a new sentence gives the list up
SelectWord(w) ==
  /\ LearnerActs /\ view = "reader"
  /\ LET e == Entry(w) IN
       \E learn \in {FALSE, ~Has(lang, w)} :   \* autoLearnOnClick
         /\ Put(w, IF learn THEN WithStatus(e, "learning") ELSE e)
         /\ AskTranslation(w, e)
         /\ \/ InvalidateVocabListCache
            \/ Has(lang, w) /\ UNCHANGED caches
  /\ selected' = w
  /\ UNCHANGED <<days, card, answer, view, field, dialog, grades, explaining>>

\* The learner has the word before him.
Shows(w) ==
  \/ view = "reader" /\ selected = w
  \/ view = "vocabulary" /\ Has(lang, w)
  \/ view = "flashcards" /\ card = w

\* setWordStatus: the list is given up only if the open text has a new sentence.
SetWordStatus(w, status) ==
  /\ LearnerActs /\ Shows(w) /\ view # "flashcards" /\ vocab[lang][w].status # status
  /\ Put(w, WithStatus(Entry(w), status))
  /\ AskTranslation(w, Entry(w))
  /\ UNCHANGED <<days, answer, screen, grades, explaining>>
  /\ \E kept \in {list, NoCopy} : Render(view, NoCopy, kept)

\* removeFromSrs, from the list of what comes next
RemoveFromSrs(w) ==
  /\ LearnerActs /\ view = "flashcards" /\ Has(lang, w)
  /\ Put(w, WithStatus(Entry(w), "ignored"))
  /\ UNCHANGED <<days, answer, screen, waiting>>
  /\ RenderReview(NoCopy, view) /\ RenderVocabulary(NoCopy)

\* Slip: the queue is not told.
DeleteWordQuietly(w) ==
  /\ LearnerActs /\ Shows(w) /\ view # "flashcards" /\ Has(lang, w)
  /\ Put(w, NoWord)
  /\ selected' = IF selected = w THEN "" ELSE selected
  /\ UNCHANGED <<days, answer, view, field, dialog, waiting>>
  /\ Render(view, memo, list)

\* deleteWord, confirmed
DeleteWord(w) ==
  /\ LearnerActs /\ Shows(w) /\ view # "flashcards" /\ Has(lang, w)
  /\ Put(w, NoWord)
  /\ selected' = IF selected = w THEN "" ELSE selected
  /\ UNCHANGED <<days, answer, view, field, dialog, waiting>>
  /\ Render(view, NoCopy, list)

\* A translation is typed, or the field emptied (scheduleWordFieldSave),
TypeTranslation(w, text) ==
  /\ LearnerActs /\ Shows(w) /\ Has(lang, w)
  /\ field' = [word |-> w, text |-> text]
  /\ UNCHANGED <<words, caches, card, answer, view, selected, dialog, waiting>>

\* and taken over 0.3 s later, or when the field is left (flushWordFieldSave).
FlushField ==
  /\ field # Nowhere
  /\ field' = Nowhere /\ time' = time + 1
  /\ LET w == field.word
         empty == field.text = NoText IN
       IF Has(lang, w) /\ empty /\ vocab[lang][w].text \in {NoText, Rejected}
       THEN UNCHANGED <<vocab, caches>>
       ELSE Put(w, WithText(Entry(w), empty)) /\ InvalidateVocabListCache
  /\ UNCHANGED <<days, prefs, card, answer, view, selected, dialog, waiting, day, steps>>

-------------------------------------------------------------------------------
(* The word editor.                                                        *)

Shown(text) == IF text = Rejected THEN NoText ELSE text

\* It opens over everything else, from the list or the reader,
OpenDialog(w) ==
  /\ LearnerActs /\ Shows(w) /\ view # "flashcards" /\ Has(lang, w)
  /\ dialog' = [word |-> w, text |-> Shown(vocab[lang][w].text)]
  /\ UNCHANGED <<words, caches, card, answer, view, selected, field, waiting>>

\* and what it shows is taken over; another headword moves the entry.
ConfirmDialog(status, text, key) ==
  LET w == dialog.word
      e == vocab[lang][w]
      edited == [WithStatus(e, status) EXCEPT
                   !.text = IF text = Shown(@) THEN @ ELSE IF text = NoText THEN Rejected ELSE Typed] IN
  /\ dialog # Nowhere /\ text \in {dialog.text, Typed}
  /\ Has(lang, w) /\ (key = w \/ ~Has(lang, key))
  /\ dialog' = Nowhere /\ time' = time + 1
  /\ vocab' = [vocab EXCEPT ![lang] = [@ EXCEPT ![w] = NoWord, ![key] = edited]]
  /\ selected' = IF selected = w THEN key ELSE selected
  /\ UNCHANGED <<days, prefs, card, answer, view, field, waiting, day, steps>>
  /\ memo' = NoCopy /\ RenderVocabulary(NoCopy)

Cancel ==
  /\ dialog # Nowhere /\ dialog' = Nowhere
  /\ UNCHANGED <<words, prefs, caches, card, answer, view, selected, field, waiting, day, time, steps>>

\* The same editor adds a word, or changes the one there is: the copy of the
\* list is not given up.
AddWord(w, status, text) ==
  /\ LearnerActs /\ view = "vocabulary"
  /\ LET e == WithStatus(Entry(w), status) IN
       Put(w, IF text = NoText THEN e ELSE [e EXCEPT !.text = text])
  /\ UNCHANGED <<days, card, answer, screen, waiting>>
  /\ memo' = NoCopy /\ RenderVocabulary(list)

-------------------------------------------------------------------------------
(* Reviews.                                                                *)

\* gradeReview and the panel's controls, up to the first await: one grade at
\* a time from the card, any number from the panel
Grade(w, q, onCard) ==
  LET e == vocab[lang][w] IN
  /\ LearnerActs /\ Has(lang, w)
  /\ IF onCard THEN view = "flashcards" /\ card = w /\ answer /\ \A g \in grades : ~g.card
     ELSE view = "reader" /\ selected = w /\ e.status = "learning" /\ e.due <= day
  /\ \E algorithm \in Algorithms :
       grades' = grades \cup
         {[lang |-> lang, word |-> w, quality |-> q, plan |-> e.plan, at |-> e.at,
           algorithm |-> algorithm, card |-> onCard, day |-> day, time |-> time']}
  /\ UNCHANGED <<words, caches, card, answer, screen, translations, explaining>>

\* Slip: whatever the word is by now, it is graded.
UneditedAnyhow(g) == Has(g.lang, g.word)

\* applyReviewGrade, what follows the await: the answer counts if the entry is
\* the one that was graded.
Unedited(g) == Has(g.lang, g.word) /\ vocab[g.lang][g.word].at = g.at

GradedStatus(g, status, plan) ==
  IF g.quality >= 4 /\ plan.interval >= 21 THEN "known"
  ELSE IF g.quality < 3 \/ status = "new" THEN "learning"
  ELSE status

Graded(g, e, plan) ==
  [e EXCEPT !.plan = plan, !.due = g.day + plan.interval, !.at = g.time,
            !.status = GradedStatus(g, @, plan)]

Review(g) ==
  /\ \E plan \in Reviewed(g.algorithm, g.quality, g.plan, g.day) :
       vocab' = [vocab EXCEPT ![g.lang][g.word] = Graded(g, vocab[g.lang][g.word], plan)]
  /\ days' = [days EXCEPT ![g.lang][g.day] = @ + 1]

GradeArrives ==
  \E g \in grades :
    /\ grades' = grades \ {g}
    /\ UNCHANGED <<prefs, screen, translations, explaining, day, time, steps>>
    /\ IF ~Unedited(g) THEN UNCHANGED <<vocab, days, caches, card, answer>>
       ELSE /\ Review(g) /\ list' = NoCopy
            /\ IF g.card THEN answer' = FALSE /\ RenderReview(NoCopy, view)
               ELSE memo' = NoCopy /\ UNCHANGED <<card, answer>>

-------------------------------------------------------------------------------
(* Translations and explanations.                                          *)

\* Slip: the word is not looked at again.
UsableAnyhow(r) == r.lang = lang /\ r.target = target /\ Has(lang, r.word)

\* maybeAutoTranslateWord, what follows the await
Usable(r) ==
  r.lang = lang /\ r.target = target /\ Has(lang, r.word) /\ Wanting(vocab[lang][r.word], r.target)

TranslationArrives ==
  \E r \in translations :
    /\ translations' = translations \ {r}
    /\ UNCHANGED <<days, prefs, answer, screen, grades, explaining, day, steps>>
    /\ IF ~Usable(r) THEN UNCHANGED <<vocab, caches, card, time>>
       ELSE /\ time' = time + 1
            /\ Put(r.word, [vocab[lang][r.word] EXCEPT !.text = r.target, !.at = time'])
            /\ IF view = "flashcards" THEN RenderReview(NoCopy, view) ELSE memo' = NoCopy /\ card' = card
            /\ IF view = "vocabulary" THEN RenderVocabulary(NoCopy) ELSE list' = NoCopy

\* The word is not to be translated, or no translator answers.
TranslationFails ==
  \E r \in translations :
    /\ translations' = translations \ {r}
    /\ UNCHANGED <<words, prefs, caches, card, answer, screen, grades, explaining, day, time, steps>>

\* runReviewCardAiExplain, or runAiExplanation in the panel
Explain(w, onCard) ==
  /\ LearnerActs /\ explaining = NoExplanation /\ Has(lang, w)
  /\ Shows(w) /\ view = (IF onCard THEN "flashcards" ELSE "reader")
  /\ explaining' = [word |-> w, card |-> onCard]
  /\ UNCHANGED <<words, caches, card, answer, screen, grades, translations>>

\* The panel asks whether the word is still selected, the card asks nothing.
Awaited == explaining.card \/ selected = explaining.word

\* persistAiExplanationToNote: the note goes to the entry there is, or to a new
\* one, once any text still being typed is taken over.
ExplanationArrives ==
  /\ explaining # NoExplanation /\ field = Nowhere
  /\ explaining' = NoExplanation
  /\ UNCHANGED <<days, prefs, card, answer, screen, grades, translations, day, steps>>
  /\ IF ~Awaited THEN UNCHANGED <<vocab, caches, time>>
     ELSE /\ time' = time + 1
          /\ Put(explaining.word, [Entry(explaining.word) EXCEPT !.at = time'])
          /\ memo' = NoCopy
          /\ IF view = "vocabulary" THEN RenderVocabulary(NoCopy) ELSE list' = NoCopy

-------------------------------------------------------------------------------
(* What is on the screen.                                                  *)

\* The library, the settings and the others are one.
Views == {"elsewhere", "reader", "vocabulary", "flashcards"}

\* setView
SetView(v) ==
  /\ dialog = Nowhere /\ field = Nowhere /\ v # view
  /\ view' = v
  /\ UNCHANGED <<words, prefs, answer, selected, field, dialog, waiting, day, time, steps>>
  /\ Render(v, memo, list)

\* handleReviewAction, shuffleTodayReviewQueue: the card is turned, or another
\* one of those due is shown.
Turn ==
  /\ view = "flashcards" /\ card # "" /\ field = Nowhere
  /\ answer' \in {~answer, FALSE}
  /\ UNCHANGED <<words, prefs, list, screen, waiting, day, time, steps>>
  /\ RenderReview(memo, view) /\ (card' = card \/ ~answer')

\* switchLearningLanguage: the library is shown.
SwitchLanguage(l) ==
  /\ steps < MaxSteps /\ dialog = Nowhere /\ field = Nowhere /\ l # lang
  /\ lang' = l /\ selected' = "" /\ view' = "elsewhere" /\ card' = "" /\ steps' = steps + 1
  /\ UNCHANGED <<words, target, caches, answer, field, dialog, waiting, day, time>>

\* The native language is another one.
SwitchTarget(to) ==
  /\ steps < MaxSteps /\ dialog = Nowhere /\ field = Nowhere
  /\ view = "elsewhere" /\ to # target
  /\ target' = to /\ steps' = steps + 1
  /\ UNCHANGED <<words, lang, caches, card, answer, screen, waiting, day, time>>

\* A snapshot of the store replaces every word, one of which was changed or
\* removed behind the page's back.
Foreign == [NoWord EXCEPT !.status = "learning", !.text = Typed, !.due = day + 1,
                          !.at = time + 1, !.born = time + 1,
                          !.plan = [NewPlan EXCEPT !.repetition = 1, !.interval = 1, !.reviewed = day]]

SnapshotArrives ==
  /\ steps < MaxSteps /\ steps' = steps + 1 /\ time' = time + 1
  /\ \E l \in Langs, w \in Words, e \in {NoWord, Foreign} : vocab' = [vocab EXCEPT ![l][w] = e]
  /\ translations' = {[r EXCEPT !.born = Replaced] : r \in translations}
  /\ selected' = IF selected # "" /\ vocab'[lang][selected].status = "absent" THEN "" ELSE selected
  /\ UNCHANGED <<days, prefs, answer, view, field, dialog, grades, explaining, day>>
  /\ Render(view, NoCopy, NoCopy)

\* clearWords, once the words are saved elsewhere
ClearWords ==
  /\ LearnerActs /\ view = "elsewhere"
  /\ vocab' = [vocab EXCEPT ![lang] = [w \in Words |-> NoWord]]
  /\ selected' = "" /\ answer' = FALSE
  /\ memo' = (IF memo.of = MemoKey THEN NoCopy ELSE memo)
  /\ list' = (IF list.of = ListKey THEN NoCopy ELSE list)
  /\ UNCHANGED <<days, card, view, field, dialog, waiting>>

NextDay ==
  /\ day < MaxDay /\ day' = day + 1
  /\ memo' = NoCopy
  /\ UNCHANGED <<words, prefs, list, card, answer, screen, waiting, time, steps>>

-------------------------------------------------------------------------------
\* One word was reviewed twice, is due again and selected in the reader, another
\* was only met.
VocabularyInit ==
  /\ \E old, met \in Words, l \in Langs :
       /\ old # met /\ lang = l /\ selected = old
       /\ vocab = [x \in Langs |-> [w \in Words |->
            IF x = l /\ w = old
            THEN [NoWord EXCEPT !.status = "learning",
                    !.plan = [NewPlan EXCEPT !.repetition = 2, !.interval = 15, !.stability = 1500,
                                             !.reviewed = -15]]
            ELSE IF x = l /\ w = met THEN [NoWord EXCEPT !.status = "new"]
            ELSE NoWord]]
  /\ days = [l \in Langs |-> [d \in 0..MaxDay |-> 0]]
  /\ target = 1 /\ memo = NoCopy /\ list = NoCopy
  /\ answer = FALSE /\ card = "" /\ view = "reader"
  /\ field = Nowhere /\ dialog = Nowhere
  /\ grades = {} /\ translations = {} /\ explaining = NoExplanation
  /\ day = 0 /\ time = 0 /\ steps = 0

VocabularyNext ==
  \/ \E w \in Words :
       \/ SelectWord(w) \/ RemoveFromSrs(w) \/ DeleteWord(w) \/ OpenDialog(w)
       \/ \E s \in Statuses : SetWordStatus(w, s)
       \/ \E text \in {NoText, Typed} : TypeTranslation(w, text)
       \/ \E s \in Statuses, text \in {NoText, Typed} : AddWord(w, s, text)
       \/ \E s \in Statuses, text \in {NoText, Typed} \cup Targets : ConfirmDialog(s, text, w)
       \/ \E q \in Grades, onCard \in BOOLEAN : Grade(w, q, onCard)
       \/ \E onCard \in BOOLEAN : Explain(w, onCard)
  \/ \E v \in Views : SetView(v)
  \/ \E l \in Langs : SwitchLanguage(l)
  \/ \E to \in Targets : SwitchTarget(to)
  \/ FlushField \/ Cancel \/ GradeArrives \/ TranslationArrives \/ TranslationFails
  \/ ExplanationArrives \/ Turn
  \/ SnapshotArrives \/ ClearWords \/ NextDay

VocabularySpec == VocabularyInit /\ [][VocabularyNext]_vocabularyVars

-------------------------------------------------------------------------------
(* Properties.                                                             *)

\* A review changes the plan it was computed from, in the language and on the
\* day it was given, whatever happened to the word until it was answered.
ReviewsBuildOnEachOther ==
  [][\A l \in Langs, w \in Words :
       LET old == vocab[l][w]  new == vocab'[l][w] IN
       old.status # "absent" /\ new.status # "absent"
         /\ new.born = old.born /\ new.plan # old.plan =>
         \E g \in grades \ grades' :
           /\ g.lang = l /\ g.word = w
           /\ new.plan \in Reviewed(g.algorithm, g.quality, old.plan, g.day)
           /\ new.due = g.day + new.plan.interval
           /\ days' = [days EXCEPT ![l][g.day] = @ + 1]]_<<vocab, grades, days>>

\* An automatic translation is in the language of now when it is taken over,
\* and never takes the place of what the learner typed, or did not want.  (A word
\* that gets another headword keeps the translation it has.)
TypedTranslationsStay ==
  [][\A l \in Langs, w \in Words :
       LET old == vocab[l][w]  new == vocab'[l][w] IN
       old.status # "absent" /\ new.born = old.born /\ new.text \in Targets /\ new.text # old.text =>
         l = lang /\ new.text = target /\ old.text \notin {Typed, Rejected}
    ]_<<vocab>>

\* A queue that would be shown without looking at the words again is that of
\* the words of now, and a list that would be shown again lists each of them and
\* no other.  (It may show one as it was: its statuses may be old.)
ListsAreCurrent ==
  /\ memo.of = MemoKey => memo.entries = Queue(vocab[lang])
  /\ list.of = ListKey => \A w \in Words : Has(lang, w) <=> list.entries[w].status # "absent"

\* What is answered late gives way: a review changes the plan it was computed
\* from, and an automatic translation replaces nothing the learner wrote.
LateAnswersGiveWay == ReviewsBuildOnEachOther /\ TypedTranslationsStay

\* An explanation never adds a word: the card stores it "exactly like the reader
\* word panel does" (review-ai.ts:41), and the panel lets it go when its word is
\* gone.
WordsComeFromTheUser ==
  [][explaining # explaining' => \A w \in Words, l \in Langs :
       vocab[l][w].status = "absent" => vocab'[l][w].status = "absent"]_<<vocab, explaining>>
===============================================================================
