------------------------------- MODULE Normalize -------------------------------
(***************************************************************************)
(* What the page makes of a snapshot of the store (state/normalize.ts,     *)
(* state.ts): words are filed under their canonical keys, and the entries  *)
(* that meet under one key are merged; preferences outside their range     *)
(* get their defaults; some preferences of the page outlive the snapshot.  *)
(* The profile is the one for other languages, whose language is chosen:   *)
(* its words are filed anew when it changes.                               *)
(***************************************************************************)
EXTENDS Naturals, Integers, FiniteSets, Sequences, SequencesExt, FiniteSetsExt

CONSTANTS
  Languages,       \* that may be chosen for the profile
  Profile,         \* "other", which is no language
  Canonical(_, _), \* normalizeVocabularyWord: the key of a spelling in a language
  Spellings,       \* of words, in their order as strings
  Raw,             \* entries that the store may hold
  ItemIds,         \* SELECTED_WORD_PANEL_ITEM_IDS, in their default order
  Layouts,         \* orders of items that the store may hold, of any ids
  GuessLimit,      \* IN_TEXT_REVIEW_PROMPT_COMPLETION_LIMIT
  MaxNormalizeActs \* bound: changes by the learner or by others

\* An entry: its spelling; its status and since when; its last review and its
\* schedule; its note and its translation; its last change; its examples.
Unplanned == 0
Fresh == 1          \* the schedule of a word never reviewed
Blank == 0
Rejected == -1      \* translationAutoRejected
MaxExamples == 3
StatusRank == [new |-> 0, learning |-> 1, ignored |-> 2, known |-> 3]
NoEntry == ""

VARIABLES
  stored,    \* the words of the snapshot: [key, entry], in the object's order
  prefs,     \* its preferences: [onboarded, guesses, items]
  page,      \* state.vocab, as stored
  own,       \* state.preferences
  source,    \* preferences.translationSourceLanguage
  selected,  \* state.selectedWord
  loaded,    \* history: what the page read last: "", "boot", "snapshot", or "changed" since
  normalizeActs

normalizeVars == <<stored, prefs, page, own, source, selected, loaded, normalizeActs>>

-------------------------------------------------------------------------------
(* Two entries under one key.                                              *)

IsStatus(s) == s \in DOMAIN StatusRank
Rank(s) == IF IsStatus(s) THEN StatusRank[s] ELSE -1

\* stableValue: an order of all entries, read as numbers from left to right
Digits(e) ==
  <<Rank(e.status), e.since, e.review, e.plan, e.note, e.text, Len(e.examples),
    CHOOSE n \in DOMAIN Spellings : Spellings[n] = e.word>>
After(a, b) ==
  LET differing == {k \in DOMAIN Digits(a) : Digits(a)[k] # Digits(b)[k]} IN
  differing # {} /\ Digits(a)[Min(differing)] > Digits(b)[Min(differing)]

Newer(a, b) == a.at > b.at \/ (a.at = b.at /\ After(a, b))

\* preferByUpdatedAt
Preferred(a, b) == IF Newer(b, a) THEN b ELSE a
Fallback(a, b) == IF Newer(b, a) THEN a ELSE b

\* Slip: the status of the entry changed last, whenever the status was set.
StatusOfTheNewer(a, b) == Preferred(a, b)

\* preferStatus
StatusFrom(a, b) ==
  IF IsStatus(a.status) # IsStatus(b.status) THEN (IF IsStatus(b.status) THEN b ELSE a)
  ELSE IF a.since # b.since THEN (IF b.since > a.since THEN b ELSE a)
  ELSE IF Rank(a.status) # Rank(b.status) THEN (IF Rank(b.status) > Rank(a.status) THEN b ELSE a)
  ELSE Preferred(a, b)

\* preferSchedule
ScheduleFrom(a, b) ==
  IF a.review # b.review THEN (IF b.review > a.review THEN b ELSE a)
  ELSE IF (a.plan = Unplanned) # (b.plan = Unplanned) THEN (IF b.plan # Unplanned THEN b ELSE a)
  ELSE Preferred(a, b)

Or(value, other) == IF value # Blank THEN value ELSE other

\* Each example once, at its first place
Once(seq) ==
  FoldLeft(LAMBDA kept, x : IF Contains(kept, x) THEN kept ELSE Append(kept, x), <<>>, seq)

\* mergeVocabEntries
Merge(a, b) ==
  LET first == Preferred(a, b)
      second == Fallback(a, b) IN
  [first EXCEPT
     !.status = StatusFrom(a, b).status, !.since = StatusFrom(a, b).since,
     !.review = ScheduleFrom(a, b).review, !.plan = ScheduleFrom(a, b).plan,
     !.note = Or(first.note, second.note),
     !.text = Or(first.text, second.text),
     !.at = Max({a.at, b.at}),
     !.examples = LET all == Once(first.examples \o second.examples) IN
                  SubSeq(all, 1, Min({Len(all), MaxExamples}))]

\* An entry comes under its key, to those already there.
Filed(words, key, entry) ==
  LET at == {k \in DOMAIN words : words[k].key = key} IN
  IF at = {} THEN Append(words, [key |-> key, entry |-> entry])
  ELSE [words EXCEPT ![Min(at)].entry = Merge(@, entry)]

FiledAnew(words, language) ==
  FoldLeft(LAMBDA done, w : Filed(done, Canonical(language, w.entry.word), w.entry), <<>>, words)

\* normalizeVocabEntries: then what is missing gets its default.
Normalized(words, language) ==
  LET filed == FiledAnew(words, language) IN
  [k \in DOMAIN filed |->
    [filed[k] EXCEPT !.entry.status = IF IsStatus(@) THEN @ ELSE "new",
                     !.entry.plan = IF @ = Unplanned THEN Fresh ELSE @]]

\* normalizeSelectedWordPanelItems: items known, each once, then those left out
Items(layout) ==
  LET kept == Once(SelectSeq(layout, LAMBDA id : Contains(ItemIds, id))) IN
  kept \o SelectSeq(ItemIds, LAMBDA id : ~Contains(kept, id))

\* normalizeState, of the preferences
Settled(p) ==
  [onboarded |-> p.onboarded = TRUE,
   guesses |-> IF p.guesses < 0 THEN 0 ELSE Min({p.guesses, GuessLimit}),
   items |-> Items(p.items)]

Keys(words) == {words[k].key : k \in DOMAIN words}

\* The selected word as the words are filed now, or none
Resolved(word, words, language) ==
  IF word = NoEntry THEN NoEntry
  ELSE LET key == Canonical(language, word)
           same == {k \in Keys(words) : Canonical(language, k) = key} IN
       IF key \in Keys(words) THEN key
       ELSE IF same = {} THEN NoEntry ELSE CHOOSE k \in same : TRUE

-------------------------------------------------------------------------------
Act == normalizeActs < MaxNormalizeActs /\ normalizeActs' = normalizeActs + 1

\* loadState, when the page starts with the store's snapshot.  The selected word
\* is looked for by the profile's name.
Boot ==
  /\ loaded = ""
  /\ page' = Normalized(stored, source)
  /\ own' = Settled(prefs)
  /\ selected' = Resolved(selected, page', Profile)
  /\ loaded' = "boot"
  /\ UNCHANGED <<stored, prefs, source, normalizeActs>>

\* Slip: the page takes over the preferences of the snapshot as they are.
PreferencesOfTheSnapshot(p) == Settled(p)

\* What applyBridgeSnapshotToState leaves of the snapshot's preferences
TakenOver(p) ==
  [Settled(p) EXCEPT !.onboarded = @ \/ own.onboarded,
                     !.guesses = Max({@, Min({own.guesses, GuessLimit})})]

\* applyBridgeSnapshotToState: the selection is the page's own.
ApplySnapshot ==
  /\ loaded # "" /\ loaded # "snapshot"
  /\ page' = Normalized(stored, source)
  /\ own' = TakenOver(prefs)
  /\ loaded' = "snapshot"
  /\ UNCHANGED <<stored, prefs, source, selected, normalizeActs>>

\* A record written by another device or an older version
Arrives(e) ==
  /\ Act
  /\ ~\E k \in DOMAIN stored : stored[k].key = e.word
  /\ stored' = Append(stored, [key |-> e.word, entry |-> e])
  /\ loaded' = IF loaded = "" THEN "" ELSE "changed"
  /\ UNCHANGED <<prefs, page, own, source, selected>>

\* rekeyActiveVocabForLocale by saveOtherProfilePair or updatePreferenceValue: the
\* words are filed by the name of the profile, not by the language chosen.
ChooseSource(l) ==
  /\ Act
  /\ loaded # "" /\ l # source
  /\ source' = l
  /\ page' = FiledAnew(page, Profile)
  /\ selected' = Resolved(selected, page', Profile)
  /\ loaded' = "changed"
  /\ UNCHANGED <<stored, prefs, own>>

\* The dialog of the first start is confirmed; a guess in the text is right.
Confirm ==
  /\ Act
  /\ loaded # "" /\ ~own.onboarded /\ own' = [own EXCEPT !.onboarded = TRUE]
  /\ loaded' = "changed"
  /\ UNCHANGED <<stored, prefs, page, source, selected>>

Guess ==
  /\ Act
  /\ loaded # "" /\ own.guesses < GuessLimit /\ own' = [own EXCEPT !.guesses = @ + 1]
  /\ loaded' = "changed"
  /\ UNCHANGED <<stored, prefs, page, source, selected>>

\* saveState: the store takes over what the page holds.
Save ==
  /\ loaded # "" /\ <<stored, prefs>> # <<page, own>>
  /\ stored' = page /\ prefs' = own /\ loaded' = "changed"
  /\ UNCHANGED <<page, own, source, selected, normalizeActs>>

NormalizeInit ==
  /\ \E a, b \in Raw : /\ a.word # b.word
                       /\ stored = << [key |-> a.word, entry |-> a], [key |-> b.word, entry |-> b] >>
  /\ \E items \in Layouts : prefs = [onboarded |-> FALSE, guesses |-> 0, items |-> items]
  /\ page = <<>> /\ own = prefs /\ source \in Languages
  /\ selected \in {NoEntry} \cup {stored[k].key : k \in 1..2}
  /\ loaded = "" /\ normalizeActs = 0

NormalizeNext ==
  \/ Boot \/ ApplySnapshot \/ Confirm \/ Guess \/ Save
  \/ \E e \in Raw : Arrives(e)
  \/ \E l \in Languages : ChooseSource(l)

-------------------------------------------------------------------------------
\* What the page read can be written and read again, and again, without change:
\* keys are canonical, entries complete, no two under one key, and preferences
\* within their range.
ReadingIsStable ==
  loaded \in {"boot", "snapshot"} =>
    /\ Normalized(page, source) = page
    /\ Settled(own) = own
    /\ \A id \in ToSet(ItemIds) : Cardinality({k \in DOMAIN own.items : own.items[k] = id}) = 1

\* Two entries that meet under one key make the same word in whichever order the
\* store lists them: devices with the same records show the same words.  (Three do
\* not: a note may come from either of two entries older than the third.)
OrderDoesNotMatter ==
  loaded = "" /\ Len(stored) = 2 =>
    ToSet(Normalized(stored, source)) = ToSet(Normalized(Reverse(stored), source))

\* What is selected when the page starts is a word of the profile.
SelectionIsAWord == loaded = "boot" => selected \in {NoEntry} \cup Keys(page)

\* No entry knows less than another did: the latest review, and the status set
\* last or, of those set then, the furthest; a note or a translation if there was any.
Keeps(e, r) ==
  /\ e.at >= r.at /\ e.review >= r.review
  /\ IsStatus(r.status) => e.since > r.since \/ (e.since = r.since /\ Rank(e.status) >= Rank(r.status))
  /\ r.note # Blank => e.note # Blank
  /\ r.text > Blank => e.text # Blank
  /\ Len(e.examples) >= Len(r.examples)

\* Reading a snapshot loses no word of it and nothing that a word has, though
\* several entries become one.
ReadingForgetsNothing ==
  loaded' \in {"boot", "snapshot"} /\ loaded' # loaded =>
    \A k \in DOMAIN stored : \E j \in DOMAIN page' :
      page'[j].key = Canonical(source, stored[k].entry.word) /\ Keeps(page'[j].entry, stored[k].entry)

\* What the learner has confirmed is not asked again and what was guessed stays
\* guessed, whatever snapshot comes.
LatchesHold ==
  loaded # "" => (own.onboarded => own'.onboarded) /\ own'.guesses >= own.guesses

WordsAreReadInFull ==
  [](ReadingIsStable /\ OrderDoesNotMatter /\ SelectionIsAWord)
    /\ [][ReadingForgetsNothing /\ LatchesHold]_normalizeVars

===============================================================================
