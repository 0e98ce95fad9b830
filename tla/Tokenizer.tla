------------------------------ MODULE Tokenizer ------------------------------
(***************************************************************************)
(* How the words of a text are told apart and matched with the vocabulary  *)
(* (tokenizer_v2.ts), for the Reader, which keeps what it found under the  *)
(* vocabulary's revision (reader/session.ts), and for the list of words    *)
(* that appear in a text (text-vocab.ts, vocab-index-client.ts).           *)
(*                                                                         *)
(* A text is a sequence of spellings, stops, breaks, brackets and images;  *)
(* what stands between two of them is blank.  A key of the vocabulary is a *)
(* sequence of spellings: a word or a phrase.                              *)
(***************************************************************************)
EXTENDS Naturals, Sequences, FiniteSets, SequencesExt, FiniteSetsExt, Functions, Folds

CONSTANTS
  Langs,          \* profiles; "de" is the one with separable verbs
  Spellings,      \* words as they are written
  Canonical(_),   \* normalizeVocabularyWord, of a spelling
  VerbPrefixes,   \* GERMAN_SEPARABLE_PREFIXES
  Keys,           \* what the learner saves; a single word is a canonical one
  Statuses,       \* statuses other than "new"
  ContextReach,   \* MAX_CONTEXT_CHARS: here what stands in a text counts as one each
  Texts,          \* sequences of spellings and of the signs below
  Saved,          \* the vocabularies the page may start with, in one language
  MaxTokenizerActs \* bound: what the learner does

Stop == "."
WideStop == "wide stop"       \* of Chinese and Japanese
Break == "break"           \* between paragraphs
Image == "[IMG]"
Open == "("
Close == ")"
VerbReach == 11         \* words between a verb and its prefix
NoPhrases == [revision |-> 0, list |-> <<>>]
NoSession == [text |-> <<>>, lang |-> "", revision |-> 0, words |-> <<>>]

VARIABLES
  entries,    \* profiles[lang].vocab: entries in the order they were added
  lang,       \* preferences.learningLanguage
  revision,   \* vocabularyRevision of autosave.ts
  phrases,    \* cachedPhraseIndex
  open,       \* the text the Reader shows
  session,    \* cachedSession of the Reader and its classifications
  lists,      \* cache of vocab-index-client.ts: the phrases found, by signature
  tokenizerActs

tokenizerVars == <<entries, lang, revision, phrases, open, session, lists, tokenizerActs>>

WordsOf(text) == {i \in DOMAIN text : text[i] \in Spellings}
Parts(key) == [k \in DOMAIN key |-> Canonical(key[k])]
EntryOf(vocab, key) == {k \in DOMAIN vocab : vocab[k].key = key}
StatusOf(vocab, key) ==
  IF EntryOf(vocab, key) = {} THEN "new" ELSE vocab[Min(EntryOf(vocab, key))].status

-------------------------------------------------------------------------------
(* What the words of a text are.                                           *)

\* buildVocabularyPhraseIndex: the phrases, the longest first
PhrasesIn(vocab) ==
  LET named == [k \in DOMAIN vocab |-> [vocab[k] EXCEPT !.key = Parts(vocab[k].key)] @@ [of |-> vocab[k].key]]
      longest == Max({0} \cup {Len(e.key) : e \in Range(vocab)})
  IN FlattenSeq([n \in 1..longest |->
       SelectSeq(named, LAMBDA p : Len(p.key) > 1 /\ Len(p.key) = longest + 1 - n)])

\* resolveTokenVocabularyKey and its status
AsWord(vocab, word) ==
  [key |-> <<Canonical(word)>>, status |-> StatusOf(vocab, <<Canonical(word)>>)]

\* The first n words from i on, with nothing but blanks and brackets between them.
From(text, i, n) ==
  LET near == {j \in WordsOf(text) :
                 i <= j /\ \A k \in i..j : text[k] \notin {Stop, WideStop, Break, Image}}
  IN  {j \in near : Cardinality(near \cap i..j) <= n}

\* The words of the phrase stand there, beginning at i.
StandsAt(text, phrase, i) ==
  LET here == From(text, i, Len(phrase)) IN
  /\ text[i] \in Spellings /\ Cardinality(here) = Len(phrase)
  /\ \A j \in here : Canonical(text[j]) = phrase[Cardinality(here \cap i..j)]

\* Slip: a phrase takes words another one has taken.
ClaimedAgain(list, text, found, i) ==
  LET fits == {k \in DOMAIN list : StandsAt(text, list[k].key, i)} IN
  IF text[i] \notin Spellings \/ fits = {} THEN found
  ELSE LET p == list[Min(fits)] IN
       [j \in From(text, i, Len(p.key)) |-> [key |-> p.of, status |-> p.status]] @@ found

\* One round of the loop of classifyTokenOccurrences: the first phrase of the
\* list that stands here takes its words, unless one of them is taken.
Claimed(list, text, found, i) ==
  LET fits == {k \in DOMAIN list : /\ StandsAt(text, list[k].key, i)
                                   /\ From(text, i, Len(list[k].key)) \cap DOMAIN found = {}} IN
  IF fits = {} THEN found
  ELSE LET p == list[Min(fits)] IN
       [j \in From(text, i, Len(p.key)) |-> [key |-> p.of, status |-> p.status]] @@ found

\* The separable verbs of the vocabulary with this prefix, for this word
VerbsFor(vocab, word, prefix) ==
  {k \in DOMAIN vocab : Parts(vocab[k].key) = <<Canonical(word), Canonical(prefix)>>}

SameClause(text, i, j) == \A k \in i..j : text[k] \notin {Stop, Break}
Between(text, i, j) == Cardinality({k \in WordsOf(text) : i < k /\ k < j})

\* findGermanSeparableVerbMatches: a prefix belongs to the nearest verb before
\* it, in its clause, that is said with it and has no prefix yet.
VerbsTaken(vocab, text, taken, j) ==
  LET verbs == {i \in WordsOf(text) : /\ i < j /\ SameClause(text, i, j)
                                      /\ Between(text, i, j) < VerbReach
                                      /\ i \notin DOMAIN taken
                                      /\ VerbsFor(vocab, text[i], text[j]) # {}} IN
  IF \/ text[j] \notin Spellings \/ Canonical(text[j]) \notin VerbPrefixes
     \/ j \in DOMAIN taken \/ verbs = {}
  THEN taken
  ELSE LET i == Max(verbs)
           key == vocab[Min(VerbsFor(vocab, text[i], text[j]))].key
       IN [k \in {i, j} |-> key] @@ taken

SeparableVerbs(vocab, text, l) ==
  IF l # "de" THEN <<>>
  ELSE FoldLeft(LAMBDA taken, j : VerbsTaken(vocab, text, taken, j), <<>>,
                [j \in DOMAIN text |-> j])

\* classifyTokenOccurrences, with the phrases of an index
Classified(vocab, list, text, l) ==
  LET claimed == FoldLeft(LAMBDA found, i : Claimed(list, text, found, i), <<>>,
                          [i \in DOMAIN text |-> i])
      verbs == SeparableVerbs(vocab, text, l)
  IN [i \in DOMAIN verbs |-> [key |-> verbs[i], status |-> StatusOf(vocab, verbs[i])]]
     @@ claimed @@ [i \in WordsOf(text) |-> AsWord(vocab, text[i])]

\* getTokenStatsFromClassifications
Stats(words) ==
  [s \in Statuses \cup {"new"} |-> Cardinality({i \in DOMAIN words : words[i].status = s})]

\* buildLocalVocabIndex: words and the line of phrases, made of what was found
WordIndex(vocab, text, l) ==
  LET words == Classified(vocab, PhrasesIn(vocab), text, l) IN
  [words |-> {Canonical(text[i]) : i \in WordsOf(text)},
   line |-> {Parts(words[i].key) : i \in {i \in DOMAIN words : Len(words[i].key) > 1}}]

\* entryAppearsInText: a phrase, or a part of one that was found
Appears(key, index) ==
  LET words == Parts(key) IN
  IF Len(words) = 1 THEN words[1] \in index.words
  ELSE \E p \in index.line : \E i \in 0..(Len(p) - Len(words)) : SubSeq(p, i + 1, i + Len(words)) = words

-------------------------------------------------------------------------------
(* The sentence a word is shown in.                                        *)

\* How many brackets are open after going from i to j, never less than none
Depth(text, indexes, opener, closer) ==
  FoldLeft(LAMBDA depth, k : IF text[k] = opener THEN depth + 1
                             ELSE IF text[k] = closer /\ depth > 0 THEN depth - 1 ELSE depth,
           0, indexes)

Backwards(i, k) == [n \in 1..(i - k) |-> i - n]
Forwards(i, k) == [n \in 1..(k - i) |-> i + n]

\* getSentenceForWord: back to the stop before, on to the next one, both outside
\* the brackets opened on the way, but no farther than the paragraph or the reach.
StartOfSentence(text, i) ==
  Max({1} \cup {k \in 1..i : \/ i - k >= ContextReach
                             \/ k > 1 /\ text[k - 1] = Break
                             \/ /\ k > 1 /\ text[k - 1] \in {Stop, WideStop}
                                /\ Depth(text, Backwards(i, k), Close, Open) = 0})

EndOfSentence(text, i) ==
  Min({k \in i..Len(text) : \/ k = Len(text) \/ k - i >= ContextReach
                            \/ text[k + 1] = Break
                            \/ /\ k > i /\ text[k] \in {Stop, WideStop}
                               /\ Depth(text, Forwards(i, k), Open, Close) = 0})

\* getSentenceForWord of the modern algorithm, for the word at i
SentenceAt(text, i) == StartOfSentence(text, i)..EndOfSentence(text, i)

\* getClassicSentenceForWord: the stops alone count
ClassicSentenceAt(text, i) ==
  Max({1} \cup {k \in 2..i : text[k - 1] = Stop})
    ..Min({k \in i..Len(text) : k = Len(text) \/ (k > i /\ text[k] = Stop)})

-------------------------------------------------------------------------------
Act == tokenizerActs < MaxTokenizerActs /\ tokenizerActs' = tokenizerActs + 1

\* Slip: a new status of a known word is no new revision.
KeysChanged(vocab) ==
  /\ entries' = [entries EXCEPT ![lang] = vocab]
  /\ revision' = IF Len(vocab) = Len(entries[lang]) THEN revision ELSE revision + 1

\* Changes of the vocabulary go through the proxy, which counts them.
Changed(vocab) ==
  /\ entries' = [entries EXCEPT ![lang] = vocab]
  /\ revision' = revision + 1

\* setWordStatus, upsertVocabEntry
Save(key, status) ==
  /\ Act
  /\ StatusOf(entries[lang], key) # status
  /\ LET at == EntryOf(entries[lang], key) IN
     Changed(IF at = {} THEN Append(entries[lang], [key |-> key, status |-> status])
             ELSE [entries[lang] EXCEPT ![Min(at)].status = status])
  /\ UNCHANGED <<lang, phrases, open, session, lists>>

\* deleteWord
Delete(k) ==
  /\ Act
  /\ k \in DOMAIN entries[lang]
  /\ Changed(RemoveAt(entries[lang], k))
  /\ UNCHANGED <<lang, phrases, open, session, lists>>

\* switchLearningLanguage: another vocabulary
SwitchLanguage(l) ==
  /\ Act
  /\ l # lang
  /\ lang' = l /\ revision' = revision + 1
  /\ UNCHANGED <<entries, phrases, open, session, lists>>

\* openText
OpenText(text) ==
  /\ Act
  /\ text # open /\ open' = text
  /\ UNCHANGED <<entries, lang, revision, phrases, session, lists>>

\* getReaderSession and analyzeReaderSession: the Reader is rendered, or the
\* status of a word in it changes.  Phrases are kept by revision, whatever the text.
Analyze ==
  /\ [session EXCEPT !.words = <<>>]
       # [text |-> open, lang |-> lang, revision |-> revision, words |-> <<>>]
  /\ phrases' = IF phrases.revision = revision THEN phrases
                ELSE [revision |-> revision, list |-> PhrasesIn(entries[lang])]
  /\ session' = [text |-> open, lang |-> lang, revision |-> revision,
                 words |-> Classified(entries[lang], phrases'.list, open, lang)]
  /\ UNCHANGED <<entries, lang, revision, open, lists, tokenizerActs>>

\* computeSignature: of the vocabulary, the phrases alone
Signature(text) ==
  [text |-> text, lang |-> lang, phrases |-> {e.key : e \in {e \in Range(entries[lang]) : Len(e.key) > 1}}]

\* getTextVocabularyIndex, for a text that has no index under its signature
ListWords(text) ==
  /\ Act
  /\ Signature(text) \notin DOMAIN lists
  /\ lists' = (Signature(text) :> WordIndex(entries[lang], text, lang).line) @@ lists
  /\ UNCHANGED <<entries, lang, revision, phrases, open, session>>

TokenizerInit ==
  /\ lang \in Langs /\ open \in Texts
  /\ \E vocab \in Saved : entries = [l \in Langs |-> IF l = lang THEN vocab ELSE <<>>]
  /\ revision = 1 /\ phrases = NoPhrases /\ session = NoSession /\ lists = <<>>
  /\ tokenizerActs = 0

TokenizerNext ==
  \/ \E key \in Keys, s \in Statuses : Save(key, s)
  \/ \E k \in 1..MaxTokenizerActs : Delete(k)
  \/ \E l \in Langs : SwitchLanguage(l)
  \/ \E text \in Texts : OpenText(text) \/ ListWords(text)
  \/ Analyze

-------------------------------------------------------------------------------
TokenizerTypeOK ==
  /\ entries \in [Langs -> Seq([key : Keys, status : Statuses])]
  /\ lang \in Langs /\ open \in Texts /\ revision \in Nat \ {0}
  /\ tokenizerActs \in 0..MaxTokenizerActs

\* What the Reader shows under the present revision is what the vocabulary of
\* now says of the text: phrases kept from an earlier rendering, of another text
\* or of before a change of the vocabulary, are never taken for the present ones.
WordsAreShownAsSaved ==
  session.revision = revision /\ session.lang = lang =>
    session.words = Classified(entries[lang], PhrasesIn(entries[lang]), session.text, lang)

\* The Reader has rendered its text since the last change.
Rendered == session.revision = revision /\ session.text = open /\ session.lang = lang
VerbWords == DOMAIN SeparableVerbs(entries[lang], open, lang)

\* Every word is counted once.  Phrases do not overlap: a word shown as part of
\* one belongs to an occurrence of it whose words are all shown so, but for those
\* that a separable verb takes.  And none is overlooked: where a saved phrase
\* stands in the text, one of its words belongs to that or to another phrase.
PhrasesAreWhole ==
  Rendered => LET found == session.words IN
    /\ MapThenSumSet(LAMBDA s : Stats(found)[s], Statuses \cup {"new"}) = Cardinality(WordsOf(open))
    /\ \A i \in WordsOf(open) \ VerbWords : Len(found[i].key) > 1 =>
         \E first \in 1..i : LET here == From(open, first, Len(found[i].key)) IN
           /\ i \in here /\ StandsAt(open, Parts(found[i].key), first)
           /\ \A j \in here \ VerbWords : found[j] = found[i]
    /\ VerbWords = {} => \A e \in Range(entries[lang]) :
         Cardinality({i \in WordsOf(open) : found[i].key = e.key}) % Len(e.key) = 0
    /\ \A e \in Range(entries[lang]), i \in WordsOf(open) :
         Len(e.key) > 1 /\ StandsAt(open, Parts(e.key), i) =>
           \E j \in From(open, i, Len(e.key)) : Len(found[j].key) > 1

\* The words of a separable verb come in pairs of one clause, the verb before its
\* prefix: each verb has its own.
VerbsHaveTheirPrefix ==
  Rendered => \A e \in Range(entries[lang]) :
    LET verbs == SeparableVerbs(entries[lang], open, lang)
        mine == {i \in DOMAIN verbs : verbs[i] = e.key}
        prefixes == {i \in mine : Canonical(open[i]) \in VerbPrefixes} IN
    /\ Cardinality(mine) = 2 * Cardinality(prefixes)
    /\ \A i \in mine \ prefixes : \E j \in prefixes : i < j /\ SameClause(open, i, j)
    /\ \A j \in prefixes : Cardinality({i \in mine : i <= j /\ SameClause(open, i, j)})
                               >= 2 * Cardinality({i \in prefixes : i <= j /\ SameClause(open, i, j)})

\* The list of words agrees with the Reader: what the Reader shows as a word of
\* an entry makes that entry appear in the text, and an entry that appears has
\* its words in the text.  The lists are those of the phrases of now.
AppearingIsShowing ==
  /\ \A s \in DOMAIN lists : s = Signature(s.text) /\ s.lang = lang =>
       lists[s] = WordIndex(entries[lang], s.text, lang).line
  /\ Rendered => LET index == WordIndex(entries[lang], open, lang) IN
       \A e \in Range(entries[lang]) :
         /\ (\E i \in WordsOf(open) : session.words[i].key = e.key) => Appears(e.key, index)
         /\ Appears(e.key, index) =>
              \A w \in Range(Parts(e.key)) : \E i \in WordsOf(open) : Canonical(open[i]) = w

\* The sentence is within reach of the word at i on both sides.
Uncut(i) ==
  /\ i - StartOfSentence(open, i) < ContextReach
  /\ EndOfSentence(open, i) - i < ContextReach

\* In a text without brackets, words that have all of their sentence within reach
\* agree on it: whichever of them the learner takes, the same sentence is kept as
\* its example.  The other algorithm finds the same one, or, where a paragraph or a
\* wide stop ends it (tokenizer_v2.ts:391-396, :416-423), one that contains it.
SentencesAgree ==
  Rendered /\ {Open, Close} \cap Range(open) = {} =>
    \A i \in WordsOf(open) :
      /\ i \in SentenceAt(open, i) /\ SentenceAt(open, i) \subseteq ClassicSentenceAt(open, i)
      /\ \A j \in WordsOf(open) \cap SentenceAt(open, i) :
           Uncut(i) /\ Uncut(j) => SentenceAt(open, j) = SentenceAt(open, i)
      /\ Uncut(i) /\ (\A k \in ClassicSentenceAt(open, i) : open[k] \notin {WideStop, Break}) =>
           ClassicSentenceAt(open, i) = SentenceAt(open, i)

TextIsRead == PhrasesAreWhole /\ VerbsHaveTheirPrefix /\ SentencesAgree
ListsAgreeWithTheReader == WordsAreShownAsSaved /\ AppearingIsShowing

===============================================================================
