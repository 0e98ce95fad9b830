------------------------------- MODULE MCScreens -------------------------------
(* Six parts of the page's screens that share no state, each on a small     *)
(* instance: which of them moves is chosen at the start.                    *)
EXTENDS Integers, Sequences, TLC

VARIABLES
  part,
  entries, lang, revision, phrases, open, session, lists,
  stored, prefs, page, own, source, selected, loaded,
  language, discover, run, searches, results, shown, pager, token, key, chosen, queue, adding,
  fetching, library, legacy,
  shelf, store, gone, editing, generation, openings, fields, original, editor, saving, pasted,
  covers, vocab, word, saves, asking,
  settings, models, screen, sheet, timer, round, asked, download, redrawn,
  view, epoch, opening, dialog, focus, picked, graded, panel, card, grading, overlays, marks,
  again, last,
  acts                         \* of the part that moves

-------------------------------------------------------------------------------
(* Words in texts: "geht ... aus" is a verb whose prefix stands apart.     *)

MCSpelling(w) == IF w = "Geht" THEN "geht" ELSE w
MCKnown(k) == [key |-> k, status |-> "known"]
MCKeys == {<<"a">>, <<"a", "b">>, <<"b", "a">>, <<"a", "b", "c">>, <<"Geht", "aus">>}
MCText == <<"Geht", "(", "a", "b", ".", "a", ")", "aus", ".", "a", "(", "b", ")">>
Words == INSTANCE Tokenizer WITH
  Langs <- {"de", "fr"}, Spellings <- {"Geht", "geht", "a", "b", "c", "aus"},
  Canonical <- MCSpelling, VerbPrefixes <- {"aus"}, Keys <- MCKeys,
  Statuses <- {"known", "learning"}, MaxTokenizerActs <- 2, tokenizerActs <- acts,
  ContextReach <- 4,
  Texts <- {MCText, <<"a", "b", "break", "a", "wide stop", "b", "a", "break", "c">>,
            <<"a", "b", "a", "b", "c", "geht", "Geht", "b", "aus", ".", "c", "[IMG]", "aus">>},
  Saved <- {<<>>} \cup {<<MCKnown(<<"a", "b">>), MCKnown(k)>> : k \in MCKeys \ {<<"a", "b">>}}

-------------------------------------------------------------------------------
(* Snapshots of two words, of which some meet under one key.               *)

MCCanonical(l, w) == IF (l = "fr" /\ w = "l'eau") \/ w = "Eau" THEN "eau" ELSE w
MCEntry(w, s, since, review, plan, note, text, at, examples) ==
  [word |-> w, status |-> s, since |-> since, review |-> review, plan |-> plan, note |-> note,
   text |-> text, at |-> at, examples |-> examples]
MCRaw ==
  UNION {{MCEntry(w, "known", 1, 0, 0, 0, 0, 1, <<>>),
          MCEntry(w, "learning", 1, 2, 2, 0, -1, 2, <<"x">>),
          MCEntry(w, "learning", 2, 1, 3, 1, 0, 1, <<"x", "y">>),
          MCEntry(w, "?", 0, 0, 0, 2, 1, 2, <<"y", "z">>),
          MCEntry(w, "ignored", 1, 0, 0, 0, 2, 2, <<>>)} : w \in {"Eau", "eau", "l'eau"}}
Snapshots == INSTANCE Normalize WITH
  Languages <- {"fr", "de"}, Profile <- "other", Canonical <- MCCanonical,
  Spellings <- <<"Eau", "eau", "l'eau">>, Raw <- MCRaw, ItemIds <- <<"note", "image", "ai">>,
  Layouts <- {<<>>, <<"ai", "old", "ai", "note">>}, GuessLimit <- 1,
  MaxNormalizeActs <- 1, normalizeActs <- acts

-------------------------------------------------------------------------------
(* Searches: books by two authors, and articles of one wiki.               *)

MCCatalogue(s, l, q) ==
  IF s = "gutenberg" THEN IF q = "" THEN << <<"g1", "g2">>, <<"g3">> >> ELSE << <<"g2">> >>
  ELSE IF l # "fr" THEN << <<"w5">>, <<"w6">> >>
  ELSE IF q = "" THEN << <<"w1", "w2">>, <<"w3">>, <<"w4">> >> ELSE << <<"w2">>, <<"w1">> >>
MCYear(id) == IF id = "g1" THEN 1850 ELSE IF id = "g2" THEN 1800 ELSE 0
Found == INSTANCE Searches WITH
  Languages <- {"fr", "de"}, Sources <- {"gutenberg", "wikinews"}, Queries <- {"", "q"},
  Sorts <- {"newest", "year-asc"}, Levels <- {""}, Editions <- {<<"wikinews", "fr">>},
  Catalogue <- MCCatalogue, Year <- MCYear, MaxSearchActs <- 4, searchActs <- acts

-------------------------------------------------------------------------------
(* The editors of books and of words, the Translator, and the keys.        *)

MCKey(w) == IF w = "B" THEN "b" ELSE w
Edited == INSTANCE Editors WITH
  Texts <- {"t1", "t2"}, UserBooks <- {"u"}, Typed <- {"", "a", "B"}, Key <- MCKey,
  Statuses <- {"new", "learning"}, MaxEditorActs <- 4, editorActs <- acts,
  library <- shelf, open <- editor

Translation == INSTANCE Translator WITH
  Codes <- {"en", "fr", "pl"}, Profiles <- {"fr", "other"}, Locale <- "pl",
  DefaultCode <- "en", Typed <- {"", "a", "b"}, Providers <- {"offline", "google", "lmstudio"},
  MaxTranslatorActs <- 4, translatorActs <- acts,
  prefs <- settings, view <- screen, page <- sheet, generation <- round, dialog <- download

Keys == INSTANCE Keyboard WITH
  Page <- <<"a", "b", "a">>, Deck <- <<"a", "b">>, Statuses <- <<"new", "learning", "known">>,
  MaxKeys <- 5, keys <- acts, selected <- picked, entries <- graded, redrawn <- again

-------------------------------------------------------------------------------
wordVars == <<entries, lang, revision, phrases, open, session, lists>>
snapshotVars == <<stored, prefs, page, own, source, selected, loaded>>
foundVars == <<language, discover, run, searches, results, shown, pager, token, key, chosen,
               queue, adding, fetching, library, legacy>>
editedVars == <<shelf, store, gone, editing, generation, openings, fields, original, editor,
                saving, pasted, covers, vocab, word, saves, asking>>
translationVars == <<settings, models, screen, sheet, timer, round, asked, download, redrawn>>
keyVars == <<view, epoch, opening, dialog, focus, picked, graded, panel, card, grading, overlays,
             marks, again, last>>

\* The parts at rest start one way.
MCInit ==
  /\ part \in {"words", "snapshots", "found", "edited", "translation", "keys"}
  /\ IF part = "words" THEN TRUE
     ELSE lang = "de" /\ open = MCText /\ entries = [l \in {"de", "fr"} |-> <<>>]
  /\ IF part = "snapshots" THEN TRUE
     ELSE /\ stored = LET raw(w) == [key |-> w, entry |-> MCEntry(w, "known", 1, 0, 0, 0, 0, 1, <<>>)]
                      IN <<raw("eau"), raw("Eau")>>
          /\ source = "fr" /\ selected = ""
          /\ prefs = [onboarded |-> FALSE, guesses |-> 0, items |-> <<>>]
  /\ IF part = "found" THEN TRUE ELSE language = "fr" /\ legacy = {}
  /\ IF part = "edited" THEN TRUE
     ELSE vocab = ("a" :> [card |-> 1, word |-> "a", translation |-> 1, status |-> "new",
                           examples |-> <<>>, schedule |-> "none"] @@ "b" :> Edited!Absent)
  /\ IF part = "translation" THEN TRUE
     ELSE /\ models = {}
          /\ settings = [profile |-> "fr", source |-> "", target |-> "", provider |-> "google",
                         offline |-> FALSE, key |-> FALSE, model |-> FALSE]
  /\ IF part = "keys" THEN TRUE
     ELSE /\ view = "reader"
          /\ graded = [w \in {"a", "b"} |->
                         [status |-> "new", due |-> FALSE, at |-> 0, grades |-> 0]]
  /\ Words!TokenizerInit /\ Snapshots!NormalizeInit /\ Found!SearchesInit
  /\ Edited!EditorsInit /\ Translation!TranslatorInit /\ Keys!KeyboardInit

MCNext ==
  /\ UNCHANGED part
  /\ \/ part = "words" /\ Words!TokenizerNext
        /\ UNCHANGED <<snapshotVars, foundVars, editedVars, translationVars, keyVars>>
     \/ part = "snapshots" /\ Snapshots!NormalizeNext
        /\ UNCHANGED <<wordVars, foundVars, editedVars, translationVars, keyVars>>
     \/ part = "found" /\ Found!SearchesNext
        /\ UNCHANGED <<wordVars, snapshotVars, editedVars, translationVars, keyVars>>
     \/ part = "edited" /\ Edited!EditorsNext
        /\ UNCHANGED <<wordVars, snapshotVars, foundVars, translationVars, keyVars>>
     \/ part = "translation" /\ Translation!TranslatorNext
        /\ UNCHANGED <<wordVars, snapshotVars, foundVars, editedVars, keyVars>>
     \/ part = "keys" /\ Keys!KeyboardNext
        /\ UNCHANGED <<wordVars, snapshotVars, foundVars, editedVars, translationVars>>

MCSpec == MCInit /\ [][MCNext]_<<part, acts, wordVars, snapshotVars, foundVars, editedVars,
                                 translationVars, keyVars>>

-------------------------------------------------------------------------------
(* The properties of the parts, as their modules state them.               *)

\* The words of a text are read as the vocabulary has them, in the Reader and
\* in the lists of words alike.
WordsAreRead ==
  part = "words" => /\ Words!TokenizerTypeOK
                    /\ Words!TextIsRead /\ Words!ListsAgreeWithTheReader

\* A snapshot is taken over whole, words that meet under one key included.
WordsAreReadInFull ==
  /\ [](part = "snapshots" => /\ Snapshots!ReadingIsStable /\ Snapshots!OrderDoesNotMatter
                              /\ Snapshots!SelectionIsAWord)
  /\ [][part = "snapshots" => Snapshots!ReadingForgetsNothing /\ Snapshots!LatchesHold
      ]_<<snapshotVars, acts>>

\* The list shows what was asked for last, and adds what was ticked, once.
DiscoverKeepsUp == Found!DiscoverKeepsUp

\* An editor saves what stands in it to what was opened in it.
EditorsKeepFaith == Edited!EditorsKeepFaith

\* A translation shown is that of the text and the languages shown.
TranslatorIsHonest == Translation!TranslatorIsHonest

\* A key acts on what is shown when it is pressed.
KeysActOnWhatIsShown == Keys!KeysActOnWhatIsShown
===============================================================================
