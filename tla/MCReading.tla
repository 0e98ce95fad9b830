------------------------------- MODULE MCReading -------------------------------
(* Four parts of reading that share no state, each on a small instance:    *)
(* which of them moves is chosen at the start.                             *)
EXTENDS Speech, Reader, TLC

VARIABLES
  part,
  text, missing, from, exact, timed, spoken, next, run, resyncs, outlined, lost,
  words, version, algorithm, perPage, page, bookmarks, resolved, remaps, generation, current,
  selected, selectedIndex, range, find, jumps, placeActs

MCAsks == "local" :> 3 @@ "edge" :> 3 @@ "android" :> 2

\* The texts of two words, and some in which none or some come twice
MCTexts == [1..5 -> {1, 2}] \cup {<<1, 2, 3, 4, 5>>, <<1, 2, 3, 1, 2>>, <<1, 2, 1, 3, 2>>}

Outline == INSTANCE Highlight WITH
  TextsRead <- MCTexts, Length <- 5, Break <- 3, MatchWindow <- 2, ResyncWindow <- 3,
  Lookahead <- 2, MaxResyncs <- 1, MaxMissing <- 2

MCPages == [b \in Books |-> 2]

\* Two texts, of which a word stands in both; an edit puts a sentence first
MCWords == {<<"a", " ", "b", "a", " ", "c">>, <<"b", "a", " ", "a">>}
MCEdited(t) == <<"d", " ">> \o t
Marks == INSTANCE Places WITH
  Texts <- MCWords, Edited <- MCEdited, PageSizes <- {2, 9}, MaxMarks <- 1, MaxPlaceActs <- 4,
  text <- words

outlineVars == <<text, missing, from, exact, timed, spoken, next, run, resyncs, outlined, lost>>
markVars == <<words, version, algorithm, perPage, page, bookmarks, resolved, remaps, generation,
              current, selected, selectedIndex, range, find, jumps, placeActs>>

MCInit ==
  /\ part \in {"voice", "outline", "book", "marks"}
  /\ IF part = "outline" THEN TRUE
     ELSE text = <<1, 2, 3, 4, 5>> /\ missing = {} /\ from = 1 /\ exact = TRUE /\ timed = TRUE
  /\ IF part = "voice" THEN TRUE ELSE platform = "edge"
  /\ Outline!HighlightInit /\ SpeechInit /\ ReaderInit /\ Marks!PlacesInit
  /\ part # "book" => ui.current = "novel" /\ ui.held = {}
  /\ perPage = 2
  /\ part # "marks" => Len(words) = 4 /\ algorithm = "modern"

MCNext ==
  /\ UNCHANGED part
  /\ \/ part = "voice" /\ SpeechNext /\ UNCHANGED <<outlineVars, readerVars, markVars>>
     \/ part = "outline" /\ Outline!OutlineNext /\ UNCHANGED <<speechVars, readerVars, markVars>>
     \/ part = "book" /\ ReaderNext /\ UNCHANGED <<speechVars, outlineVars, markVars>>
     \/ part = "marks" /\ Marks!PlacesNext /\ UNCHANGED <<speechVars, outlineVars, readerVars>>

\* Only voices, timers and requests are relied on to come to an end.
MCSpec == MCInit /\ [][MCNext]_<<part, speechVars, outlineVars, readerVars, markVars>> /\ SpeechFairness

-------------------------------------------------------------------------------
(* The properties of the parts, as their modules state them.               *)

\* The outline is on the word being spoken, or behind it by what was lost.
FollowsTheVoice == Outline!FollowsTheVoice

===============================================================================
