------------------------------- MODULE Highlight -------------------------------
(***************************************************************************)
(* The word outlined while a text is read aloud (the tracker of tts.ts).   *)
(* The voice tells which word it speaks, by an offset into the sentence or *)
(* by the times Edge sent along; the words on the page were found by       *)
(* another tokenizer and may lack some.  A spoken word is looked for close *)
(* behind the last one found; where it is missing, the outline jumps to a  *)
(* word that is about to be spoken.                                        *)
(***************************************************************************)
EXTENDS Naturals, Sequences, FiniteSets, FiniteSetsExt

CONSTANTS
  TextsRead,      \* the words of the texts on the page
  Length,         \* bound: how many they have
  Break,          \* the words of its first sentence; the second has the others
  MatchWindow,    \* TTS_LOCAL_MATCH_WINDOW
  ResyncWindow,   \* TTS_RESYNC_WINDOW_TOKENS
  Lookahead,      \* TTS_RESYNC_LOOKAHEAD_RUNS
  MaxResyncs,     \* TTS_MAX_RESYNCS_PER_SENTENCE
  MaxMissing      \* bound: words the page lacks

VARIABLES
  text,       \* the text's words
  missing,    \* the words (by position) that are no token of the page
  from,       \* reading begins at this word
  exact,      \* the caller knew its token (startTokenIndex)
  timed,      \* the voice sends times instead of offsets
  spoken,     \* the word being spoken, or the one before from
  next,       \* tokenIndex: the first token that may still be outlined
  run,        \* sentenceRunIndex
  resyncs,    \* resyncsThisSentence
  outlined,   \* currentTtsWordToken
  lost        \* history: an event of the voice did not arrive

highlightVars == <<text, missing, from, exact, timed, spoken, next, run, resyncs, outlined, lost>>

Positions == 1..Length
Sentence(i) == IF i <= Break THEN from..Break ELSE Max({from, Break + 1})..Length

\* The tokens at position i or behind it; a window counts tokens.
Tokens(i) == {j \in i..Length : j \notin missing}
Within(i, n) == {j \in Tokens(i) : Cardinality(i..j \ missing) <= n}

\* findTtsTokenStart: the first six words are looked for from the beginning.
Begins(i) == \A k \in 0..5 : from + k <= Length =>
  \E j \in Tokens(i) : Cardinality(i..j \ missing) = k + 1 /\ text[j] = text[from + k]
TokenStart == IF exact THEN from
              ELSE LET found == {i \in Tokens(1) : Begins(i)} IN
                   IF found = {} THEN 1 ELSE Min(found)

\* Slip: the token that was outlined may be outlined again.
OutlineAgain(j) == outlined' = j /\ next' = j

Outline(j) == outlined' = j /\ next' = j + 1

-------------------------------------------------------------------------------
\* advanceSentenceRun, from run number i
Advanced(i, word) ==
  LET last == Max(Sentence(spoken'))
      hits == {j \in i..last : text[j] = word}
  IN  IF hits = {} THEN last + 1 ELSE Min(hits) + 1

\* resyncTtsHighlight, with the runs from i on still to come: the first token
\* after the next one that is among the next few of them
Resync(i, used) ==
  LET upcoming == {text[j] : j \in {k \in i..Max(Sentence(spoken')) :
                     Cardinality({text[l] : l \in i..k}) <= Lookahead}}
      targets == {j \in Within(next, ResyncWindow) : text[j] \in upcoming
                                                     /\ j # Min(Tokens(next))}
  IN  IF used < MaxResyncs /\ targets # {}
      THEN Outline(Min(targets)) /\ resyncs' = used + 1
      ELSE UNCHANGED <<outlined, next>> /\ resyncs' = used

\* highlightNextTtsWord
HighlightNext(i, used, word) ==
  LET hits == {j \in Within(next, MatchWindow) : text[j] = word} IN
  IF hits # {}
  THEN /\ Outline(Min(hits))
       /\ run' = Advanced(i, word) /\ resyncs' = used
  ELSE Resync(i, used) /\ run' = i

\* The next word is spoken; with a new sentence the tracker begins anew.  An
\* offset tells the run, a time only how many have begun.
Speak(heard) ==
  /\ spoken < Length
  /\ spoken' = spoken + 1
  /\ lost' = (lost \/ ~heard)
  /\ LET new == spoken' = Min(Sentence(spoken'))
         i == IF new THEN spoken' ELSE run
         used == IF new THEN 0 ELSE resyncs
     IN  IF heard THEN HighlightNext(IF timed THEN i ELSE spoken', used, text[spoken'])
         ELSE run' = i /\ resyncs' = used /\ UNCHANGED <<outlined, next>>
  /\ UNCHANGED <<text, missing, from, exact, timed>>

HighlightInit ==
  /\ text \in TextsRead
  /\ missing \in {m \in SUBSET Positions : Cardinality(m) <= MaxMissing}
  /\ from \in Positions \ missing
  /\ exact \in BOOLEAN /\ timed \in BOOLEAN
  /\ spoken = from - 1
  /\ next = TokenStart /\ run = from /\ resyncs = 0 /\ outlined = 0 /\ lost = FALSE

\* Events of engines that send offsets may not arrive; times are read off
\* the audio.
OutlineNext == Speak(TRUE) \/ (~timed /\ Speak(FALSE))

HighlightSpec == HighlightInit /\ [][OutlineNext]_highlightVars

-------------------------------------------------------------------------------
\* Where the page has all the words, the outline is on the word being spoken
\* as long as the voice tells of each, and behind it, never ahead, if it does
\* not, or if the beginning had to be looked for.  Where the page lacks some,
\* and no word occurs twice, the outline is ahead by the words looked ahead
\* for at the most.
FollowsTheVoice ==
  /\ missing = {} =>
       /\ outlined <= spoken
       /\ exact /\ ~lost /\ spoken >= from => outlined = spoken
  /\ Cardinality({text[i] : i \in Positions}) = Length => outlined < spoken + Lookahead
===============================================================================
