-------------------------------- MODULE Places --------------------------------
(* The places in an open book: bookmarks (reader/bookmarks.ts), what the   *)
(* search of the Reader finds (find.ts), the selected word or phrase       *)
(* (selection.ts, word-navigation.ts).  All of them are kept as numbers    *)
(* of words, while the words of the same text are others when the learner  *)
(* has them found by another algorithm, and when the text is edited.       *)
(*                                                                         *)
(* A text is a sequence of letters and blanks.  The classic algorithm      *)
(* takes for a word what stands between blanks, the modern one each        *)
(* letter: its words may touch each other.                                 *)
EXTENDS Integers, Sequences, FiniteSets, SequencesExt

CONSTANTS
  Texts,           \* the texts the book may have
  Edited(_),       \* what an edit makes of a text
  PageSizes,       \* words per page
  MaxMarks,        \* bound: bookmarks
  MaxPlaceActs     \* bound: acts of the learner

VARIABLES
  text, version,   \* the text of the book, and how often it was edited
  algorithm,       \* preferences.wordDetectionAlgorithm
  perPage, page,   \* preferences.wordsPerPage, readerPage
  bookmarks,       \* preferences.readerBookmarks of the book
  resolved,        \* resolvedBookmarkIndexes
  remaps,          \* remapReaderBookmarksForAlgorithm under way
  generation,      \* of changes of the algorithm
  current,         \* bookmarks and tokens are those of the text and algorithm of now
  selected, selectedIndex, range,   \* selectedWord, selectedWordIndex, readerSelectionRange
  find,            \* the find bar
  jumps,           \* renders a jump to a match waits for
  placeActs

placeVars == <<text, version, algorithm, perPage, page, bookmarks, resolved, remaps, generation,
               current, selected, selectedIndex, range, find, jumps, placeActs>>

markVars == <<bookmarks, resolved>>
selectionVars == <<selected, selectedIndex, range>>
findVars == <<find, jumps>>

None == -1
NoRange == [anchor |-> None, focus |-> None]
NoFind == [query |-> <<>>, matches |-> <<>>, index |-> 0, generation |-> 0, lit |-> {}]
Blank == " "

Algorithms == {"classic", "modern"}

\* The token that begins with the n-th letter of a text.
TokenAt(t, a, n) ==
  LET alone == a = "modern" \/ t[n] = Blank
      inside == ~alone /\ n > 1 /\ t[n - 1] # Blank
      last == CHOOSE m \in n..Len(t) :
                /\ \A i \in n..m : t[i] # Blank
                /\ m = Len(t) \/ t[m + 1] = Blank
  IN  [value |-> IF inside THEN <<>> ELSE SubSeq(t, n, IF alone THEN n ELSE last), start |-> n - 1]

\* The tokens of a text with the offset of each, and the words (getReaderSession).
Tokens(t, a) ==
  LET Begins(token) == token.value # <<>>
  IN  SelectSeq([n \in DOMAIN t |-> TokenAt(t, a, n)], Begins)

IsWord(token) == token.value # <<Blank>>
Words(t, a) == SelectSeq(Tokens(t, a), IsWord)

End(word) == word.start + Len(word.value)
Covers(word, offset) == word.start <= offset /\ offset < End(word)

TheTokens == Tokens(text, algorithm)
ThisWords == Words(text, algorithm)
TotalPages == IF ThisWords = <<>> THEN 1 ELSE 1 + (Len(ThisWords) - 1) \div perPage
PageOf(index) == 1 + index \div perPage            \* of a word, counted from 0

\* The numbers of the words on the page shown (computeIndexedPageSlice).
PageStart == (page - 1) * perPage
PageWords == {i \in 0..Len(ThisWords) - 1 : PageOf(i) = page}

Value(i) == ThisWords[i + 1].value

-------------------------------------------------------------------------------
(* Bookmarks.                                                              *)

Key(mark, a) == <<mark.id, a>>       \* the rest of the key never changes

ShownIndex(mark, a) ==
  IF Key(mark, a) \in DOMAIN resolved THEN resolved[Key(mark, a)] ELSE mark.wordIndex

ContextScore(ws, i, mark) ==
  (IF i > 0 /\ mark.before = ws[i].value THEN 1 ELSE 0)
  + (IF i + 2 <= Len(ws) /\ mark.after = ws[i + 2].value THEN 1 ELSE 0)

Distance(i, mark) == IF i < mark.wordIndex THEN mark.wordIndex - i ELSE i - mark.wordIndex

\* Slip: the offset before the word, though the text may have been edited.
TargetByOffset(ws, mark) ==
  LET at == {i \in 0..Len(ws) - 1 : Covers(ws[i + 1], mark.offset)}
      same == {i \in 0..Len(ws) - 1 : ws[i + 1].value = mark.word}
  IN IF at # {} THEN at ELSE {i \in same : \A j \in same : Distance(i, mark) <= Distance(j, mark)}

\* Where a bookmark is among other words: at the same word in the same context,
\* at the nearest of those, or else at the word over its offset; or nowhere.
Target(ws, mark) ==
  LET same == {i \in 0..Len(ws) - 1 : ws[i + 1].value = mark.word}
      better(i, j) == \/ ContextScore(ws, i, mark) > ContextScore(ws, j, mark)
                      \/ /\ ContextScore(ws, i, mark) = ContextScore(ws, j, mark)
                         /\ \/ Distance(i, mark) < Distance(j, mark)
                            \/ Distance(i, mark) = Distance(j, mark) /\ i <= j
  IN IF same # {} THEN {i \in same : \A j \in same : better(i, j)}
     ELSE {i \in 0..Len(ws) - 1 : Covers(ws[i + 1], mark.offset)}

Remapped(a) ==
  LET ws == Words(text, a)
      in(mark) == IF /\ mark.algorithm = a /\ mark.wordIndex < Len(ws)
                     /\ ws[mark.wordIndex + 1].value = mark.word
                  THEN {mark.wordIndex} ELSE Target(ws, mark)
      found == {mark \in Range(bookmarks) : in(mark) # {}}
  IN [k \in DOMAIN resolved \cup {Key(mark, a) : mark \in found} |->
        IF \E mark \in found : k = Key(mark, a)
        THEN CHOOSE i \in in(CHOOSE mark \in found : k = Key(mark, a)) : TRUE
        ELSE resolved[k]]

\* The words beside the marked one, as far as they are on the page.
Beside(i) == IF i \in PageWords THEN Value(i) ELSE <<>>

Marked(i) ==
  [id |-> placeActs, wordIndex |-> i, word |-> Value(i), offset |-> ThisWords[i + 1].start,
   before |-> Beside(i - 1), after |-> Beside(i + 1), algorithm |-> algorithm,
   of |-> version]                       \* of: for the properties alone

-------------------------------------------------------------------------------
(* Finding.                                                                *)

\* The words a query starts in, one match after the other.
Matches(query) ==
  LET starts[from \in 0..Len(text)] ==
        LET at == {o \in from..Len(text) - Len(query) : SubSeq(text, o + 1, o + Len(query)) = query}
            first == CHOOSE o \in at : \A p \in at : o <= p
        IN IF at = {} THEN <<>> ELSE <<first>> \o starts[first + Len(query)]
  IN [k \in DOMAIN starts[0] |->
        LET word == CHOOSE i \in 0..Len(ThisWords) - 1 : Covers(ThisWords[i + 1], starts[0][k])
        IN [page |-> PageOf(word),
            token |-> CHOOSE n \in DOMAIN TheTokens : TheTokens[n] = ThisWords[word + 1]]]

\* A page rendered anew shows no match.
Unlit == [find EXCEPT !.lit = {}]

\* A word is lit up to its end: the word that begins there is lit with it.
Touching(word, match) == word.start <= End(match) /\ match.start < End(word)

\* highlightPageMatch; the tokens may be others than when the match was found.
Highlighted(n) ==
  IF n \in DOMAIN TheTokens /\ IsWord(TheTokens[n])
  THEN {i \in PageWords : Touching(ThisWords[i + 1], TheTokens[n])} ELSE find.lit

\* The jump to a match: at once on this page, after a render on another one.
GoTo(f, index) ==
  LET at == IF index < 1 THEN 1 ELSE IF index > Len(f.matches) THEN Len(f.matches) ELSE index
      match == f.matches[at]
      next == [f EXCEPT !.index = at, !.generation = find.generation + 1]
  IN IF match.page = page
     THEN /\ find' = [next EXCEPT !.lit = Highlighted(match.token)]
          /\ UNCHANGED <<jumps, page, selectionVars>>
     ELSE /\ find' = [next EXCEPT !.lit = {}]
          /\ jumps' = jumps \cup {[token |-> match.token, generation |-> next.generation]}
          /\ page' = IF match.page > TotalPages THEN TotalPages ELSE match.page
          /\ selected' = <<>> /\ selectedIndex' = None /\ range' = NoRange

-------------------------------------------------------------------------------
PlacesInit ==
  /\ text \in Texts /\ version = 0
  /\ algorithm \in Algorithms /\ perPage \in PageSizes /\ page = 1
  /\ bookmarks = <<>> /\ resolved = <<>> /\ remaps = {} /\ generation = 0 /\ current = TRUE
  /\ selected = <<>> /\ selectedIndex = None /\ range = NoRange
  /\ find = NoFind /\ jumps = {} /\ placeActs = 0

Act == placeActs < MaxPlaceActs /\ placeActs' = placeActs + 1

\* The words a range of tokens of a page spans, if the page has them all.
PhraseOn(words, first, r) ==
  LET low == first + IF r.anchor < r.focus THEN r.anchor ELSE r.focus
      high == first + IF r.anchor < r.focus THEN r.focus ELSE r.anchor
  IN IF high >= Len(words) THEN <<>> ELSE [n \in 1..high - low + 1 |-> words[low + n].value]

Phrase(r) == PhraseOn(ThisWords, PageStart, r)

\* The range of the selection after a render: gone, if it spans other words now
\* (updateReaderSelection).
RangeAfter(a, n, p) ==
  LET last == (p - 1) * n + IF range.anchor < range.focus THEN range.focus ELSE range.anchor
  IN IF /\ range # NoRange /\ 1 + last \div n = p
        /\ PhraseOn(Words(text, a), (p - 1) * n, range) = selected
     THEN range ELSE NoRange

\* A bookmark at the selected word is set, or the one that is there removed.
ToggleReaderBookmark ==
  /\ Act /\ current
  /\ selectedIndex \in PageWords
  /\ LET here == {k \in DOMAIN bookmarks : ShownIndex(bookmarks[k], algorithm) = selectedIndex}
     IN IF here # {}
        THEN \E k \in here : bookmarks' = RemoveAt(bookmarks, k)
        ELSE Len(bookmarks) < MaxMarks /\ bookmarks' = Append(bookmarks, Marked(selectedIndex))
  /\ UNCHANGED <<text, version, algorithm, perPage, page, resolved, remaps, generation, current,
                 selectionVars, findVars>>

\* A jump shows the page a bookmark is on now.
JumpToReaderBookmark(k) ==
  /\ Act /\ current
  /\ page' = PageOf(ShownIndex(bookmarks[k], algorithm))
  /\ find' = Unlit /\ range' = RangeAfter(algorithm, perPage, page')
  /\ UNCHANGED <<text, version, algorithm, perPage, bookmarks, resolved, remaps, generation,
                 current, selected, selectedIndex, jumps>>

\* The algorithm is changed only once the bookmarks are found among its words.
ChangeAlgorithm(a) ==
  /\ Act
  /\ generation' = generation + 1
  /\ remaps' = {r \in remaps : r.kind # "settings"} \cup
               {[r EXCEPT !.wanted = a] : r \in {s \in remaps : s.kind = "settings"}} \cup
               {[kind |-> "settings", target |-> a, wanted |-> a, generation |-> generation + 1,
                 of |-> None, marks |-> {}]}
  /\ UNCHANGED <<text, version, algorithm, perPage, page, bookmarks, resolved, current,
                 selectionVars, findVars>>

\* The preferences are reset first, and the bookmarks found afterwards.
ResetPreferences ==
  /\ Act
  /\ algorithm' = "modern" /\ generation' = generation + 1
  /\ remaps' = remaps \cup
       {[kind |-> "reset", target |-> "modern", wanted |-> "modern", generation |-> generation + 1,
         of |-> None, marks |-> {}]}
  /\ current' = FALSE
  /\ UNCHANGED <<text, version, perPage, page, bookmarks, resolved, selectionVars, findVars>>

\* The bookmarks of the book are found among the words of its text of now.
RemapReaderBookmarks(r) ==
  /\ r.of = None
  /\ remaps' = (remaps \ {r}) \cup {[r EXCEPT !.of = version, !.marks = Range(bookmarks)]}
  /\ resolved' = Remapped(r.target)
  /\ UNCHANGED <<text, version, algorithm, perPage, page, bookmarks, generation, current,
                 selectionVars, findVars, placeActs>>

\* With those of all books found, the change is made; one that is overtaken by
\* another is not.  A text edited and a bookmark set meanwhile were not found.
RemapDone(r) ==
  LET live == r.generation = generation /\ r.wanted = r.target
      changes == r.kind = "settings" /\ live
      shown == r.kind = "reload" \/ (live /\ r.kind = "reset" /\ algorithm = r.target)
      rendered == changes \/ shown
      now == IF changes THEN r.target ELSE algorithm
  IN /\ r.of # None
     /\ remaps' = remaps \ {r}
     /\ algorithm' = now
     /\ current' = IF rendered /\ r.target = now
                   THEN r.of = version /\ Range(bookmarks) \subseteq r.marks ELSE current
     /\ page' = IF changes THEN 1 ELSE IF rendered /\ page > TotalPages THEN TotalPages ELSE page
     /\ find' = IF rendered THEN Unlit ELSE find
     /\ range' = IF rendered THEN RangeAfter(now, perPage, page') ELSE range
     /\ UNCHANGED <<text, version, perPage, bookmarks, resolved, generation, selected,
                    selectedIndex, jumps, placeActs>>

\* A synchronised or edited text; its bookmarks are found again after it.
EditText ==
  /\ Act /\ version = 0 /\ version' = 1
  /\ text' = Edited(text) /\ current' = FALSE
  /\ remaps' = remaps \cup
       {[kind |-> "reload", target |-> algorithm, wanted |-> algorithm, generation |-> generation,
         of |-> None, marks |-> {}]}
  /\ UNCHANGED <<algorithm, perPage, page, bookmarks, resolved, generation, selectionVars,
                 findVars>>

ChangeWordsPerPage(n) ==
  /\ Act /\ n # perPage /\ current
  /\ perPage' = n /\ page' = 1 /\ find' = Unlit /\ range' = RangeAfter(algorithm, n, 1)
  /\ UNCHANGED <<text, version, algorithm, bookmarks, resolved, remaps, generation, current,
                 selected, selectedIndex, jumps>>

-------------------------------------------------------------------------------
TurnPage(p) ==
  /\ Act /\ current /\ p \in 1..TotalPages /\ p # page
  /\ page' = p /\ selected' = <<>> /\ selectedIndex' = None /\ range' = NoRange
  /\ find' = Unlit
  /\ UNCHANGED <<text, version, algorithm, perPage, bookmarks, resolved, remaps, generation,
                 current, jumps>>

\* A tap on a word; or the next or the previous one on the page.
SelectReaderToken(i) ==
  /\ Act /\ current /\ i \in PageWords
  /\ selected' = <<Value(i)>> /\ selectedIndex' = i
  /\ range' = [anchor |-> i - PageStart, focus |-> i - PageStart]
  /\ UNCHANGED <<text, version, algorithm, perPage, page, markVars, remaps, generation, current,
                 findVars>>

\* The selection grows by the word before or after its end, as far as the page goes.
ExtendReaderSelection(step) ==
  LET next == IF PageStart + range.focus + step \in PageWords THEN range.focus + step ELSE range.focus
  IN /\ Act /\ current /\ range # NoRange
     /\ range' = [range EXCEPT !.focus = next]
     /\ selected' = Phrase(range')
     /\ UNCHANGED <<text, version, algorithm, perPage, page, markVars, remaps, generation, current,
                    selectedIndex, findVars>>

-------------------------------------------------------------------------------
\* Another query searches the text; the same one goes on to the next match.
RunFind(query) ==
  /\ Act /\ current
  /\ IF query # find.query
     THEN LET matches == Matches(query)
              f == [find EXCEPT !.query = query, !.matches = matches, !.index = 0]
          IN IF matches = <<>>
             THEN find' = f /\ UNCHANGED <<jumps, page, selectionVars>>
             ELSE GoTo(f, 1)
     ELSE find.matches # <<>> /\ GoTo(find, find.index + 1)
  /\ UNCHANGED <<text, version, algorithm, perPage, markVars, remaps, generation, current>>

\* The bar is closed or emptied: no jump under way lights anything any more.
CloseReaderFind ==
  /\ Act
  /\ find' = [NoFind EXCEPT !.generation = find.generation + 1]
  /\ UNCHANGED <<text, version, algorithm, perPage, page, markVars, remaps, generation, current,
                 selectionVars, jumps>>


\* The page a jump waits for is rendered; an overtaken jump shows nothing.
Rendered(j) ==
  /\ jumps' = jumps \ {j}
  /\ find' = IF j.generation = find.generation THEN [find EXCEPT !.lit = Highlighted(j.token)] ELSE find
  /\ UNCHANGED <<text, version, algorithm, perPage, page, markVars, remaps, generation, current,
                 selectionVars, placeActs>>

PlacesNext ==
  \/ ToggleReaderBookmark
  \/ \E k \in DOMAIN bookmarks : JumpToReaderBookmark(k)
  \/ \E a \in Algorithms : ChangeAlgorithm(a)
  \/ ResetPreferences \/ EditText
  \/ \E r \in remaps : RemapReaderBookmarks(r) \/ RemapDone(r)
  \/ \E n \in PageSizes : ChangeWordsPerPage(n)
  \/ \E p \in 1..TotalPages : TurnPage(p)
  \/ \E i \in PageWords : SelectReaderToken(i)
  \/ \E step \in {-1, 1} : ExtendReaderSelection(step)
  \/ \E t \in Texts \cup {text} : \E l \in Range(t) \ {Blank} : RunFind(<<l>>)
  \/ CloseReaderFind
  \/ \E j \in jumps : Rendered(j)

-------------------------------------------------------------------------------
\* Once the bookmarks are found again, a bookmark whose word stands once in the
\* text of now is at that word, however text and algorithm have changed since;
\* one whose word is no word any more, but a part of one, is at that one.
BookmarksStayAtTheirWord ==
  current => \A k \in DOMAIN bookmarks :
    LET mark == bookmarks[k]
        same == {i \in 0..Len(ThisWords) - 1 : Value(i) = mark.word}
        at == ShownIndex(mark, algorithm)
    IN /\ Cardinality(same) = 1 => at \in same
       /\ same = {} /\ mark.of = version => Covers(ThisWords[at + 1], mark.offset)

\* What is lit is the match the bar counts, if it counts one, and no other word but
\* the one that begins where that ends (find.ts:104): a query without a match leaves
\* the words of the query before lit.  The selected phrase is what stands in the
\* selected range.
LitIsWhatIsCounted ==
  /\ current /\ find.lit # {} /\ find.matches # <<>> =>
       LET counted == TheTokens[find.matches[find.index].token]
       IN  \A i \in PageWords :
             LET word == ThisWords[i + 1]
             IN  /\ word = counted => i \in find.lit
                 /\ i \in find.lit => word = counted \/ word.start = End(counted)
  /\ current /\ range # NoRange => selected = Phrase(range)
===============================================================================
