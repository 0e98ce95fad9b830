------------------------------- MODULE TextStats -------------------------------
(***************************************************************************)
(* What is counted in a book: how many of its words are known, by a worker *)
(* of the page (stats-cache.ts), and which words it has, by the backend    *)
(* (vocab-index-client.ts).  Both keep results under a signature of the    *)
(* book's text, and results that arrive for an older vocabulary or an      *)
(* older text must not be kept.  The worker is told the vocabulary once    *)
(* per version; jobs hold the vocabulary itself, which goes on changing.   *)
(***************************************************************************)
EXTENDS Naturals, Sequences, FiniteSets, SequencesExt

CONSTANTS
  Books,          \* each with one text, so that a book stands for its signature
  Vocabularies,   \* the statuses of all words
  MaxActs         \* bound: edits, questions and voidings

ASSUME StatsAssumption == "nothing" \notin Vocabularies /\ "nothing" \notin Books

Nothing == "nothing"
NoJob == [book |-> Nothing, version |-> 0, round |-> 0, words |-> Nothing]
NoMark == <<>>

VARIABLES
  words,      \* state.vocab
  prepared,   \* vocabStatuses
  version,    \* vocabVersion
  round,      \* cacheGeneration
  asking,     \* pendingTextStats, in the order asked for
  active,     \* activeTextStats, with the vocabulary the worker counts by; or NoJob
  told,       \* workerVocabVersion, and that vocabulary
  worker,     \* "alive", or "failed"
  counts,     \* textStatsCache: the vocabulary a book was counted by, or Nothing
  crossed,    \* history: a job met another vocabulary than it was asked with
  marks,      \* vocab-index-client: globalGeneration and bookGenerations
  indexing,   \* indexes asked of the backend, with the mark of their book
  sought,     \* pending: the last request of each book, or NoMark
  index,      \* cache: the mark of the entry of each book, or NoMark
  acts

countVars == <<words, prepared, version, round, asking, active, told, worker, counts, crossed>>
indexVars == <<marks, indexing, sought, index>>
statsVars == <<countVars, indexVars, acts>>

Act == acts < MaxActs /\ acts' = acts + 1

-------------------------------------------------------------------------------
(* Counting.                                                               *)

\* cancelPendingStats and what goes with it: everybody who waits is told.
Cancelled(gone) ==
  /\ round' = round + 1
  /\ asking' = <<>>
  /\ counts' = [b \in Books |-> IF b \in gone THEN Nothing ELSE counts[b]]

\* What the page sends next: a vocabulary goes with the first job of its version.
Sent(wanted) ==
  IF told.version = wanted.version THEN told
  ELSE [version |-> wanted.version, words |-> words]

\* runNextTextStats, from jobs
Run(jobs) ==
  IF jobs = <<>> THEN active' = NoJob /\ asking' = jobs /\ UNCHANGED <<told, crossed>>
  ELSE LET wanted == Head(jobs) IN
       /\ told' = Sent(wanted)
       /\ active' = [book |-> wanted.book, version |-> wanted.version, round |-> wanted.round,
                     words |-> told'.words]
       /\ asking' = Tail(jobs)
       /\ crossed' = (crossed \/ (wanted.version = version /\ told'.words # prepared))

EditWord ==
  /\ Act
  /\ words' \in Vocabularies \ {words}
  /\ UNCHANGED <<prepared, version, round, asking, active, told, worker, counts, crossed, indexVars>>

\* prepareTextStats
Prepare ==
  /\ words # prepared
  /\ prepared' = words /\ version' = version + 1
  /\ Cancelled(Books)
  /\ UNCHANGED <<words, active, told, worker, crossed, indexVars, acts>>

\* getCachedTextStats, for what is not kept: a job, unless there is one, or
\* the count itself where there is no worker.  A batch that has prepared its
\* vocabulary before does not do so again.
Ask(b) ==
  /\ counts[b] = Nothing /\ Act
  /\ LET wanted == [book |-> b, version |-> version, round |-> round]
         underway == \/ active # NoJob /\ active.book = b /\ active.version = version
                     \/ \E i \in DOMAIN asking : asking[i].book = b
     IN  IF worker = "failed"
         THEN /\ counts' = [counts EXCEPT ![b] = words]
              /\ crossed' = (crossed \/ words # prepared)
              /\ UNCHANGED <<asking, active, told>>
         ELSE /\ ~underway
              /\ IF active = NoJob THEN Run(Append(asking, wanted))
                 ELSE asking' = Append(asking, wanted) /\ UNCHANGED <<active, told, crossed>>
              /\ UNCHANGED counts
  /\ UNCHANGED <<words, prepared, version, round, worker, indexVars>>

Keeps(wanted) == wanted.version = version /\ wanted.round = round

\* The worker answers.
Counted ==
  /\ active # NoJob /\ worker = "alive"
  /\ counts' = IF Keeps(active) THEN [counts EXCEPT ![active.book] = active.words] ELSE counts
  /\ Run(asking)
  /\ UNCHANGED <<words, prepared, version, round, worker, indexVars, acts>>

\* The worker fails: its job is counted here, by the words of now; the others
\* are forgotten.
WorkerFails ==
  /\ worker = "alive" /\ active # NoJob
  /\ worker' = "failed" /\ active' = NoJob /\ asking' = <<>>
  /\ IF active.round = round
     THEN /\ counts' = [counts EXCEPT ![active.book] = words]
          /\ crossed' = (crossed \/ words # prepared)
     ELSE UNCHANGED <<counts, crossed>>
  /\ UNCHANGED <<words, prepared, version, round, told, indexVars, acts>>

-------------------------------------------------------------------------------
(* The index of words.                                                     *)

\* fetchVocabIndex, unless it is kept or under way
Seek(b) ==
  /\ index[b] = NoMark /\ sought[b] # marks[b]
  /\ Act
  /\ indexing' = indexing \cup {[book |-> b, mark |-> marks[b]]}
  /\ sought' = [sought EXCEPT ![b] = marks[b]]
  /\ UNCHANGED <<countVars, marks, index>>

\* Slip: an answer is kept whatever has voided the book.
FoundAnyhow(r) ==
  /\ r \in indexing
  /\ indexing' = indexing \ {r}
  /\ sought' = IF sought[r.book] = r.mark THEN [sought EXCEPT ![r.book] = NoMark] ELSE sought
  /\ index' = [index EXCEPT ![r.book] = r.mark]
  /\ UNCHANGED <<countVars, marks, acts>>

\* requestVocabIndex: an answer asked for before the book was voided is dropped.
Found(r) ==
  /\ r \in indexing
  /\ indexing' = indexing \ {r}
  /\ sought' = IF sought[r.book] = r.mark THEN [sought EXCEPT ![r.book] = NoMark] ELSE sought
  /\ index' = IF r.mark = marks[r.book] THEN [index EXCEPT ![r.book] = r.mark] ELSE index
  /\ UNCHANGED <<countVars, marks, acts>>

NotFound(r) ==
  /\ r \in indexing
  /\ indexing' = indexing \ {r}
  /\ sought' = IF sought[r.book] = r.mark THEN [sought EXCEPT ![r.book] = NoMark] ELSE sought
  /\ UNCHANGED <<countVars, marks, index, acts>>

-------------------------------------------------------------------------------
(* Voiding.                                                                *)

Unmarked(gone) ==
  /\ sought' = [b \in Books |-> IF b \in gone THEN NoMark ELSE sought[b]]
  /\ index' = [b \in Books |-> IF b \in gone THEN NoMark ELSE index[b]]
  /\ UNCHANGED indexing

\* invalidateBookId, and invalidateTextStats of one book
Invalidate(b) ==
  /\ Act
  /\ marks' = [marks EXCEPT ![b] = <<@[1], @[2] + 1>>]
  /\ Unmarked({b}) /\ Cancelled({b})
  /\ UNCHANGED <<words, prepared, version, active, told, worker, crossed>>

\* clearVocabIndexCache, and invalidateTextStats of all: the numbers of the
\* books begin anew.
InvalidateAll ==
  /\ Act
  /\ marks' = [b \in Books |-> <<marks[b][1] + 1, 0>>]
  /\ Unmarked(Books) /\ Cancelled(Books)
  /\ UNCHANGED <<words, prepared, version, active, told, worker, crossed>>

-------------------------------------------------------------------------------
StatsInit ==
  /\ words \in Vocabularies /\ prepared = words /\ version = 1 /\ round = 0
  /\ asking = <<>> /\ active = NoJob /\ told = [version |-> 0, words |-> words]
  /\ worker = "alive" /\ crossed = FALSE
  /\ counts = [b \in Books |-> Nothing] /\ index = [b \in Books |-> NoMark]
  /\ marks = [b \in Books |-> <<0, 0>>] /\ indexing = {}
  /\ sought = [b \in Books |-> NoMark] /\ acts = 0

StatsNext ==
  \/ EditWord \/ Prepare \/ Counted \/ WorkerFails \/ InvalidateAll
  \/ \E b \in Books : Ask(b) \/ Seek(b) \/ Invalidate(b)
  \/ \E r \in indexing : Found(r) \/ NotFound(r)

StatsSpec == StatsInit /\ [][StatsNext]_statsVars

-------------------------------------------------------------------------------
\* What is kept was counted by the vocabulary it is kept for, and an index
\* was asked for since its book was last voided: no answer of before is taken
\* for one of now (stats-cache.test.js:160, :78).  Except where a word was
\* edited and a job sent before anyone looked at the vocabulary again.
CountsAreCurrent ==
  /\ \A b \in Books : counts[b] \in {Nothing, prepared} \/ crossed
  /\ \A b \in Books : index[b] \in {NoMark, marks[b]}
===============================================================================
