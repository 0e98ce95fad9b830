------------------------------ MODULE Searches ------------------------------
(***************************************************************************)
(* The Discover view: searches in Project Gutenberg, Wikipedia and         *)
(* Wikinews, the pages of their results, the results the user ticks, and   *)
(* the books added from them to the library of the active profile          *)
(* (src/src/web/js/views/discover.ts, discover/*.ts, events/discover.ts,   *)
(* book-actions/sources.ts).                                               *)
(*                                                                         *)
(* A search is a request that answers later, if at all: the user goes on   *)
(* typing, turning pages, ticking results and switching the language, and  *)
(* a newer search aborts the one before.  An article of a wiki is fetched  *)
(* before it joins the library, one after the other when several were      *)
(* ticked.  Titles, covers and messages are left out; a result is its id.  *)
(***************************************************************************)
EXTENDS Naturals, Sequences, FiniteSets, SequencesExt

CONSTANTS
    Languages,          \* the learning languages
    Sources,            \* "gutenberg" and the wikis
    Queries,            \* what the user types; "" is the empty query
    Sorts,              \* the orders offered, "newest" and "year-asc" among them
    Levels,             \* the levels offered; "" is none
    Editions,           \* <<wiki, language>>: the editions that exist
    Catalogue(_, _, _), \* the pages of ids of a source, in a language, for a query
    Year(_),            \* the year of birth of the author of a book; 0 is unknown
    MaxSearchActs       \* a bound on what the user does

VARIABLES
    language,   \* the learning language of the active profile
    discover,   \* state.discover: [source, query, sort, level, page]
    run,        \* searchRunId
    searches,   \* the requests not yet answered, aborted ones too: [run, asked]
    results,    \* lastResults: [asked, place, ids]; asked is Never before the first
    shown,      \* what the list shows: "loading", "results" or "error"
    pager,      \* _cachedPrev, _cachedNext
    token,      \* _mwContinueToken, the place it continues at; 0 is none
    key,        \* _mwSearchKey
    chosen,     \* selected, in the order of the ticks
    queue,      \* what addSelected has yet to add
    adding,     \* addingSelected
    fetching,   \* the articles being fetched: [id, language, all]
    library,    \* the books of the profiles: <<language, id>>
    legacy,     \* articles 1.1.0 saved as books that never loaded: <<language, id>>
    searchActs

searchVars == <<language, discover, run, searches, results, shown, pager, token, key,
                chosen, queue, adding, fetching, library, legacy, searchActs>>

Never == [source |-> "none", language |-> "", query |-> "", sort |-> "", level |-> "",
          page |-> 0, token |-> 0]

SearchesTypeOK ==
    /\ language \in Languages
    /\ discover.source \in Sources /\ discover.query \in Queries /\ discover.page \in Nat
    /\ \A s \in searches : s.run \in 1 .. run /\ s.asked.source \in Sources
    /\ shown \in {"loading", "results", "error"}
    /\ adding \in BOOLEAN
    /\ library \subseteq Languages \X UNION {ToSet(p) : p \in UNION {
           ToSet(Catalogue(s, l, q)) : s \in Sources, l \in Languages, q \in Queries}}

-----------------------------------------------------------------------------
(* The catalogues as the clients ask them. *)

IsWiki(source) == source # "gutenberg"

\* searchMediaWiki asks without a query for the newest articles, page after page.
Continues(asked) == IsWiki(asked.source) /\ asked.query = "" /\ asked.sort = "newest"

\* Without a query or an order a wiki gives articles at random.
AtRandom(asked) == IsWiki(asked.source) /\ asked.query = "" /\ asked.sort # "newest"

PagesOf(asked) == Catalogue(asked.source, asked.language, asked.query)

\* The pages of the catalogue that may answer a request.
Places(asked) ==
    IF AtRandom(asked) THEN 1 .. Len(PagesOf(asked))
    ELSE IF Continues(asked) THEN {IF asked.page = 1 \/ asked.token = 0 THEN 1 ELSE asked.token}
    ELSE {asked.page}

YearSorted(asked) == ~IsWiki(asked.source) /\ asked.sort = "year-asc"

\* Gutendex cannot sort by year: the page it sent is sorted, unknown years last.
Before(a, b) == Year(a) # 0 /\ (Year(b) = 0 \/ Year(a) < Year(b))

IdsAt(asked, place) ==
    LET page == IF place \in DOMAIN PagesOf(asked) THEN PagesOf(asked)[place] ELSE <<>>
    IN  IF YearSorted(asked) THEN SortSeq(page, Before) ELSE page

HasMore(asked, place) ==
    /\ ~AtRandom(asked)
    /\ ~YearSorted(asked)
    /\ place < Len(PagesOf(asked))

HasPrevious(asked) == ~YearSorted(asked) /\ asked.page > 1

-----------------------------------------------------------------------------
(* Searching. *)

\* A wiki the learning language has no edition of gives way to Gutenberg.
Synced(d, l) ==
    IF IsWiki(d.source) /\ <<d.source, l>> \notin Editions
      THEN [d EXCEPT !.source = "gutenberg"] ELSE d

KeyOf(d, l) == <<d.source, l, d.query>>

\* Another wiki, language or query does not continue the pages of the last one.
TokenFor(d, l) == IF key = KeyOf(d, l) THEN token ELSE 0

\* runDiscoverSearch up to its request.
Search(d) ==
    LET s == Synced(d, language)
        t == IF IsWiki(s.source) THEN TokenFor(s, language) ELSE token
    IN  /\ discover' = s
        /\ run' = run + 1
        /\ key' = IF IsWiki(s.source) THEN KeyOf(s, language) ELSE key
        /\ token' = t
        /\ searches' = searches \cup {[run |-> run + 1,
              asked |-> [source |-> s.source, language |-> language, query |-> s.query,
                         sort |-> s.sort, level |-> s.level, page |-> s.page, token |-> t]]}
        /\ shown' = "loading"

SearchActs ==
    /\ searchActs < MaxSearchActs
    /\ searchActs' = searchActs + 1

Ask(d) ==
    /\ SearchActs
    /\ Search(d)
    /\ UNCHANGED <<language, results, pager, chosen, queue, adding, fetching, library, legacy>>

\* Every handler takes what is typed, q, with it.
Submit(q) == Ask([discover EXCEPT !.query = q, !.page = 1])

ChooseSource(q, s) == Ask([discover EXCEPT !.query = q, !.source = s, !.page = 1])

\* The orders are Gutenberg's and Wikinews'; Wikipedia's select is disabled.
ChooseSort(q, s) ==
    /\ discover.source # "wikipedia"
    /\ Ask([discover EXCEPT !.query = q, !.sort = s, !.page = 1])

ChooseLevel(q, l) ==
    /\ discover.source = "gutenberg"
    /\ Ask([discover EXCEPT !.query = q, !.level = l, !.page = 1])

\* The buttons under the results on display.
TurnForward ==
    /\ shown = "results" /\ results.ids # <<>> /\ pager.next
    /\ Ask([discover EXCEPT !.page = @ + 1])

TurnBack ==
    /\ shown = "results" /\ results.ids # <<>> /\ pager.previous /\ discover.page > 1
    /\ Ask([discover EXCEPT !.page = @ - 1])

\* Slip: every answer is shown, that of an overtaken search too.
HeardAnyhow(s) == TRUE

\* An answer is heard unless a newer search was begun.
Heard(s) == s.run = run

Answer(s, place) ==
    /\ s \in searches
    /\ place \in Places(s.asked)
    /\ searches' = searches \ {s}
    /\ IF Heard(s)
         THEN LET ids == IdsAt(s.asked, place)
              IN  /\ results' = [asked |-> s.asked, place |-> place, ids |-> ids]
                  /\ token' = IF ~IsWiki(s.asked.source) THEN token
                              ELSE IF Continues(s.asked) /\ HasMore(s.asked, place)
                                THEN place + 1 ELSE 0
                  /\ pager' = IF ids = <<>> THEN pager
                              ELSE [previous |-> HasPrevious(s.asked),
                                    next |-> HasMore(s.asked, place)]
                  /\ shown' = "results"
         ELSE UNCHANGED <<results, token, pager, shown>>
    /\ UNCHANGED <<language, discover, run, key, chosen, queue, adding, fetching,
                   library, legacy, searchActs>>

\* The request failed twice, or was aborted.
Fail(s) ==
    /\ s \in searches
    /\ searches' = searches \ {s}
    /\ IF Heard(s)
         THEN /\ results' = [results EXCEPT !.asked = s.asked, !.ids = <<>>]
              /\ shown' = "error"
         ELSE UNCHANGED <<results, shown>>
    /\ UNCHANGED <<language, discover, run, pager, token, key, chosen, queue, adding, fetching,
                   library, legacy, searchActs>>

\* switchLearningLanguage and the render after it: the results stay.
SwitchLanguage(l) ==
    /\ SearchActs
    /\ l # language
    /\ language' = l
    /\ discover' = Synced([discover EXCEPT !.page = 1], l)
    /\ shown' = "results"
    /\ UNCHANGED <<run, searches, results, pager, token, key, chosen, queue, adding, fetching,
                   library, legacy>>

-----------------------------------------------------------------------------
(* Ticking and adding. *)

Found == ToSet(results.ids)

Tick(id) ==
    /\ SearchActs
    /\ id \in Found /\ shown = "results"
    /\ chosen' = IF id \in ToSet(chosen) THEN SelectSeq(chosen, LAMBDA i : i # id)
                                         ELSE Append(chosen, id)
    /\ UNCHANGED <<language, discover, run, searches, results, shown, pager, token, key, queue,
                   adding, fetching, library, legacy>>

\* "Select all" and "Clear" draw the results anew, even while a search is under way.
TickAll(on) ==
    /\ SearchActs
    /\ chosen' = IF on THEN chosen \o SelectSeq(results.ids, LAMBDA i : i \notin ToSet(chosen))
                       ELSE SelectSeq(chosen, LAMBDA i : i \notin Found)
    /\ shown' = "results"
    /\ UNCHANGED <<language, discover, run, searches, results, pager, token, key, queue,
                   adding, fetching, library, legacy>>

\* addUserBook and addMediaWikiArticle refuse what the active profile has.
Addable(id) == id \in Found /\ <<language, id>> \notin library

Without(s, ids) == SelectSeq(s, LAMBDA i : i \notin ids)

\* addSelected goes on with the rest of its copy of the ticks: a book of Gutenberg joins
\* at once, an article is fetched first.
GoOn(rest, books, ticks, fetched) ==
    LET wanted == SelectSeq(rest, LAMBDA i : i \in Found /\ <<language, i>> \notin books)
    IN  IF IsWiki(results.asked.source)
          THEN IF wanted = <<>>
                 THEN /\ queue' = <<>> /\ adding' = FALSE /\ library' = books
                      /\ chosen' = ticks /\ fetching' = fetched
                 ELSE /\ queue' = Tail(wanted) /\ adding' = TRUE /\ library' = books
                      /\ chosen' = ticks
                      /\ fetching' = fetched \cup
                           {[id |-> Head(wanted), language |-> language, all |-> TRUE]}
          ELSE /\ queue' = <<>> /\ adding' = FALSE /\ fetching' = fetched
               /\ library' = books \cup {<<language, i>> : i \in ToSet(wanted)}
               /\ chosen' = Without(ticks, ToSet(wanted))

AddSelected ==
    /\ SearchActs
    /\ chosen # <<>> /\ ~adding
    /\ GoOn(chosen, library, chosen, fetching)
    /\ shown' = "results"
    /\ UNCHANGED <<language, discover, run, searches, results, pager, token, key, legacy>>

\* The button of one result.
AddOne(id) ==
    /\ SearchActs
    /\ shown = "results" /\ Addable(id)
    /\ IF IsWiki(results.asked.source)
         THEN /\ fetching' = fetching \cup {[id |-> id, language |-> language, all |-> FALSE]}
              /\ UNCHANGED <<library, chosen>>
         ELSE /\ library' = library \cup {<<language, id>>}
              /\ chosen' = Without(chosen, {id})
              /\ UNCHANGED fetching
    /\ UNCHANGED <<language, discover, run, searches, results, shown, pager, token, key, queue,
                   adding, legacy>>

\* Slip: the article joins whatever profile is active when it arrives.
JoinsAnyhow(f) == TRUE

\* The article joins the profile that was active when it was added, or none.
Joins(f) == f.language = language

\* The request for an article ended, well or not.
Arrive(f, well) ==
    LET joined == well /\ Joins(f)
        books == IF joined THEN library \cup {<<language, f.id>>} ELSE library
        ticks == IF joined THEN Without(chosen, {f.id}) ELSE chosen
    IN  /\ f \in fetching
        /\ legacy' = IF joined THEN legacy \ {<<language, f.id>>} ELSE legacy
        /\ IF f.all THEN GoOn(queue, books, ticks, fetching \ {f})
           ELSE /\ library' = books /\ chosen' = ticks /\ fetching' = fetching \ {f}
                /\ UNCHANGED <<queue, adding>>
        /\ shown' = "results"
        /\ UNCHANGED <<language, discover, run, searches, results, pager, token, key, searchActs>>

-----------------------------------------------------------------------------

SearchesInit ==
    /\ language \in Languages
    /\ discover = Synced([source |-> CHOOSE s \in Sources : IsWiki(s), query |-> "",
                          sort |-> "newest", level |-> "", page |-> 1], language)
    /\ run = 0 /\ searches = {}
    /\ results = [asked |-> Never, place |-> 0, ids |-> <<>>]
    /\ shown = "results"
    /\ pager = [previous |-> FALSE, next |-> FALSE]
    /\ token = 0 /\ key = <<>>
    /\ chosen = <<>> /\ queue = <<>> /\ adding = FALSE /\ fetching = {}
    /\ library = {} /\ legacy \in {{}, {<<language, PagesOf([Never EXCEPT
          !.source = discover.source, !.language = language])[1][1]>>}}
    /\ searchActs = 0

SearchesNext ==
    \/ \E q \in Queries : Submit(q)
    \/ \E q \in Queries, s \in Sources : ChooseSource(q, s)
    \/ \E q \in Queries, s \in Sorts : ChooseSort(q, s)
    \/ \E q \in Queries, l \in Levels : ChooseLevel(q, l)
    \/ TurnForward
    \/ TurnBack
    \/ \E s \in searches : \E p \in Places(s.asked) : Answer(s, p)
    \/ \E s \in searches : Fail(s)
    \/ \E l \in Languages : SwitchLanguage(l)
    \/ \E id \in Found : Tick(id)
    \/ \E on \in BOOLEAN : TickAll(on)
    \/ AddSelected
    \/ \E id \in Found : AddOne(id)
    \/ \E f \in fetching, well \in BOOLEAN : Arrive(f, well)

-----------------------------------------------------------------------------

\* When no answer is awaited any more, the results are those of the last search begun,
\* whatever order the answers of the searches it overtook came in.
LastSearchIsShown ==
    (\A s \in searches : s.run # run) /\ run > 0 =>
        /\ shown # "loading"
        /\ results.asked.query = discover.query
        /\ results.asked.sort = discover.sort

\* Turning on from a page shows the page that follows it, although the pages of the newest
\* articles are found only by a token the page before handed out.
PagesFollow ==
    [][ LET old == results.asked  new == results'.asked
        IN  /\ results'.ids # <<>> /\ results.ids # <<>> /\ new # old
            /\ new.page = old.page + 1
            /\ ~AtRandom(new)
            /\ KeyOf(new, new.language) = KeyOf(old, old.language) /\ new.sort = old.sort
            => results'.place = results.place + 1 ]_searchVars

\* A ticked result stays ticked until the user clears it or it has joined a library, a
\* library only ever takes a result in while its own profile is active, and a failed or
\* overtaken download leaves the tick to try again.
TicksAreKept ==
    [][ /\ \A id \in ToSet(chosen) \ ToSet(chosen') :
             \/ <<language, id>> \in library'
             \/ searchActs' # searchActs /\ library' = library
        /\ \A b \in library' \ library :
             /\ b[1] = language
             /\ \/ b[2] \in Found
                \/ \E f \in fetching : f.id = b[2] /\ f.language = b[1]
        /\ \A f \in fetching \ fetching' :
             <<f.language, f.id>> \notin library' /\ f.id \in ToSet(chosen)
                 => f.id \in ToSet(chosen') ]_searchVars

\* The Discover view shows what was asked last, page by page, and adds what was ticked.
DiscoverKeepsUp == [](SearchesTypeOK /\ LastSearchIsShown) /\ PagesFollow /\ TicksAreKept
=============================================================================
