-------------------------------- MODULE Library --------------------------------
(* The books of the learner's languages: they are imported, moved from one *)
(* profile to another, removed, hidden and archived by operations of       *)
(* several requests each, which may fail, while imports go on in the       *)
(* background.                                                             *)
(*                                                                         *)
(* The page keeps the lists, the store the texts; a save makes the store   *)
(* follow the lists, a snapshot the lists the store.  A save and the       *)
(* snapshot it brings back are one step here (StoreSync has what comes     *)
(* between), a text's content is a value, its metadata is its language,    *)
(* and bookmarks and places are there or not.  The texts a page caches are *)
(* those of the store (TextCache), and the last text read of a language is *)
(* left out.                                                               *)
EXTENDS Naturals, Sequences, FiniteSets

CONSTANTS
  Langs,
  Titles,       \* of the learner's own texts
  UserBooks,    \* Gutenberg books that may be added to a profile
  Catalog,      \* built-in books
  MaxBodies,    \* bound: imports
  MaxTurns,     \* bound: what the learner does
  MaxFailures   \* bound: requests that fail

\* A full text has an id of its own in each profile, and none a user book has.
ASSUME LibraryAssumption ==
  /\ Titles \cap UserBooks = {} /\ Titles # {} /\ Langs # {}
  /\ \A l \in Langs : "full-" \o l # "user"

VARIABLES
  lang,       \* the learning language
  lists,      \* what the page lists
  places,     \* the texts a reading position is known of
  current,    \* the open text, or NoId
  disk,       \* what the backend has on disk
  base,       \* the texts the backend knows the page to have
  dirty,      \* the page has changes no save has taken
  tasks,      \* the operation of the dialog, and an import in the background
  known,      \* history: the texts that were listed and not removed since
  bookmarked, \* history: of these, those with a place whose bookmarks were saved
  overtaken,  \* history: "replanned": a move found the id it had planned taken;
              \* "strayed": it found another id free, its copy has the one planned;
              \* "half done": neither the save nor the reload of a move came through;
              \* "undone": a reload undid a move under way, or took the place of a
              \* text whose bookmarks were saved; "erased": a save deleted a text just stored
  bodies, turns, failures

shown == <<lists, places, current, dirty>>
files == <<disk, base>>
history == <<known, bookmarked>>
bounds == <<bodies, turns, failures>>
libraryVars == <<lang, shown, files, tasks, history, overtaken, bounds>>

Slots == {"dialog", "background"}
NoId == [lang |-> "", title |-> "", n |-> <<>>]
Idle == [op |-> "idle", at |-> "", id |-> NoId, new |-> NoId, to |-> "", drop |-> {},
         places |-> {}, current |-> NoId]

Own(l, title) == [lang |-> l, title |-> title, n |-> <<>>]

NoBody == <<>>

\* The content of an import: an own text is a new one each time, the full text
\* of a book is the same whenever it is fetched.
Imported(id, n) == <<id.lang, id.title, IF id.title \in Titles THEN n ELSE 0>>

\* The full text of a book: one of each profile, and an older one of none.
FullIds(b, l) == {Own("full-" \o l, b), Own("full", b)}

Listed == {t.id : t \in lists.texts}
InProfile(l) == {t.id : t \in {x \in lists.texts : x.profile = l}}

Content(id) == {t.body : t \in {x \in disk.texts : x.id = id}}

\* A number is appended to an id another text of the page has.
Unique(id) ==
  LET At(k) == IF k = 1 THEN id ELSE [id EXCEPT !.n = Append(@, k)]
      free == {k \in 1..Cardinality(Listed) + 1 : At(k) \notin Listed}
  IN At(CHOOSE k \in free : \A j \in free : k <= j)

Planned(id, l) == Unique([id EXCEPT !.lang = l])

-------------------------------------------------------------------------------
(* Saves and snapshots.                                                    *)

Upserted(task) == IF task.op = "move" THEN task.new ELSE task.id

\* Slip: what the page does not list goes, known or not.
SavedAsListed ==
  [lists EXCEPT !.texts =
    {[id |-> i, lang |-> (CHOOSE t \in lists.texts : t.id = i).lang,
      body |-> IF Content(i) = {} THEN NoBody ELSE CHOOSE c \in Content(i) : TRUE] : i \in Listed}]

\* A save: what the page no longer lists goes, if it was known to have it.
\* A text the store has no body of is recorded without one.
Saved ==
  [lists EXCEPT !.texts =
    {t \in disk.texts : t.id \notin base \cup Listed}
    \cup {[id |-> i, lang |-> (CHOOSE t \in lists.texts : t.id = i).lang,
           body |-> IF Content(i) = {} THEN NoBody ELSE CHOOSE c \in Content(i) : TRUE] : i \in Listed}]

\* A text stored and not listed yet goes as well, if the page is known to
\* have had one of its id.
Store ==
  /\ disk' = Saved
  /\ overtaken' = overtaken \cup
       {"erased" : s \in {x \in Slots : tasks[x].at = "stored" /\ Upserted(tasks[x]) \in base \ Listed}}
  /\ bookmarked' = bookmarked \cup
       {c \in known : \E t \in Saved.texts : t.body = c /\ t.id \in Listed \cap lists.marks \cap places}

\* A snapshot of s: each text is in the profile of its own language.
Snapshot(s) ==
  /\ lists' = [s EXCEPT !.texts = {[profile |-> t.lang, id |-> t.id, lang |-> t.lang] : t \in s.texts}]
  /\ base' = {t.id : t \in s.texts}

Without(texts, id) == {t \in texts : t.id # id}
UpsertText(id, l, c) ==
  disk' = [disk EXCEPT !.texts = Without(@, id) \cup {[id |-> id, lang |-> l, body |-> c]}]
DeleteText(id) == disk' = [disk EXCEPT !.texts = Without(@, id)]

MayFail == failures < MaxFailures /\ failures' = failures + 1

-------------------------------------------------------------------------------
(* The lists.                                                              *)

\* A book leaves a profile, and the archive; what is known of a book no
\* profile has is forgotten.
Dropped(p, l, ids) ==
  LET texts == {t \in p.texts : ~(t.profile = l /\ t.id \in ids)}
      books == {b \in p.books : ~(b.profile = l /\ b.id \in ids)}
      left == {x.id : x \in texts} \cup {x.id : x \in books}
  IN [p EXCEPT !.texts = texts, !.books = books,
               !.archived = {x \in @ : ~(x.profile = l /\ x.id \in ids)},
               !.marks = @ \ (ids \ left)]

Referenced(p, id) == \E t \in p.texts \cup p.books : t.id = id
Forgotten(p, ids) == {i \in places : i \in ids => Referenced(p, i)}
Closed(ids) == IF current \in ids THEN NoId ELSE current

\* A full text has no card of its own while its book is there.
HasCard(id) ==
  /\ id \in InProfile(lang)
  /\ id.title \in Titles \/ [profile |-> lang, id |-> Own("user", id.title)] \notin lists.books

Turn == turns < MaxTurns /\ turns' = turns + 1
Free(slot) == tasks[slot] = Idle
Begin(slot, task) == Free(slot) /\ tasks' = [tasks EXCEPT ![slot] = task]
Goes(slot, at) == tasks' = [tasks EXCEPT ![slot].at = at]
Ends(slot) == tasks' = [tasks EXCEPT ![slot] = Idle]

\* What the learner gives up, nothing need be kept of.
Relinquish(ids) ==
  LET gone == UNION {Content(i) : i \in ids}
  IN known' = known \ gone /\ bookmarked' = bookmarked \ gone

\* removeCustomText: the text leaves the list, and after the save its body.
RemoveText(id) ==
  /\ HasCard(id) /\ Turn
  /\ lists' = Dropped(lists, lang, {id})
  /\ Begin("dialog", [Idle EXCEPT !.op = "remove", !.at = "save",
                        !.drop = IF \E t \in lists'.texts : t.id = id THEN {} ELSE {id}])
  /\ places' = Forgotten(lists', {id}) /\ current' = Closed({id})
  /\ dirty' = TRUE /\ Relinquish({id})
  /\ UNCHANGED <<lang, files, overtaken, bodies, failures>>

\* removeUserBook: the book goes with the full text kept for it.
RemoveBook(b) ==
  LET fulls == FullIds(b, lang) \cap InProfile(lang)
      ids == {Own("user", b)} \cup fulls
  IN /\ [profile |-> lang, id |-> Own("user", b)] \in lists.books /\ Turn
     /\ lists' = Dropped(lists, lang, ids)
     /\ Begin("dialog", [Idle EXCEPT !.op = "removeBook", !.at = "save", !.drop = fulls])
     /\ places' = Forgotten(lists', ids) /\ current' = Closed(ids)
     /\ dirty' = TRUE /\ Relinquish(fulls)
     /\ UNCHANGED <<lang, files, overtaken, bodies, failures>>

\* addUserBook
AddBook(b) ==
  /\ [profile |-> lang, id |-> Own("user", b)] \notin lists.books /\ Turn
  /\ lists' = [lists EXCEPT !.books = @ \cup {[profile |-> lang, id |-> Own("user", b)]}]
  /\ dirty' = TRUE
  /\ UNCHANGED <<lang, places, current, files, tasks, history, overtaken, bodies, failures>>

\* archiveBook and unarchiveBook
Archive(id, on) ==
  LET entry == [profile |-> lang, id |-> id] IN
  /\ Free("dialog") /\ Turn
  /\ (entry \in lists.archived) # on
  /\ lists' = [lists EXCEPT !.archived = IF on THEN @ \cup {entry} ELSE @ \ {entry}]
  /\ dirty' = TRUE
  /\ UNCHANGED <<lang, places, current, files, tasks, history, overtaken, bodies, failures>>

\* hideBuiltInBook
Hide(b) ==
  LET entry == [profile |-> lang, id |-> Own("builtin", b)] IN
  /\ Free("dialog") /\ Turn
  /\ entry \notin lists.hidden
  /\ lists' = [lists EXCEPT !.hidden = @ \cup {entry}, !.archived = @ \ {entry}]
  /\ current' = Closed({entry.id}) /\ dirty' = TRUE
  /\ UNCHANGED <<lang, places, files, tasks, history, overtaken, bodies, failures>>

\* A text that is there is read, and a bookmark set in it.
Read(id) ==
  /\ Free("dialog") /\ id \in InProfile(lang) /\ ~(Content(id) \subseteq {NoBody}) /\ Turn
  /\ current' = id /\ places' = places \cup {id}
  /\ lists' = [lists EXCEPT !.marks = @ \cup {id}] /\ dirty' = TRUE
  /\ UNCHANGED <<lang, files, tasks, history, overtaken, bodies, failures>>

SwitchLanguage(l) ==
  /\ Free("dialog") /\ l # lang /\ Turn
  /\ lang' = l /\ current' = NoId /\ dirty' = TRUE
  /\ UNCHANGED <<lists, places, files, tasks, history, overtaken, bodies, failures>>

-------------------------------------------------------------------------------
(* Imports.                                                                *)

\* importCustomText, in a dialog: the id is chosen before the text is stored.
Import(title) ==
  /\ Turn
  /\ Begin("dialog", [Idle EXCEPT !.op = "import", !.at = "upsert", !.to = lang,
                        !.id = Unique(Own(lang, title))])
  /\ UNCHANGED <<lang, shown, files, history, overtaken, bodies, failures>>

\* loadFullGutenbergText: a copy already kept is opened, else one is fetched.
LoadFull(b) ==
  LET own == Own("full-" \o lang, b)
      cached == IF own \in InProfile(lang) THEN {own} ELSE FullIds(b, lang) \cap InProfile(lang)
  IN
  /\ [profile |-> lang, id |-> Own("user", b)] \in lists.books /\ Free("dialog") /\ Turn
  /\ \/ /\ \E i \in cached : ~(Content(i) \subseteq {NoBody}) /\ current' = i
        /\ dirty' = TRUE /\ UNCHANGED tasks
     \/ /\ \A i \in cached : Content(i) \subseteq {NoBody}
        /\ Begin("background", [Idle EXCEPT !.op = "import", !.at = "fetch", !.id = own])
        /\ UNCHANGED <<current, dirty>>
  /\ UNCHANGED <<lang, lists, places, files, history, overtaken, bodies, failures>>

\* The text is there, and is imported for the language of now.
Fetched(slot) ==
  /\ tasks[slot].at = "fetch"
  /\ \/ tasks' = [tasks EXCEPT ![slot].at = "upsert", ![slot].to = lang]
     \/ Ends(slot)
  /\ UNCHANGED <<lang, shown, files, history, overtaken, bounds>>

\* upsert_text: the backend stores the text, or the copy a move makes.
Stored(slot) ==
  LET task == tasks[slot] IN
  /\ task.at = "upsert" /\ Goes(slot, "stored")
  /\ \/ /\ task.op = "import" /\ bodies < MaxBodies /\ bodies' = bodies + 1
        /\ UpsertText(task.id, task.to, Imported(task.id, bodies'))
     \/ /\ task.op = "move" /\ UNCHANGED bodies
        /\ \E c \in Content(task.id) : UpsertText(task.new, task.to, c)
  /\ UNCHANGED <<lang, shown, base, history, overtaken, turns, failures>>

Removing(id) == tasks["dialog"].op = "remove" /\ id \in tasks["dialog"].drop

\* An imported text is listed in the profile of now; one the learner is
\* removing, known from a reload between, is not kept.
ImportListed(slot) ==
  LET task == tasks[slot] IN
  /\ task.op = "import" /\ task.at = "stored"
  /\ lists' = [lists EXCEPT !.texts =
       {t \in @ : ~(t.profile = lang /\ t.id = task.id)}
       \cup {[profile |-> lang, id |-> task.id, lang |-> task.to]}]
  /\ dirty' = TRUE /\ Goes(slot, "save")
  /\ known' = known \cup (IF Removing(task.id) THEN {} ELSE Content(task.id) \ {NoBody})
  /\ UNCHANGED <<lang, places, current, files, bookmarked, overtaken, bounds>>

-------------------------------------------------------------------------------
(* Moves.                                                                  *)

\* moveBookToProfile, a text: its body is loaded under the id planned for it.
Move(id, to) ==
  /\ id.title \in Titles /\ id \in InProfile(lang) /\ to # lang /\ Turn
  /\ Begin("dialog",
       [Idle EXCEPT !.op = "move", !.at = "load", !.id = id, !.to = to, !.new = Planned(id, to),
                    !.places = places, !.current = current])
  /\ UNCHANGED <<lang, shown, files, history, overtaken, bodies, failures>>

Loaded ==
  LET task == tasks["dialog"] IN
  /\ task.op = "move" /\ task.at = "load"
  /\ IF Content(task.id) \subseteq {NoBody} THEN Ends("dialog") ELSE Goes("dialog", "upsert")
  /\ UNCHANGED <<lang, shown, files, history, overtaken, bounds>>

\* Slip: the bookmarks stay behind.
MovedToBare(task, new) ==
  LET p == Dropped(lists, lang, {task.id})
  IN /\ lists' = [p EXCEPT !.texts = @ \cup {[profile |-> task.to, id |-> new, lang |-> task.to]}]
     /\ places' = IF task.id \in places THEN (places \ {task.id}) \cup {new} ELSE places

\* moveCustomTextToProfile: the id is planned again, of the lists of now, and
\* what is known of the text goes with it.
MovedTo(task, new) ==
  LET p == Dropped(lists, lang, {task.id})
      still == Referenced(p, task.id)
  IN /\ lists' = [p EXCEPT !.texts = @ \cup {[profile |-> task.to, id |-> new, lang |-> task.to]},
                          !.marks = IF task.id \in lists.marks THEN @ \cup {new} ELSE @]
     /\ places' = IF task.id \in places
                  THEN (IF still THEN places ELSE places \ {task.id}) \cup {new} ELSE places

\* A text gone from the list meanwhile is not moved.
MoveListed ==
  LET task == tasks["dialog"]
      new == Planned(task.id, task.to)
  IN /\ task.op = "move" /\ task.at = "stored"
     /\ IF task.id \in InProfile(lang)
        THEN /\ MovedTo(task, new) /\ current' = Closed({task.id}) /\ dirty' = TRUE
             /\ overtaken' = overtaken
                  \cup (IF new = task.new THEN {} ELSE {"replanned"})
                  \cup (IF new = task.new \/ task.new \in Listed THEN {} ELSE {"strayed"})
             /\ tasks' = [tasks EXCEPT !["dialog"] =
                            [task EXCEPT !.at = "save", !.new = new, !.drop = {task.id}]]
        ELSE Ends("dialog") /\ UNCHANGED <<shown, overtaken>>
     /\ UNCHANGED <<lang, files, history, bounds>>

\* A user book moves as it is: its full text is dropped, and what is known of
\* that is carried to the full text the other profile will have.
MoveBook(b, to) ==
  LET id == Own("user", b)
      fulls == FullIds(b, lang)
      target == Own("full-" \o to, b)
      dropped == fulls \cap InProfile(lang)
      p == [Dropped(lists, lang, {id}) EXCEPT !.books = @ \cup {[profile |-> to, id |-> id]}]
      carried == IF fulls \cap lists.marks # {} THEN {target} ELSE {}
      q == Dropped([p EXCEPT !.marks = @ \cup carried], lang, dropped)
      where == places \cup (IF fulls \cap places # {} THEN {target} ELSE {})
  IN /\ [profile |-> lang, id |-> id] \in lists.books /\ to # lang /\ Turn
     /\ lists' = q
     /\ places' = {i \in where : i \in dropped \cup {id} => Referenced(q, i)}
     /\ current' = Closed(dropped \cup {id}) /\ dirty' = TRUE
     /\ Relinquish(dropped)
     /\ Begin("dialog", [Idle EXCEPT !.op = "moveBook", !.at = "save", !.drop = dropped,
                                     !.places = places, !.current = current])
     /\ UNCHANGED <<lang, files, overtaken, bodies, failures>>

-------------------------------------------------------------------------------
(* How operations go on.                                                   *)

\* An upsert fails, perhaps after it was done: the operation is given up.
UpsertFails(slot) ==
  /\ tasks[slot].at \in {"upsert", "stored"} /\ MayFail /\ Ends(slot)
  /\ UNCHANGED <<lang, shown, files, history, overtaken, bodies, turns>>

\* The save of an operation succeeds; all but removals have the lists follow
\* its snapshot, unless they have changed again.
SaveSucceeds(slot) ==
  LET task == tasks[slot] IN
  /\ task.at = "save"
  /\ Store
  /\ \/ lists' = lists /\ base' = Listed
     \/ task.op \notin {"remove", "removeBook"} /\ Snapshot(Saved)
  /\ dirty' = (task.op = "import")
  /\ \/ task.op = "import" /\ task.id \in Listed /\ current' = task.id
     \/ (task.op = "import" /\ task.id \in Listed => slot = "background") /\ UNCHANGED current
  /\ IF task.op = "import" THEN Ends(slot) ELSE Goes(slot, "cleanup")
  /\ UNCHANGED <<lang, places, known, bounds>>

\* It fails, perhaps after it was done.  A removed book stays off the list.
SaveFails(slot) ==
  LET task == tasks[slot] IN
  /\ task.at = "save" /\ MayFail
  /\ \/ UNCHANGED <<files, bookmarked, overtaken>>
     \/ Store /\ base' = Listed
  /\ IF task.op = "removeBook" THEN Ends(slot) ELSE Goes(slot, "reload")
  /\ UNCHANGED <<lang, shown, known, bodies, turns>>

\* The lists are those of the store again, and a move is undone.
Reloaded(slot) ==
  LET task == tasks[slot] IN
  /\ task.at = "reload"
  /\ Snapshot(disk) /\ dirty' = FALSE
  /\ IF task.op \in {"move", "moveBook"}
     THEN /\ places' = task.places /\ current' = task.current
          /\ IF task.op = "move"
             THEN tasks' = [tasks EXCEPT ![slot] = [task EXCEPT !.at = "cleanup", !.drop = {task.new}]]
             ELSE Ends(slot)
     ELSE Ends(slot) /\ UNCHANGED <<places, current>>
  /\ overtaken' = overtaken \cup
       IF \/ /\ task.op \in {"move", "moveBook"}
             /\ \E t \in disk.texts : t.id \in (disk.marks \cap places) \ task.places
          \/ slot = "background" /\ tasks["dialog"].op = "move"
       THEN {"undone"} ELSE {}
  /\ UNCHANGED <<lang, disk, history, bounds>>

ReloadFails(slot) ==
  /\ tasks[slot].at = "reload" /\ MayFail /\ Ends(slot)
  /\ overtaken' = overtaken \cup IF tasks[slot].op \in {"move", "moveBook"} THEN {"half done"} ELSE {}
  /\ UNCHANGED <<lang, shown, files, history, bodies, turns>>

\* What is no longer needed is deleted, one text after the other; a removal
\* has decided before its save, a move looks again.
DeleteLeft(slot) ==
  LET task == tasks[slot] IN
  /\ task.at = "cleanup"
  /\ IF task.drop = {} THEN Ends(slot) /\ UNCHANGED <<disk, failures>>
     ELSE \E id \in task.drop :
       /\ tasks' = [tasks EXCEPT ![slot].drop = @ \ {id}]
       /\ \/ /\ task.op = "remove" \/ ~\E t \in lists.texts : t.id = id
             /\ \/ DeleteText(id) /\ UNCHANGED failures
                \/ MayFail /\ UNCHANGED disk
          \/ /\ task.op # "remove" /\ \E t \in lists.texts : t.id = id
             /\ UNCHANGED <<disk, failures>>
  /\ UNCHANGED <<lang, shown, base, history, overtaken, bodies, turns>>

\* A save nobody waits for.
Autosave ==
  /\ dirty /\ Store /\ base' = Listed /\ dirty' = FALSE
  /\ UNCHANGED <<lang, lists, places, current, tasks, known, bounds>>

LibraryInit ==
  LET t == CHOOSE x \in Titles : TRUE
      l == CHOOSE x \in Langs : TRUE
      p == [texts |-> {[profile |-> l, id |-> Own(l, t), lang |-> l]},
            books |-> {[profile |-> l, id |-> Own("user", b)] : b \in UserBooks},
            archived |-> {}, hidden |-> {}, marks |-> {Own(l, t)}]
  IN /\ lists = p /\ lang = l
     /\ disk = [p EXCEPT !.texts = {[id |-> Own(l, t), lang |-> l, body |-> Imported(Own(l, t), 1)]}]
     /\ base = {Own(l, t)} /\ places = {Own(l, t)} /\ current = NoId
     /\ dirty = FALSE /\ tasks = [s \in Slots |-> Idle]
     /\ known = {Imported(Own(l, t), 1)} /\ bookmarked = known /\ overtaken = {}
     /\ bodies = 1 /\ turns = 0 /\ failures = 0

LibraryNext ==
  \/ \E id \in Listed : RemoveText(id) \/ Read(id) \/ \E to \in Langs : Move(id, to)
  \/ \E id \in Listed \cup {b.id : b \in lists.books} \cup {Own("builtin", b) : b \in Catalog},
        on \in BOOLEAN :
       Archive(id, on)
  \/ \E b \in UserBooks : AddBook(b) \/ RemoveBook(b) \/ LoadFull(b) \/ \E to \in Langs : MoveBook(b, to)
  \/ \E b \in Catalog : Hide(b)
  \/ \E l \in Langs : SwitchLanguage(l)
  \/ \E title \in Titles : Import(title)
  \/ Loaded \/ MoveListed \/ Autosave
  \/ \E slot \in Slots :
       \/ Fetched(slot) \/ Stored(slot) \/ ImportListed(slot) \/ UpsertFails(slot) \/ SaveSucceeds(slot)
       \/ SaveFails(slot) \/ Reloaded(slot) \/ ReloadFails(slot) \/ DeleteLeft(slot)

LibrarySpec == LibraryInit /\ [][LibraryNext]_libraryVars

-------------------------------------------------------------------------------
(* Properties.                                                             *)

\* A text that was stored and listed is in the store whole until the learner
\* removes it, whatever requests fail and however often it is moved, unless a
\* save erased it between, or a move left its copy where no list has it.
TextsAreKept ==
  overtaken \cap {"erased", "strayed"} # {} \/ \A c \in known : \E t \in disk.texts : t.body = c

\* A text that is moved is found with its bookmarks and its place, unless
\* the move was overtaken.
MovesCarryWhatIsKnown ==
  overtaken # {} \/ \A c \in bookmarked :
    \E t \in disk.texts : t.body = c /\ t.id \in lists.marks \cap places

\* Both, of whatever request may fail in whatever order.
BooksAreKept == TextsAreKept /\ MovesCarryWhatIsKnown

\* A move that failed leaves one text, not two (library-move-persistence.test.js:174).
FailedMovesLeaveNoCopy ==
  Free("dialog") => \A i, j \in {t.id : t \in {x \in lists.texts : x.profile = x.lang}} :
    Content(i) = Content(j) => i = j
===============================================================================
