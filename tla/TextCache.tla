------------------------------- MODULE TextCache -------------------------------
(***************************************************************************)
(* The texts of the books as the page keeps them (books.ts).  Texts are    *)
(* fetched when they are needed, several at a time, and kept up to a total *)
(* size.  Meanwhile the user edits and removes books, and snapshots of the *)
(* store bring what others have changed: answers that were asked for       *)
(* before must not be kept as if they were the texts of now.  A number per *)
(* book, counted up by whatever voids its text, tells such answers.        *)
(***************************************************************************)
EXTENDS Integers, Sequences, FiniteSets, SequencesExt, FiniteSetsExt, Functions

CONSTANTS
  Customs,        \* texts of the store
  Catalog,        \* built-in books: their texts never change
  Size,           \* of the text of a book
  MaxBytes,       \* MAX_CACHED_BOOK_TEXT_BYTES
  MaxWrites,      \* bound: versions of a text
  MaxActs         \* bound: requests and voidings, the reload of an edit not counted

Ids == Customs \cup Catalog
Nobody == "nobody"
NoEdit == [id |-> Nobody, ver |-> 0, kept |-> FALSE]

VARIABLES
  body,       \* the backend: the version of each text; 0: none
  versions,   \* how many versions each text has had
  listed,     \* customTexts, and the built-in books not hidden
  cached,     \* bookTexts, the least recently used first
  bytes,      \* byteSize
  stale,      \* staleBookTextIds
  gen,        \* textCacheGenerationById
  requests,   \* under way; ver is 0 until the backend has read the text
  loading,    \* textLoadingById
  current,    \* currentTextId
  editing,    \* the version being saved of a text, and if the page keeps it; or NoEdit
  deletions,  \* texts removed from the library and still in the store
  floor,      \* history: the version of each text the page has written or was told of
  overtaken,  \* history: texts written while an older request was under way
  acts

cacheVars == <<body, versions, listed, cached, bytes, stale, gen, requests, loading, current,
               editing, deletions, floor, overtaken, acts>>

-------------------------------------------------------------------------------
(* BookTextCache: a map in the order of use, and its size.                 *)

Held(c) == {c[i].id : i \in DOMAIN c}
Without(c, id) == SelectSeq(c, LAMBDA e : e.id # id)
SizeOf(c) == FoldLeft(LAMBDA n, e : n + Size[e.id], 0, c)

\* Slip: the open text may go, too.
EvictedAny(c) ==
  LET after(k) == SubSeq(c, k + 1, Len(c))
  IN  after(Min({k \in 0..Len(c) : SizeOf(after(k)) <= MaxBytes \/ Len(c) = k + 1}))

\* The oldest text but the one that is open goes first, and it may be the
\* one just put in.
Evicted(c) ==
  LET others == SelectSeq(c, LAMBDA e : e.id # current)
      after(k) == SelectSeq(c, LAMBDA e : e.id \notin Held(SubSeq(others, 1, k)))
      enough == {k \in 0..Len(others) : SizeOf(after(k)) <= MaxBytes \/ Len(c) = k + 1}
  IN  after(IF enough = {} THEN Len(others) ELSE Min(enough))

Put(id, ver) ==
  /\ cached' = Evicted(Append(Without(cached, id), [id |-> id, ver |-> ver]))
  /\ bytes' = bytes + SizeOf(cached') - SizeOf(cached)

Drop(ids) ==
  /\ cached' = SelectSeq(cached, LAMBDA e : e.id \notin ids)
  /\ bytes' = bytes + SizeOf(cached') - SizeOf(cached)

Fresh(id) == id \in Held(cached) /\ id \notin stale

-------------------------------------------------------------------------------
(* Loading.                                                                *)

\* A text from the backend voids what is kept, and what is under way.
Request(id) ==
  LET g == gen[id] + (IF id \in Customs THEN 1 ELSE 0)
      r == [id |-> id, gen |-> g, ver |-> 0]
  IN  /\ gen' = [gen EXCEPT ![id] = g]
      /\ stale' = IF id \in Customs THEN stale \cup {id} ELSE stale
      /\ requests' = requests \cup {r}
      /\ loading' = [loading EXCEPT ![id] = g]

\* loadBookText, loadCustomTextContent: what is kept, what is under way, or
\* a request
Load(id) ==
  /\ id \in listed
  /\ IF Fresh(id)
     THEN /\ \E e \in Range(cached) : e.id = id /\ cached' = Append(Without(cached, id), e)
          /\ UNCHANGED <<stale, gen, requests, loading, acts>>
     ELSE /\ loading[id] = -1 /\ acts < MaxActs /\ acts' = acts + 1
          /\ Request(id)
          /\ UNCHANGED cached
  /\ UNCHANGED <<body, versions, listed, bytes, current, editing, deletions, floor, overtaken>>

\* The backend, or the site of the book, reads the text.
Read(r) ==
  /\ r \in requests /\ r.ver = 0 /\ body[r.id] > 0
  /\ requests' = (requests \ {r}) \cup {[r EXCEPT !.ver = body[r.id]]}
  /\ UNCHANGED <<body, versions, listed, cached, bytes, stale, gen, loading, current, editing,
                 deletions, floor, overtaken, acts>>

Forget(r) ==
  /\ requests' = requests \ {r}
  /\ loading' = IF loading[r.id] = r.gen THEN [loading EXCEPT ![r.id] = -1] ELSE loading

IsCurrent(r) == gen[r.id] = r.gen

\* Whoever asked gets the text; it is kept if nothing has voided it.
Arrive(r) ==
  /\ r \in requests /\ r.ver > 0
  /\ Forget(r)
  /\ IF IsCurrent(r) THEN Put(r.id, r.ver) /\ stale' = stale \ {r.id}
     ELSE UNCHANGED <<cached, bytes, stale>>
  /\ UNCHANGED <<body, versions, listed, gen, current, editing, deletions, floor, overtaken, acts>>

RequestFails(r) ==
  /\ r \in requests
  /\ Forget(r)
  /\ UNCHANGED <<body, versions, listed, cached, bytes, stale, gen, current, editing, deletions,
                 floor, overtaken, acts>>

-------------------------------------------------------------------------------
(* Voiding.                                                                *)

\* Slip: what voids a text does not count.
BumpedNever(ids) == gen

Bumped(ids) == [id \in Ids |-> IF id \in ids THEN gen[id] + 1 ELSE gen[id]]

NotLoading(ids) == [id \in Ids |-> IF id \in ids THEN -1 ELSE loading[id]]

\* clearBookTextCache of some books
ClearedCaches(ids) ==
  /\ gen' = Bumped(ids) /\ loading' = NotLoading(ids)
  /\ stale' = stale \ ids
  /\ Drop(ids)

\* clearAllBookTextCaches: a clear, an import, a switch of directories
ClearAll ==
  /\ acts < MaxActs /\ acts' = acts + 1
  /\ ClearedCaches(Held(cached) \cup {id \in Ids : loading[id] # -1 \/ gen[id] > 0})
  /\ UNCHANGED <<body, versions, listed, requests, current, editing, deletions, floor, overtaken>>

\* The handler of a snapshot: what is no longer listed is cleared, the others
\* are stale, and the one that is read is loaded again.
Applied(present) ==
  LET gone == (Customs \cap listed) \ present
      again == present \cap {current}
      g == Bumped(gone \cup present)
  IN  /\ listed' = present \cup (listed \cap Catalog)
      /\ Drop(gone)
      /\ stale' = (stale \ gone) \cup present
      /\ gen' = [id \in Ids |-> IF id \in again THEN g[id] + 1 ELSE g[id]]
      /\ loading' = [id \in Ids |-> IF id \in again THEN g[id] + 1 ELSE NotLoading(gone \cup present)[id]]
      /\ requests' = requests \cup {[id |-> id, gen |-> g[id] + 1, ver |-> 0] : id \in again}
      /\ floor' = [id \in Customs |-> IF id \in present THEN body[id] ELSE 0]
      /\ overtaken' = {}

Present == {id \in Customs : body[id] > 0 /\ id \notin deletions}

SnapshotArrives ==
  /\ acts < MaxActs /\ acts' = acts + 1
  /\ Applied(Present)
  /\ UNCHANGED <<body, versions, current, editing, deletions>>

Written(id) ==
  /\ versions[id] < MaxWrites
  /\ versions' = [versions EXCEPT ![id] = @ + 1]
  /\ body' = [body EXCEPT ![id] = versions'[id]]

\* Another page, device or the backend itself
ForeignWrite(id) ==
  /\ body[id] > 0 /\ Written(id)
  /\ UNCHANGED <<listed, cached, bytes, stale, gen, requests, loading, current, editing,
                 deletions, floor, overtaken, acts>>

ForeignRemoval(id) ==
  /\ body[id] > 0
  /\ body' = [body EXCEPT ![id] = 0]
  /\ UNCHANGED <<versions, listed, cached, bytes, stale, gen, requests, loading, current, editing,
                 deletions, floor, overtaken, acts>>

-------------------------------------------------------------------------------
(* What the user does.                                                     *)

\* openBook, when the text is there
Open(id) ==
  /\ Fresh(id) /\ id \in listed
  /\ current' = id
  /\ UNCHANGED <<body, versions, listed, cached, bytes, stale, gen, requests, loading, editing,
                 deletions, floor, overtaken, acts>>

\* saveEditedBook, updatePdfOcrPageText, importCustomText: the text is stored,
Edit(id) ==
  /\ editing = NoEdit /\ id \in listed /\ id \in Customs
  /\ Written(id)
  /\ editing' = [id |-> id, ver |-> versions'[id], kept |-> FALSE]
  /\ UNCHANGED <<listed, cached, bytes, stale, gen, requests, loading, current,
                 deletions, floor, overtaken, acts>>

\* then kept; the number stays, so that a request under way may still put an
\* older one in its place, as this one may take the place of a newer one.
KeepEdit ==
  LET id == editing.id IN
  /\ editing # NoEdit /\ ~editing.kept
  /\ editing' = [editing EXCEPT !.kept = TRUE]
  /\ Put(id, editing.ver)
  /\ floor' = [floor EXCEPT ![id] = Max({@, editing.ver})]
  /\ overtaken' = IF floor[id] > editing.ver \/ \E r \in requests : r.id = id /\ IsCurrent(r)
                  THEN overtaken \cup {id} ELSE overtaken
  /\ UNCHANGED <<body, versions, listed, stale, gen, requests, loading, current, deletions, acts>>

\* The store has the text, and the page does not know: the reply is lost.
EditFails(id) ==
  /\ editing = NoEdit /\ id \in listed /\ id \in Customs
  /\ Written(id)
  /\ UNCHANGED <<listed, cached, bytes, stale, gen, requests, loading, current, editing,
                 deletions, floor, overtaken, acts>>

\* saveStateAndReloadBridge, or the reload that takes its place
EditIsSaved ==
  /\ editing.kept
  /\ editing' = NoEdit
  /\ Applied(Present)
  /\ UNCHANGED <<body, versions, current, deletions, acts>>

\* Neither the save nor the reload comes through.
NothingComesBack ==
  /\ editing.kept
  /\ editing' = NoEdit
  /\ UNCHANGED <<body, versions, listed, cached, bytes, stale, gen, requests, loading, current,
                 deletions, floor, overtaken, acts>>

\* removeCustomText, hideBuiltInBook: the text in the store goes last.
RemoveBook(id) ==
  /\ id \in listed /\ id # editing.id /\ acts < MaxActs /\ acts' = acts + 1
  /\ listed' = listed \ {id}
  /\ ClearedCaches({id})
  /\ current' = IF current = id THEN Nobody ELSE current
  /\ deletions' = IF id \in Customs THEN deletions \cup {id} ELSE deletions
  /\ UNCHANGED <<body, versions, requests, editing, floor, overtaken>>

StoredTextGoes(id) ==
  /\ id \in deletions
  /\ deletions' = deletions \ {id}
  /\ body' = [body EXCEPT ![id] = 0]
  /\ UNCHANGED <<versions, listed, cached, bytes, stale, gen, requests, loading, current, editing,
                 floor, overtaken, acts>>

-------------------------------------------------------------------------------
CacheInit ==
  /\ body = [id \in Ids |-> 1] /\ versions = [id \in Customs |-> 1] /\ listed = Ids
  /\ cached = <<>> /\ bytes = 0 /\ stale = {}
  /\ gen = [id \in Ids |-> 0] /\ requests = {} /\ loading = [id \in Ids |-> -1]
  /\ current = Nobody /\ editing = NoEdit /\ deletions = {}
  /\ floor = [id \in Customs |-> 1] /\ overtaken = {} /\ acts = 0

CacheNext ==
  \/ \E id \in Ids : Load(id) \/ Open(id) \/ RemoveBook(id)
  \/ \E id \in Customs : Edit(id) \/ EditFails(id) \/ ForeignWrite(id) \/ ForeignRemoval(id)
                         \/ StoredTextGoes(id)
  \/ \E r \in requests : Read(r) \/ Arrive(r) \/ RequestFails(r)
  \/ ClearAll \/ SnapshotArrives \/ KeepEdit \/ EditIsSaved \/ NothingComesBack

CacheSpec == CacheInit /\ [][CacheNext]_cacheVars

-------------------------------------------------------------------------------
\* What counts as fresh is no older than what the page has written or was
\* told of, and no answer will be kept of a book that is gone: answers asked
\* for before are not taken for the text of now (the generations of books.ts).
\* Only around a text the page itself writes may an older answer take its
\* place, until the snapshot that follows.
FreshIsCurrent ==
  /\ \A r \in requests : IsCurrent(r) => r.id \in listed
  /\ \A e \in Range(cached) :
       e.id \in Customs \ (stale \cup overtaken) => e.ver >= floor[e.id]

\* The cache is within its limit, whatever it went through, unless one text
\* alone is beyond it; and making room never takes the text that is open.
CacheFits ==
  /\ bytes = SizeOf(cached)
  /\ bytes <= MaxBytes \/ Len(cached) = 1
OpenTextStays ==
  [][current # Nobody /\ current \in Held(cached) /\ current \notin Held(cached')
     => gen'[current] > gen[current]]_cacheVars
===============================================================================
