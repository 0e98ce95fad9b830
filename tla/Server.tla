-------------------------------- MODULE Server --------------------------------
(***************************************************************************)
(* The loopback server (server.rs, router.rs, handlers.rs): an accept loop *)
(* sorts requests into three lanes, each a bounded queue with threads of   *)
(* its own; a thread checks a request and runs its handler, which may ask  *)
(* the user in a native dialog, wait for something outside the program,    *)
(* take the OCR slot or the store's write lock.  A handler may panic.      *)
(*                                                                         *)
(* What the handlers do to the store is StoreSync's and SaveJournal's      *)
(* subject.  Left out: the thread that writes an export, and the time an   *)
(* answer takes to be sent.                                                *)
(***************************************************************************)
EXTENDS Naturals, Sequences, FiniteSets

CONSTANTS
  MaxRequests,   \* bound: requests
  Asked,         \* what the pages ask for, of the routes below
  NumWorkers,    \* lane -> its threads, and the length of its queue
  MaxPanics      \* bound: handlers that panic

Lanes == {"regular", "store", "control"}
Requests == 1..MaxRequests

ASSUME ServerAssumption ==
  MaxRequests \in Nat /\ MaxPanics \in Nat /\ NumWorkers \in [Lanes -> Nat \ {0}]

VARIABLES
  queue,       \* lane -> the requests waiting in it
  looking,     \* lane -> threads about to look into the queue
  waiting,     \* lane -> threads waiting on not_empty
  kind,        \* request -> what it asks for
  progress,    \* request -> "unsent", "queued", "handled", "answered", "refused" or "dropped"
  todo,        \* request -> what its handler has still to wait for
  lock, slot,  \* who holds the store's write lock and the OCR slot: at most one request each
  poisoned,    \* which of the two a panic has poisoned
  running,     \* the program has not exited
  panics       \* those so far

vars == <<queue, looking, waiting, kind, progress, todo, lock, slot, poisoned, running, panics>>

-------------------------------------------------------------------------------
(* The routes: what a handler waits for, in order.                         *)

\* The arms that answer from the store.
StoreRoutes ==
  [save |-> <<"lock">>, ui_state |-> <<"lock">>, upsert_text |-> <<"lock">>,
   wipe |-> <<"slot", "lock">>,
   choose_data_dir |-> <<"dialog", "slot", "lock">>,
   import_transfer |-> <<"dialog", "lock">>, export_transfer |-> <<"dialog">>]

\* The arms for books and their pictures.
BookRoutes ==
  [image |-> <<"lock">>, ebook |-> <<>>, ocr |-> <<"slot", "outside", "lock">>,
   export_save |-> <<"dialog">>]

\* The arms that ask a service or an engine, and those that only compute.
RemoteRoutes ==
  [argos |-> <<"outside">>, explain |-> <<"outside">>, captions |-> <<"outside">>,
   external |-> <<"outside">>, srs |-> <<>>, vocab |-> <<>>]

\* GET
GetRoutes ==
  [load |-> <<"lock">>, text |-> <<>>, media |-> <<>>, tts |-> <<"outside">>,
   update |-> <<"outside">>, proxy |-> <<"outside">>]

ControlRoutes == [cancel |-> <<>>, log_error |-> <<>>, close |-> <<>>]

Routes == <<StoreRoutes, BookRoutes, RemoteRoutes, GetRoutes, ControlRoutes>>
WaitsFor(k) == LET n == CHOOSE n \in DOMAIN Routes : k \in DOMAIN Routes[n] IN Routes[n][k]

\* Slip: the control requests share a lane.
LaneShared(k) == IF k \in DOMAIN StoreRoutes \cup {"load"} THEN "store" ELSE "regular"

\* request_lane
Lane(k) == IF k \in DOMAIN ControlRoutes THEN "control"
           ELSE IF k \in DOMAIN StoreRoutes \cup {"load"} THEN "store" ELSE "regular"

-------------------------------------------------------------------------------
\* Slip: the thread is not told.
AcceptSilently(r, l) ==
  IF Len(queue[l]) >= NumWorkers[l]
  THEN progress' = [progress EXCEPT ![r] = "refused"] /\ UNCHANGED <<queue, looking, waiting>>
  ELSE /\ progress' = [progress EXCEPT ![r] = "queued"]
       /\ queue' = [queue EXCEPT ![l] = Append(@, r)]
       /\ UNCHANGED <<looking, waiting>>

\* try_push: a lane that is full refuses, otherwise one waiting thread is told.
Accept(r, l) ==
  IF Len(queue[l]) >= NumWorkers[l]
  THEN progress' = [progress EXCEPT ![r] = "refused"] /\ UNCHANGED <<queue, looking, waiting>>
  ELSE /\ progress' = [progress EXCEPT ![r] = "queued"]
       /\ queue' = [queue EXCEPT ![l] = Append(@, r)]
       /\ LET told == IF waiting[l] > 0 THEN 1 ELSE 0
          IN  /\ waiting' = [waiting EXCEPT ![l] = @ - told]
              /\ looking' = [looking EXCEPT ![l] = @ + told]

\* The accept loop.
Receive(r, k) ==
  /\ running /\ \A q \in Requests : progress[q] = "unsent" <=> q >= r
  /\ kind' = [kind EXCEPT ![r] = k]
  /\ todo' = [todo EXCEPT ![r] = WaitsFor(k)]
  /\ Accept(r, Lane(k))
  /\ UNCHANGED <<lock, slot, poisoned, running, panics>>

\* pop
Pop(l) ==
  /\ running /\ looking[l] > 0
  /\ looking' = [looking EXCEPT ![l] = @ - 1]
  /\ IF queue[l] = <<>>
     THEN waiting' = [waiting EXCEPT ![l] = @ + 1] /\ UNCHANGED <<queue, progress>>
     ELSE /\ queue' = [queue EXCEPT ![l] = Tail(@)]
          /\ progress' = [progress EXCEPT ![Head(queue[l])] = "handled"]
          /\ UNCHANGED waiting
  /\ UNCHANGED <<kind, todo, lock, slot, poisoned, running, panics>>

\* A Condvar may wake a thread for no reason.
WakeForNothing(l) ==
  /\ running /\ waiting[l] > 0
  /\ waiting' = [waiting EXCEPT ![l] = @ - 1] /\ looking' = [looking EXCEPT ![l] = @ + 1]
  /\ UNCHANGED <<queue, kind, progress, todo, lock, slot, poisoned, running, panics>>

-------------------------------------------------------------------------------
(* Handlers.                                                               *)

Next1(r) == IF todo[r] = <<>> THEN "answer" ELSE Head(todo[r])
At(r, step) == running /\ progress[r] = "handled" /\ Next1(r) = step
OneDone(r) == todo' = [todo EXCEPT ![r] = Tail(@)]

\* The handler is over, one way or the other, and the thread looks for more.
Over(r, how) ==
  /\ progress' = [progress EXCEPT ![r] = how]
  /\ looking' = [looking EXCEPT ![Lane(kind[r])] = @ + 1]
  /\ todo' = [todo EXCEPT ![r] = <<>>]
  /\ lock' = lock \ {r} /\ slot' = slot \ {r}

\* handle_request, confirm_or_400: the source, the method, the token, the body
\* or the confirmation is not as it must be.
Reject(r) ==
  /\ running /\ progress[r] = "handled" /\ todo[r] = WaitsFor(kind[r]) /\ r \notin lock
  /\ Over(r, "answered")
  /\ UNCHANGED <<queue, waiting, kind, poisoned, running, panics>>

\* A native dialog is closed, with a choice,
DialogEnds(r) ==
  /\ At(r, "dialog") /\ OneDone(r)
  /\ UNCHANGED <<queue, looking, waiting, kind, progress, lock, slot, poisoned, running, panics>>

\* or without; or the engine or service fails.
GiveUp(r) ==
  /\ At(r, "dialog") \/ At(r, "outside")
  /\ Over(r, "answered")
  /\ UNCHANGED <<queue, waiting, kind, poisoned, running, panics>>

OutsideAnswers(r) ==
  /\ At(r, "outside") /\ OneDone(r)
  /\ UNCHANGED <<queue, looking, waiting, kind, progress, lock, slot, poisoned, running, panics>>

\* The slot is only tried.  Who moves the store takes a poisoned slot for a
\* taken one; the others do not mind.
TrySlot(r) ==
  /\ At(r, "slot")
  /\ IF slot # {} \/ (kind[r] = "choose_data_dir" /\ "slot" \in poisoned)
     THEN Over(r, "answered")
     ELSE slot' = {r} /\ OneDone(r) /\ UNCHANGED <<progress, looking, lock>>
  /\ UNCHANGED <<queue, waiting, kind, poisoned, running, panics>>

\* lock_writes: once poisoned, nobody gets it.
LockWrites(r) ==
  /\ At(r, "lock") /\ r \notin lock
  /\ IF "lock" \in poisoned THEN Over(r, "answered")
     ELSE lock = {} /\ lock' = {r} /\ UNCHANGED <<progress, looking, todo, slot>>
  /\ UNCHANGED <<queue, waiting, kind, poisoned, running, panics>>

Unlock(r) ==
  /\ At(r, "lock") /\ r \in lock /\ lock' = {} /\ OneDone(r)
  /\ UNCHANGED <<queue, looking, waiting, kind, progress, slot, poisoned, running, panics>>

\* The answer; "/__app/close" then ends the program.
Answer(r) ==
  /\ At(r, "answer") /\ Over(r, "answered")
  /\ running' = (kind[r] # "close")
  /\ UNCHANGED <<queue, waiting, kind, poisoned, panics>>

\* Slip: the thread dies of it.
PanicAndDie(r) ==
  /\ running /\ progress[r] = "handled" /\ panics < MaxPanics /\ panics' = panics + 1
  /\ progress' = [progress EXCEPT ![r] = "dropped"] /\ todo' = [todo EXCEPT ![r] = <<>>]
  /\ lock' = lock \ {r} /\ slot' = slot \ {r}
  /\ UNCHANGED <<looking, queue, waiting, kind, poisoned, running>>

\* The handler panics; spawn_request_workers contains it.
Panic(r) ==
  /\ running /\ progress[r] = "handled" /\ panics < MaxPanics /\ panics' = panics + 1
  /\ Over(r, "dropped")
  /\ poisoned' = poisoned \cup (IF r \in lock THEN {"lock"} ELSE {})
                          \cup (IF r \in slot THEN {"slot"} ELSE {})
  /\ UNCHANGED <<queue, waiting, kind, running>>

-------------------------------------------------------------------------------
Init ==
  /\ queue = [l \in Lanes |-> <<>>]
  /\ looking = NumWorkers /\ waiting = [l \in Lanes |-> 0]
  /\ kind = [r \in Requests |-> "none"] /\ todo = [r \in Requests |-> <<>>]
  /\ progress = [r \in Requests |-> "unsent"]
  /\ lock = {} /\ slot = {} /\ poisoned = {} /\ running = TRUE /\ panics = 0

HandlerStep(r) == TrySlot(r) \/ LockWrites(r) \/ Unlock(r) \/ Answer(r)

Next ==
  \/ \E l \in Lanes : Pop(l) \/ WakeForNothing(l)
  \/ \E r \in Requests :
       \/ \E k \in Asked : Receive(r, k)
       \/ TrySlot(r) \/ LockWrites(r) \/ Unlock(r) \/ Answer(r)
       \/ Reject(r) \/ DialogEnds(r) \/ GiveUp(r) \/ OutsideAnswers(r) \/ Panic(r)

(* Threads that can go on do.  Nobody has to close a dialog, and nothing   *)
(* outside the program has to answer.                                      *)
Fairness ==
  /\ \A l \in Lanes : WF_vars(Pop(l))
  /\ \A r \in Requests : WF_vars(HandlerStep(r))

Spec == Init /\ [][Next]_vars /\ Fairness

-------------------------------------------------------------------------------
TypeOK ==
  /\ queue \in [Lanes -> Seq(Requests)]
  /\ looking \in [Lanes -> Nat] /\ waiting \in [Lanes -> Nat]
  /\ kind \in [Requests -> Asked \cup {"none"}]
  /\ progress \in [Requests -> {"unsent", "queued", "handled", "answered", "refused", "dropped"}]
  /\ lock \subseteq Requests /\ slot \subseteq Requests
  /\ poisoned \subseteq {"lock", "slot"} /\ running \in BOOLEAN /\ panics \in 0..MaxPanics

(* No wake-up is lost: as long as a thread sleeps, every queued request    *)
(* has a thread of its own that is about to look (server.rs:34-58).        *)
WakeUpsAreNotLost ==
  \A l \in Lanes : waiting[l] > 0 => looking[l] >= Len(queue[l])

\* "One bad request never permanently removes a worker from its lane", nor
\* leaves a lock or the slot taken (server.rs:76-88).
NothingIsLostToPanics ==
  /\ \A l \in Lanes :
       looking[l] + waiting[l]
         + Cardinality({r \in Requests : progress[r] = "handled" /\ Lane(kind[r]) = l})
       = NumWorkers[l]
  /\ \A r \in lock \cup slot : progress[r] = "handled"

\* Who has the store's lock is about to give it back: a handler waits for
\* dialogs, services and the slot with the lock free (server.rs:178-182).
LockIsHeldForWritesOnly == \A r \in lock : Next1(r) = "lock"

\* No thread sleeps while there is work for it, a panic takes none away, and
\* nobody waits for anything else with the store's lock in hand.
ServerGoesOn == WakeUpsAreNotLost /\ NothingIsLostToPanics /\ LockIsHeldForWritesOnly

(* Whatever the user and the services do, a request ends up answered, or   *)
(* waits itself for the user or a service, or is queued in a lane all of   *)
(* whose threads do; and the control lane never is such a lane.  Nobody    *)
(* waits for a dialog with the store's lock in hand (server.rs:178-182).   *)
WaitsOutside(r) == At(r, "dialog") \/ At(r, "outside")
OnlyTheOutsideDelays ==
  <>[](~running \/ \A r \in Requests :
         \/ progress[r] \in {"unsent", "answered", "refused", "dropped"}
         \/ WaitsOutside(r)
         \/ /\ progress[r] = "queued" /\ kind[r] \notin DOMAIN ControlRoutes
            /\ Cardinality({q \in Requests : WaitsOutside(q) /\ Lane(kind[q]) = Lane(kind[r])})
                 = NumWorkers[Lane(kind[r])])
===============================================================================
