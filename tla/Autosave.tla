------------------------------- MODULE Autosave -------------------------------
(***************************************************************************)
(* When a page saves (state/autosave.ts, state.ts, app.ts).  Edits set a   *)
(* timer or, while a save or an exclusive write is under way, ask for a    *)
(* save after it; saves fail and are tried again; exclusive writes queue   *)
(* behind one another, each after a save of its own; closing the window    *)
(* waits for a save, and then for the backend to take its leave.  An       *)
(* Android page that is hidden may be killed: it freezes a delta, which    *)
(* the next page sends.                                                    *)
(*                                                                         *)
(* A save that was asked for during another follows it, and is part of the *)
(* other's promise: who waits for the first waits for both, and an error   *)
(* of the second is dealt with by the first once more.                     *)
(*                                                                         *)
(* The contents of a record are the number of its last edit.  How the      *)
(* backend merges saves is StoreSync's subject: here it stores what it is  *)
(* sent.  The page's first snapshot has arrived; the clock is left out,    *)
(* and so are the exclusive writes that do not save first.                 *)
(***************************************************************************)
EXTENDS Naturals, FiniteSets, Sequences

CONSTANTS
  Keys,         \* the records, by language: what one dirty mark covers
  Prefs,        \* of these, the preferences, sent with every save and never marked
  MaxEdits,     \* bound: edits
  MaxFailures,  \* bound: saves that fail or are rejected, and failures to close
  MaxWrites,    \* bound: exclusive writes and explicit saves asked for
  MaxHides      \* bound: how often the page is hidden

\* There are preferences, and a language or a text beside them.
ASSUME AutosaveAssumption ==
  /\ Prefs \in Keys /\ Keys # {Prefs}
  /\ MaxEdits \in Nat /\ MaxFailures \in Nat /\ MaxWrites \in Nat /\ MaxHides \in Nat

VARIABLES
  mem, stored,  \* the page's records, and the backend's
  dirty,        \* dirtyVocabLangs, dirtyTextIds and allTextsDirty
  seq,          \* mutationSequence
  persisted,    \* lastPersistedSequence
  touched,      \* lastMutationAt > lastSaveSucceededAt
  timer,        \* saveTimer: "off", "on", or "fired" and not reset
  saves,        \* the saves under way
  pending,      \* savePending
  writer,       \* the exclusive write at work: "none", "saving", "active", "ending"
  queue,        \* exclusive writes waiting for it (exclusiveWriteTail)
  asked,        \* queuedSavePromise: the closing window waits for a save after the write
  window,       \* "open", "closing", "leaving", "closed", "killed" or "booted"
  hidden,       \* the page is hidden
  delta,        \* PENDING_FLUSH_KEY: at most one
  replay,       \* a former page's delta is being sent
  overrun,      \* its success has cleared this page's own delta
  \* history
  unmarked,     \* edits no save names although they are not stored
  again,        \* a failure was dealt with by an enclosing save while others could begin
  left,         \* what the window held when it asked the backend to close
  followUpFailed, frozen, edits, failures, writes, hides

bounds == <<edits, failures, writes, hides>>
saving == <<dirty, seq, persisted, touched, timer, saves, pending>>
exit == <<window, left>>
teardown == <<hidden, delta, replay, overrun, frozen>>
history == <<unmarked, followUpFailed, again>>
vars == <<mem, stored, saving, writer, queue, asked, exit, teardown, history, bounds>>

Records == [Keys -> 0..MaxEdits]
Waiters == SUBSET {"writer", "window"}

\* A save that another one follows, and waits for.
Level == [seq : Nat, records : BOOLEAN, waiters : Waiters]

Save == [part : SUBSET Keys, contents : Records, seen : Records, seq : Nat,
         records : BOOLEAN,     \* payloadHasRecords
         inFlight : BOOLEAN,    \* the last to begin, and saveInFlight
         followUp : BOOLEAN,
         retried : BOOLEAN,     \* everything is being sent, after a rejection
         waiters : Waiters, outer : Seq(Level)]

TypeOK ==
  /\ mem \in Records /\ stored \in Records
  /\ dirty \subseteq Keys
  /\ seq \in Nat /\ persisted \in 0..seq
  /\ touched \in BOOLEAN /\ timer \in {"off", "on", "fired"}
  /\ \A s \in saves : s \in Save
  /\ pending \in BOOLEAN
  /\ writer \in {"none", "saving", "active", "ending"} /\ queue \in 0..MaxWrites
  /\ window \in {"open", "closing", "leaving", "closed", "killed", "booted"}
  /\ asked \in BOOLEAN /\ again \in BOOLEAN /\ left \in Records
  /\ hidden \in BOOLEAN /\ replay \in BOOLEAN /\ overrun \in BOOLEAN
  /\ \A d \in delta : d \in [part : SUBSET Keys, contents : Records, seq : Nat, own : BOOLEAN]
  /\ unmarked \subseteq Keys /\ followUpFailed \in BOOLEAN /\ frozen \in Records

-------------------------------------------------------------------------------
Alive == window \in {"open", "closing", "leaving"}
Overlay(old, part, new) == [k \in Keys |-> IF k \in part THEN new[k] ELSE old[k]]

Carried(marks) == marks \cup {Prefs}

\* saveInFlight
InFlight == \E s \in saves : s.inFlight

\* doSave, up to sending.  When nothing is marked and yet something has
\* changed since the last save, everything is sent.
NewSave(marks, last, number) ==
  LET all == marks = {} /\ number > last
  IN  [part |-> IF all THEN Keys ELSE Carried(marks), contents |-> mem, seen |-> mem,
       seq |-> number, records |-> all \/ marks # {}, inFlight |-> TRUE,
       followUp |-> FALSE, retried |-> FALSE, waiters |-> {}, outer |-> <<>>]

\* The others, with saveInFlight set anew.
Apart(some) == {[s EXCEPT !.inFlight = FALSE] : s \in some}

DoSave(who) ==
  saves' = Apart(saves) \cup {[NewSave(dirty', persisted, seq') EXCEPT !.waiters = who]}

\* Slip: a save that is under way is not waited for.
ScheduleSaveAtOnce ==
  IF writer = "active" THEN pending' = TRUE /\ UNCHANGED timer
                       ELSE timer' = "on" /\ UNCHANGED pending

\* scheduleSave
ScheduleSave ==
  IF writer = "active" \/ InFlight THEN pending' = TRUE /\ UNCHANGED timer
                                   ELSE timer' = "on" /\ UNCHANGED pending

\* The traps of wrap.
Edit(k) ==
  /\ Alive /\ ~hidden /\ edits < MaxEdits
  /\ edits' = edits + 1
  /\ mem' = [mem EXCEPT ![k] = edits']
  /\ dirty' = IF k = Prefs THEN dirty ELSE dirty \cup {k}
  /\ seq' = seq + 1 /\ touched' = TRUE
  /\ ScheduleSave
  /\ UNCHANGED <<stored, persisted, saves, writer, queue, asked, exit, teardown, history,
                 failures, writes, hides>>

\* The timer fires; nothing resets it.
TimerFires ==
  /\ Alive /\ timer = "on" /\ timer' = "fired"
  /\ UNCHANGED <<mem, stored, dirty, seq, persisted, touched, pending, writer, queue, asked,
                 exit, teardown, history, bounds>>
  /\ DoSave({})

-------------------------------------------------------------------------------
(* Explicit saves and exclusive writes.                                    *)

\* saveState, called by who
SaveState(who) ==
  /\ timer' = "off" /\ UNCHANGED <<dirty, seq>>
  /\ IF writer = "active" THEN pending' = TRUE /\ asked' = (asked \/ "window" \in who) /\ UNCHANGED saves
     ELSE /\ asked' = asked
          /\ IF InFlight
             THEN /\ pending' = (pending \/ \E s \in saves : s.inFlight /\ seq > s.seq)
                  /\ saves' = {[s EXCEPT !.waiters = IF s.inFlight THEN @ \cup who ELSE @] : s \in saves}
             ELSE DoSave(who) /\ UNCHANGED pending

\* A dialog saves.
AskToSave ==
  /\ Alive /\ writes < MaxWrites /\ writes' = writes + 1
  /\ SaveState({})
  /\ UNCHANGED <<mem, stored, persisted, touched, writer, queue, exit, teardown, history,
                 edits, failures, hides>>

\* runExclusiveWrite is called,
AskToWrite ==
  /\ Alive /\ writes < MaxWrites /\ writes' = writes + 1
  /\ queue' = queue + 1
  /\ UNCHANGED <<mem, stored, saving, writer, asked, exit, teardown, history,
                 edits, failures, hides>>

\* its turn comes, and it saves first;
BeginWrite ==
  /\ Alive /\ writer = "none" /\ queue > 0
  /\ queue' = queue - 1 /\ writer' = "saving"
  /\ SaveState({"writer"})
  /\ UNCHANGED <<mem, stored, persisted, touched, exit, teardown, history, bounds>>

\* when the write is over, it sends the save that was kept waiting, and ends with
\* it.  The write may have put a snapshot in the place of the page's state: then
\* everything counts as changed (markDurableStateReplaced), and no timer is set.
EndWrite ==
  /\ Alive /\ writer = "active"
  /\ \E replaced \in BOOLEAN :
       /\ replaced => mem = stored
       /\ dirty' = IF replaced THEN Keys ELSE dirty
       /\ seq' = IF replaced THEN seq + 1 ELSE seq
       /\ touched' = (touched \/ replaced)
  /\ IF pending THEN writer' = "ending" /\ DoSave({"writer"} \cup IF asked THEN {"window"} ELSE {})
                ELSE writer' = "none" /\ UNCHANGED saves
  /\ pending' = FALSE /\ asked' = FALSE
  /\ UNCHANGED <<mem, stored, persisted, timer, queue, exit, teardown, history, bounds>>

-------------------------------------------------------------------------------
(* What becomes of a save.                                                 *)

\* Who waits for the save, or for one that it follows.
Waiting(s) == s.waiters \cup UNION {s.outer[i].waiters : i \in DOMAIN s.outer}

\* The promises are kept, or broken.
Resolve(who) ==
  /\ writer' = IF "writer" \notin who THEN writer ELSE IF writer = "saving" THEN "active" ELSE "none"
  /\ window' = IF "window" \in who THEN "leaving" ELSE window
  /\ left' = IF "window" \in who THEN mem ELSE left
Reject(who) ==
  /\ writer' = IF "writer" \in who THEN "none" ELSE writer
  /\ window' = IF "window" \in who THEN "open" ELSE window
  /\ UNCHANGED left

\* Slip: any save of the page does.
CoversAnyhow(s) == \E d \in delta : d.own

\* A save of this page covers the delta it froze before.
Covers(s) == \E d \in delta : d.own /\ s.seq >= d.seq /\ s.records

\* What follows the save s.  Within the error handler of s nobody waits for it.
FollowUp(s, last) ==
  [NewSave({}, last, seq) EXCEPT
     !.followUp = TRUE,
     !.waiters = IF s.retried THEN s.waiters ELSE {},
     !.outer = IF s.retried THEN s.outer
               ELSE <<[seq |-> s.seq, records |-> s.records, waiters |-> s.waiters]>> \o s.outer]

\* Slip: edits made during the save are not made up for.
SucceedForgetfully(s) ==
  /\ stored' = Overlay(stored, s.part, s.contents)
  /\ persisted' = IF s.seq > persisted THEN s.seq ELSE persisted
  /\ dirty' = {} /\ pending' = FALSE /\ touched' = FALSE
  /\ delta' = IF Covers(s) THEN {} ELSE delta
  /\ unmarked' = {k \in Keys : stored'[k] # s.seen[k]}
  /\ saves' = Apart(saves \ {s})
  /\ Resolve(Waiting(s))

\* markSucceeded
Succeed(s) ==
  /\ stored' = Overlay(stored, s.part, s.contents)
  /\ persisted' = IF s.seq > persisted THEN s.seq ELSE persisted
  /\ dirty' = {} /\ pending' = FALSE /\ touched' = FALSE
  /\ delta' = IF Covers(s) THEN {} ELSE delta
  /\ unmarked' = {k \in Keys : stored'[k] < s.seen[k]}
  /\ IF pending THEN saves' = Apart(saves \ {s}) \cup {FollowUp(s, persisted')} /\ UNCHANGED <<writer, exit>>
                ELSE saves' = Apart(saves \ {s}) /\ Resolve(Waiting(s))

SaveSucceeds ==
  /\ Alive /\ \E s \in saves : Succeed(s)
  /\ UNCHANGED <<mem, seq, timer, queue, asked, hidden, replay, overrun, frozen,
                 followUpFailed, again, bounds>>

\* The save, with everything in it.
Full(s) == [s EXCEPT !.part = Keys, !.contents = mem, !.retried = TRUE]

\* The backend refuses it (4xx): everything is sent instead.
SaveIsRejected ==
  /\ Alive /\ failures < MaxFailures /\ failures' = failures + 1
  /\ \E s \in saves : ~s.retried /\ saves' = (saves \ {s}) \cup {Full(s)}
  /\ UNCHANGED <<mem, stored, dirty, seq, persisted, touched, timer, pending, writer, queue,
                 asked, exit, teardown, history, edits, writes, hides>>

\* All attempts of a save fail, although one of them may have been stored: the
\* timer is set again, with a growing delay.
GiveUp(s) ==
  /\ Alive /\ failures < MaxFailures /\ failures' = failures + 1
  /\ stored' \in {stored, Overlay(stored, s.part, s.contents)}
  /\ followUpFailed' = (followUpFailed \/ s.followUp)
  /\ seq' = seq + 1 /\ touched' = TRUE
  /\ pending' = (writer = "active") /\ timer' = IF writer = "active" THEN timer ELSE "on"
  /\ UNCHANGED <<mem, dirty, persisted, queue, asked, teardown, unmarked, edits, writes, hides>>

\* The saves that it follows set the timer anew, one by one.  Where there are
\* several, an exclusive write may have begun before the last of them comes to it.
SaveFails ==
  \E s \in saves :
    /\ ~s.retried \/ s.outer = <<>>
    /\ GiveUp(s) /\ saves' = Apart(saves \ {s})
    /\ Reject(Waiting(s))
    /\ again' = (again \/ Len(s.outer) > 1)

\* The error of a save that was rejected is a rejection to the save it follows
\* too: everything is sent once more, while the timer runs and others may save.
OuterSavesAgain ==
  \E s \in saves :
    /\ s.retried /\ s.outer # <<>>
    /\ GiveUp(s)
    /\ LET o == Head(s.outer)
           resent == [Full(s) EXCEPT !.seen = mem, !.seq = o.seq, !.records = o.records,
                                     !.inFlight = FALSE, !.waiters = o.waiters, !.outer = Tail(@)]
       IN  saves' = Apart(saves \ {s}) \cup {resent}
    /\ Reject(s.waiters)
    /\ again' = TRUE

-------------------------------------------------------------------------------
(* Closing, hiding, being killed.                                          *)

\* Slip: only changes no save was sent for count.
HasChangesAtRest == touched \/ timer = "on"

HasPendingChanges == touched \/ InFlight \/ pending \/ timer # "off"

\* requestWordHunterClose waits for a save, if there is anything to save,
Close ==
  /\ window = "open" /\ ~hidden
  /\ IF HasPendingChanges THEN SaveState({"window"}) /\ window' = "closing" /\ UNCHANGED left
     ELSE window' = "leaving" /\ left' = mem /\ UNCHANGED <<dirty, seq, timer, saves, pending, asked>>
  /\ UNCHANGED <<mem, stored, persisted, touched, writer, queue, teardown, history, bounds>>

\* for the state of the screen to be stored and for the backend to exit, whatever
\* the page does meanwhile,
CloseSucceeds ==
  /\ window = "leaving" /\ window' = "closed"
  /\ UNCHANGED <<mem, stored, saving, writer, queue, asked, left, teardown, history, bounds>>

\* or for one of them to fail.
CloseFails ==
  /\ window = "leaving" /\ window' = "open"
  /\ failures < MaxFailures /\ failures' = failures + 1
  /\ UNCHANGED <<mem, stored, saving, writer, queue, asked, left, teardown, history,
                 edits, writes, hides>>

\* flushPendingStateBeforeExit on Android: buildPendingDeltaEnvelope
Hide ==
  /\ window = "open" /\ ~hidden /\ hides < MaxHides /\ hides' = hides + 1
  /\ hidden' = TRUE
  /\ frozen' = [k \in Keys |-> IF k \notin Carried(dirty) /\ (followUpFailed \/ \E s \in saves : s.followUp)
                               THEN stored[k] ELSE mem[k]]
  /\ delta' = IF HasPendingChanges
              THEN {[part |-> Carried(dirty), contents |-> mem, seq |-> seq, own |-> TRUE]}
              ELSE delta
  /\ UNCHANGED <<mem, stored, saving, writer, queue, asked, exit, replay, overrun, history,
                 edits, failures, writes>>

Show ==
  /\ window = "open" /\ hidden /\ hidden' = FALSE
  /\ UNCHANGED <<mem, stored, saving, writer, queue, asked, exit, delta, replay, overrun, frozen,
                 history, bounds>>

Kill ==
  /\ window = "open" /\ hidden /\ window' = "killed"
  /\ saves' = {}
  /\ stored' \in {stored} \cup {Overlay(stored, s.part, s.contents) : s \in saves}
  /\ UNCHANGED <<mem, dirty, seq, persisted, touched, timer, pending, writer, queue, asked, left,
                 teardown, history, bounds>>

\* recoverPendingFlush in the next page
Boot ==
  /\ window = "killed" /\ window' = "booted"
  /\ stored' = IF delta = {} THEN stored
               ELSE LET d == CHOOSE x \in delta : TRUE IN Overlay(stored, d.part, d.contents)
  /\ delta' = {}
  /\ UNCHANGED <<mem, saving, writer, queue, asked, left, hidden, replay, overrun, frozen, history,
                 bounds>>

\* ... and in this one: whatever delta there is by now is cleared.
ReplayEnds ==
  /\ Alive /\ replay /\ replay' = FALSE
  /\ \/ delta' = {} /\ overrun' = (overrun \/ \E d \in delta : d.own)
     \/ UNCHANGED <<delta, overrun>>
  /\ UNCHANGED <<mem, stored, saving, writer, queue, asked, exit, hidden, frozen, history, bounds>>

Init ==
  /\ mem = [k \in Keys |-> 0] /\ stored = mem /\ frozen = mem
  /\ dirty \in {{}, Keys} /\ seq = 0 /\ persisted = 0 /\ touched = FALSE /\ timer = "off"
  /\ saves = {} /\ pending = FALSE
  /\ writer = "none" /\ queue = 0 /\ asked = FALSE
  /\ window = "open" /\ left = mem /\ hidden = FALSE /\ overrun = FALSE
  /\ \/ replay = FALSE /\ delta = {}
     \/ replay = TRUE /\ delta = {[part |-> {}, contents |-> mem, seq |-> 0, own |-> FALSE]}
  /\ unmarked = {} /\ followUpFailed = FALSE /\ again = FALSE
  /\ edits = 0 /\ failures = 0 /\ writes = 0 /\ hides = 0

Next ==
  \/ \E k \in Keys : Edit(k)
  \/ TimerFires \/ AskToSave \/ AskToWrite \/ BeginWrite \/ EndWrite
  \/ SaveSucceeds \/ SaveIsRejected \/ SaveFails \/ OuterSavesAgain
  \/ Close \/ CloseSucceeds \/ CloseFails \/ Hide \/ Show \/ Kill \/ Boot \/ ReplayEnds

(* Timers fire, requests are answered and exclusive writes come to an end: *)
(* the event loop and the work queue of the backend see to that.  Nobody   *)
(* has to edit, close, hide or fail.                                       *)
Fairness ==
  /\ WF_vars(TimerFires) /\ WF_vars(SaveSucceeds)
  /\ WF_vars(BeginWrite) /\ WF_vars(EndWrite)

Spec == Init /\ [][Next]_vars /\ Fairness

-------------------------------------------------------------------------------
(* Once the edits and the failures have come to an end, everything is      *)
(* stored, whatever timers, saves and writes the edits came in between --  *)
(* except what has lost its mark, or was sent again by an enclosing save   *)
(* that another one may have overtaken (autosave.ts:111-127, :158-235).    *)
EverythingIsStoredInTheEnd ==
  <>[](Alive => again \/ \A k \in Keys : mem[k] = stored[k] \/ k \in unmarked)

\* There is one save at a time, and none during an exclusive write, which may
\* replace the whole store under it (autosave.ts:115-121, :243-287) -- until a
\* failure is dealt with twice (autosave.ts:190, :209-230).
SavesAreExclusive ==
  again \/ (Cardinality(saves) <= 1 /\ (writer = "active" => saves = {}))

\* The window is closed only when everything is stored that could be told to be
\* unsaved as it asked the backend to close, its save answered (state.ts:174-200).
\* What is edited after that the page no longer waits for.
ClosedMeansStored ==
  window = "closed" /\ ~again => \A k \in Keys : stored[k] >= left[k] \/ k \in unmarked

\* What a hidden page showed survives its being killed: it was stored, or is
\* in the delta (app.ts:75-84) -- unless it was left to a follow-up save, which the
\* delta knows nothing of, or the success of a former page's replay has
\* cleared the delta (app.ts:107).
TeardownKeepsEdits ==
  window = "booted" /\ ~overrun /\ ~again => \A k \in Keys : stored[k] >= frozen[k] \/ k \in unmarked

\* Saves do not overlap, nor does one overlap an exclusive write, and a page
\* that is closed or killed has stored, or still carries, the edits it was asked to.
SavesLoseNothing == SavesAreExclusive /\ ClosedMeansStored /\ TeardownKeepsEdits
===============================================================================
