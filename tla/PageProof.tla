-------------------------------- MODULE PageProof ------------------------------
(***************************************************************************)
(* Proofs about two parts of the page, each on its own.                    *)
(*   Autosave: for any number of records, edits, failures, exclusive       *)
(* writes and hidings, saves exclude one another and no edit is lost.      *)
(*   Vocabulary: for any languages, words, statuses and grades, however    *)
(* long the learner goes on, the lists of words that are kept from one     *)
(* rendering to the next are current, and late answers give way.           *)
(***************************************************************************)
EXTENDS Autosave, Vocabulary, FiniteSetTheorems, TLAPS

(***************************************************************************)
(* Autosave                                                                *)
(***************************************************************************)

Values == [Keys -> Nat]
AnySave == [part : SUBSET Keys, contents : Values, seen : Values, seq : Nat,
            records : BOOLEAN, inFlight : BOOLEAN, followUp : BOOLEAN, retried : BOOLEAN,
            waiters : Waiters, outer : Seq(Level)]
AnyDelta == [part : SUBSET Keys, contents : Values, seq : Nat, own : BOOLEAN]

\* The types of what the proofs are about, whatever the bounds.  The numbers of
\* the edits grow.
Types ==
  /\ mem \in Values /\ stored \in Values /\ frozen \in Values /\ left \in Values
  /\ edits \in Nat /\ \A k \in Keys : mem[k] <= edits
  /\ dirty \in SUBSET Keys /\ dirty # {Prefs} /\ unmarked \in SUBSET Keys
  /\ seq \in Nat /\ persisted \in Nat /\ persisted <= seq
  /\ touched \in BOOLEAN /\ pending \in BOOLEAN /\ hidden \in BOOLEAN
  /\ overrun \in BOOLEAN /\ followUpFailed \in BOOLEAN
  /\ writer \in {"none", "saving", "active", "ending"}
  /\ \A s \in saves : s \in AnySave
  /\ \A d \in delta : d \in AnyDelta

\* One save at a time, for which a write waits.  What a timer will send can be sent.
OneSave ==
  /\ \A s, t \in saves : s = t
  /\ \A s \in saves : s.inFlight
  /\ writer = "active" => saves = {}
  /\ Alive => /\ writer \in {"saving", "ending"} => \E s \in saves : "writer" \in Waiting(s)
              /\ timer = "on" => saves = {} /\ writer = "none"

\* The backend is never ahead of the page, and a save under way is ahead of
\* the backend.  What the save does not know of is marked.
SavesAreRecent ==
  Alive =>
    /\ \A k \in Keys : stored[k] <= mem[k]
    /\ \A s \in saves :
         /\ s.seq <= seq /\ (s.seq = seq => s.seen = mem) /\ (~pending => s.seq = seq)
         /\ ~s.records => s.seq <= persisted
         /\ \A k \in Keys : /\ stored[k] <= s.contents[k] /\ s.contents[k] <= mem[k]
                            /\ s.seen[k] <= s.contents[k]
                            /\ k \in dirty \/ k = Prefs \/ s.seen[k] = mem[k]

\* With nothing to save, everything is stored.
RestIsStored ==
  Alive /\ ~touched /\ saves = {} /\ ~pending =>
    seq = persisted /\ \A k \in Keys : mem[k] = stored[k] \/ k \in unmarked

\* What is not marked is stored, or left to a follow-up save.
CleanIsStored ==
  Alive /\ ~followUpFailed /\ (\A s \in saves : ~s.followUp) =>
    \A k \in Keys : k \in dirty \/ k = Prefs \/ mem[k] = stored[k] \/ k \in unmarked

\* A delta is older than the page, and than the saves that cover it.
DeltasAreCovered ==
  /\ \A d, e \in delta : d = e
  /\ \A d \in delta :
       IF d.own
       THEN Alive => /\ d.seq <= seq /\ (d.seq = seq => d.contents = mem)
                     /\ d.seq <= persisted => d.seq = persisted
                     /\ \A k \in Keys : d.contents[k] <= mem[k]
                     /\ \A s \in saves : s.seq >= d.seq =>
                          \A k \in Keys : d.contents[k] <= s.seen[k]
       ELSE d.part = {}

\* What a hidden page showed is stored, or in the delta.
InDelta(k) == \E d \in delta : d.own /\ k \in d.part
HiddenIsKept ==
  hidden /\ (Alive \/ window = "killed") =>
    /\ \A k \in Keys : stored[k] >= frozen[k] \/ k \in unmarked \/ overrun \/ InDelta(k)
    /\ \A d \in delta : d.own => \A k \in d.part : d.contents[k] >= frozen[k]
    /\ Alive => \A k \in Keys :
         /\ frozen[k] <= mem[k]
         /\ \A s \in saves : \/ s.seen[k] >= frozen[k] \/ stored[k] >= frozen[k] \/ overrun
                             \/ \E d \in delta : d.own /\ k \in d.part /\ s.seq < d.seq

KilledInHiding == window = "killed" => hidden

\* What the window held when it asked to be closed is stored, and no save is older.
LeftIsStored ==
  window \in {"leaving", "closed"} => \A k \in Keys :
    /\ stored[k] >= left[k] \/ k \in unmarked
    /\ Alive => left[k] <= mem[k] /\ \A s \in saves : s.seen[k] >= left[k]

AutosaveCore ==
  /\ Types /\ OneSave /\ SavesAreRecent /\ RestIsStored /\ CleanIsStored
  /\ DeltasAreCovered /\ HiddenIsKept /\ KilledInHiding
  /\ LeftIsStored /\ TeardownKeepsEdits

\* Until a failure is dealt with twice.
AutosaveIInv == again \/ AutosaveCore
-------------------------------------------------------------------------------
LEMMA OneSaveIsExclusive ==
  ASSUME OneSave
  PROVE  SavesAreExclusive
<1>1. CASE saves = {}
  BY <1>1, FS_EmptySet DEF OneSave, SavesAreExclusive
<1>2. CASE saves # {}
  <2>1. PICK s \in saves : saves = {s}
    BY <1>2 DEF OneSave
  <2> QED
    <3>1. Cardinality(saves) = 1
      BY <2>1, FS_Singleton
    <3> QED
      BY <1>2, <3>1 DEF OneSave, SavesAreExclusive
<1> QED
  BY <1>1, <1>2

\* A new save, and one that somebody more may wait for.
SaveOf(who) == [NewSave(dirty', persisted, seq') EXCEPT !.waiters = who]
Joined(s, who) == [s EXCEPT !.waiters = s.waiters \cup who]
IsJoined(who) == \E s \in saves : saves = {s} /\ saves' = {Joined(s, who)}

\* The page goes on, and sends a save of what it holds, or asks for one after
\* the save under way.  More may count as changed than before.
LEMMA SaveSent ==
  ASSUME AutosaveCore, NEW who \in Waiters, Alive, Alive', writer' \in {"none", "saving", "active", "ending"},
         dirty' \in {dirty, Keys}, pending' \in BOOLEAN, touched' \in BOOLEAN,
         UNCHANGED <<mem, stored, persisted, edits, unmarked, followUpFailed, frozen, hidden,
                     delta, overrun, left>>, window' = window \/ window' = "closing",
         touched => touched', seq' = seq \/ (seq' = seq + 1 /\ saves = {} /\ touched'),
         \/ saves = {} /\ saves' = {SaveOf(who)}
         \/ (pending => pending') /\ (saves' = saves \/ IsJoined(who))
  PROVE  /\ Types' /\ SavesAreRecent' /\ RestIsStored' /\ CleanIsStored'
         /\ DeltasAreCovered' /\ HiddenIsKept' /\ KilledInHiding'
         /\ LeftIsStored' /\ TeardownKeepsEdits'
<1> USE DEF Alive
<1>1. /\ Types /\ SavesAreRecent /\ RestIsStored /\ CleanIsStored /\ DeltasAreCovered
      /\ HiddenIsKept /\ OneSave
  BY DEF AutosaveCore
<1>2. dirty' \in SUBSET Keys /\ dirty' # {Prefs} /\ seq' \in Nat /\ persisted \in Nat /\ seq \in Nat
      /\ seq <= seq' /\ dirty \subseteq dirty' /\ persisted <= seq
  BY <1>1, AutosaveAssumption DEF Types
<1>12. ASSUME NEW t \in saves'
      PROVE  \/ /\ t \in AnySave /\ t.contents = mem /\ t.seen = mem /\ t.seq = seq' /\ ~t.followUp
                /\ ~t.records => seq' <= persisted
                /\ saves = {}
             \/ \E s \in saves : /\ t \in AnySave /\ t.contents = s.contents /\ t.seen = s.seen
                                 /\ t.seq = s.seq /\ t.followUp = s.followUp /\ (~t.records => ~s.records)
                                 /\ pending => pending'
  <2>1. CASE saves = {} /\ saves' = {SaveOf(who)}
    <3>1. mem \in Values /\ <<>> \in Seq(Level)
      BY <1>1, <1>2 DEF Types
    <3>2. /\ t.part = (IF dirty' = {} /\ seq' > persisted THEN Keys ELSE dirty' \cup {Prefs})
          /\ t.contents = mem /\ t.seen = mem /\ t.seq = seq'
          /\ t.records \in BOOLEAN
          /\ t.inFlight = TRUE /\ t.followUp = FALSE /\ t.retried = FALSE
          /\ t.waiters = who /\ t.outer = <<>>
          /\ t = [part |-> t.part, contents |-> t.contents, seen |-> t.seen, seq |-> t.seq,
                  records |-> t.records, inFlight |-> t.inFlight, followUp |-> t.followUp,
                  retried |-> t.retried, waiters |-> t.waiters, outer |-> t.outer]
      BY <2>1 DEF SaveOf, NewSave, Carried
    <3>3. t.part \in SUBSET Keys
      BY <1>2, <3>2, AutosaveAssumption
    <3>4. t \in AnySave
      BY <1>2, <3>1, <3>2, <3>3 DEF AnySave
    <3>5. ~t.records => ~(seq' > persisted)
      BY <2>1 DEF SaveOf, NewSave
    <3> QED
      BY <1>2, <2>1, <3>2, <3>4, <3>5
  <2>2. ASSUME pending => pending', IsJoined(who)
        PROVE  \E s \in saves : /\ t \in AnySave /\ t.contents = s.contents /\ t.seen = s.seen
                                /\ t.seq = s.seq /\ t.followUp = s.followUp /\ (~t.records => ~s.records)
    <3>1. PICK s \in saves : t = Joined(s, who)
      BY <2>2 DEF IsJoined
    <3>2. s \in AnySave
      BY <1>1 DEF Types
    <3> QED
      BY <3>1, <3>2 DEF Joined, AnySave, Waiters
  <2>3. CASE (pending => pending') /\ saves' = saves
    BY <1>1, <2>3 DEF Types
  <2> QED
    BY <2>1, <2>2, <2>3
<1>4. mem \in Values /\ stored \in Values /\ frozen \in Values
      /\ \A k \in Keys : mem[k] \in Nat /\ stored[k] \in Nat /\ frozen[k] \in Nat
  BY <1>1 DEF Types, Values
<1>5. Types'
  <2>1. \A s \in saves' : s \in AnySave
    BY <1>12
  <2> QED
    BY <1>1, <1>2, <2>1 DEF Types
<1>6. SavesAreRecent'
  <2> SUFFICES ASSUME NEW t \in saves'
               PROVE  /\ t.seq <= seq' /\ (t.seq = seq' => t.seen = mem) /\ (~pending' => t.seq = seq')
                      /\ ~t.records => t.seq <= persisted
                      /\ \A k \in Keys : /\ stored[k] <= t.contents[k] /\ t.contents[k] <= mem[k]
                                         /\ t.seen[k] <= t.contents[k]
                                         /\ k \in dirty' \/ k = Prefs \/ t.seen[k] = mem[k]
    BY <1>1 DEF SavesAreRecent
  <2>1. CASE t.contents = mem /\ t.seen = mem /\ t.seq = seq' /\ (~t.records => seq' <= persisted)
    BY <1>1, <1>2, <1>4, <2>1 DEF SavesAreRecent
  <2>2. ASSUME NEW s \in saves, t.contents = s.contents, t.seen = s.seen, t.seq = s.seq,
               ~t.records => ~s.records, pending => pending'
        PROVE  /\ t.seq <= seq' /\ (t.seq = seq' => t.seen = mem) /\ (~pending' => t.seq = seq')
               /\ ~t.records => t.seq <= persisted
               /\ \A k \in Keys : /\ stored[k] <= t.contents[k] /\ t.contents[k] <= mem[k]
                                  /\ t.seen[k] <= t.contents[k]
                                  /\ k \in dirty' \/ k = Prefs \/ t.seen[k] = mem[k]
    <3>1. seq' = seq
      BY <2>2
    <3> QED
      BY <1>1, <1>2, <2>2, <3>1 DEF SavesAreRecent
  <2> QED
    BY <1>12, <2>1, <2>2
<1>7. RestIsStored'
  <2> SUFFICES ASSUME ~touched', saves' = {}, ~pending'
               PROVE  seq' = persisted /\ \A k \in Keys : mem[k] = stored[k] \/ k \in unmarked
    BY DEF RestIsStored
  <2>1. ~touched /\ saves = {} /\ ~pending /\ seq' = seq
    BY DEF IsJoined
  <2> QED
    BY <1>1, <2>1 DEF RestIsStored
<1>8. CleanIsStored'
  <2> SUFFICES ASSUME ~followUpFailed, \A t \in saves' : ~t.followUp
               PROVE  \A s \in saves : ~s.followUp
    BY <1>1, <1>2 DEF CleanIsStored
  <2> SUFFICES ASSUME NEW s \in saves
               PROVE  ~s.followUp
    OBVIOUS
  <2>1. CASE IsJoined(who)
    <3>1. saves' = {Joined(s, who)}
      BY <2>1 DEF IsJoined
    <3>2. Joined(s, who).followUp = s.followUp
      BY <1>1 DEF Joined, Types, AnySave
    <3> QED
      BY <3>1, <3>2
  <2> QED
    BY <2>1
<1>9. DeltasAreCovered'
  <2> SUFFICES ASSUME NEW d \in delta, d.own
               PROVE  /\ d.seq <= seq' /\ (d.seq = seq' => d.contents = mem)
                      /\ \A s \in saves' : s.seq >= d.seq =>
                            \A k \in Keys : d.contents[k] <= s.seen[k]
    BY <1>1 DEF DeltasAreCovered
  <2>1. /\ d.seq \in Nat /\ d.seq <= seq /\ (d.seq = seq => d.contents = mem)
        /\ \A k \in Keys : d.contents[k] <= mem[k]
        /\ \A s \in saves : s.seq >= d.seq => \A k \in Keys : d.contents[k] <= s.seen[k]
    BY <1>1 DEF DeltasAreCovered, Types, AnyDelta
  <2>2. ASSUME NEW t \in saves', t.seq >= d.seq, NEW k \in Keys
        PROVE  d.contents[k] <= t.seen[k]
    BY <1>12, <2>1, <2>2
  <2> QED
    BY <2>1, <1>2, <2>2
<1>10. HiddenIsKept'
  <2> SUFFICES ASSUME hidden
               PROVE  HiddenIsKept'
    BY DEF HiddenIsKept
  <2>1. /\ \A k \in Keys : stored[k] >= frozen[k] \/ k \in unmarked \/ overrun \/ InDelta(k)
        /\ \A d \in delta : d.own => \A k \in d.part : d.contents[k] >= frozen[k]
        /\ \A k \in Keys : frozen[k] <= mem[k]
    BY <1>1 DEF HiddenIsKept
  <2>2. ASSUME NEW k \in Keys, NEW s \in saves'
        PROVE  \/ s.seen[k] >= frozen[k] \/ stored[k] >= frozen[k] \/ overrun
               \/ \E d \in delta : d.own /\ k \in d.part /\ s.seq < d.seq
    <3>1. CASE s.seen = mem
      BY <1>4, <2>1, <3>1
    <3>2. ASSUME NEW u \in saves, s.seen = u.seen, s.seq = u.seq
          PROVE  \/ s.seen[k] >= frozen[k] \/ stored[k] >= frozen[k] \/ overrun
                 \/ \E d \in delta : d.own /\ k \in d.part /\ s.seq < d.seq
      BY <1>1, <3>2 DEF HiddenIsKept
    <3> QED
      BY <1>12, <3>1, <3>2
  <2> QED
    BY <2>1, <2>2 DEF HiddenIsKept, InDelta
<1>11. KilledInHiding' /\ LeftIsStored' /\ TeardownKeepsEdits'
  <2>1. LeftIsStored'
    <3> SUFFICES ASSUME window = "leaving", NEW k \in Keys
                 PROVE  \A t \in saves' : t.seen[k] >= left[k]
      BY DEF LeftIsStored, AutosaveCore
    <3>1. left[k] <= mem[k] /\ left[k] \in Nat /\ \A s \in saves : s.seen[k] >= left[k]
      BY <1>1 DEF LeftIsStored, AutosaveCore, Types, Values
    <3> QED
      BY <1>4, <1>12, <3>1
  <2> QED
    BY <2>1 DEF KilledInHiding, TeardownKeepsEdits
<1> QED
  BY <1>5, <1>6, <1>7, <1>8, <1>9, <1>10, <1>11

\* saveState, called by a page that goes on.
LEMMA SaveStateSends ==
  ASSUME AutosaveCore, Alive, NEW who \in Waiters, SaveState(who), UNCHANGED persisted
  PROVE  /\ pending' \in BOOLEAN /\ timer' = "off" /\ UNCHANGED <<dirty, seq>>
         /\ \/ saves = {} /\ writer # "active" /\ saves' = {SaveOf(who)}
            \/ (pending => pending') /\ writer # "active" /\ IsJoined(who)
            \/ writer = "active" /\ pending' /\ saves = {} /\ saves' = {}
<1>1. /\ Types /\ OneSave /\ timer' = "off" /\ UNCHANGED <<dirty, seq>>
  BY DEF SaveState, AutosaveCore
<1>2. CASE writer = "active"
  BY <1>1, <1>2 DEF SaveState, OneSave
<1>3. CASE writer # "active" /\ saves # {}
  <2>1. PICK s \in saves : saves = {s} /\ s.inFlight
    BY <1>1, <1>3 DEF OneSave
  <2>2. saves' = {Joined(s, who)} /\ pending' = (pending \/ seq > s.seq)
    BY <1>3, <2>1 DEF SaveState, InFlight, Joined
  <2> QED
    BY <1>1, <1>3, <2>1, <2>2 DEF Types, IsJoined
<1>4. CASE writer # "active" /\ saves = {}
  <2>1. saves' = {SaveOf(who)} /\ pending' = pending
    BY <1>4 DEF SaveState, InFlight, DoSave, Apart, SaveOf
  <2> QED
    BY <1>1, <1>4, <2>1 DEF Types
<1> QED
  BY <1>2, <1>3, <1>4

\* Who waits for the new save, and for a save that follows another.
LEMMA SaveOfIs ==
  ASSUME NEW who \in Waiters
  PROVE  SaveOf(who).inFlight /\ Waiting(SaveOf(who)) = who
<1>1. SaveOf(who).waiters = who /\ SaveOf(who).outer = <<>> /\ SaveOf(who).inFlight
  BY DEF SaveOf, NewSave
<1> QED
  BY <1>1 DEF Waiting

LEMMA FollowUpWaits ==
  ASSUME NEW s \in AnySave, NEW last
  PROVE  Waiting(FollowUp(s, last)) = Waiting(s)
<1> DEFINE n == FollowUp(s, last)
           o == [seq |-> s.seq, records |-> s.records, waiters |-> s.waiters]
<1>1. /\ s.outer \in Seq(Level) /\ s.retried \in BOOLEAN
      /\ n.waiters = IF s.retried THEN s.waiters ELSE {}
      /\ n.outer = IF s.retried THEN s.outer ELSE <<o>> \o s.outer
      /\ o \in Level
  BY DEF FollowUp, NewSave, AnySave, Level
<1> HIDE DEF n, o
<1>2. CASE s.retried
  BY <1>1, <1>2 DEF Waiting, n
<1>3. CASE ~s.retried
  <2>1. /\ DOMAIN n.outer = 1..(Len(s.outer) + 1) /\ DOMAIN s.outer = 1..Len(s.outer)
        /\ Len(s.outer) \in Nat /\ n.outer[1] = o
        /\ \A i \in 1..Len(s.outer) : n.outer[i + 1] = s.outer[i]
    BY <1>1, <1>3
  <2>2. o.waiters = s.waiters
    BY DEF o
  <2>3. ASSUME NEW w
        PROVE  w \in Waiting(n) <=> w \in Waiting(s)
    <3>1. w \in Waiting(n) <=> \E i \in 1..(Len(s.outer) + 1) : w \in n.outer[i].waiters
      BY <1>1, <1>3, <2>1 DEF Waiting
    <3>2. w \in Waiting(s) <=> w \in s.waiters \/ \E i \in 1..Len(s.outer) : w \in s.outer[i].waiters
      BY <2>1 DEF Waiting
    <3>3. ASSUME NEW i \in 1..(Len(s.outer) + 1), w \in n.outer[i].waiters
          PROVE  w \in Waiting(s)
      <4>1. CASE i = 1
        BY <2>1, <2>2, <3>2, <3>3, <4>1
      <4>2. CASE i # 1
        <5>1. i - 1 \in 1..Len(s.outer) /\ n.outer[i] = s.outer[i - 1]
          BY <2>1, <4>2
        <5> QED
          BY <3>2, <3>3, <5>1
      <4> QED
        BY <4>1, <4>2
    <3>4. ASSUME w \in Waiting(s)
          PROVE  w \in Waiting(n)
      <4>1. CASE w \in s.waiters
        BY <2>1, <2>2, <3>1, <4>1
      <4>2. ASSUME NEW i \in 1..Len(s.outer), w \in s.outer[i].waiters
            PROVE  w \in Waiting(n)
        BY <2>1, <3>1, <4>2
      <4> QED
        BY <3>2, <3>4, <4>1, <4>2
    <3> QED
      BY <3>1, <3>3, <3>4
  <2> QED
    BY <2>3 DEF n
<1> QED
  BY <1>1, <1>2, <1>3 DEF AnySave
\* saveState leaves one save at a time, and the write waits for it.
LEMMA SaveStaysOne ==
  ASSUME Types, OneSave, Alive, Alive', NEW who \in Waiters, timer' = "off",
         writer' = writer \/ (writer = "none" /\ writer' = "saving" /\ who = {"writer"}),
         \/ saves = {} /\ writer # "active" /\ saves' = {SaveOf(who)}
         \/ writer # "active" /\ IsJoined(who)
         \/ writer = "active" /\ saves = {} /\ saves' = {}
  PROVE  OneSave'
<1>1. CASE saves = {} /\ writer # "active" /\ saves' = {SaveOf(who)}
  BY <1>1, SaveOfIs DEF OneSave
<1>2. CASE writer # "active" /\ IsJoined(who)
  <2>1. PICK s \in saves : saves = {s} /\ saves' = {Joined(s, who)}
    BY <1>2 DEF IsJoined
  <2>2. s \in AnySave /\ s.inFlight /\ (writer \in {"saving", "ending"} => "writer" \in Waiting(s))
    BY <2>1 DEF Types, OneSave
  <2>3. /\ Joined(s, who).inFlight = s.inFlight /\ Joined(s, who).outer = s.outer
        /\ Joined(s, who).waiters = s.waiters \cup who
    BY <2>2 DEF Joined, AnySave
  <2>4. Waiting(Joined(s, who)) = Waiting(s) \cup who
    BY <2>3 DEF Waiting
  <2> QED
    BY <1>2, <2>1, <2>2, <2>3, <2>4 DEF OneSave
<1>3. CASE writer = "active" /\ saves = {} /\ saves' = {}
  BY <1>3 DEF OneSave
<1> QED
  BY <1>1, <1>2, <1>3
-------------------------------------------------------------------------------
(* The actions.                                                            *)

LEMMA InitInvariant ==
  ASSUME Init
  PROVE  AutosaveCore
<1>1. Types
  <2>1. mem \in Values /\ stored \in Values /\ frozen \in Values /\ left \in Values
    BY DEF Init, Values
  <2>2. \A d \in delta : d = [part |-> {}, contents |-> mem, seq |-> 0, own |-> FALSE]
    BY DEF Init
  <2>3. \A d \in delta : d \in AnyDelta
    <3>1. [part |-> {}, contents |-> mem, seq |-> 0, own |-> FALSE] \in AnyDelta
      BY <2>1 DEF AnyDelta
    <3> QED
      BY <2>2, <3>1
  <2>4. dirty \in SUBSET Keys /\ dirty # {Prefs}
    BY AutosaveAssumption DEF Init
  <2>5. edits \in Nat /\ \A k \in Keys : mem[k] <= edits
    BY DEF Init
  <2>6. \A s \in saves : s \in AnySave
    BY DEF Init
  <2>7. /\ touched \in BOOLEAN /\ pending \in BOOLEAN /\ hidden \in BOOLEAN
        /\ overrun \in BOOLEAN /\ followUpFailed \in BOOLEAN
    BY DEF Init
  <2>8. /\ unmarked \in SUBSET Keys /\ seq \in Nat /\ persisted \in Nat /\ persisted <= seq
        /\ writer \in {"none", "saving", "active", "ending"}
    BY DEF Init
  <2> QED
    BY <2>1, <2>3, <2>4, <2>5, <2>6, <2>7, <2>8 DEF Types
<1>2. \A k \in Keys : mem[k] = 0 /\ stored[k] = 0
  BY DEF Init
<1>3. OneSave /\ SavesAreRecent /\ RestIsStored /\ CleanIsStored
  BY <1>2 DEF Init, OneSave, SavesAreRecent, RestIsStored, CleanIsStored
<1>4. DeltasAreCovered
  <2>1. \A d \in delta : d = [part |-> {}, contents |-> mem, seq |-> 0, own |-> FALSE]
    BY DEF Init
  <2>2. \A d \in delta : ~d.own /\ d.part = {}
    BY <2>1
  <2> QED
    BY <2>1, <2>2 DEF DeltasAreCovered
<1>5. HiddenIsKept /\ KilledInHiding /\ LeftIsStored /\ TeardownKeepsEdits
  BY DEF Init, HiddenIsKept, KilledInHiding, LeftIsStored, TeardownKeepsEdits
<1> QED
  BY <1>1, <1>3, <1>4, <1>5 DEF AutosaveCore

LEMMA EditInvariant ==
  ASSUME AutosaveCore, NEW k \in Keys, Edit(k)
  PROVE  AutosaveCore'
<1> USE DEF Alive
<1>1. /\ Types /\ OneSave /\ SavesAreRecent /\ DeltasAreCovered
  BY DEF AutosaveCore
<1>2. /\ Alive /\ ~hidden /\ edits' = edits + 1 /\ mem' = [mem EXCEPT ![k] = edits']
      /\ dirty' = (IF k = Prefs THEN dirty ELSE dirty \cup {k})
      /\ seq' = seq + 1 /\ touched' = TRUE
      /\ UNCHANGED <<stored, persisted, saves, writer, window, left, hidden, delta, overrun, frozen,
                     unmarked, followUpFailed>>
  BY DEF Edit, teardown, exit, history
<1>3. IF writer = "active" \/ saves # {} THEN pending' = TRUE /\ UNCHANGED timer
                                         ELSE timer' = "on" /\ UNCHANGED pending
  BY <1>1 DEF Edit, ScheduleSave, InFlight, OneSave
<1>4. \A q \in Keys : /\ mem[q] \in Nat /\ mem[q] <= edits /\ mem'[q] = IF q = k THEN edits + 1 ELSE mem[q]
                      /\ mem[q] <= mem'[q] /\ stored[q] \in Nat /\ mem'[q] \in Nat /\ mem'[q] <= edits'
  BY <1>1, <1>2 DEF Types, Values
<1>5. Types'
  <2>1. mem' \in Values /\ edits' \in Nat /\ seq' \in Nat /\ persisted <= seq'
    BY <1>1, <1>2, <1>4 DEF Types, Values
  <2>2. dirty' \in SUBSET Keys /\ dirty' # {Prefs}
    BY <1>1, <1>2 DEF Types
  <2>3. pending' \in BOOLEAN
    BY <1>1, <1>3 DEF Types
  <2> QED
    BY <1>1, <1>2, <1>4, <2>1, <2>2, <2>3 DEF Types
<1>6. OneSave'
  BY <1>1, <1>2, <1>3 DEF OneSave, Types
<1>7. SavesAreRecent'
  <2>1. \A q \in Keys : stored[q] <= mem'[q]
    BY <1>1, <1>2, <1>4 DEF SavesAreRecent
  <2>2. ASSUME NEW s \in saves
        PROVE  /\ s.seq <= seq' /\ s.seq # seq' /\ pending'
               /\ ~s.records => s.seq <= persisted
               /\ \A q \in Keys : /\ stored[q] <= s.contents[q] /\ s.contents[q] <= mem'[q]
                                  /\ s.seen[q] <= s.contents[q]
                                  /\ q \in dirty' \/ q = Prefs \/ s.seen[q] = mem'[q]
    <3>1. s \in AnySave /\ seq \in Nat
      BY <1>1 DEF Types
    <3>2. /\ s.seq \in Nat /\ s.seq <= seq /\ (~s.records => s.seq <= persisted)
          /\ \A q \in Keys : /\ stored[q] <= s.contents[q] /\ s.contents[q] <= mem[q]
                             /\ s.seen[q] <= s.contents[q] /\ s.contents[q] \in Nat
                             /\ q \in dirty \/ q = Prefs \/ s.seen[q] = mem[q]
      BY <1>1, <1>2, <3>1 DEF SavesAreRecent, AnySave, Values
    <3> QED
      BY <1>2, <1>3, <1>4, <3>1, <3>2
  <2> QED
    BY <1>2, <2>1, <2>2 DEF SavesAreRecent
<1>8. RestIsStored' /\ HiddenIsKept' /\ KilledInHiding' /\ LeftIsStored' /\ TeardownKeepsEdits'
  <2>1. \A q \in Keys : left[q] \in Nat
    BY <1>1 DEF Types, Values
  <2>2. LeftIsStored'
    BY <1>2, <1>4, <2>1 DEF AutosaveCore, LeftIsStored
  <2> QED
    BY <1>2, <2>2 DEF RestIsStored, HiddenIsKept, KilledInHiding, TeardownKeepsEdits
<1>9. CleanIsStored'
  BY <1>2, <1>4 DEF AutosaveCore, CleanIsStored
<1>10. DeltasAreCovered'
  <2> SUFFICES ASSUME NEW d \in delta, d.own
               PROVE  /\ d.seq <= seq' /\ d.seq # seq'
                      /\ \A q \in Keys : d.contents[q] <= mem'[q]
    BY <1>1, <1>2 DEF DeltasAreCovered
  <2>1. d \in AnyDelta /\ d.seq <= seq /\ \A q \in Keys : d.contents[q] <= mem[q]
    BY <1>1, <1>2 DEF DeltasAreCovered, Types
  <2> QED
    BY <1>1, <1>2, <1>4, <2>1 DEF AnyDelta, Types, Values
<1> QED
  BY <1>5, <1>6, <1>7, <1>8, <1>9, <1>10 DEF AutosaveCore

\* The timer fires, a dialog saves, or an exclusive write has its turn.
LEMMA SendInvariant ==
  ASSUME AutosaveCore, TimerFires \/ AskToSave \/ BeginWrite
  PROVE  AutosaveCore'
<1>1. /\ Alive /\ Alive' /\ Types /\ OneSave
      /\ UNCHANGED <<dirty, touched, seq, mem, stored, persisted, edits, unmarked,
                     followUpFailed, frozen, hidden, delta, overrun, left, window>>
  BY DEF AutosaveCore, TimerFires, AskToSave, BeginWrite, SaveState, teardown, bounds, exit, history, Alive
<1>2. CASE TimerFires
  <2>1. /\ saves = {} /\ writer = "none" /\ writer' = writer /\ timer' = "fired" /\ pending' = pending
        /\ saves' = {SaveOf({})} /\ {} \in Waiters
    BY <1>1, <1>2 DEF TimerFires, OneSave, DoSave, Apart, SaveOf, Waiters
  <2>2. OneSave'
    BY <1>1, <2>1, SaveOfIs DEF OneSave
  <2> QED
    BY <1>1, <2>1, <2>2, SaveSent DEF AutosaveCore, Types
<1>3. CASE AskToSave \/ BeginWrite
  <2>1. PICK who \in Waiters : /\ SaveState(who)
                               /\ \/ writer' = writer
                                  \/ writer = "none" /\ writer' = "saving" /\ who = {"writer"}
    BY <1>3 DEF AskToSave, BeginWrite, Waiters
  <2>2. /\ pending' \in BOOLEAN /\ timer' = "off"
        /\ \/ saves = {} /\ writer # "active" /\ saves' = {SaveOf(who)}
           \/ (pending => pending') /\ writer # "active" /\ IsJoined(who)
           \/ writer = "active" /\ pending' /\ saves = {} /\ saves' = {}
    BY <1>1, <2>1, SaveStateSends
  <2>3. OneSave'
    BY <1>1, <2>1, <2>2, SaveStaysOne
  <2>4. writer' \in {"none", "saving", "active", "ending"} /\ touched' \in BOOLEAN
    BY <1>1, <2>1 DEF Types
  <2>5. /\ Types' /\ SavesAreRecent' /\ RestIsStored' /\ CleanIsStored'
        /\ DeltasAreCovered' /\ HiddenIsKept' /\ KilledInHiding'
        /\ LeftIsStored' /\ TeardownKeepsEdits'
    BY <1>1, <2>1, <2>2, <2>4, SaveSent
  <2> QED
    BY <2>3, <2>5 DEF AutosaveCore
<1> QED
  BY <1>2, <1>3

LEMMA EndWriteInvariant ==
  ASSUME AutosaveCore, EndWrite
  PROVE  AutosaveCore'
<1>1. PICK replaced \in BOOLEAN :
        /\ dirty' = IF replaced THEN Keys ELSE dirty
        /\ seq' = IF replaced THEN seq + 1 ELSE seq
        /\ touched' = (touched \/ replaced)
  BY DEF EndWrite
<1>2. /\ Alive /\ Alive' /\ saves = {} /\ pending' = FALSE /\ timer' = timer
      /\ writer = "active" /\ Types /\ OneSave
      /\ UNCHANGED <<mem, stored, persisted, edits, unmarked, followUpFailed, frozen, hidden,
                     delta, overrun, left, window>>
  BY DEF EndWrite, AutosaveCore, OneSave, bounds, teardown, exit, history, Alive
<1>3. /\ dirty' \in {dirty, Keys} /\ touched' \in BOOLEAN /\ (touched => touched')
      /\ seq' = seq \/ (seq' = seq + 1 /\ saves = {} /\ touched')
  BY <1>1, <1>2 DEF Types
<1>4. CASE pending
  <2>1. PICK who \in Waiters : DoSave(who) /\ writer' = "ending" /\ "writer" \in who
    <3>1. {"writer"} \cup (IF asked THEN {"window"} ELSE {}) \in Waiters
      BY DEF Waiters
    <3> QED
      BY <1>4, <3>1 DEF EndWrite
  <2>2. saves' = {SaveOf(who)}
    BY <1>2, <2>1 DEF DoSave, Apart, SaveOf
  <2>3. OneSave'
    BY <1>2, <2>1, <2>2, SaveOfIs DEF OneSave, Alive
  <2>4. pending' \in BOOLEAN /\ writer' \in {"none", "saving", "active", "ending"}
    BY <1>2, <2>1
  <2>5. /\ Types' /\ SavesAreRecent' /\ RestIsStored' /\ CleanIsStored'
        /\ DeltasAreCovered' /\ HiddenIsKept' /\ KilledInHiding'
        /\ LeftIsStored' /\ TeardownKeepsEdits'
    BY <1>2, <1>3, <2>1, <2>2, <2>4, SaveSent
  <2> QED
    BY <2>3, <2>5 DEF AutosaveCore
<1>5. CASE ~pending
  <2>1. writer' = "none" /\ saves' = {}
    BY <1>2, <1>5 DEF EndWrite
  <2>2. OneSave'
    BY <1>2, <2>1 DEF OneSave, Alive
  <2>3. /\ Types' /\ SavesAreRecent' /\ RestIsStored' /\ CleanIsStored'
        /\ DeltasAreCovered' /\ HiddenIsKept' /\ KilledInHiding'
        /\ LeftIsStored' /\ TeardownKeepsEdits'
    <3>1. {} \in Waiters /\ pending' \in BOOLEAN /\ writer' \in {"none", "saving", "active", "ending"}
          /\ saves' = saves /\ (pending => pending')
      BY <1>2, <1>5, <2>1 DEF Waiters
    <3> QED
      BY <1>2, <1>3, <3>1, SaveSent
  <2> QED
    BY <2>2, <2>3 DEF AutosaveCore
<1> QED
  BY <1>4, <1>5

\* A save is stored.  What was edited meanwhile is sent at once, and the delta
\* the save covers is dropped.
LEMMA SuccessInvariant ==
  ASSUME AutosaveCore, NEW s \in saves, Alive, Succeed(s),
         UNCHANGED <<mem, seq, timer, edits, hidden, overrun, frozen, followUpFailed>>
  PROVE  AutosaveCore'
<1>1. /\ Types /\ OneSave /\ SavesAreRecent /\ DeltasAreCovered /\ HiddenIsKept
  BY DEF AutosaveCore
<1> DEFINE n == FollowUp(s, persisted')
<1>2. /\ stored' = Overlay(stored, s.part, s.contents)
      /\ persisted' = IF s.seq > persisted THEN s.seq ELSE persisted
      /\ dirty' = {} /\ pending' = FALSE /\ touched' = FALSE
      /\ delta' = (IF Covers(s) THEN {} ELSE delta)
      /\ unmarked' = {k \in Keys : stored'[k] < s.seen[k]}
  BY DEF Succeed
<1>3. /\ saves = {s} /\ writer # "active" /\ timer # "on" /\ s.inFlight /\ s \in AnySave
      /\ writer \in {"saving", "ending"} => "writer" \in Waiting(s)
  BY <1>1 DEF OneSave, Types
<1>4. \/ pending /\ saves' = {n} /\ writer' = writer /\ window' = window /\ left' = left
      \/ /\ ~pending /\ saves' = {} /\ writer' \in {"none", "active"}
         /\ \/ window' = window /\ left' = left
            \/ window' = "leaving" /\ left' = mem
  <2>1. Apart(saves \ {s}) = {}
    BY <1>3 DEF Apart
  <2>2. CASE pending
    BY <2>1, <2>2 DEF Succeed, exit
  <2>3. CASE ~pending
    <3>1. saves' = {} /\ Resolve(Waiting(s))
      BY <2>1, <2>3 DEF Succeed
    <3> QED
      BY <1>1, <1>3, <2>3, <3>1 DEF Resolve, Types
  <2> QED
    BY <2>2, <2>3
<1>5. /\ s.seq \in Nat /\ s.seq <= seq /\ (s.seq = seq => s.seen = mem) /\ (~pending => s.seq = seq)
      /\ ~s.records => s.seq <= persisted
      /\ s.contents \in Values /\ s.seen \in Values /\ s.part \in SUBSET Keys
      /\ seq \in Nat /\ persisted \in Nat /\ persisted <= seq
      /\ mem \in Values /\ stored \in Values /\ frozen \in Values
  BY <1>1 DEF SavesAreRecent, Types, AnySave
<1>6. persisted' \in Nat /\ persisted <= persisted' /\ persisted' <= seq /\ s.seq <= persisted'
  BY <1>2, <1>5
<1>7. ASSUME NEW k \in Keys
      PROVE  /\ stored'[k] \in Nat /\ mem[k] \in Nat /\ s.seen[k] \in Nat /\ stored[k] \in Nat
             /\ frozen[k] \in Nat
             /\ stored[k] <= stored'[k] /\ stored'[k] <= mem[k]
             /\ stored'[k] >= s.seen[k] \/ k \in unmarked'
  <2>1. stored[k] <= s.contents[k] /\ s.contents[k] <= mem[k] /\ stored[k] <= mem[k]
    BY <1>1 DEF SavesAreRecent
  <2>2. stored'[k] = IF k \in s.part THEN s.contents[k] ELSE stored[k]
    BY <1>2 DEF Overlay
  <2>3. s.contents[k] \in Nat /\ mem[k] \in Nat /\ s.seen[k] \in Nat /\ stored[k] \in Nat
        /\ frozen[k] \in Nat
    BY <1>5 DEF Values
  <2>4. k \in unmarked' <=> stored'[k] < s.seen[k]
    BY <1>2
  <2> QED
    BY <2>1, <2>2, <2>3, <2>4
<1>8. stored' \in Values
  BY <1>2, <1>5 DEF Overlay, Values
<1>9. /\ n \in AnySave /\ n.contents = mem /\ n.seen = mem /\ n.seq = seq /\ n.followUp /\ n.inFlight
      /\ ~n.records => seq <= persisted'
      /\ Waiting(n) = Waiting(s)
  <2> DEFINE o == [seq |-> s.seq, records |-> s.records, waiters |-> s.waiters]
  <2>1. o \in Level /\ s.outer \in Seq(Level) /\ s.waiters \in Waiters /\ s.retried \in BOOLEAN
    BY <1>3 DEF AnySave, Level
  <2> HIDE DEF o
  <2>2. <<o>> \o s.outer \in Seq(Level)
    BY <2>1
  <2>3. /\ n.part = (IF seq > persisted' THEN Keys ELSE {Prefs}) /\ n.contents = mem /\ n.seen = mem
        /\ n.seq = seq /\ n.records \in BOOLEAN /\ n.inFlight = TRUE /\ n.followUp = TRUE /\ n.retried = FALSE
        /\ n.waiters = (IF s.retried THEN s.waiters ELSE {})
    BY DEF FollowUp, NewSave, Carried
  <2>6. n.outer = (IF s.retried THEN s.outer ELSE <<o>> \o s.outer)
    BY DEF FollowUp, NewSave, o
  <2>4. Waiting(n) = Waiting(s) /\ (~n.records => ~(seq > persisted'))
    BY <1>3, FollowUpWaits DEF FollowUp, NewSave
  <2> HIDE DEF n
  <2>5. n \in AnySave
    <3> DEFINE b == NewSave({}, persisted', seq)
               w == IF s.retried THEN s.waiters ELSE {}
               u == IF s.retried THEN s.outer ELSE <<o>> \o s.outer
    <3>1. w \in Waiters /\ u \in Seq(Level)
      BY <2>1, <2>2 DEF Waiters
    <3>2. b \in AnySave
      <4>1. <<>> \in Seq(Level) /\ {} \in Waiters
        BY DEF Waiters
      <4> QED
        BY <1>5, <4>1, AutosaveAssumption DEF NewSave, AnySave, Carried
    <3>3. n = [b EXCEPT !.followUp = TRUE, !.waiters = w, !.outer = u]
      BY DEF n, FollowUp, o
    <3> HIDE DEF b, w, u
    <3> QED
      BY <3>1, <3>2, <3>3 DEF AnySave
  <2> QED
    BY <1>5, <1>6, <2>3, <2>4, <2>5
<1> HIDE DEF n
<1>10. Types'
  <2>1. \A t \in saves' : t \in AnySave
    BY <1>4, <1>9
  <2>2. \A d \in delta' : d \in AnyDelta
    BY <1>1, <1>2 DEF Types
  <2>3. /\ writer' \in {"none", "saving", "active", "ending"} /\ pending' \in BOOLEAN
        /\ touched' \in BOOLEAN /\ left' \in Values
    BY <1>1, <1>2, <1>4 DEF Types
  <2>4. dirty' \in SUBSET Keys /\ dirty' # {Prefs} /\ unmarked' \in SUBSET Keys
    BY <1>2
  <2> QED
    BY <1>1, <1>6, <1>8, <2>1, <2>2, <2>3, <2>4 DEF Types
<1>11. OneSave'
  <2>1. CASE pending
    BY <1>1, <1>3, <1>4, <1>9, <2>1 DEF OneSave, Alive
  <2>2. CASE ~pending
    BY <1>3, <1>4, <2>2 DEF OneSave
  <2> QED
    BY <2>1, <2>2
<1>12. SavesAreRecent'
  <2>1. \A k \in Keys : stored'[k] <= mem[k]
    BY <1>7
  <2>2. CASE saves' = {}
    BY <2>1, <2>2 DEF SavesAreRecent
  <2>3. CASE saves' = {n}
    <3>1. \A k \in Keys : stored'[k] <= n.contents[k] /\ n.contents[k] <= mem[k]
                          /\ n.seen[k] <= n.contents[k] /\ n.seen[k] = mem[k]
      BY <1>7, <1>9
    <3> QED
      BY <1>5, <1>9, <2>1, <2>3, <3>1 DEF SavesAreRecent
  <2> QED
    BY <1>4, <2>2, <2>3
<1>13. ASSUME ~pending
       PROVE  seq = persisted' /\ \A k \in Keys : mem[k] = stored'[k] \/ k \in unmarked'
  <2>1. s.seen = mem /\ s.seq = seq
    BY <1>5, <1>13
  <2> QED
    BY <1>5, <1>6, <1>7, <2>1
<1>14. RestIsStored' /\ CleanIsStored'
  <2>1. CASE pending
    BY <1>4, <1>9, <2>1 DEF RestIsStored, CleanIsStored, Alive
  <2>2. CASE ~pending
    BY <1>13, <2>2 DEF RestIsStored, CleanIsStored
  <2> QED
    BY <2>1, <2>2
<1>19. LeftIsStored'
  <2> SUFFICES ASSUME window' = "leaving", NEW k \in Keys
               PROVE  /\ stored'[k] >= left'[k] \/ k \in unmarked'
                      /\ left'[k] <= mem[k] /\ \A t \in saves' : t.seen[k] >= left'[k]
    BY <1>4 DEF LeftIsStored, Alive
  <2>1. CASE window = "leaving" /\ left' = left
    <3>1. left[k] <= mem[k] /\ s.seen[k] >= left[k] /\ left[k] \in Nat
      BY <1>1, <2>1 DEF AutosaveCore, LeftIsStored, Types, Values
    <3> QED
      BY <1>4, <1>7, <1>9, <2>1, <3>1
  <2>2. CASE ~pending /\ left' = mem
    BY <1>4, <1>7, <1>13, <2>2
  <2> QED
    BY <1>4, <2>1, <2>2
<1>15. ASSUME NEW d \in delta', d.own
       PROVE  /\ d \in delta /\ d.seq <= seq /\ (d.seq = seq => d.contents = mem)
              /\ d.seq <= persisted' => d.seq = persisted'
              /\ \A k \in Keys : d.contents[k] <= mem[k]
  <2>1. d \in delta /\ d \in AnyDelta /\ ~Covers(s)
    BY <1>1, <1>2, <1>15 DEF Types
  <2>2. /\ d.seq <= seq /\ (d.seq = seq => d.contents = mem)
        /\ d.seq <= persisted => d.seq = persisted
        /\ \A k \in Keys : d.contents[k] <= mem[k]
    BY <1>1, <1>15, <2>1 DEF DeltasAreCovered
  <2>3. s.seq >= d.seq => ~s.records
    BY <1>15, <2>1 DEF Covers
  <2>4. d.seq \in Nat
    BY <2>1 DEF AnyDelta
  <2> QED
    BY <1>2, <1>5, <2>1, <2>2, <2>3, <2>4
<1>16. DeltasAreCovered'
  <2>1. \A d, e \in delta' : d = e
    BY <1>1, <1>2 DEF DeltasAreCovered
  <2>2. \A d \in delta' : ~d.own => d.part = {}
    BY <1>1, <1>2 DEF DeltasAreCovered
  <2>3. ASSUME NEW d \in delta', d.own, NEW t \in saves', NEW k \in Keys
        PROVE  d.contents[k] <= t.seen[k]
    BY <1>4, <1>9, <1>15, <2>3
  <2> QED
    BY <1>15, <2>1, <2>2, <2>3 DEF DeltasAreCovered
<1>17. HiddenIsKept'
  <2> SUFFICES ASSUME hidden, Alive'
               PROVE  HiddenIsKept'
    BY <1>4 DEF HiddenIsKept, Alive
  <2>1. /\ \A k \in Keys : stored[k] >= frozen[k] \/ k \in unmarked \/ overrun \/ InDelta(k)
        /\ \A d \in delta : d.own => \A k \in d.part : d.contents[k] >= frozen[k]
        /\ \A k \in Keys : /\ frozen[k] <= mem[k]
                           /\ \/ s.seen[k] >= frozen[k] \/ stored[k] >= frozen[k] \/ overrun
                              \/ \E d \in delta : d.own /\ k \in d.part /\ s.seq < d.seq
    BY <1>1 DEF HiddenIsKept
  <2>2. \A d \in delta' : d.own => \A k \in d.part : d.contents[k] >= frozen[k]
    BY <1>15, <2>1
  <2>3. ASSUME NEW k \in Keys, ~overrun
        PROVE  stored'[k] >= frozen[k] \/ k \in unmarked' \/ InDelta(k)'
    <3>1. CASE stored[k] >= frozen[k]
      BY <1>7, <3>1
    <3>2. CASE s.seen[k] >= frozen[k]
      BY <1>7, <3>2
    <3>3. CASE \E d \in delta : d.own /\ k \in d.part /\ s.seq < d.seq
      <4>1. PICK d \in delta : d.own /\ k \in d.part /\ s.seq < d.seq
        BY <3>3
      <4>2. d.seq \in Nat /\ \A e \in delta : e = d
        BY <1>1 DEF Types, AnyDelta, DeltasAreCovered
      <4>3. ~Covers(s)
        BY <1>5, <4>1, <4>2 DEF Covers
      <4> QED
        BY <1>2, <4>1, <4>3 DEF InDelta
    <3> QED
      BY <2>1, <2>3, <3>1, <3>2, <3>3
  <2>4. \A t \in saves' : \A k \in Keys : t.seen[k] >= frozen[k]
    BY <1>4, <1>7, <1>9, <2>1
  <2> QED
    BY <2>1, <2>2, <2>3, <2>4 DEF HiddenIsKept
<1>18. KilledInHiding' /\ TeardownKeepsEdits'
  BY <1>4 DEF KilledInHiding, TeardownKeepsEdits, Alive
<1> QED
  BY <1>10, <1>11, <1>12, <1>14, <1>16, <1>17, <1>18, <1>19 DEF AutosaveCore

\* A refused save is sent again, in full, as the page is by now.
LEMMA RejectionInvariant ==
  ASSUME AutosaveCore, SaveIsRejected
  PROVE  AutosaveCore'
<1>1. PICK s \in saves : saves' = (saves \ {s}) \cup {Full(s)}
  BY DEF SaveIsRejected
<1> DEFINE n == Full(s)
<1>2. /\ Types /\ OneSave /\ SavesAreRecent /\ DeltasAreCovered /\ HiddenIsKept
      /\ Alive /\ s \in AnySave
  BY DEF AutosaveCore, Types, SaveIsRejected
<1>3. UNCHANGED <<mem, stored, dirty, seq, persisted, touched, timer, pending, writer, window, left, edits,
                  hidden, delta, overrun, frozen, unmarked, followUpFailed, again>>
  BY DEF SaveIsRejected, teardown, exit, history
<1>4. saves = {s} /\ saves' = {n}
  BY <1>1, <1>2 DEF OneSave
<1>5. /\ n \in AnySave /\ n.contents = mem /\ n.part = Keys /\ n.seen = s.seen /\ n.seq = s.seq
      /\ n.followUp = s.followUp /\ (~n.records => ~s.records) /\ n.inFlight = s.inFlight
      /\ Waiting(n) = Waiting(s)
  <2>1. /\ n \in AnySave /\ n.contents = mem /\ n.part = Keys /\ n.seen = s.seen /\ n.seq = s.seq
        /\ n.followUp = s.followUp /\ n.records = s.records /\ n.inFlight = s.inFlight
        /\ n.waiters = s.waiters /\ n.outer = s.outer
    BY <1>2 DEF AnySave, Types, Full
  <2> QED
    BY <2>1 DEF Waiting
<1> HIDE DEF n
<1>6. Types'
  <2>1. \A t \in saves' : t \in AnySave
    BY <1>4, <1>5
  <2>2. Types
    BY <1>2
  <2> QED
    BY <1>3, <2>1, <2>2 DEF Types
<1>7. OneSave'
  <2>1. /\ s.inFlight /\ writer # "active" /\ timer # "on"
        /\ writer \in {"saving", "ending"} => "writer" \in Waiting(s)
    BY <1>2, <1>4 DEF OneSave
  <2> QED
    BY <1>3, <1>4, <1>5, <2>1 DEF OneSave, Alive
<1>8. SavesAreRecent'
  <2>1. /\ \A k \in Keys : stored[k] <= mem[k]
        /\ s.seq <= seq /\ (s.seq = seq => s.seen = mem) /\ (~pending => s.seq = seq)
        /\ ~s.records => s.seq <= persisted
        /\ \A k \in Keys : /\ s.seen[k] <= s.contents[k] /\ s.contents[k] <= mem[k]
                           /\ s.contents[k] \in Nat /\ s.seen[k] \in Nat /\ mem[k] \in Nat
                           /\ k \in dirty \/ k = Prefs \/ s.seen[k] = mem[k]
    BY <1>2 DEF SavesAreRecent, AnySave, Values, Types
  <2>2. \A k \in Keys : s.seen[k] <= mem[k]
    BY <2>1
  <2>3. n.seq = s.seq /\ n.seen = s.seen /\ n.contents = mem /\ (~n.records => ~s.records)
    BY <1>5
  <2>4. /\ n.seq <= seq /\ (n.seq = seq => n.seen = mem) /\ (~pending => n.seq = seq)
        /\ ~n.records => n.seq <= persisted
        /\ \A k \in Keys : /\ stored[k] <= n.contents[k] /\ n.contents[k] <= mem[k]
                           /\ n.seen[k] <= n.contents[k]
                           /\ k \in dirty \/ k = Prefs \/ n.seen[k] = mem[k]
    BY <2>1, <2>2, <2>3
  <2> QED
    BY <1>3, <1>4, <2>1, <2>4 DEF SavesAreRecent, Alive
<1>9. RestIsStored' /\ CleanIsStored' /\ KilledInHiding' /\ LeftIsStored' /\ TeardownKeepsEdits'
  BY <1>3, <1>4, <1>5
     DEF AutosaveCore, RestIsStored, CleanIsStored, KilledInHiding, LeftIsStored, TeardownKeepsEdits, Alive
<1>10. DeltasAreCovered' /\ HiddenIsKept'
  BY <1>2, <1>3, <1>4, <1>5 DEF DeltasAreCovered, HiddenIsKept, Alive, InDelta
<1> QED
  BY <1>6, <1>7, <1>8, <1>9, <1>10 DEF AutosaveCore

LEMMA FailureInvariant ==
  ASSUME AutosaveCore, SaveFails
  PROVE  AutosaveCore'
<1>1. PICK s \in saves : GiveUp(s) /\ saves' = Apart(saves \ {s}) /\ Reject(Waiting(s))
  BY DEF SaveFails
<1>2. /\ Types /\ OneSave /\ SavesAreRecent /\ DeltasAreCovered /\ HiddenIsKept /\ CleanIsStored
      /\ Alive /\ s \in AnySave
  BY <1>1 DEF AutosaveCore, Types, GiveUp
<1>13. /\ saves = {s} /\ writer # "active" /\ stored' \in {stored, Overlay(stored, s.part, s.contents)}
       /\ followUpFailed' = (followUpFailed \/ s.followUp)
  BY <1>1, <1>2 DEF OneSave, GiveUp
<1>3. /\ pending' = FALSE /\ seq' = seq + 1 /\ touched' = TRUE /\ timer' = "on"
      /\ writer' = (IF "writer" \in Waiting(s) THEN "none" ELSE writer)
      /\ window' = (IF "window" \in Waiting(s) THEN "open" ELSE window)
      /\ UNCHANGED <<mem, dirty, persisted, edits, hidden, delta, overrun, frozen, unmarked, left>>
  BY <1>1, <1>13 DEF GiveUp, Reject, teardown
<1>4. saves' = {} /\ saves = {s} /\ writer' = "none" /\ Alive'
  <2>1. saves' = {}
    BY <1>1, <1>13 DEF Apart
  <2>2. writer \in {"saving", "ending"} => "writer" \in Waiting(s)
    BY <1>2, <1>13 DEF OneSave
  <2> QED
    BY <1>2, <1>3, <1>13, <2>1, <2>2 DEF Types, Alive
<1>5. ASSUME NEW k \in Keys
      PROVE  /\ stored[k] \in Nat /\ mem[k] \in Nat /\ stored'[k] \in Nat /\ frozen[k] \in Nat
             /\ stored[k] <= stored'[k] /\ stored'[k] <= mem[k]
  <2>1. /\ stored[k] <= s.contents[k] /\ s.contents[k] <= mem[k] /\ stored[k] <= mem[k]
        /\ stored[k] \in Nat /\ mem[k] \in Nat /\ s.contents[k] \in Nat /\ frozen[k] \in Nat
    BY <1>2 DEF SavesAreRecent, Types, AnySave, Values
  <2> QED
    BY <1>13, <2>1 DEF Overlay
<1>6. stored' \in Values /\ seq \in Nat /\ persisted \in Nat /\ persisted <= seq
  BY <1>13, <1>2 DEF Overlay, Values, Types, AnySave
<1>7. Types'
  <2>1. followUpFailed' \in BOOLEAN
    BY <1>13, <1>2 DEF Types, AnySave
  <2>2. seq' \in Nat /\ persisted' \in Nat /\ persisted' <= seq'
    BY <1>3, <1>6
  <2>3. pending' \in BOOLEAN /\ touched' \in BOOLEAN
    BY <1>3
  <2> QED
    BY <1>2, <1>3, <1>4, <1>6, <2>1, <2>2, <2>3 DEF Types
<1>8. OneSave' /\ SavesAreRecent' /\ RestIsStored'
  BY <1>3, <1>4, <1>5 DEF OneSave, SavesAreRecent, RestIsStored
<1>9. CleanIsStored'
  <2> SUFFICES ASSUME ~followUpFailed', NEW k \in Keys, k \notin dirty, k # Prefs, k \notin unmarked
               PROVE  mem[k] = stored'[k]
    BY <1>3 DEF CleanIsStored
  <2>1. mem[k] = stored[k]
    BY <1>13, <1>2, <1>4 DEF CleanIsStored
  <2> QED
    BY <1>5, <2>1
<1>10. DeltasAreCovered'
  <2> SUFFICES ASSUME NEW d \in delta, d.own
               PROVE  d.seq <= seq' /\ d.seq # seq'
    BY <1>2, <1>3, <1>4 DEF DeltasAreCovered
  <2> QED
    BY <1>2, <1>3 DEF DeltasAreCovered, Types, AnyDelta
<1>11. HiddenIsKept'
  <2> SUFFICES ASSUME hidden
               PROVE  HiddenIsKept'
    BY <1>3 DEF HiddenIsKept
  <2>1. /\ \A k \in Keys : stored[k] >= frozen[k] \/ k \in unmarked \/ overrun \/ InDelta(k)
        /\ \A d \in delta : d.own => \A k \in d.part : d.contents[k] >= frozen[k]
        /\ \A k \in Keys : frozen[k] <= mem[k]
    BY <1>2 DEF HiddenIsKept
  <2>2. \A k \in Keys : stored'[k] >= frozen[k] \/ k \in unmarked \/ overrun \/ InDelta(k)
    BY <1>5, <2>1
  <2> QED
    BY <1>3, <1>4, <2>1, <2>2 DEF HiddenIsKept, InDelta
<1>12. KilledInHiding' /\ LeftIsStored' /\ TeardownKeepsEdits'
  <2>1. LeftIsStored'
    <3> SUFFICES ASSUME window = "leaving", NEW k \in Keys
                 PROVE  (stored'[k] >= left[k] \/ k \in unmarked) /\ left[k] <= mem[k]
      BY <1>3, <1>4 DEF LeftIsStored, Alive
    <3>1. (stored[k] >= left[k] \/ k \in unmarked) /\ left[k] <= mem[k] /\ left[k] \in Nat
      BY <1>2 DEF AutosaveCore, LeftIsStored, Types, Values
    <3> QED
      BY <1>5, <3>1
  <2> QED
    BY <1>4, <2>1 DEF KilledInHiding, TeardownKeepsEdits, Alive
<1> QED
  BY <1>7, <1>8, <1>9, <1>10, <1>11, <1>12 DEF AutosaveCore

-------------------------------------------------------------------------------
LEMMA CloseInvariant ==
  ASSUME AutosaveCore, Close
  PROVE  AutosaveCore'
<1>1. /\ window = "open" /\ ~hidden /\ Types /\ OneSave
      /\ UNCHANGED <<mem, stored, dirty, seq, persisted, touched, writer, unmarked, followUpFailed,
                     hidden, delta, overrun, frozen, edits>>
  BY DEF Close, AutosaveCore, SaveState, teardown, bounds, history
<1>2. CASE HasPendingChanges
  <2>1. SaveState({"window"}) /\ window' = "closing" /\ left' = left /\ {"window"} \in Waiters
    BY <1>2 DEF Close, Waiters
  <2>2. /\ pending' \in BOOLEAN /\ timer' = "off"
        /\ \/ saves = {} /\ writer # "active" /\ saves' = {SaveOf({"window"})}
           \/ (pending => pending') /\ writer # "active" /\ IsJoined({"window"})
           \/ writer = "active" /\ pending' /\ saves = {} /\ saves' = {}
    BY <1>1, <2>1, SaveStateSends DEF Alive
  <2>3. OneSave'
    BY <1>1, <2>1, <2>2, SaveStaysOne DEF Alive
  <2>4. writer' \in {"none", "saving", "active", "ending"} /\ touched' \in BOOLEAN
    BY <1>1 DEF Types
  <2>6. Alive /\ Alive'
    BY <1>1, <2>1 DEF Alive
  <2>5. /\ Types' /\ SavesAreRecent' /\ RestIsStored' /\ CleanIsStored'
        /\ DeltasAreCovered' /\ HiddenIsKept' /\ KilledInHiding'
        /\ LeftIsStored' /\ TeardownKeepsEdits'
    BY <1>1, <2>1, <2>2, <2>4, <2>6, SaveSent
  <2> QED
    BY <2>3, <2>5 DEF AutosaveCore
<1>3. CASE ~HasPendingChanges
  <2>1. window' = "leaving" /\ left' = mem /\ UNCHANGED <<timer, saves, pending>>
    BY <1>3 DEF Close
  <2>2. saves = {}
    BY <1>1, <1>3 DEF HasPendingChanges, InFlight, OneSave
  <2>3. LeftIsStored'
    <3>1. \A k \in Keys : (mem[k] = stored[k] \/ k \in unmarked) /\ mem[k] \in Nat
      BY <1>1, <1>3, <2>2 DEF AutosaveCore, RestIsStored, HasPendingChanges, Alive, Types, Values
    <3> QED
      BY <1>1, <2>1, <2>2, <3>1 DEF LeftIsStored
  <2>4. Types'
    BY <1>1, <2>1 DEF Types
  <2>5. OneSave'
    BY <1>1, <2>1, <2>2 DEF OneSave, Alive
  <2> QED
    BY <1>1, <2>1, <2>2, <2>3, <2>4, <2>5
       DEF AutosaveCore, SavesAreRecent, RestIsStored, CleanIsStored, DeltasAreCovered,
           HiddenIsKept, KilledInHiding, TeardownKeepsEdits, Alive
<1> QED
  BY <1>2, <1>3

\* What the page shows when it is hidden goes into the delta, if it may not be
\* stored.
LEMMA HideInvariant ==
  ASSUME AutosaveCore, Hide
  PROVE  AutosaveCore'
<1>1. /\ Types /\ OneSave /\ SavesAreRecent /\ RestIsStored /\ CleanIsStored /\ DeltasAreCovered
      /\ Alive /\ Alive' /\ window = "open" /\ hidden' = TRUE
      /\ UNCHANGED <<mem, stored, dirty, seq, persisted, touched, timer, saves, pending, writer, window,
                     overrun, unmarked, followUpFailed, edits, left>>
  BY DEF AutosaveCore, Hide, saving, exit, history, Alive
<1> DEFINE d == [part |-> Carried(dirty), contents |-> mem, seq |-> seq, own |-> TRUE]
<1>2. /\ frozen' = [k \in Keys |-> IF k \notin Carried(dirty) /\ (followUpFailed \/ \E s \in saves : s.followUp)
                                   THEN stored[k] ELSE mem[k]]
      /\ delta' = IF HasPendingChanges THEN {d} ELSE delta
  BY DEF Hide
<1>3. /\ d \in AnyDelta /\ d.part = dirty \cup {Prefs} /\ d.contents = mem /\ d.seq = seq /\ d.own
  BY <1>1, AutosaveAssumption DEF AnyDelta, Types, Carried
<1> HIDE DEF d
<1>4. ASSUME NEW k \in Keys
      PROVE  /\ mem[k] \in Nat /\ stored[k] \in Nat /\ stored[k] <= mem[k]
             /\ frozen'[k] = IF k \notin Carried(dirty) /\ (followUpFailed \/ \E s \in saves : s.followUp)
                             THEN stored[k] ELSE mem[k]
             /\ frozen'[k] <= mem[k] /\ frozen'[k] \in Nat
  <2>1. mem[k] \in Nat /\ stored[k] \in Nat /\ stored[k] <= mem[k]
    BY <1>1 DEF Types, Values, SavesAreRecent
  <2> QED
    BY <1>2, <2>1
<1>5. frozen' \in Values /\ \A e \in delta' : e \in AnyDelta
  BY <1>1, <1>2, <1>3, <1>4 DEF Values, Types
<1>6. Types'
  BY <1>1, <1>5 DEF Types
<1>7. OneSave' /\ SavesAreRecent' /\ RestIsStored' /\ CleanIsStored' /\ LeftIsStored'
      /\ KilledInHiding' /\ TeardownKeepsEdits'
  BY <1>1 DEF OneSave, SavesAreRecent, RestIsStored, CleanIsStored, LeftIsStored,
       KilledInHiding, TeardownKeepsEdits, Alive
<1>8. ASSUME HasPendingChanges
      PROVE  DeltasAreCovered'
  <2>1. \A s \in saves : s.seq >= seq => s.seen = mem
    BY <1>1 DEF SavesAreRecent, Types, AnySave
  <2>2. delta' = {d} /\ seq \in Nat /\ persisted \in Nat /\ persisted <= seq
    BY <1>1, <1>2, <1>8 DEF Types
  <2> QED
    BY <1>1, <1>3, <1>4, <2>1, <2>2 DEF DeltasAreCovered
<1>9. ASSUME ~HasPendingChanges
      PROVE  DeltasAreCovered' /\ delta' = delta
  BY <1>1, <1>2, <1>9 DEF DeltasAreCovered
<1>10. HiddenIsKept'
  <2>1. CASE HasPendingChanges
    <3>1. delta' = {d}
      BY <1>2, <2>1
    <3>2. ASSUME NEW k \in Keys, k \in Carried(dirty)
          PROVE  k \in d.part /\ d.contents[k] >= frozen'[k]
      BY <1>3, <1>4, <3>2 DEF Carried
    <3>3. ASSUME NEW k \in Keys, k \notin Carried(dirty)
          PROVE  /\ stored[k] >= frozen'[k] \/ k \in unmarked
                 /\ \A s \in saves : s.seen[k] >= frozen'[k] \/ stored[k] >= frozen'[k]
      <4>1. CASE followUpFailed \/ \E s \in saves : s.followUp
        BY <1>4, <3>3, <4>1
      <4>2. CASE ~followUpFailed /\ \A s \in saves : ~s.followUp
        <5>1. k \notin dirty /\ k # Prefs
          BY <3>3 DEF Carried
        <5>2. mem[k] = stored[k] \/ k \in unmarked
          BY <1>1, <4>2, <5>1 DEF CleanIsStored
        <5>3. \A s \in saves : s.seen[k] = mem[k]
          BY <1>1, <5>1 DEF SavesAreRecent
        <5> QED
          BY <1>4, <5>2, <5>3
      <4> QED
        BY <4>1, <4>2
    <3>4. ASSUME NEW s \in saves, NEW k \in Keys, k \in Carried(dirty)
          PROVE  s.seen[k] >= frozen'[k] \/ s.seq < d.seq
      <4>1. s.seq \in Nat /\ s.seq <= seq /\ (s.seq = seq => s.seen = mem) /\ seq \in Nat
        BY <1>1 DEF SavesAreRecent, Types, AnySave
      <4>2. CASE s.seq = seq
        BY <1>4, <4>1, <4>2
      <4>3. CASE s.seq # seq
        BY <1>3, <4>1, <4>3
      <4> QED
        BY <4>2, <4>3
    <3>5. \A k \in d.part : k \in Keys /\ k \in Carried(dirty)
      BY <1>1, <1>3, AutosaveAssumption DEF Carried, Types
    <3> QED
      BY <1>1, <1>3, <1>4, <3>1, <3>2, <3>3, <3>4, <3>5 DEF HiddenIsKept, InDelta
  <2>2. CASE ~HasPendingChanges
    <3>1. /\ saves = {} /\ seq = persisted /\ \A k \in Keys : mem[k] = stored[k] \/ k \in unmarked
      BY <1>1, <2>2 DEF HasPendingChanges, InFlight, OneSave, RestIsStored
    <3>2. ASSUME NEW e \in delta, e.own
          PROVE  e.contents = mem /\ e.part \subseteq Keys
      <4>1. e.seq <= seq /\ (e.seq = seq => e.contents = mem) /\ (e.seq <= persisted => e.seq = persisted)
            /\ e \in AnyDelta
        BY <1>1, <3>2 DEF DeltasAreCovered, Types
      <4> QED
        BY <3>1, <4>1 DEF AnyDelta
    <3>3. \A k \in Keys : stored[k] >= frozen'[k] \/ k \in unmarked
      BY <1>4, <3>1
    <3>4. \A e \in delta : e.own => \A k \in e.part : e.contents[k] >= frozen'[k]
      BY <1>4, <3>2
    <3> QED
      BY <1>1, <1>4, <1>9, <2>2, <3>1, <3>3, <3>4 DEF HiddenIsKept
  <2> QED
    BY <2>1, <2>2
<1> QED
  BY <1>6, <1>7, <1>8, <1>9, <1>10 DEF AutosaveCore

\* The system may kill a hidden page, before or after it stores what is under way.
LEMMA KillInvariant ==
  ASSUME AutosaveCore, Kill
  PROVE  AutosaveCore'
<1>1. /\ Types /\ SavesAreRecent /\ DeltasAreCovered /\ HiddenIsKept /\ Alive
      /\ hidden /\ window' = "killed" /\ saves' = {}
      /\ UNCHANGED <<mem, dirty, seq, persisted, touched, timer, pending, writer, hidden, delta,
                     overrun, frozen, unmarked, followUpFailed, edits, left>>
  BY DEF AutosaveCore, Kill, teardown, bounds, history, Alive
<1>2. stored' = stored \/ \E s \in saves : stored' = Overlay(stored, s.part, s.contents)
  BY DEF Kill
<1>3. ASSUME NEW k \in Keys
      PROVE  /\ stored[k] \in Nat /\ stored'[k] \in Nat /\ stored[k] <= stored'[k] /\ frozen[k] \in Nat
  <2>1. stored[k] \in Nat /\ frozen[k] \in Nat
    BY <1>1 DEF Types, Values
  <2>2. CASE stored' = stored
    BY <2>1, <2>2
  <2>3. ASSUME NEW s \in saves, stored' = Overlay(stored, s.part, s.contents)
        PROVE  stored'[k] \in Nat /\ stored[k] <= stored'[k]
    <3>1. s.contents[k] \in Nat /\ stored[k] <= s.contents[k]
      BY <1>1 DEF SavesAreRecent, Types, AnySave, Values
    <3>2. stored'[k] = IF k \in s.part THEN s.contents[k] ELSE stored[k]
      BY <2>3 DEF Overlay
    <3> QED
      BY <2>1, <3>1, <3>2
  <2> QED
    BY <1>2, <2>1, <2>2, <2>3
<1>4. Types'
  <2>1. stored' \in Values
    BY <1>1, <1>2 DEF Overlay, Types, AnySave, Values
  <2> QED
    BY <1>1, <2>1 DEF Types
<1>5. OneSave' /\ SavesAreRecent' /\ RestIsStored' /\ CleanIsStored'
  BY <1>1 DEF OneSave, SavesAreRecent, RestIsStored, CleanIsStored, Alive
<1>6. DeltasAreCovered' /\ KilledInHiding' /\ LeftIsStored' /\ TeardownKeepsEdits'
  BY <1>1 DEF DeltasAreCovered, KilledInHiding, LeftIsStored, TeardownKeepsEdits, Alive
<1>7. HiddenIsKept'
  BY <1>1, <1>3 DEF HiddenIsKept, InDelta, Alive
<1> QED
  BY <1>4, <1>5, <1>6, <1>7 DEF AutosaveCore

\* The next page sends the delta it finds, over whatever is stored.
LEMMA BootInvariant ==
  ASSUME AutosaveCore, Boot
  PROVE  AutosaveCore'
<1>1. /\ Types /\ DeltasAreCovered /\ HiddenIsKept /\ window = "killed" /\ hidden
      /\ window' = "booted" /\ delta' = {}
      /\ UNCHANGED <<mem, dirty, seq, persisted, touched, timer, saves, pending, writer, hidden,
                     overrun, frozen, unmarked, followUpFailed, edits, left>>
  BY DEF AutosaveCore, Boot, saving, bounds, history, KilledInHiding
<1>2. CASE delta = {}
  <2>1. stored' = stored
    BY <1>2 DEF Boot
  <2>2. TeardownKeepsEdits'
    BY <1>1, <1>2, <2>1 DEF TeardownKeepsEdits, HiddenIsKept, InDelta
  <2> QED
    BY <1>1, <2>1, <2>2
       DEF AutosaveCore, Types, OneSave, SavesAreRecent, RestIsStored, CleanIsStored, DeltasAreCovered,
           HiddenIsKept, KilledInHiding, LeftIsStored, Alive
<1>3. CASE delta # {}
  <2>1. PICK d \in delta : stored' = Overlay(stored, d.part, d.contents)
    <3> DEFINE e == CHOOSE x \in delta : TRUE
    <3>1. e \in delta
      BY <1>3
    <3> QED
      BY <1>3, <3>1 DEF Boot
  <2>2. d \in AnyDelta /\ \A e \in delta : e = d
    BY <1>1 DEF Types, DeltasAreCovered
  <2>3. stored' \in Values
    BY <1>1, <2>1, <2>2 DEF Types, AnyDelta, Overlay, Values
  <2>4. TeardownKeepsEdits'
    <3> SUFFICES ASSUME ~overrun, NEW k \in Keys, k \notin unmarked
                 PROVE  stored'[k] >= frozen[k]
      BY <1>1 DEF TeardownKeepsEdits
    <3>1. CASE k \in d.part
      <4>1. d.own
        BY <1>1, <3>1 DEF DeltasAreCovered
      <4>2. d.contents[k] >= frozen[k]
        BY <1>1, <3>1, <4>1 DEF HiddenIsKept
      <4> QED
        BY <2>1, <3>1, <4>2 DEF Overlay
    <3>2. CASE k \notin d.part
      <4>1. stored[k] >= frozen[k]
        BY <1>1, <2>2, <3>2 DEF HiddenIsKept, InDelta
      <4> QED
        BY <2>1, <3>2, <4>1 DEF Overlay
    <3> QED
      BY <3>1, <3>2
  <2>5. Types'
    BY <1>1, <2>3 DEF Types
  <2> QED
    BY <1>1, <2>4, <2>5
       DEF AutosaveCore, OneSave, SavesAreRecent, RestIsStored, CleanIsStored, DeltasAreCovered,
           HiddenIsKept, KilledInHiding, LeftIsStored, Alive
<1> QED
  BY <1>2, <1>3

\* A page is shown again, an exclusive write is asked for, or the closing of the
\* window comes to an end.
LEMMA ShowInvariant ==
  ASSUME AutosaveCore, Show \/ AskToWrite \/ CloseSucceeds \/ CloseFails
  PROVE  AutosaveCore'
<1>1. /\ Alive /\ hidden' \in {FALSE, hidden}
      /\ window' = window \/ (window = "leaving" /\ window' \in {"open", "closed"})
      /\ UNCHANGED <<mem, stored, dirty, seq, persisted, touched, timer, saves, pending, writer,
                     delta, overrun, frozen, unmarked, followUpFailed, edits, left>>
  BY DEF Show, AskToWrite, CloseSucceeds, CloseFails, saving, teardown, bounds, exit, history, Alive
<1>2. Types'
  BY <1>1 DEF AutosaveCore, Types
<1>3. HiddenIsKept'
  <2>1. CASE hidden' = FALSE
    BY <2>1 DEF HiddenIsKept
  <2>2. CASE hidden' = hidden
    BY <1>1, <2>2 DEF AutosaveCore, HiddenIsKept, InDelta, Alive
  <2> QED
    BY <1>1, <2>1, <2>2
<1>4. OneSave' /\ LeftIsStored'
  BY <1>1 DEF AutosaveCore, OneSave, LeftIsStored, Alive, Waiting
<1> QED
  BY <1>1, <1>2, <1>3, <1>4
     DEF AutosaveCore, SavesAreRecent, RestIsStored, CleanIsStored, DeltasAreCovered,
         KilledInHiding, TeardownKeepsEdits, Alive

\* The replay of a former page's delta ends, and may clear this page's.
LEMMA ReplayInvariant ==
  ASSUME AutosaveCore, ReplayEnds
  PROVE  AutosaveCore'
<1>1. /\ Types /\ HiddenIsKept /\ DeltasAreCovered /\ Alive
      /\ UNCHANGED <<mem, stored, dirty, seq, persisted, touched, timer, saves, pending, writer, window,
                     hidden, frozen, unmarked, followUpFailed, edits, left>>
      /\ \/ delta' = {} /\ overrun' = (overrun \/ \E d \in delta : d.own)
         \/ UNCHANGED <<delta, overrun>>
  BY DEF AutosaveCore, ReplayEnds, saving, bounds, exit, history
<1>2. Types'
  BY <1>1 DEF Types
<1>3. DeltasAreCovered' /\ TeardownKeepsEdits'
  BY <1>1 DEF DeltasAreCovered, TeardownKeepsEdits, Alive
<1>4. HiddenIsKept'
  <2>1. CASE UNCHANGED <<delta, overrun>>
    BY <1>1, <2>1 DEF HiddenIsKept, InDelta, Alive
  <2>2. CASE delta' = {} /\ overrun' = overrun /\ \A d \in delta : ~d.own
    BY <1>1, <2>2 DEF HiddenIsKept, InDelta, Alive
  <2>3. CASE delta' = {} /\ overrun'
    BY <1>1, <2>3 DEF HiddenIsKept, InDelta, Alive
  <2> QED
    BY <1>1, <2>1, <2>2, <2>3 DEF Types
<1> QED
  BY <1>1, <1>2, <1>3, <1>4
     DEF AutosaveCore, OneSave, SavesAreRecent, RestIsStored, CleanIsStored, KilledInHiding,
         LeftIsStored, Alive

-------------------------------------------------------------------------------
LEMMA AutosaveStep ==
  ASSUME AutosaveCore, [Next]_vars, ~again'
  PROVE  AutosaveCore'
<1>1. CASE UNCHANGED vars
  <2>1. UNCHANGED <<mem, stored, dirty, seq, persisted, touched, timer, saves, pending, writer, window,
                    left, hidden, delta, overrun, frozen, unmarked, followUpFailed, again, edits>>
    BY <1>1 DEF vars, saving, teardown, exit, history, bounds
  <2>2. Types' /\ OneSave'
    BY <2>1 DEF AutosaveCore, Types, OneSave, Alive, Waiting
  <2> QED
    BY <2>1, <2>2
       DEF AutosaveCore, SavesAreRecent, RestIsStored, CleanIsStored, DeltasAreCovered,
           HiddenIsKept, InDelta, KilledInHiding, LeftIsStored, TeardownKeepsEdits, Alive
<1>2. ASSUME NEW k \in Keys, Edit(k)
      PROVE  AutosaveCore'
  BY <1>2, EditInvariant
<1>3. CASE TimerFires \/ AskToSave \/ BeginWrite
  BY <1>3, SendInvariant
<1>4. CASE AskToWrite \/ Show \/ CloseSucceeds \/ CloseFails
  BY <1>4, ShowInvariant
<1>5. CASE EndWrite
  BY <1>5, EndWriteInvariant
<1>6. CASE SaveSucceeds
  <2>1. /\ Alive
        /\ UNCHANGED <<mem, seq, timer, edits, hidden, overrun, frozen, followUpFailed>>
    BY <1>6 DEF SaveSucceeds, bounds
  <2>2. PICK s \in saves : Succeed(s)
    BY <1>6 DEF SaveSucceeds
  <2> QED
    BY <2>1, <2>2, SuccessInvariant
<1>7. CASE SaveIsRejected
  BY <1>7, RejectionInvariant
<1>8. CASE SaveFails
  BY <1>8, FailureInvariant
<1>9. CASE OuterSavesAgain
  BY <1>9 DEF OuterSavesAgain
<1>10. CASE Close
  BY <1>10, CloseInvariant
<1>11. CASE Hide
  BY <1>11, HideInvariant
<1>12. CASE Kill
  BY <1>12, KillInvariant
<1>13. CASE Boot
  BY <1>13, BootInvariant
<1>14. CASE ReplayEnds
  BY <1>14, ReplayInvariant
<1> QED
  BY <1>1, <1>2, <1>3, <1>4, <1>5, <1>6, <1>7, <1>8, <1>9, <1>10, <1>11, <1>12, <1>13, <1>14 DEF Next

\* The inductive invariant: as long as no failure has been dealt with by an
\* enclosing save while others could begin (autosave.ts:190, :209-230), there is one
\* save at a time, and every edit is marked, on its way, stored, or frozen.
THEOREM AutosaveInvariance == Spec => []AutosaveIInv
<1>1. Init => AutosaveIInv
  BY InitInvariant DEF AutosaveIInv
<1>2. AutosaveIInv /\ [Next]_vars => AutosaveIInv'
  <2>1. ASSUME [Next]_vars, again
        PROVE  again'
    BY <2>1
       DEF Next, Edit, TimerFires, AskToSave, AskToWrite, BeginWrite, EndWrite, SaveSucceeds, SaveIsRejected,
           SaveFails, OuterSavesAgain, Close, CloseSucceeds, CloseFails, Hide, Show, Kill, Boot, ReplayEnds,
           history, vars
  <2> QED
    BY <2>1, AutosaveStep DEF AutosaveIInv
<1> QED
  BY <1>1, <1>2, PTL DEF Spec

\* Until a failure is dealt with twice, saves do not overlap and none runs during
\* an exclusive write (autosave.ts:115-121, :243-287); a window that is closed has
\* stored what it held when it asked the backend to close (state.ts:174-200), of
\* what still carried a mark; and a hidden page that is killed has its edits
\* stored by the next one (app.ts:75-84).
THEOREM NoEditIsLost == Spec => []SavesLoseNothing
<1>1. AutosaveIInv => SavesLoseNothing
  <2>1. AutosaveCore => SavesLoseNothing
    BY OneSaveIsExclusive
       DEF AutosaveCore, SavesLoseNothing, LeftIsStored, ClosedMeansStored
  <2>2. again => SavesLoseNothing
    BY DEF SavesLoseNothing, SavesAreExclusive, ClosedMeansStored, TeardownKeepsEdits
  <2> QED
    BY <2>1, <2>2 DEF AutosaveIInv
<1> QED
  BY <1>1, AutosaveInvariance, PTL

(***************************************************************************)
(* The words                                                               *)
(***************************************************************************)

EntryFields == {"status", "plan", "due", "text", "at", "born"}

\* An entry bears times that have been.
IsEntry(e, now) ==
  /\ DOMAIN e = EntryFields
  /\ e.at \in Nat /\ e.born \in Nat /\ e.at <= now /\ e.born <= now

WordsAreEntries(v, now) ==
  /\ DOMAIN v = Langs
  /\ \A l \in Langs : DOMAIN v[l] = Words /\ \A w \in Words : IsEntry(v[l][w], now)

Requests == [lang : Langs, word : Words, target : Targets, born : Int]

ScreenOK ==
  /\ lang \in Langs /\ target \in Targets
  /\ field # Nowhere => field.word \in Words
  /\ dialog # Nowhere => dialog.word \in Words
  /\ explaining # NoExplanation => explaining.word \in Words
  /\ translations \subseteq Requests

VocabularyTypeOK == time \in Nat /\ WordsAreEntries(vocab, time) /\ ScreenOK

\* The memo is the queue of the language it is of.
MemoFits(m, v) == \A l \in Langs : m.of = <<l>> => m.entries = Queue(v[l])

Known(v, l) == {w \in Words : v[l][w].status # "absent"}
Listed(c) == {w \in Words : c.entries[w].status # "absent"}

\* The list was as long as it says, and no word has come since.
ListFits(c, v) ==
  \A l \in Langs, n \in Nat :
    c.of = <<l, n>> => n = Cardinality(Listed(c)) /\ Known(v, l) \subseteq Listed(c)

CachesFit ==
  /\ MemoFits(memo, vocab) /\ ListFits(list, vocab)
  /\ view = "vocabulary" => list.of \in {NoCopy.of, ListKey}
  /\ selected # "" => selected \in Words /\ Has(lang, selected)

\* A grade belongs to the entry as it was when it was given: whatever changes an
\* entry gives it a time of its own, and a grade brings one that nothing else has.
GradesFit(gs, v, now) ==
  \A g \in gs :
    /\ g.lang \in Langs /\ g.word \in Words
    /\ g.at \in Nat /\ g.at <= now /\ g.time \in Nat \ {0} /\ g.time <= now
    /\ v[g.lang][g.word].status # "absent" /\ v[g.lang][g.word].at = g.at =>
         v[g.lang][g.word].plan = g.plan
    /\ \A l \in Langs, w \in Words : v[l][w].at # g.time
    /\ \A h \in gs : h.at # g.time /\ (h.time = g.time => h = g)

VocabularyIInv ==
  VocabularyTypeOK /\ CachesFit /\ GradesFit(grades, vocab, time)

-------------------------------------------------------------------------------
(* What may become of an entry, other than by a review.                    *)

TextKept(l, old, new) ==
  \/ new.text \notin Targets \/ new.text = old.text
  \/ l = lang /\ new.text = target /\ old.text \notin {Typed, Rejected}

Edited(l, w) ==
  LET old == vocab[l][w]
      new == vocab'[l][w]
  IN  \/ new = old
      \/ new = NoWord
      \/ /\ time' = time + 1 /\ IsEntry(new, time') /\ new.at = time'
         /\ \/ old.status = "absent" \/ new.born = time'
            \/ new.plan = old.plan /\ TextKept(l, old, new)

AllEdited ==
  /\ DOMAIN vocab' = Langs /\ \A l \in Langs : DOMAIN vocab'[l] = Words
  /\ time' \in {time, time + 1}
  /\ \A l \in Langs, w \in Words : Edited(l, w)

LEMMA NoWordIsEntry == ASSUME NEW now \in Nat PROVE IsEntry(NoWord, now) /\ NoWord.status = "absent"
BY DEF NoWord, IsEntry, EntryFields

LEMMA EntryLater ==
  ASSUME NEW e, NEW now \in Nat, NEW later \in Nat, now <= later, IsEntry(e, now)
  PROVE  IsEntry(e, later)
BY DEF IsEntry

LEMMA EditsKeepEntries ==
  ASSUME time \in Nat, WordsAreEntries(vocab, time), AllEdited
  PROVE  time' \in Nat /\ WordsAreEntries(vocab, time)'
<1>1. time' \in Nat /\ time <= time'
  <2>1. time' = time \/ time' = time + 1
    BY DEF AllEdited
  <2>2. QED
    BY <2>1
<1>2. ASSUME NEW l \in Langs, NEW w \in Words PROVE IsEntry(vocab'[l][w], time')
  <2>1. Edited(l, w) /\ IsEntry(vocab[l][w], time)
    BY DEF AllEdited, WordsAreEntries
  <2>2. IsEntry(vocab[l][w], time') /\ IsEntry(NoWord, time')
    BY <1>1, <2>1, EntryLater, NoWordIsEntry
  <2>3. QED
    BY <2>1, <2>2 DEF Edited
<1>3. QED
  BY <1>1, <1>2 DEF WordsAreEntries, AllEdited

LEMMA EditsKeepGrades ==
  ASSUME time \in Nat, WordsAreEntries(vocab, time), AllEdited, GradesFit(grades, vocab, time),
         grades' \subseteq grades
  PROVE  GradesFit(grades, vocab, time)'
<1>1. time' \in Nat /\ time <= time' /\ (time' = time + 1 => time < time')
  <2>1. time' = time \/ time' = time + 1
    BY DEF AllEdited
  <2>2. QED
    BY <2>1
<1>2. ASSUME NEW g \in grades'
      PROVE  /\ g.lang \in Langs /\ g.word \in Words
             /\ g.at \in Nat /\ g.at <= time' /\ g.time \in Nat \ {0} /\ g.time <= time'
             /\ vocab'[g.lang][g.word].status # "absent" /\ vocab'[g.lang][g.word].at = g.at =>
                  vocab'[g.lang][g.word].plan = g.plan
             /\ \A l \in Langs, w \in Words : vocab'[l][w].at # g.time
             /\ \A h \in grades' : h.at # g.time /\ (h.time = g.time => h = g)
  <2>1. /\ g.lang \in Langs /\ g.word \in Words
        /\ g.at \in Nat /\ g.at <= time /\ g.time \in Nat \ {0} /\ g.time <= time
        /\ vocab[g.lang][g.word].status # "absent" /\ vocab[g.lang][g.word].at = g.at =>
             vocab[g.lang][g.word].plan = g.plan
        /\ \A l \in Langs, w \in Words : vocab[l][w].at # g.time
        /\ \A h \in grades' : h.at # g.time /\ (h.time = g.time => h = g)
    BY <1>2 DEF GradesFit
  <2>2. g.at <= time' /\ g.time <= time'
    BY <1>1, <2>1
  <2>3. ASSUME time' = time + 1 PROVE g.at # time' /\ g.time # time'
    BY <1>1, <2>1, <2>3
  <2>4. ASSUME NEW l \in Langs, NEW w \in Words PROVE vocab'[l][w].at # g.time
    <3>1. Edited(l, w) /\ vocab[l][w].at # g.time
      BY <2>1 DEF AllEdited
    <3>2. NoWord.at # g.time
      BY <2>1 DEF NoWord
    <3>3. QED
      BY <2>3, <3>1, <3>2 DEF Edited
  <2>5. ASSUME vocab'[g.lang][g.word].status # "absent", vocab'[g.lang][g.word].at = g.at
        PROVE  vocab'[g.lang][g.word].plan = g.plan
    <3>1. Edited(g.lang, g.word)
      BY <2>1 DEF AllEdited
    <3>2. vocab'[g.lang][g.word] = vocab[g.lang][g.word]
      BY <1>1, <2>3, <2>5, <3>1, NoWordIsEntry DEF Edited
    <3>3. QED
      BY <2>1, <2>5, <3>2
  <2>6. QED
    BY <2>1, <2>2, <2>4, <2>5
<1>3. QED
  BY <1>2 DEF GradesFit

\* A review is computed from the entry there is.
Reviews ==
  \A l \in Langs, w \in Words :
    LET old == vocab[l][w]  new == vocab'[l][w] IN
    old.status # "absent" /\ new.status # "absent" /\ new.born = old.born /\ new.plan # old.plan =>
      \E g \in grades \ grades' :
        /\ g.lang = l /\ g.word = w
        /\ new.plan \in Reviewed(g.algorithm, g.quality, old.plan, g.day)
        /\ new.due = g.day + new.plan.interval
        /\ days' = [days EXCEPT ![l][g.day] = @ + 1]

TextsStay ==
  \A l \in Langs, w \in Words :
    LET old == vocab[l][w]  new == vocab'[l][w] IN
    old.status # "absent" /\ new.born = old.born /\ new.text \in Targets /\ new.text # old.text =>
      l = lang /\ new.text = target /\ old.text \notin {Typed, Rejected}

LEMMA EditsGiveWay ==
  ASSUME time \in Nat, WordsAreEntries(vocab, time), AllEdited
  PROVE  Reviews /\ TextsStay
<1>1. ASSUME NEW l \in Langs, NEW w \in Words,
             vocab[l][w].status # "absent", vocab'[l][w].born = vocab[l][w].born
      PROVE  \/ vocab'[l][w] = vocab[l][w] \/ vocab'[l][w] = NoWord
             \/ vocab'[l][w].plan = vocab[l][w].plan /\ TextKept(l, vocab[l][w], vocab'[l][w])
  <2>1. Edited(l, w) /\ IsEntry(vocab[l][w], time)
    BY DEF AllEdited, WordsAreEntries
  <2>2. vocab[l][w].born # time + 1
    BY <2>1 DEF IsEntry
  <2>3. QED
    BY <1>1, <2>1, <2>2 DEF Edited
<1>2. NoWord.status = "absent" /\ NoWord.text \notin Targets
  BY DEF NoWord, NoText, Targets
<1>3. Reviews
  BY <1>1, <1>2 DEF Reviews
<1>4. TextsStay
  BY <1>1, <1>2 DEF TextsStay, TextKept
<1>5. QED
  BY <1>3, <1>4

-------------------------------------------------------------------------------
(* One entry changes.                                                      *)

LEMMA OneEntryChanges ==
  ASSUME WordsAreEntries(vocab, time), NEW l \in Langs, NEW w \in Words, NEW e,
         vocab' = [vocab EXCEPT ![l][w] = e]
  PROVE  /\ DOMAIN vocab' = Langs /\ \A k \in Langs : DOMAIN vocab'[k] = Words
         /\ vocab'[l][w] = e
         /\ \A k \in Langs, x \in Words : k # l \/ x # w => vocab'[k][x] = vocab[k][x]
BY DEF WordsAreEntries

\* What an entry may become at this time
Becomes(w, e) ==
  \/ e = vocab[lang][w]
  \/ e = NoWord
  \/ /\ time' = time + 1 /\ IsEntry(e, time + 1) /\ e.at = time + 1
     /\ \/ ~Has(lang, w) \/ e.born = time + 1
        \/ e.plan = vocab[lang][w].plan /\ TextKept(lang, vocab[lang][w], e)

LEMMA PutEdits ==
  ASSUME VocabularyTypeOK, NEW w \in Words, NEW e, Put(w, e), Becomes(w, e), time' \in {time, time + 1}
  PROVE  /\ AllEdited
         /\ vocab'[lang][w] = e
         /\ \A k \in Langs, x \in Words : k # lang \/ x # w => vocab'[k][x] = vocab[k][x]
<1>1. lang \in Langs /\ WordsAreEntries(vocab, time) /\ vocab' = [vocab EXCEPT ![lang][w] = e]
  BY DEF VocabularyTypeOK, ScreenOK, Put
<1>2. /\ DOMAIN vocab' = Langs /\ \A k \in Langs : DOMAIN vocab'[k] = Words
      /\ vocab'[lang][w] = e
      /\ \A k \in Langs, x \in Words : k # lang \/ x # w => vocab'[k][x] = vocab[k][x]
  BY <1>1, OneEntryChanges
<1>3. Edited(lang, w)
  BY <1>2 DEF Edited, Becomes, Has
<1>4. ASSUME NEW k \in Langs, NEW x \in Words PROVE Edited(k, x)
  BY <1>2, <1>3 DEF Edited
<1>5. QED
  BY <1>2, <1>4 DEF AllEdited

LEMMA NothingEdited ==
  ASSUME VocabularyTypeOK, UNCHANGED vocab, time' \in {time, time + 1}
  PROVE  AllEdited
BY DEF VocabularyTypeOK, WordsAreEntries, AllEdited, Edited

\* The entry of a word, as it is or new
LEMMA EntryOfWord ==
  ASSUME VocabularyTypeOK, NEW w \in Words
  PROVE  /\ IsEntry(Entry(w), time + 1) /\ Entry(w).status # "absent"
         /\ Has(lang, w) => Entry(w) = vocab[lang][w]
         /\ ~Has(lang, w) => Entry(w).born = time + 1 /\ Entry(w).at = time + 1
<1>1. lang \in Langs /\ time \in Nat /\ IsEntry(vocab[lang][w], time)
  BY DEF VocabularyTypeOK, ScreenOK, WordsAreEntries
<1>2. CASE Has(lang, w)
  BY <1>1, <1>2, EntryLater DEF Entry, Has
<1>3. CASE ~Has(lang, w)
  BY <1>1, <1>3 DEF Entry, NoWord, IsEntry, EntryFields
<1>4. QED
  BY <1>2, <1>3

LEMMA EntryWithStatus ==
  ASSUME NEW e, NEW status, time \in Nat, IsEntry(e, time + 1)
  PROVE  LET f == WithStatus(e, status)
         IN  /\ IsEntry(f, time + 1) /\ f.at = time + 1 /\ f.status = status
             /\ f.born = e.born /\ f.plan = e.plan /\ f.text = e.text
BY DEF WithStatus, IsEntry, EntryFields

LEMMA EntryWithText ==
  ASSUME NEW e, NEW empty \in BOOLEAN, time \in Nat, IsEntry(e, time + 1)
  PROVE  LET f == WithText(e, empty)
         IN  /\ IsEntry(f, time + 1) /\ f.at = time + 1 /\ f.status = e.status
             /\ f.born = e.born /\ f.plan = e.plan /\ f.text \in {Rejected, Typed}
BY DEF WithText, IsEntry, EntryFields

\* An entry that is edited now is one that it may become.
LEMMA EditOfEntry ==
  ASSUME VocabularyTypeOK, NEW w \in Words, NEW f, time' = time + 1,
         IsEntry(f, time + 1), f.at = time + 1,
         f.born = Entry(w).born, f.plan = Entry(w).plan,
         f.text = Entry(w).text \/ f.text \in {Rejected, Typed}
  PROVE  Becomes(w, f)
<1>1. {Rejected, Typed} \cap Targets = {}
  BY DEF Rejected, Typed, Targets
<1>2. QED
  BY <1>1, EntryOfWord DEF Becomes, TextKept

-------------------------------------------------------------------------------
(* What is kept from one rendering to the next.                            *)

LEMMA NoCopyFits == ASSUME NEW v PROVE MemoFits(NoCopy, v) /\ ListFits(NoCopy, v)
BY DEF MemoFits, ListFits, NoCopy

LEMMA WordsAreCounted ==
  ASSUME NEW S \in SUBSET Words
  PROVE  IsFiniteSet(S) /\ Cardinality(S) \in Nat
BY VocabularyAssumption, FS_Subset, FS_CardinalityType

LEMMA ListKeyIs == ListKey = <<lang, Cardinality(Known(vocab, lang))>>
BY DEF ListKey, Known, Has

\* A queue rendered is that of the words.
LEMMA RenderedQueueFits ==
  ASSUME NEW m, NEW v, lang' \in Langs, MemoFits(m, vocab'), RenderReview(m, v)
  PROVE  MemoFits(memo', vocab')
<1>1. memo' = [of |-> <<lang'>>, entries |-> IF m.of = <<lang'>> THEN m.entries ELSE Queue(vocab'[lang'])]
  BY DEF RenderReview, MemoKey
<1>2. QED
  BY <1>1 DEF MemoFits

\* So is the list.
LEMMA RenderedListFits ==
  ASSUME NEW kept, lang' \in Langs, ListFits(kept, vocab'), RenderVocabulary(kept)
  PROVE  ListFits(list', vocab') /\ list'.of = ListKey'
<1>1. ListKey' = <<lang', Cardinality(Known(vocab', lang'))>>
  BY DEF ListKey, Known, Has
<1>2. CASE kept.of = ListKey'
  BY <1>2 DEF RenderVocabulary
<1>3. CASE kept.of # ListKey'
  <2>1. list' = [of |-> ListKey', entries |-> vocab'[lang']]
    BY <1>3 DEF RenderVocabulary
  <2>2. Listed(list') = Known(vocab', lang')
    BY <2>1 DEF Listed, Known
  <2>3. QED
    BY <1>1, <2>1, <2>2 DEF ListFits
<1>4. QED
  BY <1>2, <1>3

LEMMA RenderedFits ==
  ASSUME NEW v, NEW m, NEW kept, lang' \in Langs, MemoFits(m, vocab'), ListFits(kept, vocab'),
         Render(v, m, kept)
  PROVE  /\ MemoFits(memo', vocab') /\ ListFits(list', vocab')
         /\ v = "vocabulary" => list'.of = ListKey'
<1>1. MemoFits(memo', vocab')
  BY RenderedQueueFits DEF Render
<1>2. ListFits(list', vocab') /\ (v = "vocabulary" => list'.of = ListKey')
  BY RenderedListFits DEF Render
<1>3. QED
  BY <1>1, <1>2

\* Words that go away leave a list as good as it was.
LEMMA ListFitsFewer ==
  ASSUME NEW c, NEW v, NEW u, ListFits(c, v), \A l \in Langs : Known(u, l) \subseteq Known(v, l)
  PROVE  ListFits(c, u)
BY DEF ListFits

LEMMA SameQueue ==
  ASSUME NEW u, NEW v, \A w \in Words : u[w] = v[w]
  PROVE  Queue(u) = Queue(v)
BY DEF Queue

SelectedIsKnown == selected # "" => selected \in Words /\ Has(lang, selected)

SameWords == \A l \in Langs, w \in Words : vocab'[l][w] = vocab[l][w]

LEMMA SameWordsFit ==
  ASSUME SameWords
  PROVE  /\ \A m : MemoFits(m, vocab) => MemoFits(m, vocab')
         /\ \A c : ListFits(c, vocab) => ListFits(c, vocab')
<1>1. \A l \in Langs : Queue(vocab'[l]) = Queue(vocab[l])
  BY SameQueue DEF SameWords
<1>2. \A l \in Langs : Known(vocab', l) = Known(vocab, l)
  BY DEF Known, SameWords
<1>3. \A m : MemoFits(m, vocab) => MemoFits(m, vocab')
  BY <1>1 DEF MemoFits
<1>4. \A c : ListFits(c, vocab) => ListFits(c, vocab')
  BY <1>2, ListFitsFewer
<1>5. QED
  BY <1>3, <1>4

\* The parts of CachesFit after a step
LEMMA CachesFitBy ==
  ASSUME MemoFits(memo', vocab'), ListFits(list', vocab'),
         view' = "vocabulary" => list'.of \in {NoCopy.of, ListKey'},
         SelectedIsKnown'
  PROVE  CachesFit'
BY DEF CachesFit, SelectedIsKnown

\* Nothing that is kept has changed, nor have the words.
LEMMA KeptCachesFit ==
  ASSUME VocabularyTypeOK, CachesFit, SameWords, UNCHANGED <<memo, list, lang>>,
         view' \in {view, "elsewhere"}, selected' \in {selected, ""}
  PROVE  CachesFit'
<1>1. lang \in Langs
  BY DEF VocabularyTypeOK, ScreenOK
<1>2. ListKey' = ListKey
  <2>1. Known(vocab', lang) = Known(vocab, lang)
    BY <1>1 DEF Known, SameWords
  <2>2. QED
    BY <2>1 DEF ListKey, Has, Known
<1>3. MemoFits(memo', vocab') /\ ListFits(list', vocab')
  BY SameWordsFit DEF CachesFit
<1>4. view' = "vocabulary" => list'.of \in {NoCopy.of, ListKey'}
  BY <1>2 DEF CachesFit
<1>5. SelectedIsKnown'
  BY <1>1 DEF CachesFit, SelectedIsKnown, Has, SameWords
<1>6. QED
  BY <1>3, <1>4, <1>5, CachesFitBy

\* Everything kept is given up.
LEMMA NoCachesFit ==
  ASSUME memo' = NoCopy, list' = NoCopy, SelectedIsKnown'
  PROVE  CachesFit'
BY NoCopyFits, CachesFitBy

LEMMA RenderedCachesFit ==
  ASSUME NEW v, NEW m, NEW kept, lang' \in Langs, MemoFits(m, vocab'), ListFits(kept, vocab'),
         Render(v, m, kept), view' = v, SelectedIsKnown'
  PROVE  CachesFit'
BY RenderedFits, CachesFitBy

-------------------------------------------------------------------------------
(* The steps.                                                              *)

\* What every step but giving and applying a grade keeps to
Settles == AllEdited /\ ScreenOK' /\ CachesFit' /\ grades' \subseteq grades

\* Nothing happens to the words.
LEMMA QuietStepSettles ==
  ASSUME VocabularyIInv, UNCHANGED <<vocab, memo, list, lang, target, translations>>, grades' \subseteq grades,
         time' \in {time, time + 1},
         view' \in {view, "elsewhere"}, selected' \in {selected, ""},
         field' # Nowhere => field'.word \in Words,
         dialog' # Nowhere => dialog'.word \in Words,
         explaining' # NoExplanation => explaining'.word \in Words
  PROVE  Settles
<1>1. VocabularyTypeOK /\ CachesFit /\ ScreenOK
  BY DEF VocabularyIInv, VocabularyTypeOK
<1>2. AllEdited
  BY <1>1, NothingEdited
<1>3. SameWords
  BY DEF SameWords
<1>4. CachesFit'
  BY <1>1, <1>3, KeptCachesFit
<1>5. ScreenOK'
  BY <1>1 DEF ScreenOK
<1>6. QED
  BY <1>2, <1>4, <1>5 DEF Settles

LEMMA TypeTranslationSettles ==
  ASSUME VocabularyIInv, NEW w \in Words, NEW text, TypeTranslation(w, text)
  PROVE  Settles
<1>1. /\ UNCHANGED <<vocab, memo, list, lang, target, translations, grades, view, selected, dialog, explaining>>
      /\ time' = time + 1 /\ field' = [word |-> w, text |-> text]
  BY DEF TypeTranslation, LearnerActs, words, prefs, caches, waiting
<1>2. ScreenOK
  BY DEF VocabularyIInv, VocabularyTypeOK
<1>3. QED
  BY <1>1, <1>2, QuietStepSettles DEF ScreenOK

LEMMA OpenDialogSettles ==
  ASSUME VocabularyIInv, NEW w \in Words, OpenDialog(w)
  PROVE  Settles
<1>1. /\ UNCHANGED <<vocab, memo, list, lang, target, translations, grades, view, selected, field, explaining>>
      /\ time' = time + 1 /\ dialog' = [word |-> w, text |-> Shown(vocab[lang][w].text)]
  BY DEF OpenDialog, LearnerActs, words, prefs, caches, waiting
<1>2. ScreenOK
  BY DEF VocabularyIInv, VocabularyTypeOK
<1>3. QED
  BY <1>1, <1>2, QuietStepSettles DEF ScreenOK

LEMMA ExplainSettles ==
  ASSUME VocabularyIInv, NEW w \in Words, NEW onCard, Explain(w, onCard)
  PROVE  Settles
<1>1. /\ UNCHANGED <<vocab, memo, list, lang, target, translations, grades, view, selected, field, dialog>>
      /\ time' = time + 1 /\ explaining' = [word |-> w, card |-> onCard]
  BY DEF Explain, LearnerActs, words, prefs, caches, screen
<1>2. ScreenOK
  BY DEF VocabularyIInv, VocabularyTypeOK
<1>3. QED
  BY <1>1, <1>2, QuietStepSettles DEF ScreenOK

LEMMA CancelSettles == ASSUME VocabularyIInv, Cancel PROVE Settles
<1>1. /\ UNCHANGED <<vocab, memo, list, lang, target, translations, grades, view, selected, field, explaining, time>>
      /\ dialog' = Nowhere
  BY DEF Cancel, words, prefs, caches, waiting
<1>2. ScreenOK
  BY DEF VocabularyIInv, VocabularyTypeOK
<1>3. QED
  BY <1>1, <1>2, QuietStepSettles DEF ScreenOK

\* The rest of the learner's doings with a word.
LEMMA SelectWordSettles ==
  ASSUME VocabularyIInv, NEW w \in Words, SelectWord(w)
  PROVE  Settles
<1>1. /\ UNCHANGED <<lang, target, view, field, dialog, explaining, grades>> /\ time' = time + 1
      /\ selected' = w /\ AskTranslation(w, Entry(w))
  BY DEF SelectWord, LearnerActs, prefs
<1>2. PICK learn \in {FALSE, ~Has(lang, w)} :
        Put(w, IF learn THEN WithStatus(Entry(w), "learning") ELSE Entry(w))
  BY DEF SelectWord
<1>3. InvalidateVocabListCache \/ (Has(lang, w) /\ UNCHANGED <<memo, list>>)
  BY DEF SelectWord, caches
<1>4. VocabularyTypeOK /\ CachesFit /\ ScreenOK /\ time \in Nat /\ lang \in Langs
  BY DEF VocabularyIInv, VocabularyTypeOK, ScreenOK
<1> DEFINE f == IF learn THEN WithStatus(Entry(w), "learning") ELSE Entry(w)
<1>5. f.status # "absent" /\ Becomes(w, f) /\ (Has(lang, w) => f = vocab[lang][w])
  <2>1. /\ IsEntry(Entry(w), time + 1) /\ Entry(w).status # "absent"
        /\ Has(lang, w) => Entry(w) = vocab[lang][w]
        /\ ~Has(lang, w) => Entry(w).born = time + 1 /\ Entry(w).at = time + 1
    BY <1>4, EntryOfWord
  <2>2. CASE Has(lang, w)
    BY <1>2, <2>1, <2>2 DEF Becomes
  <2>3. CASE ~Has(lang, w) /\ ~learn
    BY <1>1, <2>1, <2>3 DEF Becomes
  <2>4. CASE ~Has(lang, w) /\ learn
    BY <1>1, <1>4, <2>1, <2>4, EntryWithStatus DEF Becomes
  <2>5. QED
    BY <2>2, <2>3, <2>4
<1> HIDE DEF f
<1>6. /\ AllEdited /\ vocab'[lang][w] = f
      /\ \A k \in Langs, x \in Words : k # lang \/ x # w => vocab'[k][x] = vocab[k][x]
  BY <1>1, <1>2, <1>4, <1>5, PutEdits DEF f
<1>7. SelectedIsKnown'
  BY <1>1, <1>5, <1>6 DEF SelectedIsKnown, Has
<1>8. ASSUME InvalidateVocabListCache PROVE CachesFit'
  BY <1>7, <1>8, NoCachesFit DEF InvalidateVocabListCache
<1>9. ASSUME Has(lang, w), UNCHANGED <<memo, list>> PROVE CachesFit'
  <2>1. SameWords
    BY <1>5, <1>6, <1>9 DEF SameWords
  <2>2. view' = "vocabulary" => list'.of \in {NoCopy.of, ListKey'}
    BY <1>1 DEF SelectWord
  <2>3. MemoFits(memo', vocab') /\ ListFits(list', vocab')
    BY <1>4, <1>9, <2>1, SameWordsFit DEF CachesFit
  <2>4. QED
    BY <1>7, <2>2, <2>3, CachesFitBy
<1>10. translations' \subseteq Requests
  <2>1. Entry(w).born \in Nat /\ target \in Targets /\ translations \subseteq Requests
    BY <1>4, EntryOfWord DEF IsEntry, ScreenOK
  <2>2. [lang |-> lang, word |-> w, target |-> target, born |-> Entry(w).born] \in Requests
    BY <1>4, <2>1 DEF Requests
  <2>3. QED
    BY <1>1, <2>1, <2>2 DEF AskTranslation
<1>11. ScreenOK'
  BY <1>1, <1>4, <1>10 DEF ScreenOK
<1>12. QED
  BY <1>1, <1>3, <1>6, <1>8, <1>9, <1>11 DEF Settles

\* A word there is becomes another, and no more is there than was.
LEMMA KnownStays ==
  ASSUME VocabularyTypeOK, NEW w \in Words,
         \A k \in Langs, x \in Words : k # lang \/ x # w => vocab'[k][x] = vocab[k][x],
         Has(lang, w) \/ vocab'[lang][w].status = "absent"
  PROVE  \A l \in Langs : Known(vocab', l) \subseteq Known(vocab, l)
BY DEF VocabularyTypeOK, ScreenOK, Known, Has

LEMMA ShownIsKnown ==
  ASSUME VocabularyIInv, NEW w \in Words, Shows(w), view # "flashcards"
  PROVE  Has(lang, w)
<1>1. w # ""
  BY VocabularyAssumption
<1>2. QED
  BY <1>1 DEF VocabularyIInv, CachesFit, Shows

LEMMA SetWordStatusSettles ==
  ASSUME VocabularyIInv, NEW w \in Words, NEW status \in Statuses, SetWordStatus(w, status)
  PROVE  Settles
<1>1. /\ UNCHANGED <<lang, target, view, selected, field, dialog, explaining, grades>>
      /\ time' = time + 1 /\ AskTranslation(w, Entry(w)) /\ Put(w, WithStatus(Entry(w), status))
      /\ Shows(w) /\ view # "flashcards"
  BY DEF SetWordStatus, LearnerActs, prefs, screen
<1>2. PICK kept \in {list, NoCopy} : Render(view, NoCopy, kept)
  BY DEF SetWordStatus
<1>3. VocabularyTypeOK /\ CachesFit /\ ScreenOK /\ time \in Nat /\ lang \in Langs
  BY DEF VocabularyIInv, VocabularyTypeOK, ScreenOK
<1>4. Has(lang, w)
  BY <1>1, ShownIsKnown
<1> DEFINE f == WithStatus(Entry(w), status)
<1>5. IsEntry(Entry(w), time + 1)
  BY <1>3, EntryOfWord
<1>6. f.status = status /\ Becomes(w, f)
  BY <1>1, <1>3, <1>5, EntryWithStatus, EditOfEntry
<1> HIDE DEF f
<1>7. /\ AllEdited /\ vocab'[lang][w] = f
      /\ \A k \in Langs, x \in Words : k # lang \/ x # w => vocab'[k][x] = vocab[k][x]
  BY <1>1, <1>3, <1>6, PutEdits DEF f
<1>8. SelectedIsKnown'
  <2>1. status # "absent"
    BY VocabularyAssumption
  <2>2. QED
    BY <1>1, <1>3, <1>6, <1>7, <2>1 DEF SelectedIsKnown, CachesFit, Has
<1>9. ListFits(kept, vocab')
  <2>1. \A l \in Langs : Known(vocab', l) \subseteq Known(vocab, l)
    BY <1>3, <1>4, <1>7, KnownStays
  <2>2. ListFits(list, vocab')
    BY <1>3, <2>1, ListFitsFewer DEF CachesFit
  <2>3. QED
    BY <1>2, <2>2, NoCopyFits
<1>10. CachesFit'
  BY <1>1, <1>2, <1>3, <1>8, <1>9, NoCopyFits, RenderedCachesFit
<1>11. translations' \subseteq Requests
  <2>1. Entry(w).born \in Nat /\ target \in Targets /\ translations \subseteq Requests
    BY <1>3, <1>5 DEF IsEntry, ScreenOK
  <2>2. [lang |-> lang, word |-> w, target |-> target, born |-> Entry(w).born] \in Requests
    BY <1>3, <2>1 DEF Requests
  <2>3. QED
    BY <1>1, <2>1, <2>2 DEF AskTranslation
<1>12. ScreenOK'
  BY <1>1, <1>3, <1>11 DEF ScreenOK
<1>13. QED
  BY <1>1, <1>7, <1>10, <1>12 DEF Settles

LEMMA RemoveFromSrsSettles ==
  ASSUME VocabularyIInv, NEW w \in Words, RemoveFromSrs(w)
  PROVE  Settles
<1>1. /\ UNCHANGED <<lang, target, view, selected, field, dialog, explaining, grades, translations>>
      /\ time' = time + 1 /\ Put(w, WithStatus(Entry(w), "ignored"))
      /\ Has(lang, w) /\ view = "flashcards"
      /\ RenderReview(NoCopy, view) /\ RenderVocabulary(NoCopy)
  BY DEF RemoveFromSrs, LearnerActs, prefs, screen, waiting
<1>2. VocabularyTypeOK /\ CachesFit /\ ScreenOK /\ time \in Nat /\ lang \in Langs
  BY DEF VocabularyIInv, VocabularyTypeOK, ScreenOK
<1> DEFINE f == WithStatus(Entry(w), "ignored")
<1>3. IsEntry(Entry(w), time + 1)
  BY <1>2, EntryOfWord
<1>4. f.status = "ignored" /\ Becomes(w, f)
  BY <1>1, <1>2, <1>3, EntryWithStatus, EditOfEntry
<1> HIDE DEF f
<1>5. /\ AllEdited /\ vocab'[lang][w] = f
      /\ \A k \in Langs, x \in Words : k # lang \/ x # w => vocab'[k][x] = vocab[k][x]
  BY <1>1, <1>2, <1>4, PutEdits DEF f
<1>6. SelectedIsKnown'
  BY <1>1, <1>2, <1>4, <1>5 DEF SelectedIsKnown, CachesFit, Has
<1>7. MemoFits(memo', vocab') /\ ListFits(list', vocab')
  BY <1>1, <1>2, NoCopyFits, RenderedQueueFits, RenderedListFits
<1>8. CachesFit'
  BY <1>1, <1>6, <1>7, CachesFitBy
<1>9. ScreenOK'
  BY <1>1, <1>2 DEF ScreenOK
<1>10. QED
  BY <1>1, <1>5, <1>8, <1>9 DEF Settles

LEMMA DeleteWordSettles ==
  ASSUME VocabularyIInv, NEW w \in Words, DeleteWord(w)
  PROVE  Settles
<1>1. /\ UNCHANGED <<lang, target, view, field, dialog, explaining, grades, translations>>
      /\ time' = time + 1 /\ Put(w, NoWord) /\ Render(view, NoCopy, list)
      /\ selected' = IF selected = w THEN "" ELSE selected
  BY DEF DeleteWord, LearnerActs, prefs, waiting
<1>2. VocabularyTypeOK /\ CachesFit /\ ScreenOK /\ time \in Nat /\ lang \in Langs
  BY DEF VocabularyIInv, VocabularyTypeOK, ScreenOK
<1>3. /\ AllEdited /\ vocab'[lang][w] = NoWord
      /\ \A k \in Langs, x \in Words : k # lang \/ x # w => vocab'[k][x] = vocab[k][x]
  BY <1>1, <1>2, PutEdits DEF Becomes
<1>4. vocab'[lang][w].status = "absent"
  BY <1>3 DEF NoWord
<1>5. SelectedIsKnown'
  BY <1>1, <1>2, <1>3 DEF SelectedIsKnown, CachesFit, Has
<1>6. ListFits(list, vocab')
  BY <1>2, <1>3, <1>4, KnownStays, ListFitsFewer DEF CachesFit
<1>7. CachesFit'
  BY <1>1, <1>2, <1>5, <1>6, NoCopyFits, RenderedCachesFit
<1>8. ScreenOK'
  BY <1>1, <1>2 DEF ScreenOK
<1>9. QED
  BY <1>1, <1>3, <1>7, <1>8 DEF Settles

LEMMA FlushFieldSettles == ASSUME VocabularyIInv, FlushField PROVE Settles
<1> DEFINE w == field.word
           f == WithText(Entry(w), field.text = NoText)
<1>1. /\ UNCHANGED <<lang, target, view, selected, dialog, explaining, grades, translations>>
      /\ field # Nowhere /\ field' = Nowhere /\ time' = time + 1
  BY DEF FlushField, prefs, waiting
<1>2. \/ UNCHANGED <<vocab, memo, list>>
      \/ Put(w, f) /\ InvalidateVocabListCache
  BY DEF FlushField, caches
<1>3. VocabularyTypeOK /\ CachesFit /\ ScreenOK /\ time \in Nat /\ lang \in Langs /\ w \in Words
  BY <1>1 DEF VocabularyIInv, VocabularyTypeOK, ScreenOK
<1>4. CASE UNCHANGED <<vocab, memo, list>>
  BY <1>1, <1>3, <1>4, QuietStepSettles DEF ScreenOK
<1>5. CASE Put(w, f) /\ InvalidateVocabListCache
  <2>1. IsEntry(Entry(w), time + 1) /\ Entry(w).status # "absent"
    BY <1>3, EntryOfWord
  <2>2. f.status = Entry(w).status /\ Becomes(w, f)
    <3>1. (field.text = NoText) \in BOOLEAN
      OBVIOUS
    <3>2. /\ IsEntry(f, time + 1) /\ f.at = time + 1 /\ f.status = Entry(w).status
          /\ f.born = Entry(w).born /\ f.plan = Entry(w).plan /\ f.text \in {Rejected, Typed}
      BY <1>3, <2>1, <3>1, EntryWithText
    <3>3. QED
      BY <1>1, <1>3, <3>2, EditOfEntry
  <2> HIDE DEF f, w
  <2>3. /\ AllEdited /\ vocab'[lang][w] = f
        /\ \A k \in Langs, x \in Words : k # lang \/ x # w => vocab'[k][x] = vocab[k][x]
    BY <1>1, <1>3, <1>5, <2>2, PutEdits
  <2>4. SelectedIsKnown'
    BY <1>1, <1>3, <2>1, <2>2, <2>3 DEF SelectedIsKnown, CachesFit, Has
  <2>5. CachesFit'
    BY <1>5, <2>4, NoCachesFit DEF InvalidateVocabListCache
  <2>6. ScreenOK'
    BY <1>1, <1>3 DEF ScreenOK
  <2>7. QED
    BY <1>1, <2>3, <2>5, <2>6 DEF Settles
<1>6. QED
  BY <1>2, <1>4, <1>5

\* Another headword moves the entry.
LEMMA ConfirmDialogSettles ==
  ASSUME VocabularyIInv, NEW status \in Statuses, NEW text, NEW key \in Words,
         ConfirmDialog(status, text, key)
  PROVE  Settles
<1> DEFINE w == dialog.word
           e == vocab[lang][w]
           f == [WithStatus(e, status) EXCEPT
                   !.text = IF text = Shown(@) THEN @ ELSE IF text = NoText THEN Rejected ELSE Typed]
<1>1. /\ UNCHANGED <<lang, target, view, field, explaining, grades, translations>>
      /\ dialog # Nowhere /\ dialog' = Nowhere /\ time' = time + 1
      /\ Has(lang, w) /\ (key = w \/ ~Has(lang, key))
      /\ vocab' = [vocab EXCEPT ![lang] = [@ EXCEPT ![w] = NoWord, ![key] = f]]
      /\ selected' = (IF selected = w THEN key ELSE selected)
      /\ memo' = NoCopy /\ RenderVocabulary(NoCopy)
  BY DEF ConfirmDialog, prefs, waiting
<1>2. /\ VocabularyTypeOK /\ CachesFit /\ ScreenOK /\ time \in Nat /\ lang \in Langs /\ w \in Words
      /\ WordsAreEntries(vocab, time)
  BY <1>1 DEF VocabularyIInv, VocabularyTypeOK, ScreenOK
<1>3. IsEntry(e, time + 1)
  BY <1>2, EntryLater DEF WordsAreEntries
<1>4. /\ IsEntry(f, time + 1) /\ f.at = time + 1 /\ f.status = status
      /\ f.born = e.born /\ f.plan = e.plan /\ f.text \in {e.text, Rejected, Typed}
  <2> DEFINE g == WithStatus(e, status)
  <2>1. /\ IsEntry(g, time + 1) /\ g.at = time + 1 /\ g.status = status
        /\ g.born = e.born /\ g.plan = e.plan /\ g.text = e.text
    BY <1>2, <1>3, EntryWithStatus
  <2> HIDE DEF g
  <2>2. f = [g EXCEPT !.text = IF text = Shown(@) THEN @ ELSE IF text = NoText THEN Rejected ELSE Typed]
    BY DEF g
  <2> HIDE DEF f, e
  <2>3. QED
    BY <2>1, <2>2 DEF IsEntry, EntryFields
<1> HIDE DEF f
<1>5. /\ DOMAIN vocab' = Langs /\ \A l \in Langs : DOMAIN vocab'[l] = Words
      /\ vocab'[lang][key] = f
      /\ w # key => vocab'[lang][w] = NoWord
      /\ \A l \in Langs, x \in Words : l # lang \/ x \notin {w, key} => vocab'[l][x] = vocab[l][x]
  <2> HIDE DEF w
  <2>1. DOMAIN vocab = Langs /\ \A l \in Langs : DOMAIN vocab[l] = Words
    BY <1>2 DEF WordsAreEntries
  <2>2. QED
    BY <1>1, <1>2, <2>1
<1> HIDE DEF w, e
<1>6. status # "absent" /\ NoWord.status = "absent"
  BY VocabularyAssumption DEF NoWord
<1>7. Edited(lang, key)
  <2>1. CASE key = w
    <3>1. f.text = e.text \/ f.text \notin Targets
      BY <1>4 DEF Rejected, Typed, Targets
    <3>2. QED
      BY <1>1, <1>4, <1>5, <2>1, <3>1 DEF Edited, TextKept, e
  <2>2. CASE key # w
    BY <1>1, <1>4, <1>5, <2>2 DEF Edited, Has
  <2>3. QED
    BY <2>1, <2>2
<1>8. AllEdited
  <2>1. ASSUME NEW l \in Langs, NEW x \in Words PROVE Edited(l, x)
    BY <1>5, <1>7 DEF Edited
  <2>2. QED
    BY <1>1, <1>5, <2>1 DEF AllEdited
<1>9. SelectedIsKnown'
  BY <1>1, <1>2, <1>4, <1>5, <1>6 DEF SelectedIsKnown, CachesFit, Has
<1>10. MemoFits(memo', vocab') /\ ListFits(list', vocab') /\ list'.of = ListKey'
  BY <1>1, <1>2, NoCopyFits, RenderedListFits
<1>11. CachesFit'
  BY <1>9, <1>10, CachesFitBy
<1>12. ScreenOK'
  BY <1>1, <1>2 DEF ScreenOK
<1>13. QED
  BY <1>1, <1>8, <1>11, <1>12 DEF Settles

\* A word more is one that the list of now does not show.
LEMMA AddWordSettles ==
  ASSUME VocabularyIInv, NEW w \in Words, NEW status \in Statuses, NEW text \in {NoText, Typed},
         AddWord(w, status, text)
  PROVE  Settles
<1> DEFINE g == WithStatus(Entry(w), status)
           f == IF text = NoText THEN g ELSE [g EXCEPT !.text = text]
<1>1. /\ UNCHANGED <<lang, target, view, selected, field, dialog, explaining, grades, translations>>
      /\ time' = time + 1 /\ view = "vocabulary" /\ Put(w, f)
      /\ memo' = NoCopy /\ RenderVocabulary(list)
  BY DEF AddWord, LearnerActs, prefs, screen, waiting
<1>2. VocabularyTypeOK /\ CachesFit /\ ScreenOK /\ time \in Nat /\ lang \in Langs
  BY DEF VocabularyIInv, VocabularyTypeOK, ScreenOK
<1>3. IsEntry(Entry(w), time + 1)
  BY <1>2, EntryOfWord
<1>4. /\ IsEntry(g, time + 1) /\ g.at = time + 1 /\ g.status = status
      /\ g.born = Entry(w).born /\ g.plan = Entry(w).plan /\ g.text = Entry(w).text
  BY <1>2, <1>3, EntryWithStatus
<1> HIDE DEF g
<1>5. /\ IsEntry(f, time + 1) /\ f.at = time + 1 /\ f.status = status
      /\ f.born = Entry(w).born /\ f.plan = Entry(w).plan /\ (f.text = Entry(w).text \/ f.text \in {Rejected, Typed})
  <2>1. CASE text = NoText
    BY <1>4, <2>1
  <2>2. CASE text # NoText
    <3>1. f = [g EXCEPT !.text = Typed]
      BY <2>2
    <3>2. QED
      BY <1>4, <3>1 DEF IsEntry, EntryFields
  <2>3. QED
    BY <2>1, <2>2
<1>6. Becomes(w, f)
  BY <1>1, <1>2, <1>5, EditOfEntry
<1> HIDE DEF f
<1>7. /\ AllEdited /\ vocab'[lang][w] = f
      /\ \A k \in Langs, x \in Words : k # lang \/ x # w => vocab'[k][x] = vocab[k][x]
  BY <1>1, <1>2, <1>6, PutEdits
<1>8. status # "absent"
  BY VocabularyAssumption
<1>9. SelectedIsKnown'
  BY <1>1, <1>2, <1>5, <1>7, <1>8 DEF SelectedIsKnown, CachesFit, Has
<1>10. ListFits(list', vocab') /\ list'.of = ListKey'
  <2>1. CASE Has(lang, w)
    <3>1. \A l \in Langs : Known(vocab', l) \subseteq Known(vocab, l)
      BY <1>2, <1>7, <2>1, KnownStays
    <3>2. ListFits(list, vocab')
      BY <1>2, <3>1, ListFitsFewer DEF CachesFit
    <3>3. QED
      BY <1>1, <1>2, <3>2, RenderedListFits
  <2>2. CASE ~Has(lang, w)
    <3>1. Known(vocab', lang) = Known(vocab, lang) \cup {w} /\ w \notin Known(vocab, lang)
      BY <1>2, <1>5, <1>7, <1>8, <2>2 DEF Known, Has
    <3>2. /\ Cardinality(Known(vocab, lang)) \in Nat
          /\ Cardinality(Known(vocab', lang)) = Cardinality(Known(vocab, lang)) + 1
      <4>1. IsFiniteSet(Known(vocab, lang)) /\ Cardinality(Known(vocab, lang)) \in Nat
        BY WordsAreCounted DEF Known
      <4>2. QED
        BY <3>1, <4>1, FS_AddElement
    <3>3. ListKey' = <<lang, Cardinality(Known(vocab', lang))>> /\ ListKey = <<lang, Cardinality(Known(vocab, lang))>>
      BY <1>1 DEF ListKey, Known, Has
    <3>4. list.of # ListKey'
      <4>1. list.of \in {<<>>, ListKey}
        BY <1>1, <1>2 DEF CachesFit, NoCopy
      <4>2. Cardinality(Known(vocab', lang)) # Cardinality(Known(vocab, lang))
        BY <3>2
      <4>3. <<lang, Cardinality(Known(vocab', lang))>> # <<>>
        OBVIOUS
      <4>4. QED
        BY <3>3, <4>1, <4>2, <4>3
    <3>5. RenderVocabulary(NoCopy)
      BY <1>1, <3>3, <3>4 DEF RenderVocabulary, NoCopy
    <3>6. QED
      BY <1>1, <1>2, <3>5, NoCopyFits, RenderedListFits
  <2>3. QED
    BY <2>1, <2>2
<1>11. CachesFit'
  BY <1>1, <1>9, <1>10, NoCopyFits, CachesFitBy
<1>12. ScreenOK'
  BY <1>1, <1>2 DEF ScreenOK
<1>13. QED
  BY <1>1, <1>7, <1>11, <1>12 DEF Settles

-------------------------------------------------------------------------------
(* Answers.                                                                *)

LEMMA TranslationArrivesSettles == ASSUME VocabularyIInv, TranslationArrives PROVE Settles
<1>1. PICK r \in translations :
        /\ translations' = translations \ {r}
        /\ UNCHANGED <<days, prefs, answer, screen, grades, explaining, day, steps>>
        /\ IF ~Usable(r) THEN UNCHANGED <<vocab, caches, card, time>>
           ELSE /\ time' = time + 1
                /\ Put(r.word, [vocab[lang][r.word] EXCEPT !.text = r.target, !.at = time'])
                /\ IF view = "flashcards" THEN RenderReview(NoCopy, view) ELSE memo' = NoCopy /\ card' = card
                /\ IF view = "vocabulary" THEN RenderVocabulary(NoCopy) ELSE list' = NoCopy
  BY DEF TranslationArrives
<1>2. UNCHANGED <<lang, target, view, selected, field, dialog, grades, explaining>>
  BY <1>1 DEF prefs, screen
<1>3. /\ VocabularyTypeOK /\ CachesFit /\ ScreenOK /\ time \in Nat /\ lang \in Langs
      /\ WordsAreEntries(vocab, time) /\ r \in Requests
  BY <1>1 DEF VocabularyIInv, VocabularyTypeOK, ScreenOK
<1>4. ScreenOK'
  BY <1>1, <1>2, <1>3 DEF ScreenOK
<1>5. CASE ~Usable(r)
  <2>1. UNCHANGED <<vocab, memo, list, time>>
    BY <1>1, <1>5 DEF caches
  <2>2. SameWords /\ AllEdited
    BY <1>3, <2>1, NothingEdited DEF SameWords
  <2>3. CachesFit'
    BY <1>2, <1>3, <2>1, <2>2, KeptCachesFit
  <2>4. QED
    BY <1>2, <1>4, <2>2, <2>3 DEF Settles
<1>6. CASE Usable(r)
  <2> DEFINE w == r.word
             e == vocab[lang][w]
             f == [e EXCEPT !.text = r.target, !.at = time + 1]
  <2>1. w \in Words /\ r.target = target /\ Has(lang, w) /\ e.text \notin {Typed, Rejected}
    BY <1>3, <1>6 DEF Requests, Usable, Wanting
  <2>2. time' = time + 1 /\ Put(w, f)
    BY <1>1, <1>6
  <2>3. IsEntry(e, time + 1)
    BY <1>3, <2>1, EntryLater DEF WordsAreEntries
  <2>4. /\ IsEntry(f, time + 1) /\ f.at = time + 1 /\ f.plan = e.plan /\ f.text = target
        /\ f.status = e.status
    <3> HIDE DEF e
    <3>1. QED
      BY <1>3, <2>1, <2>3 DEF IsEntry, EntryFields
  <2>5. Becomes(w, f)
    BY <2>1, <2>2, <2>4 DEF Becomes, TextKept
  <2> HIDE DEF f, e, w
  <2>6. /\ AllEdited /\ vocab'[lang][w] = f
        /\ \A k \in Langs, x \in Words : k # lang \/ x # w => vocab'[k][x] = vocab[k][x]
    BY <1>3, <2>1, <2>2, <2>5, PutEdits
  <2>7. SelectedIsKnown'
    BY <1>2, <1>3, <2>1, <2>4, <2>6 DEF SelectedIsKnown, CachesFit, Has, e
  <2>8. MemoFits(memo', vocab')
    <3>1. RenderReview(NoCopy, view) \/ memo' = NoCopy
      BY <1>1, <1>6
    <3>2. QED
      BY <1>2, <1>3, <3>1, NoCopyFits, RenderedQueueFits
  <2>9. ListFits(list', vocab') /\ (view = "vocabulary" => list'.of = ListKey')
    <3>1. IF view = "vocabulary" THEN RenderVocabulary(NoCopy) ELSE list' = NoCopy
      BY <1>1, <1>6
    <3>2. QED
      BY <1>2, <1>3, <3>1, NoCopyFits, RenderedListFits
  <2>10. CachesFit'
    BY <1>2, <2>7, <2>8, <2>9, CachesFitBy
  <2>11. QED
    BY <1>2, <1>4, <2>6, <2>10 DEF Settles
<1>7. QED
  BY <1>5, <1>6

LEMMA TranslationFailsSettles == ASSUME VocabularyIInv, TranslationFails PROVE Settles
<1>1. /\ UNCHANGED <<vocab, memo, list, lang, target, view, selected, field, dialog, grades, explaining, time>>
      /\ translations' \subseteq translations
  BY DEF TranslationFails, words, prefs, caches, screen
<1>2. VocabularyTypeOK /\ CachesFit /\ ScreenOK
  BY DEF VocabularyIInv, VocabularyTypeOK
<1>3. SameWords /\ AllEdited
  BY <1>1, <1>2, NothingEdited DEF SameWords
<1>4. CachesFit'
  BY <1>1, <1>2, <1>3, KeptCachesFit
<1>5. ScreenOK'
  BY <1>1, <1>2 DEF ScreenOK
<1>6. QED
  BY <1>1, <1>3, <1>4, <1>5 DEF Settles

LEMMA ExplanationArrivesSettles == ASSUME VocabularyIInv, ExplanationArrives PROVE Settles
<1> DEFINE w == explaining.word
           f == [Entry(w) EXCEPT !.at = time + 1]
<1>1. /\ UNCHANGED <<lang, target, view, selected, field, dialog, grades, translations>>
      /\ explaining # NoExplanation /\ explaining' = NoExplanation
  BY DEF ExplanationArrives, prefs, screen
<1>2. \/ UNCHANGED <<vocab, memo, list, time>>
      \/ /\ time' = time + 1 /\ Put(w, f) /\ memo' = NoCopy
         /\ IF view = "vocabulary" THEN RenderVocabulary(NoCopy) ELSE list' = NoCopy
  BY DEF ExplanationArrives, caches
<1>3. VocabularyTypeOK /\ CachesFit /\ ScreenOK /\ time \in Nat /\ lang \in Langs /\ w \in Words
  BY <1>1 DEF VocabularyIInv, VocabularyTypeOK, ScreenOK
<1>4. ScreenOK'
  BY <1>1, <1>3 DEF ScreenOK
<1>5. CASE UNCHANGED <<vocab, memo, list, time>>
  BY <1>1, <1>3, <1>5, QuietStepSettles DEF ScreenOK
<1>6. CASE /\ time' = time + 1 /\ Put(w, f) /\ memo' = NoCopy
           /\ IF view = "vocabulary" THEN RenderVocabulary(NoCopy) ELSE list' = NoCopy
  <2>1. IsEntry(Entry(w), time + 1) /\ Entry(w).status # "absent"
    BY <1>3, EntryOfWord
  <2>2. /\ IsEntry(f, time + 1) /\ f.at = time + 1 /\ f.status = Entry(w).status
        /\ f.born = Entry(w).born /\ f.plan = Entry(w).plan /\ f.text = Entry(w).text
    BY <1>3, <2>1 DEF IsEntry, EntryFields
  <2> HIDE DEF f, w
  <2>3. Becomes(w, f)
    BY <1>3, <1>6, <2>2, EditOfEntry
  <2>4. /\ AllEdited /\ vocab'[lang][w] = f
        /\ \A k \in Langs, x \in Words : k # lang \/ x # w => vocab'[k][x] = vocab[k][x]
    BY <1>3, <1>6, <2>3, PutEdits
  <2>5. SelectedIsKnown'
    BY <1>1, <1>3, <2>1, <2>2, <2>4 DEF SelectedIsKnown, CachesFit, Has
  <2>6. ListFits(list', vocab') /\ (view = "vocabulary" => list'.of = ListKey')
    BY <1>1, <1>3, <1>6, NoCopyFits, RenderedListFits
  <2>7. CachesFit'
    BY <1>1, <1>6, <2>5, <2>6, NoCopyFits, CachesFitBy
  <2>8. QED
    BY <1>1, <1>4, <2>4, <2>7 DEF Settles
<1>7. QED
  BY <1>2, <1>5, <1>6

-------------------------------------------------------------------------------
(* What is on the screen.                                                  *)

LEMMA SetViewSettles == ASSUME VocabularyIInv, NEW v, SetView(v) PROVE Settles
<1>1. /\ UNCHANGED <<vocab, lang, target, selected, field, dialog, translations, grades, explaining, time>>
      /\ view' = v /\ Render(v, memo, list)
  BY DEF SetView, words, prefs, waiting
<1>2. VocabularyTypeOK /\ CachesFit /\ ScreenOK /\ lang \in Langs
  BY DEF VocabularyIInv, VocabularyTypeOK, ScreenOK
<1>3. AllEdited /\ ScreenOK'
  BY <1>1, <1>2, NothingEdited DEF ScreenOK
<1>4. SelectedIsKnown'
  BY <1>1, <1>2 DEF SelectedIsKnown, CachesFit, Has
<1>5. MemoFits(memo, vocab') /\ ListFits(list, vocab')
  BY <1>1, <1>2 DEF CachesFit
<1>6. CachesFit'
  BY <1>1, <1>2, <1>4, <1>5, RenderedCachesFit
<1>7. QED
  BY <1>1, <1>3, <1>6 DEF Settles

LEMMA TurnSettles == ASSUME VocabularyIInv, Turn PROVE Settles
<1>1. /\ UNCHANGED <<vocab, lang, target, list, view, selected, field, dialog, translations, grades, explaining, time>>
      /\ view = "flashcards" /\ RenderReview(memo, view)
  BY DEF Turn, words, prefs, screen, waiting
<1>2. VocabularyTypeOK /\ CachesFit /\ ScreenOK /\ lang \in Langs
  BY DEF VocabularyIInv, VocabularyTypeOK, ScreenOK
<1>3. AllEdited /\ ScreenOK'
  BY <1>1, <1>2, NothingEdited DEF ScreenOK
<1>4. SelectedIsKnown'
  BY <1>1, <1>2 DEF SelectedIsKnown, CachesFit, Has
<1>5. MemoFits(memo, vocab') /\ ListFits(list', vocab')
  BY <1>1, <1>2 DEF CachesFit
<1>6. MemoFits(memo', vocab')
  BY <1>1, <1>2, <1>5, RenderedQueueFits
<1>7. CachesFit'
  BY <1>1, <1>4, <1>5, <1>6, CachesFitBy
<1>8. QED
  BY <1>1, <1>3, <1>7 DEF Settles

LEMMA SwitchLanguageSettles == ASSUME VocabularyIInv, NEW l \in Langs, SwitchLanguage(l) PROVE Settles
<1>1. /\ UNCHANGED <<vocab, target, memo, list, field, dialog, translations, grades, explaining, time>>
      /\ lang' = l /\ view' = "elsewhere" /\ selected' = ""
  BY DEF SwitchLanguage, words, caches, waiting
<1>2. VocabularyTypeOK /\ CachesFit /\ ScreenOK
  BY DEF VocabularyIInv, VocabularyTypeOK
<1>3. AllEdited /\ ScreenOK'
  BY <1>1, <1>2, NothingEdited DEF ScreenOK
<1>4. MemoFits(memo', vocab') /\ ListFits(list', vocab') /\ SelectedIsKnown'
  BY <1>1, <1>2 DEF CachesFit, SelectedIsKnown
<1>5. CachesFit'
  BY <1>1, <1>4, CachesFitBy
<1>6. QED
  BY <1>1, <1>3, <1>5 DEF Settles

LEMMA SwitchTargetSettles == ASSUME VocabularyIInv, NEW to \in Targets, SwitchTarget(to) PROVE Settles
<1>1. /\ UNCHANGED <<vocab, lang, memo, list, view, selected, field, dialog, translations, grades, explaining, time>>
      /\ target' = to
  BY DEF SwitchTarget, words, caches, screen, waiting
<1>2. VocabularyTypeOK /\ CachesFit /\ ScreenOK
  BY DEF VocabularyIInv, VocabularyTypeOK
<1>3. SameWords /\ AllEdited /\ ScreenOK'
  BY <1>1, <1>2, NothingEdited DEF ScreenOK, SameWords
<1>4. CachesFit'
  BY <1>1, <1>2, <1>3, KeptCachesFit
<1>5. QED
  BY <1>1, <1>3, <1>4 DEF Settles

LEMMA SnapshotArrivesSettles == ASSUME VocabularyIInv, SnapshotArrives PROVE Settles
<1>1. /\ UNCHANGED <<lang, target, view, field, dialog, grades, explaining>> /\ time' = time + 1
      /\ translations' = {[r EXCEPT !.born = Replaced] : r \in translations}
      /\ selected' = (IF selected # "" /\ vocab'[lang][selected].status = "absent" THEN "" ELSE selected)
      /\ Render(view, NoCopy, NoCopy)
  BY DEF SnapshotArrives, prefs
<1>2. PICK l \in Langs, w \in Words, e \in {NoWord, Foreign} : vocab' = [vocab EXCEPT ![l][w] = e]
  BY DEF SnapshotArrives
<1>3. VocabularyTypeOK /\ CachesFit /\ ScreenOK /\ time \in Nat /\ lang \in Langs /\ WordsAreEntries(vocab, time)
  BY DEF VocabularyIInv, VocabularyTypeOK, ScreenOK
<1>4. /\ DOMAIN vocab' = Langs /\ \A k \in Langs : DOMAIN vocab'[k] = Words
      /\ vocab'[l][w] = e
      /\ \A k \in Langs, x \in Words : k # l \/ x # w => vocab'[k][x] = vocab[k][x]
  BY <1>2, <1>3, OneEntryChanges
<1>5. IsEntry(Foreign, time + 1) /\ Foreign.at = time + 1 /\ Foreign.born = time + 1
  BY <1>3 DEF Foreign, NoWord, IsEntry, EntryFields
<1>6. Edited(l, w)
  BY <1>1, <1>2, <1>4, <1>5 DEF Edited
<1>7. AllEdited
  <2>1. ASSUME NEW k \in Langs, NEW x \in Words PROVE Edited(k, x)
    BY <1>4, <1>6 DEF Edited
  <2>2. QED
    BY <1>1, <1>4, <2>1 DEF AllEdited
<1>8. SelectedIsKnown'
  BY <1>1, <1>3 DEF SelectedIsKnown, CachesFit, Has
<1>9. CachesFit'
  BY <1>1, <1>3, <1>8, NoCopyFits, RenderedCachesFit
<1>10. ScreenOK'
  <2>1. translations' \subseteq Requests
    <3>1. \A r \in translations : [r EXCEPT !.born = Replaced] \in Requests
      BY <1>3 DEF ScreenOK, Requests, Replaced
    <3>2. QED
      BY <1>1, <3>1
  <2>2. QED
    BY <1>1, <1>3, <2>1 DEF ScreenOK
<1>11. QED
  BY <1>1, <1>7, <1>9, <1>10 DEF Settles

LEMMA ClearWordsSettles == ASSUME VocabularyIInv, ClearWords PROVE Settles
<1>1. /\ UNCHANGED <<lang, target, view, field, dialog, translations, grades, explaining>> /\ time' = time + 1
      /\ view = "elsewhere" /\ selected' = ""
      /\ vocab' = [vocab EXCEPT ![lang] = [w \in Words |-> NoWord]]
      /\ memo' = (IF memo.of = MemoKey THEN NoCopy ELSE memo)
      /\ list' = (IF list.of = ListKey THEN NoCopy ELSE list)
  BY DEF ClearWords, LearnerActs, prefs, waiting
<1>2. VocabularyTypeOK /\ CachesFit /\ ScreenOK /\ time \in Nat /\ lang \in Langs /\ WordsAreEntries(vocab, time)
  BY DEF VocabularyIInv, VocabularyTypeOK, ScreenOK
<1>3. /\ DOMAIN vocab' = Langs /\ \A l \in Langs : DOMAIN vocab'[l] = Words
      /\ \A w \in Words : vocab'[lang][w] = NoWord
      /\ \A l \in Langs \ {lang} : vocab'[l] = vocab[l]
  BY <1>1, <1>2 DEF WordsAreEntries
<1>4. AllEdited
  <2>1. ASSUME NEW l \in Langs, NEW w \in Words PROVE Edited(l, w)
    BY <1>3 DEF Edited
  <2>2. QED
    BY <1>1, <1>3, <2>1 DEF AllEdited
<1>5. MemoFits(memo', vocab')
  <2>1. CASE memo.of = MemoKey
    BY <1>1, <2>1, NoCopyFits
  <2>2. CASE memo.of # MemoKey
    BY <1>1, <1>2, <1>3, <2>2 DEF CachesFit, MemoFits, MemoKey
  <2>3. QED
    BY <2>1, <2>2
<1>6. ListFits(list', vocab')
  <2>1. NoWord.status = "absent"
    BY DEF NoWord
  <2>2. \A l \in Langs : Known(vocab', l) \subseteq Known(vocab, l)
    BY <1>3, <2>1 DEF Known
  <2>3. QED
    BY <1>1, <1>2, <2>2, ListFitsFewer, NoCopyFits DEF CachesFit
<1>7. CachesFit'
  BY <1>1, <1>5, <1>6, CachesFitBy DEF SelectedIsKnown
<1>8. ScreenOK'
  BY <1>1, <1>2 DEF ScreenOK
<1>9. QED
  BY <1>1, <1>4, <1>7, <1>8 DEF Settles

LEMMA NextDaySettles == ASSUME VocabularyIInv, NextDay PROVE Settles
<1>1. /\ UNCHANGED <<vocab, lang, target, list, view, selected, field, dialog, translations, grades, explaining, time>>
      /\ memo' = NoCopy
  BY DEF NextDay, words, prefs, screen, waiting
<1>2. VocabularyTypeOK /\ CachesFit /\ ScreenOK
  BY DEF VocabularyIInv, VocabularyTypeOK
<1>3. AllEdited /\ ScreenOK'
  BY <1>1, <1>2, NothingEdited DEF ScreenOK
<1>4. ListKey' = ListKey
  BY <1>1 DEF ListKey, Has
<1>5. ListFits(list', vocab') /\ SelectedIsKnown' /\ (view' = "vocabulary" => list'.of \in {NoCopy.of, ListKey'})
  BY <1>1, <1>2, <1>4 DEF CachesFit, SelectedIsKnown, Has
<1>6. CachesFit'
  BY <1>1, <1>5, NoCopyFits, CachesFitBy
<1>7. QED
  BY <1>1, <1>3, <1>6 DEF Settles

-------------------------------------------------------------------------------
(* Reviews.                                                                *)

\* What a step keeps to that gives or applies a grade
LEMMA GradeSettles ==
  ASSUME VocabularyIInv, NEW w \in Words, NEW q, NEW onCard, Grade(w, q, onCard)
  PROVE  AllEdited /\ VocabularyIInv'
<1>1. /\ UNCHANGED <<vocab, memo, list, lang, target, view, selected, field, dialog, translations, explaining>>
      /\ time' = time + 1 /\ Has(lang, w)
  BY DEF Grade, LearnerActs, words, prefs, caches, screen
<1>2. PICK algorithm \in Algorithms :
        grades' = grades \cup
          {[lang |-> lang, word |-> w, quality |-> q, plan |-> vocab[lang][w].plan,
            at |-> vocab[lang][w].at, algorithm |-> algorithm, card |-> onCard,
            day |-> day, time |-> time']}
  BY DEF Grade
<1>3. VocabularyTypeOK /\ CachesFit /\ ScreenOK /\ GradesFit(grades, vocab, time)
      /\ time \in Nat /\ lang \in Langs /\ WordsAreEntries(vocab, time)
  BY DEF VocabularyIInv, VocabularyTypeOK, ScreenOK
<1>4. SameWords /\ AllEdited /\ ScreenOK'
  BY <1>1, <1>3, NothingEdited DEF SameWords, ScreenOK
<1>5. CachesFit'
  BY <1>1, <1>3, <1>4, KeptCachesFit
<1>6. VocabularyTypeOK'
  BY <1>3, <1>4, EditsKeepEntries DEF VocabularyTypeOK
<1>7. GradesFit(grades', vocab', time')
  <2> DEFINE new == [lang |-> lang, word |-> w, quality |-> q, plan |-> vocab[lang][w].plan,
                     at |-> vocab[lang][w].at, algorithm |-> algorithm, card |-> onCard,
                     day |-> day, time |-> time']
  <2>1. grades' = grades \cup {new}
    BY <1>2
  <2>2. /\ new.lang = lang /\ new.word = w /\ new.at = vocab[lang][w].at
        /\ new.plan = vocab[lang][w].plan /\ new.time = time + 1
    BY <1>1
  <2> HIDE DEF new
  <2>3. \A l \in Langs, x \in Words : vocab[l][x].at \in Nat /\ vocab[l][x].at <= time
    BY <1>3 DEF WordsAreEntries, IsEntry
  <2>4. \A g \in grades : g.at \in Nat /\ g.time \in Nat /\ g.at <= time /\ g.time <= time
    BY <1>3 DEF GradesFit
  <2>5. \A g \in grades : g.at # new.time /\ g.time # new.time
    BY <1>3, <2>2, <2>4
  <2>6. \A l \in Langs, x \in Words : vocab[l][x].at # new.time
    BY <1>3, <2>2, <2>3
  <2>7. new.at \in Nat /\ new.at <= time' /\ new.time \in Nat \ {0} /\ new.time <= time'
    BY <1>1, <1>3, <2>2, <2>3
  <2>8. \A g \in grades : g.at <= time' /\ g.time <= time' /\ new.at # g.time
    BY <1>1, <1>3, <2>2, <2>4 DEF GradesFit
  <2>9. ASSUME NEW g \in grades'
        PROVE  /\ g.lang \in Langs /\ g.word \in Words
               /\ g.at \in Nat /\ g.at <= time' /\ g.time \in Nat \ {0} /\ g.time <= time'
               /\ vocab[g.lang][g.word].status # "absent" /\ vocab[g.lang][g.word].at = g.at =>
                    vocab[g.lang][g.word].plan = g.plan
               /\ \A l \in Langs, x \in Words : vocab[l][x].at # g.time
               /\ \A h \in grades' : h.at # g.time /\ (h.time = g.time => h = g)
    <3>1. CASE g = new
      <4>1. \A h \in grades' : h.at # g.time /\ (h.time = g.time => h = g)
        BY <2>1, <2>2, <2>5, <2>6, <1>3, <3>1
      <4>2. QED
        BY <1>3, <2>2, <2>6, <2>7, <3>1, <4>1
    <3>2. CASE g \in grades
      <4>1. \A h \in grades' : h.at # g.time /\ (h.time = g.time => h = g)
        BY <1>3, <2>1, <2>5, <2>8, <3>2 DEF GradesFit
      <4>2. QED
        BY <1>3, <2>8, <3>2, <4>1 DEF GradesFit
    <3>3. QED
      BY <2>1, <2>9, <3>1, <3>2
  <2>10. QED
    BY <1>1, <2>9 DEF GradesFit
<1>8. QED
  BY <1>4, <1>5, <1>6, <1>7 DEF VocabularyIInv

\* A grade that comes too late for its entry is let go.
LEMMA LateGradeSettles ==
  ASSUME VocabularyIInv, GradeArrives, NEW g \in grades, grades' = grades \ {g},
         UNCHANGED <<vocab, memo, list>>
  PROVE  Settles
<1>1. UNCHANGED <<lang, target, view, selected, field, dialog, translations, explaining, time>>
  BY DEF GradeArrives, prefs, screen
<1>2. ScreenOK /\ time \in Nat
  BY DEF VocabularyIInv, VocabularyTypeOK
<1>3. QED
  BY <1>1, <1>2, QuietStepSettles DEF ScreenOK

\* What a review makes of an entry
LEMMA ReviewIs ==
  ASSUME VocabularyIInv, NEW g \in grades, Unedited(g), Review(g)
  PROVE  LET old == vocab[g.lang][g.word]
             new == vocab'[g.lang][g.word]
         IN  /\ new.plan \in Reviewed(g.algorithm, g.quality, old.plan, g.day)
             /\ new.due = g.day + new.plan.interval /\ new.at = g.time
             /\ new.status # "absent" /\ new.text = old.text /\ IsEntry(new, time)
             /\ days' = [days EXCEPT ![g.lang][g.day] = @ + 1]
             /\ DOMAIN vocab' = Langs /\ \A k \in Langs : DOMAIN vocab'[k] = Words
             /\ \A k \in Langs, x \in Words : k # g.lang \/ x # g.word => vocab'[k][x] = vocab[k][x]
<1>1. /\ g.lang \in Langs /\ g.word \in Words /\ WordsAreEntries(vocab, time)
      /\ g.time \in Nat /\ g.time <= time /\ Has(g.lang, g.word)
      /\ vocab[g.lang][g.word].plan = g.plan
  BY DEF VocabularyIInv, VocabularyTypeOK, GradesFit, Unedited, Has
<1>2. PICK plan \in Reviewed(g.algorithm, g.quality, g.plan, g.day) :
        vocab' = [vocab EXCEPT ![g.lang][g.word] = Graded(g, vocab[g.lang][g.word], plan)]
  BY DEF Review
<1> DEFINE old == vocab[g.lang][g.word]
           e == Graded(g, old, plan)
<1>3. IsEntry(old, time) /\ old.status # "absent"
  BY <1>1 DEF WordsAreEntries, Has
<1>4. /\ e.plan = plan /\ e.due = g.day + plan.interval /\ e.at = g.time
      /\ e.text = old.text /\ e.status = GradedStatus(g, old.status, plan) /\ e.born = old.born
      /\ DOMAIN e = EntryFields
  BY <1>3 DEF Graded, IsEntry, EntryFields
<1>5. e.status # "absent"
  BY <1>3, <1>4 DEF GradedStatus
<1>6. vocab' = [vocab EXCEPT ![g.lang][g.word] = e]
  BY <1>2
<1> HIDE DEF e, old
<1>7. IsEntry(e, time)
  BY <1>1, <1>3, <1>4 DEF IsEntry
<1>8. /\ DOMAIN vocab' = Langs /\ \A k \in Langs : DOMAIN vocab'[k] = Words
      /\ vocab'[g.lang][g.word] = e
      /\ \A k \in Langs, x \in Words : k # g.lang \/ x # g.word => vocab'[k][x] = vocab[k][x]
  BY <1>1, <1>6, OneEntryChanges
<1>9. days' = [days EXCEPT ![g.lang][g.day] = @ + 1]
  BY DEF Review
<1>10. QED
  BY <1>1, <1>2, <1>4, <1>5, <1>7, <1>8, <1>9 DEF old

\* A grade that is applied leaves the others as they were: nothing else has its time.
LEMMA ReviewKeepsGrades ==
  ASSUME VocabularyIInv, NEW g \in grades, Unedited(g), Review(g), grades' = grades \ {g}, time' = time
  PROVE  GradesFit(grades, vocab, time)'
<1> DEFINE new == vocab'[g.lang][g.word]
<1>1. /\ new.at = g.time
      /\ \A k \in Langs, x \in Words : k # g.lang \/ x # g.word => vocab'[k][x] = vocab[k][x]
  BY ReviewIs
<1> HIDE DEF new
<1>2. ASSUME NEW h \in grades \ {g}
      PROVE  /\ h.lang \in Langs /\ h.word \in Words
             /\ h.at \in Nat /\ h.at <= time' /\ h.time \in Nat \ {0} /\ h.time <= time'
             /\ vocab'[h.lang][h.word].status # "absent" /\ vocab'[h.lang][h.word].at = h.at =>
                  vocab'[h.lang][h.word].plan = h.plan
             /\ \A l \in Langs, w \in Words : vocab'[l][w].at # h.time
             /\ \A k \in grades' : k.at # h.time /\ (k.time = h.time => k = h)
  <2>1. /\ h.lang \in Langs /\ h.word \in Words
        /\ h.at \in Nat /\ h.at <= time' /\ h.time \in Nat \ {0} /\ h.time <= time'
        /\ vocab[h.lang][h.word].status # "absent" /\ vocab[h.lang][h.word].at = h.at =>
             vocab[h.lang][h.word].plan = h.plan
        /\ \A l \in Langs, w \in Words : vocab[l][w].at # h.time
        /\ \A k \in grades : k.at # h.time /\ (k.time = h.time => k = h)
    BY DEF VocabularyIInv, GradesFit
  <2>2. h.at # g.time /\ h.time # g.time
    BY <2>1 DEF VocabularyIInv, GradesFit
  <2>3. \A l \in Langs, w \in Words : vocab'[l][w].at # h.time
    BY <1>1, <2>1, <2>2 DEF new
  <2>4. vocab'[h.lang][h.word].at = h.at => vocab'[h.lang][h.word] = vocab[h.lang][h.word]
    BY <1>1, <2>1, <2>2 DEF new
  <2>5. QED
    BY <2>1, <2>3, <2>4
<1>3. QED
  BY <1>2 DEF GradesFit

LEMMA ReviewArrivesSettles ==
  ASSUME VocabularyIInv, GradeArrives, NEW g \in grades, Unedited(g), Review(g), grades' = grades \ {g},
         list' = NoCopy, memo' = NoCopy \/ RenderReview(NoCopy, view)
  PROVE  VocabularyIInv' /\ Reviews /\ TextsStay
<1>1. UNCHANGED <<lang, target, view, selected, field, dialog, translations, explaining, time>>
  BY DEF GradeArrives, prefs, screen
<1>2. /\ VocabularyTypeOK /\ CachesFit /\ ScreenOK /\ lang \in Langs
      /\ g.lang \in Langs /\ g.word \in Words /\ WordsAreEntries(vocab, time)
      /\ Has(g.lang, g.word)
  BY DEF VocabularyIInv, VocabularyTypeOK, ScreenOK, GradesFit, Unedited
<1> DEFINE old == vocab[g.lang][g.word]
           new == vocab'[g.lang][g.word]
<1>3. /\ new.plan \in Reviewed(g.algorithm, g.quality, old.plan, g.day)
      /\ new.due = g.day + new.plan.interval /\ new.at = g.time
      /\ new.status # "absent" /\ new.text = old.text /\ IsEntry(new, time)
      /\ days' = [days EXCEPT ![g.lang][g.day] = @ + 1]
      /\ DOMAIN vocab' = Langs /\ \A k \in Langs : DOMAIN vocab'[k] = Words
      /\ \A k \in Langs, x \in Words : k # g.lang \/ x # g.word => vocab'[k][x] = vocab[k][x]
  BY ReviewIs
<1> HIDE DEF old, new
<1>4. WordsAreEntries(vocab, time)'
  <2>1. ASSUME NEW k \in Langs, NEW x \in Words PROVE IsEntry(vocab'[k][x], time)
    BY <1>2, <1>3 DEF new, WordsAreEntries
  <2>2. QED
    BY <1>1, <1>3, <2>1 DEF WordsAreEntries
<1>5. VocabularyTypeOK'
  BY <1>1, <1>2, <1>4 DEF VocabularyTypeOK, ScreenOK
<1>6. CachesFit'
  <2>1. SelectedIsKnown'
    <3>1. ASSUME selected # "" PROVE selected \in Words /\ vocab'[lang][selected].status # "absent"
      BY <1>2, <1>3, <3>1 DEF CachesFit, Has, new
    <3>2. QED
      BY <1>1, <3>1 DEF SelectedIsKnown, Has
  <2>2. MemoFits(memo', vocab')
    BY <1>1, <1>2, NoCopyFits, RenderedQueueFits
  <2>3. QED
    BY <2>1, <2>2, NoCopyFits, CachesFitBy
<1>7. GradesFit(grades, vocab, time)'
  BY <1>1, ReviewKeepsGrades
<1>8. VocabularyIInv'
  BY <1>5, <1>6, <1>7 DEF VocabularyIInv
<1>9. g \in grades \ grades'
  OBVIOUS
<1>10. Reviews
  BY <1>3, <1>9 DEF Reviews, old, new
<1>11. TextsStay
  BY <1>3 DEF TextsStay, old, new
<1>12. QED
  BY <1>8, <1>10, <1>11

-------------------------------------------------------------------------------
(* All steps.                                                              *)

LEMMA SettledStep ==
  ASSUME VocabularyIInv, Settles
  PROVE  VocabularyIInv' /\ Reviews /\ TextsStay
<1>1. /\ time \in Nat /\ WordsAreEntries(vocab, time) /\ GradesFit(grades, vocab, time)
      /\ AllEdited /\ ScreenOK' /\ CachesFit' /\ grades' \subseteq grades
  BY DEF VocabularyIInv, VocabularyTypeOK, Settles
<1>2. time' \in Nat /\ WordsAreEntries(vocab, time)' /\ GradesFit(grades, vocab, time)'
  BY <1>1, EditsKeepEntries, EditsKeepGrades
<1>3. VocabularyTypeOK'
  BY <1>1, <1>2 DEF VocabularyTypeOK
<1>4. Reviews /\ TextsStay
  BY <1>1, EditsGiveWay
<1>5. QED
  BY <1>1, <1>2, <1>3, <1>4 DEF VocabularyIInv

LEMMA GradeArrivesSettles ==
  ASSUME VocabularyIInv, GradeArrives
  PROVE  VocabularyIInv' /\ Reviews /\ TextsStay
<1>1. PICK g \in grades :
        /\ grades' = grades \ {g}
        /\ IF ~Unedited(g) THEN UNCHANGED <<vocab, days, caches, card, answer>>
           ELSE /\ Review(g) /\ list' = NoCopy
                /\ IF g.card THEN answer' = FALSE /\ RenderReview(NoCopy, view)
                   ELSE memo' = NoCopy /\ UNCHANGED <<card, answer>>
  BY DEF GradeArrives
<1>2. CASE ~Unedited(g)
  <2>1. Settles
    BY <1>1, <1>2, LateGradeSettles DEF caches
  <2>2. QED
    BY <2>1, SettledStep
<1>3. CASE Unedited(g)
  BY <1>1, <1>3, ReviewArrivesSettles
<1>4. QED
  BY <1>2, <1>3

LEMMA VocabularyStep ==
  ASSUME VocabularyIInv, [VocabularyNext]_vocabularyVars
  PROVE  VocabularyIInv' /\ Reviews /\ TextsStay
<1>1. CASE UNCHANGED vocabularyVars
  <2>1. UNCHANGED <<vocab, memo, list, lang, target, translations, grades, time, view, selected,
                    field, dialog, explaining>>
    BY <1>1 DEF vocabularyVars, words, prefs, caches, screen, waiting
  <2>2. ScreenOK /\ time \in Nat
    BY DEF VocabularyIInv, VocabularyTypeOK
  <2>3. Settles
    BY <2>1, <2>2, QuietStepSettles DEF ScreenOK
  <2>4. QED
    BY <2>3, SettledStep
<1>2. ASSUME NEW w \in Words,
             \/ SelectWord(w) \/ RemoveFromSrs(w) \/ DeleteWord(w) \/ OpenDialog(w)
             \/ \E s \in Statuses : SetWordStatus(w, s)
             \/ \E text \in {NoText, Typed} : TypeTranslation(w, text)
             \/ \E s \in Statuses, text \in {NoText, Typed} : AddWord(w, s, text)
             \/ \E s \in Statuses, text \in {NoText, Typed} \cup Targets : ConfirmDialog(s, text, w)
             \/ \E onCard \in BOOLEAN : Explain(w, onCard)
      PROVE  Settles
  BY <1>2, SelectWordSettles, RemoveFromSrsSettles, DeleteWordSettles, OpenDialogSettles,
     SetWordStatusSettles, TypeTranslationSettles, AddWordSettles, ConfirmDialogSettles, ExplainSettles
<1>3. ASSUME NEW w \in Words, NEW q \in Grades, NEW onCard \in BOOLEAN, Grade(w, q, onCard)
      PROVE  VocabularyIInv' /\ Reviews /\ TextsStay
  <2>1. AllEdited /\ VocabularyIInv'
    BY <1>3, GradeSettles
  <2>2. QED
    BY <2>1, EditsGiveWay DEF VocabularyIInv, VocabularyTypeOK
<1>4. ASSUME \/ \E v \in Views : SetView(v)
             \/ \E l \in Langs : SwitchLanguage(l)
             \/ \E to \in Targets : SwitchTarget(to)
             \/ FlushField \/ Cancel \/ TranslationArrives \/ TranslationFails
             \/ ExplanationArrives \/ Turn
             \/ SnapshotArrives \/ ClearWords \/ NextDay
      PROVE  Settles
  BY <1>4, SetViewSettles, SwitchLanguageSettles, SwitchTargetSettles, FlushFieldSettles, CancelSettles,
     TranslationArrivesSettles, TranslationFailsSettles, ExplanationArrivesSettles, TurnSettles,
     SnapshotArrivesSettles, ClearWordsSettles, NextDaySettles
<1>5. CASE GradeArrives
  BY <1>5, GradeArrivesSettles
<1>6. QED
  BY <1>1, <1>2, <1>3, <1>4, <1>5, SettledStep DEF VocabularyNext

LEMMA VocabularyStart == VocabularyInit => VocabularyIInv
<1> SUFFICES ASSUME VocabularyInit PROVE VocabularyIInv
  OBVIOUS
<1>1. PICK old \in Words, met \in Words, l \in Langs :
        /\ old # met /\ lang = l /\ selected = old
        /\ vocab = [x \in Langs |-> [w \in Words |->
             IF x = l /\ w = old
             THEN [NoWord EXCEPT !.status = "learning",
                     !.plan = [NewPlan EXCEPT !.repetition = 2, !.interval = 15, !.stability = 1500,
                                              !.reviewed = -15]]
             ELSE IF x = l /\ w = met THEN [NoWord EXCEPT !.status = "new"]
             ELSE NoWord]]
  BY DEF VocabularyInit
<1>2. /\ target = 1 /\ memo = NoCopy /\ list = NoCopy /\ view = "reader"
      /\ field = Nowhere /\ dialog = Nowhere
      /\ grades = {} /\ translations = {} /\ explaining = NoExplanation /\ time = 0
  BY DEF VocabularyInit
<1> DEFINE learning == [NoWord EXCEPT !.status = "learning",
                          !.plan = [NewPlan EXCEPT !.repetition = 2, !.interval = 15,
                                                   !.stability = 1500, !.reviewed = -15]]
           new == [NoWord EXCEPT !.status = "new"]
<1>3. /\ IsEntry(learning, 0) /\ IsEntry(new, 0) /\ IsEntry(NoWord, 0)
      /\ learning.status # "absent"
  BY DEF NoWord, IsEntry, EntryFields
<1> HIDE DEF learning, new
<1>4. /\ DOMAIN vocab = Langs
      /\ \A k \in Langs : DOMAIN vocab[k] = Words
      /\ \A k \in Langs, w \in Words : vocab[k][w] \in {learning, new, NoWord}
      /\ vocab[l][old] = learning
  <2>1. vocab = [x \in Langs |-> [w \in Words |->
                  IF x = l /\ w = old THEN learning ELSE IF x = l /\ w = met THEN new ELSE NoWord]]
    BY <1>1 DEF learning, new
  <2>2. QED
    BY <2>1
<1>5. WordsAreEntries(vocab, time)
  BY <1>2, <1>3, <1>4 DEF WordsAreEntries
<1>6. selected \in Words /\ Has(lang, selected)
  BY <1>1, <1>3, <1>4 DEF Has
<1>7. VocabularyTypeOK
  BY <1>1, <1>2, <1>5 DEF VocabularyTypeOK, ScreenOK, Targets
<1>8. CachesFit
  BY <1>2, <1>6, NoCopyFits DEF CachesFit
<1>9. GradesFit(grades, vocab, time)
  BY <1>2 DEF GradesFit
<1>10. QED
  BY <1>7, <1>8, <1>9 DEF VocabularyIInv

\* Two lists of words that are as long, one within the other, are the same.
LEMMA FitListsAreCurrent ==
  ASSUME VocabularyIInv
  PROVE  ListsAreCurrent
<1>1. lang \in Langs /\ MemoFits(memo, vocab) /\ ListFits(list, vocab)
  BY DEF VocabularyIInv, VocabularyTypeOK, ScreenOK, CachesFit
<1>2. memo.of = MemoKey => memo.entries = Queue(vocab[lang])
  BY <1>1 DEF MemoFits, MemoKey
<1>3. ASSUME list.of = ListKey PROVE Known(vocab, lang) = Listed(list)
  <2> DEFINE known == Known(vocab, lang)
             listed == Listed(list)
  <2>1. known \in SUBSET Words /\ listed \in SUBSET Words
    BY DEF Known, Listed
  <2>2. list.of = <<lang, Cardinality(known)>>
    BY <1>3, ListKeyIs
  <2>3. IsFiniteSet(listed) /\ Cardinality(known) \in Nat
    BY <2>1, WordsAreCounted
  <2> HIDE DEF known
  <2>4. Cardinality(known) = Cardinality(listed) /\ Known(vocab, lang) \subseteq listed
    BY <1>1, <2>2, <2>3 DEF ListFits
  <2>5. known \subseteq listed
    BY <2>4 DEF known
  <2> HIDE DEF listed
  <2>6. known = listed
    BY <2>3, <2>4, <2>5, FS_Subset
  <2>7. QED
    BY <2>6 DEF known, listed
<1>4. list.of = ListKey => \A w \in Words : Has(lang, w) <=> list.entries[w].status # "absent"
  BY <1>3 DEF Known, Listed, Has
<1>5. QED
  BY <1>2, <1>4 DEF ListsAreCurrent

\* The inductive invariant of the words: what is kept of them was taken from
\* them and only ever misses what has gone, and a grade still on its way carries
\* the plan of the entry it was given for, at a time that no other has.
THEOREM VocabularyInvariance == VocabularySpec => []VocabularyIInv
<1>1. VocabularyInit => VocabularyIInv
  BY VocabularyStart
<1>2. VocabularyIInv /\ [VocabularyNext]_vocabularyVars => VocabularyIInv'
  BY VocabularyStep
<1>3. QED
  BY <1>1, <1>2, PTL DEF VocabularySpec

\* A queue or a list that is shown again without a look at the words
\* (reviewQueueCache, cachedVocabBase) is that of the words there are.
THEOREM ListsStayCurrent == VocabularySpec => []ListsAreCurrent
<1>1. VocabularyIInv => ListsAreCurrent
  BY FitListsAreCurrent
<1>2. QED
  BY <1>1, VocabularyInvariance, PTL

\* A review changes only the plan it was computed from (applyReviewGrade), and an
\* automatic translation never takes the place of what the learner wrote or of
\* nothing that he asked for (maybeAutoTranslateWord), however late they come.
THEOREM LateAnswersAreChecked == VocabularySpec => LateAnswersGiveWay
<1>1. VocabularyIInv /\ [VocabularyNext]_vocabularyVars
        => [Reviews]_<<vocab, grades, days>> /\ [TextsStay]_<<vocab>>
  BY VocabularyStep
<1>2. VocabularySpec => [][Reviews]_<<vocab, grades, days>> /\ [][TextsStay]_<<vocab>>
  BY <1>1, VocabularyInvariance, PTL DEF VocabularySpec
<1>3. ReviewsBuildOnEachOther <=> [][Reviews]_<<vocab, grades, days>>
  BY DEF ReviewsBuildOnEachOther, Reviews
<1>4. TypedTranslationsStay <=> [][TextsStay]_<<vocab>>
  BY DEF TypedTranslationsStay, TextsStay
<1>5. QED
  BY <1>2, <1>3, <1>4 DEF LateAnswersGiveWay
===============================================================================
