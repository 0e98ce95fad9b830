----------------------------- MODULE BackendProof -----------------------------
(***************************************************************************)
(* Proofs about three parts of the backend, each on its own.               *)
(*   Server: for any number of requests, of threads in a lane and of       *)
(* panics, wake-ups are not lost, and no panic costs a lane one of its     *)
(* threads.                                                                *)
(*   AtomicFile: whatever a file holds, whoever uses it and wherever its   *)
(* replacement is broken off, its last contents are found again, and       *)
(* damage to it shows nothing that was deleted.                            *)
(*   Relocation: for any directories, records, devices and failures, a     *)
(* move of the data loses nothing that either directory held.              *)
(***************************************************************************)
EXTENDS Server, AtomicFile, Relocation, RecordMergeProof, FiniteSetTheorems, SequenceTheorems, TLAPS

(***************************************************************************)
(* The server                                                              *)
(***************************************************************************)

Statuses == {"unsent", "queued", "handled", "answered", "refused", "dropped"}

Handled(l) == {r \in Requests : progress[r] = "handled" /\ Lane(kind[r]) = l}

\* A queue holds requests of its lane, each of them once.
QueuedOnce ==
  \A l \in Lanes : \A i \in 1..Len(queue[l]) :
    /\ progress[queue[l][i]] = "queued" /\ Lane(kind[queue[l][i]]) = l
    /\ \A j \in 1..Len(queue[l]) : queue[l][j] = queue[l][i] => j = i

ServerIInv == TypeOK /\ QueuedOnce /\ ServerGoesOn

LEMMA LaneType ==
  ASSUME NEW k
  PROVE  Lane(k) \in Lanes
BY DEF Lane, Lanes

LEMMA HandledIsFinite ==
  ASSUME NEW l
  PROVE  IsFiniteSet(Handled(l)) /\ Cardinality(Handled(l)) \in Nat
<1>1. Handled(l) \in SUBSET (1..MaxRequests) /\ IsFiniteSet(1..MaxRequests)
  BY ServerAssumption, FS_Interval DEF Handled, Requests
<1> QED
  BY <1>1, FS_Subset, FS_CardinalityType

\* One request more, or less, in the hands of a lane.
LEMMA OneMoreHandled ==
  ASSUME NEW l, NEW r \in Requests, r \notin Handled(l), Handled(l)' = Handled(l) \cup {r}
  PROVE  Cardinality(Handled(l)') = Cardinality(Handled(l)) + 1
BY HandledIsFinite, FS_AddElement

LEMMA OneLessHandled ==
  ASSUME NEW l, NEW r \in Handled(l), Handled(l)' = Handled(l) \ {r}
  PROVE  Cardinality(Handled(l)') = Cardinality(Handled(l)) - 1
BY HandledIsFinite, FS_RemoveElement

-------------------------------------------------------------------------------
\* A thread whose handler is over goes back to its lane.
LEMMA OverGoesBack ==
  ASSUME ServerIInv, NEW r \in Requests, NEW how \in {"answered", "dropped"},
         progress[r] = "handled", Over(r, how), UNCHANGED <<queue, waiting, kind>>
  PROVE  /\ looking' \in [Lanes -> Nat] /\ progress' \in [Requests -> Statuses]
         /\ lock' \subseteq Requests /\ slot' \subseteq Requests
         /\ QueuedOnce' /\ ServerGoesOn'
<1> DEFINE L == Lane(kind[r])
<1>1. L \in Lanes
  BY LaneType
<1>2. /\ looking' = [looking EXCEPT ![L] = @ + 1] /\ progress' = [progress EXCEPT ![r] = how]
      /\ todo' = [todo EXCEPT ![r] = <<>>] /\ lock' = lock \ {r} /\ slot' = slot \ {r}
  BY DEF Over
<1>3. /\ looking \in [Lanes -> Nat] /\ waiting \in [Lanes -> Nat]
      /\ queue \in [Lanes -> Seq(Requests)]
      /\ progress \in [Requests -> Statuses] /\ lock \subseteq Requests /\ slot \subseteq Requests
  BY DEF ServerIInv, TypeOK, Statuses
<1>4. /\ looking' \in [Lanes -> Nat] /\ progress' \in [Requests -> Statuses]
      /\ lock' \subseteq Requests /\ slot' \subseteq Requests
  BY <1>1, <1>2, <1>3 DEF Statuses
<1>5. QueuedOnce'
  <2> SUFFICES ASSUME NEW l \in Lanes, NEW i \in 1..Len(queue[l])
               PROVE  /\ progress'[queue[l][i]] = "queued" /\ Lane(kind[queue[l][i]]) = l
                      /\ \A j \in 1..Len(queue[l]) : queue[l][j] = queue[l][i] => j = i
    BY DEF QueuedOnce
  <2>1. progress[queue[l][i]] = "queued" /\ Lane(kind[queue[l][i]]) = l
        /\ \A j \in 1..Len(queue[l]) : queue[l][j] = queue[l][i] => j = i
    BY DEF ServerIInv, QueuedOnce
  <2>2. progress'[queue[l][i]] = progress[queue[l][i]]
    BY <1>2, <1>3, <2>1
  <2> QED
    BY <2>1, <2>2
<1>6. WakeUpsAreNotLost'
  <2> SUFFICES ASSUME NEW l \in Lanes, waiting[l] > 0
               PROVE  looking'[l] >= Len(queue[l])
    BY DEF WakeUpsAreNotLost
  <2>1. looking[l] >= Len(queue[l]) /\ Len(queue[l]) \in Nat /\ looking[l] \in Nat
    BY <1>3, LenProperties DEF ServerIInv, ServerGoesOn, WakeUpsAreNotLost
  <2> QED
    BY <1>1, <1>2, <1>3, <2>1
<1>7. NothingIsLostToPanics'
  <2>1. ASSUME NEW l \in Lanes
        PROVE  looking'[l] + waiting[l] + Cardinality(Handled(l)') = NumWorkers[l]
    <3>1. looking[l] + waiting[l] + Cardinality(Handled(l)) = NumWorkers[l]
      BY DEF ServerIInv, ServerGoesOn, NothingIsLostToPanics, Handled
    <3>2. CASE l = L
      <4>1. r \in Handled(l) /\ Handled(l)' = Handled(l) \ {r}
        BY <1>2, <1>3, <3>2 DEF Handled
      <4>2. Cardinality(Handled(l)') = Cardinality(Handled(l)) - 1
        BY <4>1, OneLessHandled
      <4>3. looking'[l] = looking[l] + 1
        BY <1>1, <1>2, <1>3, <3>2
      <4>4. looking[l] \in Nat /\ waiting[l] \in Nat /\ Cardinality(Handled(l)) \in Nat
        BY <1>3, HandledIsFinite
      <4> QED
        BY <3>1, <4>2, <4>3, <4>4
    <3>3. CASE l # L
      <4>1. Handled(l)' = Handled(l)
        BY <1>2, <1>3, <3>3 DEF Handled
      <4> QED
        BY <1>2, <1>3, <3>1, <3>3, <4>1
    <3> QED
      BY <3>2, <3>3
  <2>2. \A q \in lock' \cup slot' : progress'[q] = "handled"
    BY <1>2, <1>3 DEF ServerIInv, ServerGoesOn, NothingIsLostToPanics
  <2> QED
    BY <2>1, <2>2 DEF NothingIsLostToPanics, Handled
<1>8. LockIsHeldForWritesOnly'
  <2> SUFFICES ASSUME NEW q \in lock'
               PROVE  Next1(q)' = "lock"
    BY DEF LockIsHeldForWritesOnly
  <2>1. q \in lock /\ q # r /\ todo'[q] = todo[q]
    BY <1>2
  <2> QED
    BY <2>1 DEF ServerIInv, ServerGoesOn, LockIsHeldForWritesOnly, Next1
<1> QED
  BY <1>4, <1>5, <1>6, <1>7, <1>8 DEF ServerGoesOn

\* A step that moves no request and no thread, and takes at most a lock or the
\* slot for a request that is handled.
LEMMA QuietSteps ==
  ASSUME ServerIInv, UNCHANGED <<queue, looking, waiting, kind, progress>>,
         \A q \in lock' \cup slot' : q \in Requests /\ progress[q] = "handled",
         LockIsHeldForWritesOnly'
  PROVE  /\ lock' \subseteq Requests /\ slot' \subseteq Requests
         /\ QueuedOnce' /\ ServerGoesOn'
<1>1. QueuedOnce'
  BY DEF ServerIInv, QueuedOnce
<1>2. WakeUpsAreNotLost'
  BY DEF ServerIInv, ServerGoesOn, WakeUpsAreNotLost
<1>3. NothingIsLostToPanics'
  BY DEF ServerIInv, ServerGoesOn, NothingIsLostToPanics
<1> QED
  BY <1>1, <1>2, <1>3 DEF ServerGoesOn

\* The lock stays with who has it when another request's turn comes.
LEMMA LockKept ==
  ASSUME ServerIInv, NEW r \in Requests, Next1(r) # "lock", OneDone(r), UNCHANGED lock
  PROVE  LockIsHeldForWritesOnly'
<1> SUFFICES ASSUME NEW q \in lock
             PROVE  Next1(q)' = "lock"
  BY DEF LockIsHeldForWritesOnly
<1>1. Next1(q) = "lock"
  BY DEF ServerIInv, ServerGoesOn, LockIsHeldForWritesOnly
<1>2. todo'[q] = todo[q]
  BY <1>1 DEF OneDone
<1> QED
  BY <1>1, <1>2 DEF Next1

LEMMA InitInvariant ==
  ASSUME Init
  PROVE  ServerIInv
<1>1. TypeOK
  BY ServerAssumption, EmptySeq DEF Init, TypeOK
<1>2. QueuedOnce /\ WakeUpsAreNotLost /\ LockIsHeldForWritesOnly
  BY EmptySeq DEF Init, QueuedOnce, WakeUpsAreNotLost, LockIsHeldForWritesOnly
<1>3. NothingIsLostToPanics
  <2>1. \A l \in Lanes : Handled(l) = {}
    BY DEF Init, Handled
  <2>2. \A l \in Lanes : looking[l] + waiting[l] + Cardinality(Handled(l)) = NumWorkers[l]
    BY <2>1, ServerAssumption, FS_EmptySet DEF Init
  <2> QED
    BY <2>2 DEF Init, NothingIsLostToPanics, Handled
<1> QED
  BY <1>1, <1>2, <1>3 DEF ServerIInv, ServerGoesOn

\* The accept loop: a request more in the queue means one thread more that
\* looks, if any slept.
LEMMA ReceiveInvariant ==
  ASSUME ServerIInv, NEW r \in Requests, NEW k \in Asked, Receive(r, k)
  PROVE  ServerIInv'
<1> DEFINE L == Lane(k)
<1>1. L \in Lanes
  BY LaneType
<1>2. /\ looking \in [Lanes -> Nat] /\ waiting \in [Lanes -> Nat]
      /\ queue \in [Lanes -> Seq(Requests)] /\ kind \in [Requests -> Asked \cup {"none"}]
      /\ progress \in [Requests -> Statuses] /\ lock \subseteq Requests /\ slot \subseteq Requests
  BY DEF ServerIInv, TypeOK, Statuses
<1>3. progress[r] = "unsent"
  BY ServerAssumption DEF Receive, Requests
<1>4. /\ kind' = [kind EXCEPT ![r] = k] /\ Accept(r, L)
      /\ todo' = [todo EXCEPT ![r] = WaitsFor(k)]
      /\ UNCHANGED <<lock, slot, poisoned, running, panics>>
  BY DEF Receive
<1>5. progress' = [progress EXCEPT ![r] = "queued"] \/ progress' = [progress EXCEPT ![r] = "refused"]
  BY <1>4 DEF Accept
<1>6. TypeOK'
  <2>1. CASE Len(queue[L]) >= NumWorkers[L]
    BY <1>2, <1>4, <2>1 DEF ServerIInv, TypeOK, Accept, Statuses
  <2>2. CASE ~(Len(queue[L]) >= NumWorkers[L])
    <3>1. queue' \in [Lanes -> Seq(Requests)]
      <4>1. queue' = [queue EXCEPT ![L] = Append(queue[L], r)]
        BY <1>4, <2>2 DEF Accept
      <4>2. Append(queue[L], r) \in Seq(Requests)
        BY <1>1, <1>2, AppendProperties
      <4> QED
        BY <1>1, <1>2, <4>1, <4>2
    <3>2. looking' \in [Lanes -> Nat] /\ waiting' \in [Lanes -> Nat]
      <4> DEFINE told == IF waiting[L] > 0 THEN 1 ELSE 0
      <4>1. /\ waiting' = [waiting EXCEPT ![L] = waiting[L] - told]
            /\ looking' = [looking EXCEPT ![L] = looking[L] + told]
        BY <1>4, <2>2 DEF Accept
      <4>2. waiting[L] - told \in Nat /\ looking[L] + told \in Nat
        BY <1>1, <1>2
      <4> QED
        BY <1>1, <1>2, <4>1, <4>2
    <3> QED
      BY <1>2, <1>4, <1>5, <3>1, <3>2 DEF ServerIInv, TypeOK, Statuses
  <2> QED
    BY <2>1, <2>2
<1>7. QueuedOnce'
  <2> SUFFICES ASSUME NEW l \in Lanes, NEW i \in 1..Len(queue'[l])
               PROVE  /\ progress'[queue'[l][i]] = "queued" /\ Lane(kind'[queue'[l][i]]) = l
                      /\ \A j \in 1..Len(queue'[l]) : queue'[l][j] = queue'[l][i] => j = i
    BY DEF QueuedOnce
  <2>1. \A m \in 1..Len(queue[l]) :
          /\ queue[l][m] \in Requests /\ queue[l][m] # r
          /\ progress'[queue[l][m]] = "queued" /\ Lane(kind'[queue[l][m]]) = l
    BY <1>2, <1>3, <1>4, <1>5, ElementOfSeq DEF ServerIInv, QueuedOnce
  <2>2. \A m, j \in 1..Len(queue[l]) : queue[l][j] = queue[l][m] => j = m
    BY DEF ServerIInv, QueuedOnce
  <2>3. CASE queue'[l] = queue[l]
    BY <2>1, <2>2, <2>3
  <2>4. CASE queue'[l] # queue[l]
    <3>1. l = L /\ queue'[l] = Append(queue[l], r) /\ progress' = [progress EXCEPT ![r] = "queued"]
      BY <1>1, <1>2, <1>4, <2>4 DEF Accept
    <3>2. /\ Len(queue'[l]) = Len(queue[l]) + 1 /\ Len(queue[l]) \in Nat
          /\ queue'[l][Len(queue[l]) + 1] = r
          /\ \A m \in 1..Len(queue[l]) : queue'[l][m] = queue[l][m]
      BY <1>2, <3>1, AppendProperties, LenProperties
    <3>3. progress'[r] = "queued" /\ Lane(kind'[r]) = l
      BY <1>2, <1>4, <3>1
    <3>4. \A m \in 1..Len(queue'[l]) : m \in 1..Len(queue[l]) \/ m = Len(queue[l]) + 1
      BY <3>2
    <3> QED
      BY <2>1, <2>2, <3>2, <3>3, <3>4
  <2> QED
    BY <2>3, <2>4
<1>8. WakeUpsAreNotLost'
  <2> SUFFICES ASSUME NEW l \in Lanes, waiting'[l] > 0
               PROVE  looking'[l] >= Len(queue'[l])
    BY DEF WakeUpsAreNotLost
  <2>1. waiting[l] > 0 => looking[l] >= Len(queue[l])
    BY DEF ServerIInv, ServerGoesOn, WakeUpsAreNotLost
  <2>2. looking[l] \in Nat /\ waiting[l] \in Nat /\ Len(queue[l]) \in Nat
    BY <1>2, LenProperties
  <2>3. CASE Len(queue[L]) >= NumWorkers[L] \/ l # L
    BY <1>1, <1>2, <1>4, <2>1, <2>3 DEF Accept
  <2>4. CASE ~(Len(queue[L]) >= NumWorkers[L]) /\ l = L
    <3>1. Len(queue'[l]) = Len(queue[l]) + 1
      BY <1>1, <1>2, <1>4, <2>4, AppendProperties DEF Accept
    <3>2. waiting[l] > 0 /\ looking'[l] = looking[l] + 1
      BY <1>1, <1>2, <1>4, <2>2, <2>4 DEF Accept
    <3> QED
      BY <2>1, <2>2, <3>1, <3>2
  <2> QED
    BY <2>3, <2>4
<1>9. NothingIsLostToPanics'
  <2>1. ASSUME NEW l \in Lanes
        PROVE  looking'[l] + waiting'[l] + Cardinality(Handled(l)') = NumWorkers[l]
    <3>1. looking[l] + waiting[l] + Cardinality(Handled(l)) = NumWorkers[l]
      BY DEF ServerIInv, ServerGoesOn, NothingIsLostToPanics, Handled
    <3>2. Handled(l)' = Handled(l)
      BY <1>2, <1>3, <1>4, <1>5 DEF Handled
    <3>3. /\ looking'[l] + waiting'[l] = looking[l] + waiting[l]
          /\ looking'[l] \in Nat /\ waiting'[l] \in Nat
      BY <1>1, <1>2, <1>4 DEF Accept
    <3>4. looking[l] \in Nat /\ waiting[l] \in Nat /\ Cardinality(Handled(l)) \in Nat
      BY <1>2, HandledIsFinite
    <3> QED
      BY <3>1, <3>2, <3>3, <3>4
  <2>2. \A q \in lock' \cup slot' : progress'[q] = "handled"
    BY <1>2, <1>3, <1>4, <1>5 DEF ServerIInv, ServerGoesOn, NothingIsLostToPanics
  <2> QED
    BY <2>1, <2>2 DEF NothingIsLostToPanics, Handled
<1>10. LockIsHeldForWritesOnly'
  <2> SUFFICES ASSUME NEW q \in lock
               PROVE  Next1(q)' = "lock"
    BY <1>4 DEF LockIsHeldForWritesOnly
  <2>1. q # r
    BY <1>3 DEF ServerIInv, ServerGoesOn, NothingIsLostToPanics
  <2>2. todo'[q] = todo[q]
    BY <1>4, <2>1
  <2> QED
    BY <2>2 DEF ServerIInv, ServerGoesOn, LockIsHeldForWritesOnly, Next1
<1> QED
  BY <1>6, <1>7, <1>8, <1>9, <1>10 DEF ServerIInv, ServerGoesOn

\* A thread looks into its queue: it takes what is there, or sleeps.
LEMMA PopInvariant ==
  ASSUME ServerIInv, NEW l \in Lanes, Pop(l)
  PROVE  ServerIInv'
<1>1. /\ looking \in [Lanes -> Nat] /\ waiting \in [Lanes -> Nat]
      /\ queue \in [Lanes -> Seq(Requests)]
      /\ progress \in [Requests -> Statuses] /\ lock \subseteq Requests /\ slot \subseteq Requests
  BY DEF ServerIInv, TypeOK, Statuses
<1>2. /\ looking[l] > 0 /\ looking' = [looking EXCEPT ![l] = @ - 1]
      /\ UNCHANGED <<kind, todo, lock, slot, poisoned, running, panics>>
  BY DEF Pop
<1>3. looking' \in [Lanes -> Nat]
  BY <1>1, <1>2
<1>4. LockIsHeldForWritesOnly'
  BY <1>2 DEF ServerIInv, ServerGoesOn, LockIsHeldForWritesOnly, Next1
<1>5. ASSUME NEW m \in Lanes
      PROVE  /\ looking[m] \in Nat /\ waiting[m] \in Nat /\ Len(queue[m]) \in Nat
             /\ Cardinality(Handled(m)) \in Nat
             /\ waiting[m] > 0 => looking[m] >= Len(queue[m])
             /\ looking[m] + waiting[m] + Cardinality(Handled(m)) = NumWorkers[m]
  <2>1. looking[m] \in Nat /\ waiting[m] \in Nat /\ Len(queue[m]) \in Nat
    BY <1>1, LenProperties
  <2>2. waiting[m] > 0 => looking[m] >= Len(queue[m])
    BY DEF ServerIInv, ServerGoesOn, WakeUpsAreNotLost
  <2>3. looking[m] + waiting[m] + Cardinality(Handled(m)) = NumWorkers[m]
    BY DEF ServerIInv, ServerGoesOn, NothingIsLostToPanics, Handled
  <2> QED
    BY <2>1, <2>2, <2>3, HandledIsFinite
<1>6. CASE queue[l] = <<>>
  <2>1. waiting' = [waiting EXCEPT ![l] = @ + 1] /\ UNCHANGED <<queue, progress>>
    BY <1>6 DEF Pop
  <2>2. TypeOK'
    BY <1>1, <1>2, <1>3, <2>1 DEF ServerIInv, TypeOK
  <2>3. QueuedOnce'
    BY <1>2, <2>1 DEF ServerIInv, QueuedOnce
  <2>4. WakeUpsAreNotLost'
    <3> SUFFICES ASSUME NEW m \in Lanes, waiting'[m] > 0
                 PROVE  looking'[m] >= Len(queue[m])
      BY <2>1 DEF WakeUpsAreNotLost
    <3>1. CASE m = l
      BY <1>1, <1>2, <1>5, <1>6, <2>1, <3>1, EmptySeq
    <3>2. CASE m # l
      BY <1>1, <1>2, <1>5, <2>1, <3>2
    <3> QED
      BY <3>1, <3>2
  <2>5. NothingIsLostToPanics'
    <3>1. ASSUME NEW m \in Lanes
          PROVE  looking'[m] + waiting'[m] + Cardinality(Handled(m)') = NumWorkers[m]
      <4>1. Handled(m)' = Handled(m)
        BY <1>2, <2>1 DEF Handled
      <4>2. looking'[m] + waiting'[m] = looking[m] + waiting[m]
            /\ looking'[m] \in Nat /\ waiting'[m] \in Nat
        <5>1. CASE m = l
          <6>1. looking'[l] = looking[l] - 1 /\ waiting'[l] = waiting[l] + 1
            BY <1>1, <1>2, <2>1
          <6> QED
            BY <1>2, <1>5, <5>1, <6>1
        <5>2. CASE m # l
          BY <1>1, <1>2, <1>5, <2>1, <5>2
        <5> QED
          BY <5>1, <5>2
      <4> QED
        BY <1>5, <4>1, <4>2
    <3> QED
      BY <1>2, <2>1, <3>1 DEF ServerIInv, ServerGoesOn, NothingIsLostToPanics, Handled
  <2> QED
    BY <1>4, <2>2, <2>3, <2>4, <2>5 DEF ServerIInv, ServerGoesOn
<1>7. CASE queue[l] # <<>>
  <2> DEFINE h == Head(queue[l])
  <2>1. /\ queue' = [queue EXCEPT ![l] = Tail(queue[l])]
        /\ progress' = [progress EXCEPT ![h] = "handled"]
        /\ waiting' = waiting
    BY <1>7 DEF Pop
  <2>2. /\ h = queue[l][1] /\ h \in Requests /\ 1 \in 1..Len(queue[l])
        /\ Tail(queue[l]) \in Seq(Requests) /\ Len(Tail(queue[l])) = Len(queue[l]) - 1
        /\ \A i \in 1..Len(Tail(queue[l])) :
             i + 1 \in 1..Len(queue[l]) /\ Tail(queue[l])[i] = queue[l][i + 1]
    BY <1>1, <1>7
  <2>3. /\ progress[h] = "queued" /\ Lane(kind[h]) = l
        /\ \A i \in 1..Len(queue[l]) : queue[l][i] = h => i = 1
    BY <2>2 DEF ServerIInv, QueuedOnce
  <2>4. TypeOK'
    BY <1>1, <1>2, <1>3, <2>1, <2>2 DEF ServerIInv, TypeOK, Statuses
  <2>5. QueuedOnce'
    <3> SUFFICES ASSUME NEW m \in Lanes, NEW i \in 1..Len(queue'[m])
                 PROVE  /\ progress'[queue'[m][i]] = "queued" /\ Lane(kind[queue'[m][i]]) = m
                        /\ \A j \in 1..Len(queue'[m]) : queue'[m][j] = queue'[m][i] => j = i
      BY <1>2 DEF QueuedOnce
    <3>1. \A j \in 1..Len(queue[m]) :
            /\ progress[queue[m][j]] = "queued" /\ Lane(kind[queue[m][j]]) = m
            /\ queue[m][j] \in Requests
            /\ \A n \in 1..Len(queue[m]) : queue[m][n] = queue[m][j] => n = j
      BY <1>1, ElementOfSeq DEF ServerIInv, QueuedOnce
    <3>2. CASE m = l
      <4>1. queue'[m] = Tail(queue[l])
        BY <1>1, <2>1, <3>2
      <4>2. queue[l][i + 1] # h /\ i + 1 \in 1..Len(queue[l]) /\ i \in Nat
            /\ queue'[m][i] = queue[l][i + 1]
        BY <2>2, <2>3, <4>1
      <4>3. progress'[queue'[m][i]] = "queued" /\ Lane(kind[queue'[m][i]]) = m
        BY <1>1, <2>1, <3>1, <3>2, <4>2
      <4>4. ASSUME NEW j \in 1..Len(queue'[m]), queue'[m][j] = queue'[m][i]
            PROVE  j = i
        <5>1. j + 1 \in 1..Len(queue[l]) /\ queue'[m][j] = queue[l][j + 1] /\ j \in Nat
          BY <2>2, <4>1, <4>4
        <5>2. j + 1 = i + 1
          BY <3>1, <3>2, <4>2, <4>4, <5>1
        <5> QED
          BY <4>2, <5>1, <5>2
      <4> QED
        BY <4>3, <4>4
    <3>3. CASE m # l
      <4>1. queue'[m] = queue[m]
        BY <1>1, <2>1, <3>3
      <4>2. queue[m][i] # h
        BY <2>3, <3>1, <3>3, <4>1
      <4> QED
        BY <1>1, <2>1, <3>1, <4>1, <4>2
    <3> QED
      BY <3>2, <3>3
  <2>6. WakeUpsAreNotLost'
    <3> SUFFICES ASSUME NEW m \in Lanes, waiting[m] > 0
                 PROVE  looking'[m] >= Len(queue'[m])
      BY <2>1 DEF WakeUpsAreNotLost
    <3>1. CASE m = l
      BY <1>1, <1>2, <1>5, <2>1, <2>2, <3>1
    <3>2. CASE m # l
      BY <1>1, <1>2, <1>5, <2>1, <3>2
    <3> QED
      BY <3>1, <3>2
  <2>7. NothingIsLostToPanics'
    <3>1. ASSUME NEW m \in Lanes
          PROVE  looking'[m] + waiting[m] + Cardinality(Handled(m)') = NumWorkers[m]
      <4>1. CASE m = l
        <5>1. h \notin Handled(l) /\ Handled(l)' = Handled(l) \cup {h}
          BY <1>1, <1>2, <2>1, <2>2, <2>3 DEF Handled
        <5>2. Cardinality(Handled(l)') = Cardinality(Handled(l)) + 1
          BY <2>2, <5>1, OneMoreHandled
        <5>3. looking'[l] = looking[l] - 1
          BY <1>1, <1>2
        <5> QED
          BY <1>5, <4>1, <5>2, <5>3
      <4>2. CASE m # l
        <5>1. Handled(m)' = Handled(m)
          BY <1>1, <1>2, <2>1, <2>2, <2>3, <4>2 DEF Handled
        <5>2. looking'[m] = looking[m]
          BY <1>1, <1>2, <4>2
        <5> QED
          BY <1>5, <5>1, <5>2
      <4> QED
        BY <4>1, <4>2
    <3>2. \A q \in lock' \cup slot' : progress'[q] = "handled"
      BY <1>1, <1>2, <2>1, <2>2 DEF ServerIInv, ServerGoesOn, NothingIsLostToPanics
    <3> QED
      BY <2>1, <3>1, <3>2 DEF NothingIsLostToPanics, Handled
  <2> QED
    BY <1>4, <2>4, <2>5, <2>6, <2>7 DEF ServerIInv, ServerGoesOn
<1> QED
  BY <1>6, <1>7

LEMMA WakeForNothingInvariant ==
  ASSUME ServerIInv, NEW l \in Lanes, WakeForNothing(l)
  PROVE  ServerIInv'
<1>1. /\ looking \in [Lanes -> Nat] /\ waiting \in [Lanes -> Nat]
      /\ queue \in [Lanes -> Seq(Requests)]
  BY DEF ServerIInv, TypeOK
<1>2. /\ waiting[l] > 0 /\ waiting' = [waiting EXCEPT ![l] = @ - 1]
      /\ looking' = [looking EXCEPT ![l] = @ + 1]
      /\ UNCHANGED <<queue, kind, progress, todo, lock, slot, poisoned, running, panics>>
  BY DEF WakeForNothing
<1>3. looking' \in [Lanes -> Nat] /\ waiting' \in [Lanes -> Nat]
  BY <1>1, <1>2
<1>4. TypeOK' /\ QueuedOnce' /\ LockIsHeldForWritesOnly'
  BY <1>2, <1>3 DEF ServerIInv, TypeOK, QueuedOnce, ServerGoesOn, LockIsHeldForWritesOnly, Next1
<1>5. WakeUpsAreNotLost'
  <2> SUFFICES ASSUME NEW m \in Lanes, waiting'[m] > 0
               PROVE  looking'[m] >= Len(queue[m])
    BY <1>2 DEF WakeUpsAreNotLost
  <2>1. waiting[m] > 0 => looking[m] >= Len(queue[m])
    BY DEF ServerIInv, ServerGoesOn, WakeUpsAreNotLost
  <2>2. looking[m] \in Nat /\ waiting[m] \in Nat /\ Len(queue[m]) \in Nat
    BY <1>1, LenProperties
  <2> QED
    BY <1>1, <1>2, <2>1, <2>2
<1>6. NothingIsLostToPanics'
  <2>1. ASSUME NEW m \in Lanes
        PROVE  looking'[m] + waiting'[m] + Cardinality(Handled(m)') = NumWorkers[m]
    <3>1. looking[m] + waiting[m] + Cardinality(Handled(m)) = NumWorkers[m]
      BY DEF ServerIInv, ServerGoesOn, NothingIsLostToPanics, Handled
    <3>2. Handled(m)' = Handled(m) /\ Cardinality(Handled(m)) \in Nat
      BY <1>2, HandledIsFinite DEF Handled
    <3>3. looking'[m] + waiting'[m] = looking[m] + waiting[m]
          /\ looking'[m] \in Nat /\ waiting'[m] \in Nat
          /\ looking[m] \in Nat /\ waiting[m] \in Nat
      BY <1>1, <1>2
    <3> QED
      BY <3>1, <3>2, <3>3
  <2> QED
    BY <1>2, <2>1 DEF ServerIInv, ServerGoesOn, NothingIsLostToPanics, Handled
<1> QED
  BY <1>4, <1>5, <1>6 DEF ServerIInv, ServerGoesOn

-------------------------------------------------------------------------------
\* The steps of a handler.
LEMMA HandlerInvariant ==
  ASSUME ServerIInv, NEW r \in Requests,
         \/ TrySlot(r) \/ LockWrites(r) \/ Unlock(r) \/ Answer(r)
         \/ Reject(r) \/ DialogEnds(r) \/ GiveUp(r) \/ OutsideAnswers(r) \/ Panic(r)
  PROVE  ServerIInv'
<1>1. \A q \in lock \cup slot : q \in Requests /\ progress[q] = "handled"
  BY DEF ServerIInv, TypeOK, ServerGoesOn, NothingIsLostToPanics
<1>2. progress[r] = "handled"
  BY DEF TrySlot, LockWrites, Unlock, Answer, Reject, DialogEnds, GiveUp, OutsideAnswers, Panic, At
<1>3. CASE \/ \E how \in {"answered", "dropped"} : Over(r, how)
  <2>1. UNCHANGED <<queue, waiting, kind>>
    BY DEF TrySlot, LockWrites, Unlock, Answer, Reject, DialogEnds, GiveUp, OutsideAnswers, Panic
  <2>2. /\ looking' \in [Lanes -> Nat] /\ progress' \in [Requests -> Statuses]
        /\ lock' \subseteq Requests /\ slot' \subseteq Requests
        /\ QueuedOnce' /\ ServerGoesOn'
    BY <1>2, <1>3, <2>1, OverGoesBack
  <2>3. /\ poisoned' \subseteq {"lock", "slot"} /\ running' \in BOOLEAN /\ panics' \in 0..MaxPanics
    <3>1. CASE Panic(r)
      <4>1. panics < MaxPanics /\ panics' = panics + 1 /\ running' = running /\ panics \in 0..MaxPanics
        BY <3>1 DEF Panic, ServerIInv, TypeOK
      <4>2. poisoned' \subseteq {"lock", "slot"}
        BY <3>1 DEF Panic, ServerIInv, TypeOK
      <4> QED
        BY <4>1, <4>2, ServerAssumption DEF ServerIInv, TypeOK
    <3>2. CASE Answer(r)
      BY <3>2 DEF Answer, ServerIInv, TypeOK
    <3>3. CASE ~Panic(r) /\ ~Answer(r)
      <4>1. UNCHANGED <<poisoned, running, panics>>
        BY <3>3 DEF TrySlot, LockWrites, Unlock, Reject, DialogEnds, GiveUp, OutsideAnswers
      <4> QED
        BY <4>1 DEF ServerIInv, TypeOK
    <3> QED
      BY <3>1, <3>2, <3>3
  <2> QED
    BY <2>1, <2>2, <2>3 DEF ServerIInv, TypeOK, Statuses
<1>4. CASE \A how \in {"answered", "dropped"} : ~Over(r, how)
  <2>1. /\ UNCHANGED <<queue, looking, waiting, kind, progress, poisoned, running, panics>>
        /\ \A q \in lock' \cup slot' : q \in lock \cup slot \cup {r}
    BY <1>4 DEF TrySlot, LockWrites, Unlock, Answer, Reject, DialogEnds, GiveUp, OutsideAnswers, Panic
  <2>2. LockIsHeldForWritesOnly'
    <3>1. CASE Unlock(r)
      BY <3>1 DEF Unlock, LockIsHeldForWritesOnly
    <3>2. CASE LockWrites(r)
      BY <1>4, <3>2 DEF LockWrites, LockIsHeldForWritesOnly, At, Next1
    <3>3. CASE DialogEnds(r) \/ OutsideAnswers(r) \/ TrySlot(r)
      BY <1>4, <3>3, LockKept DEF DialogEnds, OutsideAnswers, TrySlot, At
    <3> QED
      BY <1>4, <3>1, <3>2, <3>3 DEF Answer, Reject, GiveUp, Panic
  <2>3. QueuedOnce' /\ ServerGoesOn' /\ lock' \subseteq Requests /\ slot' \subseteq Requests
    BY <1>1, <1>2, <2>1, <2>2, QuietSteps
  <2> QED
    BY <2>1, <2>3 DEF ServerIInv, TypeOK
<1> QED
  BY <1>3, <1>4

\* The inductive invariant.
THEOREM ServerInvariance == Spec => []ServerIInv
<1>1. Init => ServerIInv
  BY InitInvariant
<1>2. ServerIInv /\ [Next]_vars => ServerIInv'
  <2> SUFFICES ASSUME ServerIInv, [Next]_vars
               PROVE  ServerIInv'
    OBVIOUS
  <2>1. CASE UNCHANGED vars
    BY <2>1 DEF vars, ServerIInv, TypeOK, QueuedOnce, ServerGoesOn, WakeUpsAreNotLost,
       NothingIsLostToPanics, LockIsHeldForWritesOnly, Next1
  <2>2. ASSUME NEW l \in Lanes, Pop(l) \/ WakeForNothing(l)
        PROVE  ServerIInv'
    BY <2>2, PopInvariant, WakeForNothingInvariant
  <2>3. ASSUME NEW r \in Requests, NEW k \in Asked, Receive(r, k)
        PROVE  ServerIInv'
    BY <2>3, ReceiveInvariant
  <2>4. ASSUME NEW r \in Requests,
               \/ TrySlot(r) \/ LockWrites(r) \/ Unlock(r) \/ Answer(r)
               \/ Reject(r) \/ DialogEnds(r) \/ GiveUp(r) \/ OutsideAnswers(r) \/ Panic(r)
        PROVE  ServerIInv'
    BY <2>4, HandlerInvariant
  <2> QED
    BY <2>1, <2>2, <2>3, <2>4 DEF Next
<1> QED
  BY <1>1, <1>2, PTL DEF Spec

\* A request that is queued never waits while a thread of its lane sleeps that
\* was not woken (server.rs:34-58), every thread a panicking handler ran on
\* goes back to its lane, with no lock or slot left taken (server.rs:76-88),
\* and the store's lock is held by nobody who waits (server.rs:178-182).
THEOREM ServerNeverStalls == Spec => []ServerGoesOn
<1>1. ServerIInv => ServerGoesOn
  BY DEF ServerIInv
<1> QED
  BY <1>1, ServerInvariance, PTL

(***************************************************************************)
(* Files                                                                   *)
(***************************************************************************)

\* What the next reader may find.
Fine(x) ==
  x \in {last} \cup maybe \/ (style = "settings" /\ last = NoFile /\ x = Torn)

Spoilt == exposed \/ damaged

\* What the file is once the copying under way is complete.
Whole == IF FileAt("restore") \/ FileAt("putback") THEN bak ELSE target

\* The file is fine, or else what is taken in its place.
FilesAreFine ==
  /\ Whole # NoFile => Fine(Whole)
  /\ style = "settings" /\ Whole = NoFile => Fine(IF tmp # NoFile THEN tmp ELSE bak)
  /\ style = "ui" /\ Valid(tmp) => Fine(tmp)
  /\ style # "settings" /\ Whole = NoFile => Fine(IF Valid(bak) THEN bak ELSE NoFile)

\* The stages in which an operation has something to write
Writes == FileStages \ {"recover", "restore", "reply"}
Replacing == {"copy", "rename", "aside", "move", "retry", "putback"}

\* It is what somebody has tried to write, or the UI state being recovered.
ValueIsFine ==
  /\ fileOp.at \in Writes \/ fileOp.do = "write" => Valid(fileOp.value)
  /\ fileOp.do = "write" => fileOp.value \in maybe
  /\ fileOp.at \in Writes => Spoilt \/ Fine(fileOp.value)
  /\ fileOp.at \in Writes /\ fileOp.do = "read" => style = "ui"

\* How far the files are.
FilesMatchTheStage ==
  /\ fileOp.at = "recover" => style = "settings" \/ (style = "ui" /\ fileOp.do = "read")
  /\ fileOp.at = "restore" => style = "settings" /\ target = Torn /\ tmp = NoFile /\ bak # NoFile
  /\ fileOp.at \in {"clean", "create", "fill"} /\ style = "settings" /\ target = NoFile =>
       bak = NoFile /\ (fileOp.at = "clean" => tmp = NoFile)
  /\ fileOp.at = "create" => tmp = NoFile
  /\ fileOp.at = "fill" => tmp = Torn
  /\ fileOp.at \in Replacing => tmp = fileOp.value
  /\ fileOp.at \in {"copy", "aside", "move"} => target # NoFile
  /\ fileOp.at = "copy" => fileOp.keep
  /\ fileOp.at \in {"rename", "aside"} /\ fileOp.keep /\ target # NoFile => bak = target
  /\ fileOp.at = "retry" => target = NoFile /\ bak # NoFile /\ (Spoilt \/ Fine(bak))
  /\ fileOp.at = "putback" => target = Torn /\ bak # NoFile
  /\ fileOp.at = "drop" => target = fileOp.value /\ tmp = NoFile
  /\ fileOp.at = "mirror" =>
       style = "record" /\ fileOp.do = "write" /\ fileOp.value = Dead /\ target = Dead

\* What there is when the operation returns.
FilesAreReady ==
  fileOp.at = "reply" =>
    /\ style = "record" /\ fileOp.do = "write" =>
         /\ FirstOf(target, bak, NoFile) = fileOp.value
         /\ fileOp.value = Dead => target = Dead /\ bak = Dead
    /\ style # "record" /\ fileOp.do = "write" => target = fileOp.value /\ tmp = NoFile
    /\ style = "settings" /\ target = NoFile => tmp = NoFile /\ bak = NoFile
    /\ style = "ui" => tmp = NoFile /\ (Valid(target) \/ ~Valid(bak))

\* Nothing of what was deleted is left, and nothing brings it back.
DeletedIsGone ==
  style = "record" /\ deleted =>
    /\ target \in {Dead, Torn, NoFile} /\ bak \in {Dead, Torn, NoFile}
    /\ fileOp # AtRest /\ fileOp.do = "write" => fileOp.value = Dead

FileIInv ==
  /\ FileTypeOK
  /\ style # "settings" => last # Torn
  /\ Spoilt \/ FilesAreFine
  /\ fileOp # AtRest => ValueIsFine /\ FilesMatchTheStage /\ FilesAreReady
  /\ DeletedIsGone
-------------------------------------------------------------------------------
(* Steps of an operation.                                                  *)

LEMMA NotAtRest == \A o \in Operation : o # AtRest
BY DEF Operation, AtRest

\* Going on changes where an operation is and nothing else about it.
LEMMA GoneOn ==
  ASSUME FileTypeOK, fileOp # AtRest, NEW stage \in FileStages, GoOn(stage)
  PROVE  /\ fileOp' \in Operation /\ fileOp' # AtRest /\ fileOp'.at = stage
         /\ fileOp'.do = fileOp.do /\ fileOp'.value = fileOp.value /\ fileOp'.keep = fileOp.keep
<1>1. fileOp' \in Operation /\ fileOp'.at = stage
      /\ fileOp'.do = fileOp.do /\ fileOp'.value = fileOp.value /\ fileOp'.keep = fileOp.keep
  BY DEF FileTypeOK, GoOn, Operation
<1>2. QED
  BY <1>1, NotAtRest

LEMMA Replaced ==
  ASSUME FileTypeOK, fileOp # AtRest, NEW v \in Values, NEW keep \in BOOLEAN, Replace(v, keep)
  PROVE  /\ fileOp' \in Operation /\ fileOp' # AtRest /\ fileOp'.at = "clean"
         /\ fileOp'.do = fileOp.do /\ fileOp'.value = v /\ fileOp'.keep = keep
<1>1. /\ fileOp' \in Operation /\ fileOp'.at = "clean"
      /\ fileOp'.do = fileOp.do /\ fileOp'.value = v /\ fileOp'.keep = keep
  BY DEF FileTypeOK, Replace, Operation, FileStages
<1>2. QED
  BY <1>1, NotAtRest

\* A file that was not spoilt is there as a whole, or not at all.
LEMMA WholeOrNone ==
  ASSUME FileIInv, ~Spoilt, style # "settings"
  PROVE  Whole \in Values \cup {NoFile}
BY DEF FileIInv, FileTypeOK, FilesAreFine, Fine, FileContent

LEMMA InitFileIInv == FileInit => FileIInv
<1> SUFFICES ASSUME FileInit PROVE FileIInv
  OBVIOUS
<1>1. FileTypeOK
  BY DEF FileInit, FileTypeOK, FileContent
<1>2. Whole = NoFile /\ ~Valid(NoFile)
  BY FileAssumption DEF FileInit, Whole, Valid
<1>3. FilesAreFine
  BY <1>2 DEF FileInit, FilesAreFine, Fine
<1>4. QED
  BY <1>1, <1>3, FileAssumption DEF FileInit, FileIInv, Spoilt, DeletedIsGone
-------------------------------------------------------------------------------
(* Every step keeps the invariant.                                         *)

LEMMA LoadKeepsFileIInv == ASSUME FileIInv, Load PROVE FileIInv'
<1> DEFINE stage == IF style = "record" THEN "reply" ELSE "recover"
<1>1. fileOp' \in Operation /\ fileOp' # AtRest /\ fileOp'.do = "read" /\ fileOp'.at = stage
  <2>1. fileOp' \in Operation /\ fileOp'.do = "read" /\ fileOp'.at = stage
    BY DEF Load, Operation, FileStages
  <2>2. QED
    BY <2>1, NotAtRest
<1>2. Whole' = Whole
  BY <1>1 DEF Load, Whole, files, FileAt, AtRest
<1>3. Spoilt' = Spoilt /\ (Spoilt \/ FilesAreFine')
  BY <1>2 DEF Load, FileIInv, FilesAreFine, Fine, Spoilt, files, Keeps, fileHistory
<1>4. (ValueIsFine /\ FilesMatchTheStage /\ FilesAreReady)'
  BY <1>1 DEF Load, FileIInv, FileTypeOK, Styles, ValueIsFine, FilesMatchTheStage, FilesAreReady,
              Writes, Replacing, files, Keeps
<1>5. QED
  BY <1>1, <1>3, <1>4
     DEF FileIInv, FileTypeOK, Load, DeletedIsGone, files, Keeps, fileHistory

LEMMA StoreKeepsFileIInv == ASSUME FileIInv, NEW v \in Values, Store(v) PROVE FileIInv'
<1>1. /\ fileOp' \in Operation /\ fileOp' # AtRest
      /\ fileOp'.do = "write" /\ fileOp'.value = v
      /\ fileOp'.at \in {"recover", "clean", "mirror", "reply"}
  <2>1. /\ fileOp' \in Operation /\ fileOp'.do = "write" /\ fileOp'.value = v
        /\ fileOp'.at \in {"recover", "clean", "mirror", "reply"}
    BY DEF Store, RecordPlan, Operation, FileStages
  <2>2. QED
    BY <2>1, NotAtRest
<1>2. /\ fileOp'.at = "recover" => style = "settings"
      /\ fileOp'.at = "mirror" => style = "record" /\ v = Dead /\ target = Dead
      /\ fileOp'.at = "reply" => style = "record" /\ v # Dead /\ FirstOf(target, bak, NoFile) = v
      /\ fileOp'.at = "clean" => style # "settings"
  BY <1>1 DEF Store, RecordPlan, FileIInv, FileTypeOK, Styles
<1>3. Whole' = Whole
  BY <1>1 DEF Store, Whole, files, FileAt, AtRest
<1>4. Spoilt' = Spoilt /\ (Spoilt \/ FilesAreFine')
  BY <1>3 DEF Store, FileIInv, FilesAreFine, Fine, Spoilt, files
<1>5. ValueIsFine'
  BY <1>1, <1>2 DEF Store, ValueIsFine, Valid, Writes, Fine
<1>6. (FilesMatchTheStage /\ FilesAreReady)'
  BY <1>1, <1>2 DEF Store, FilesMatchTheStage, FilesAreReady, Replacing, files
<1>7. FileTypeOK' /\ DeletedIsGone'
  BY <1>1 DEF FileIInv, FileTypeOK, Store, DeletedIsGone, files
<1>8. QED
  BY <1>1, <1>4, <1>5, <1>6, <1>7 DEF FileIInv, Store

LEMMA RecoveryKeepsFileIInv ==
  ASSUME FileIInv, RecoverReplace \/ Restore
  PROVE  FileIInv'
<1>1. CASE RecoverReplace
  BY <1>1, FileAssumption, SMTT(60)
     DEF FileIInv, FileTypeOK, Operation, FileStages, AtRest, RecoverReplace, Onwards, GoOn, FileAt,
         FilesAreFine, Fine, Spoilt, Whole, Valid, ValueIsFine, FilesMatchTheStage, FilesAreReady,
         Writes, Replacing, DeletedIsGone, FileContent, files, fileHistory, Keeps
<1>2. CASE Restore
  BY <1>2, FileAssumption, SMTT(60)
     DEF FileIInv, FileTypeOK, Operation, FileStages, AtRest, Restore, Onwards, GoOn, FileAt,
         FilesAreFine, Fine, Spoilt, Whole, Valid, ValueIsFine, FilesMatchTheStage, FilesAreReady,
         Writes, Replacing, DeletedIsGone, FileContent, files, fileHistory, Keeps
<1>3. QED
  BY <1>1, <1>2

LEMMA UiRecoveryKeepsFileIInv == ASSUME FileIInv, RecoverUiState PROVE FileIInv'
<1>1. fileOp # AtRest /\ fileOp.at = "recover" /\ style = "ui" /\ Whole = target
  BY DEF RecoverUiState, FileAt, Whole
<1>2. fileOp.do = "read"
  BY <1>1 DEF FileIInv, FilesMatchTheStage
<1>3. target' = target /\ bak' = bak /\ UNCHANGED <<style, last, maybe, exposed, damaged, deleted>>
  BY DEF RecoverUiState, files, Keeps, fileHistory
<1>4. tmp' \in {tmp, NoFile} /\ (Spoilt \/ FilesAreFine)
  BY DEF RecoverUiState, files, FileIInv
<1>5. /\ fileOp' \in Operation /\ fileOp' # AtRest /\ fileOp'.do = "read"
      /\ \/ /\ fileOp'.at = "clean" /\ Valid(fileOp'.value) /\ (Spoilt \/ Fine(fileOp'.value))
         \/ /\ fileOp'.at = "reply" /\ tmp' = NoFile /\ (Valid(target) \/ ~Valid(bak))
  <2>1. CASE Valid(tmp) /\ Replace(tmp, Valid(target))
    <3>1. Valid(target) \in BOOLEAN /\ tmp \in Values /\ (Spoilt \/ Fine(tmp))
      BY <1>1, <1>4, <2>1 DEF FilesAreFine, Valid
    <3>2. FileTypeOK
      BY DEF FileIInv
    <3>3. QED
      BY <1>1, <1>2, <2>1, <3>1, <3>2, Replaced DEF Valid
  <2>2. CASE ~Valid(tmp) /\ ~Valid(target) /\ Valid(bak) /\ Replace(bak, FALSE)
    <3>1. Spoilt \/ Fine(bak)
      <4>1. CASE target = NoFile
        BY <1>1, <1>4, <2>2, <4>1 DEF FilesAreFine
      <4>2. CASE target # NoFile /\ ~Spoilt
        <5>1. target \in {last} \cup maybe
          BY <1>1, <1>4, <4>2 DEF FilesAreFine, Fine
        <5>2. target \notin Values /\ target # Torn
          BY <1>1, <2>2, <5>1, FileAssumption DEF Valid, FileIInv, FileTypeOK
        <5>3. QED
          BY <4>2, <5>2 DEF FileIInv, FileTypeOK, FileContent
      <4>3. QED
        BY <4>1, <4>2
    <3>2. QED
      BY <1>1, <1>2, <2>2, <3>1, Replaced DEF FileIInv, Valid
  <2>3. CASE ~Valid(tmp) /\ ~(~Valid(target) /\ Valid(bak)) /\ GoOn("reply") /\ tmp' = NoFile
    BY <1>1, <1>2, <2>3, GoneOn DEF FileIInv, FileStages
  <2>4. QED
    BY <2>1, <2>2, <2>3 DEF RecoverUiState
<1>6. Whole' = target
  BY <1>3, <1>5 DEF Whole, FileAt
<1>7. Spoilt' \/ FilesAreFine'
  BY <1>1, <1>3, <1>4, <1>6, FileAssumption DEF FilesAreFine, Fine, Spoilt, Valid
<1>8. FileTypeOK'
  BY <1>3, <1>4, <1>5 DEF FileIInv, FileTypeOK, FileContent
<1>9. (ValueIsFine /\ FilesMatchTheStage /\ FilesAreReady)'
  BY <1>1, <1>3, <1>5
     DEF ValueIsFine, FilesMatchTheStage, FilesAreReady, Writes, Replacing, Spoilt, Fine
<1>10. QED
  BY <1>1, <1>3, <1>7, <1>8, <1>9 DEF FileIInv, DeletedIsGone

\* The steps of a write, each of them a few assignments.
LEMMA WriteKeepsFileIInv ==
  ASSUME FileIInv,
         \/ RemoveStaleTemp \/ CreateTemp \/ FillTemp \/ CopyToBackup \/ RenameTemp \/ MoveAside
         \/ MoveToBackup \/ RetryRename \/ PutBack \/ DropBackup \/ MirrorTombstone
  PROVE  FileIInv'
<1> USE FileAssumption
    DEF FileIInv, FileTypeOK, Operation, FileStages, AtRest, FileAt, GoOn, FilesAreFine, Fine, Spoilt, Whole,
         Valid, ValueIsFine, FilesMatchTheStage, FilesAreReady, Writes, Replacing, DeletedIsGone,
         FileContent, FirstOf, Styles, files, fileHistory, Keeps
<1>1. CASE RemoveStaleTemp
  BY <1>1, SMTT(60) DEF RemoveStaleTemp
<1>2. CASE CreateTemp
  BY <1>2, SMTT(60) DEF CreateTemp
<1>3. CASE FillTemp
  BY <1>3, SMTT(60) DEF FillTemp
<1>4. CASE CopyToBackup
  BY <1>4, SMTT(60) DEF CopyToBackup
<1>5. CASE RenameTemp
  BY <1>5, SMTT(60) DEF RenameTemp, Written
<1>6. CASE MoveAside
  BY <1>6, SMTT(60) DEF MoveAside
<1>7. CASE MoveToBackup
  BY <1>7, SMTT(60) DEF MoveToBackup
<1>8. CASE RetryRename
  BY <1>8, SMTT(60) DEF RetryRename, Written
<1>9. CASE PutBack
  BY <1>9, SMTT(60) DEF PutBack
<1>10. CASE DropBackup
  BY <1>10, SMTT(60) DEF DropBackup, Written
<1>11. CASE MirrorTombstone
  BY <1>11, SMTT(60) DEF MirrorTombstone
<1>12. QED
  BY <1>1, <1>2, <1>3, <1>4, <1>5, <1>6, <1>7, <1>8, <1>9, <1>10, <1>11

\* What a reader is shown is what the file holds, or what stands in for it.
LEMMA ReplyKeepsFileIInv == ASSUME FileIInv, Reply PROVE FileIInv'
<1>1. /\ fileOp # AtRest /\ fileOp.at = "reply" /\ fileOp' = AtRest /\ Whole = target /\ Whole' = target
      /\ maybe' = {} /\ UNCHANGED <<style, target, tmp, bak>>
  BY DEF Reply, FileAt, Whole, files
<1>2. fileOp \in Operation /\ ValueIsFine /\ FilesAreReady /\ style \in Styles
  BY <1>1 DEF FileIInv, FileTypeOK
<1>3. fileOp.do = "read" =>
        last' = CASE style = "settings" -> target
                  [] style = "ui" -> FirstOf(target, NoFile, NoFile)
                  [] style = "record" -> FirstOf(target, bak, NoFile)
  BY <1>2 DEF Reply, Styles
<1>4. fileOp.do = "write" => last' = fileOp.value /\ last' \in Values
  BY <1>2 DEF Reply, ValueIsFine, Valid
<1>5. last' \in FileContent /\ (style # "settings" => last' # Torn)
  BY <1>2, <1>3, <1>4, FileAssumption
     DEF FileIInv, FileTypeOK, FileContent, FirstOf, Valid, Styles, Operation
<1>6. Spoilt' \/ FilesAreFine'
  <2>1. CASE Spoilt /\ target # last'
    BY <2>1 DEF Reply, Spoilt
  <2>2. CASE target = last'
    <3>1. style = "ui" => ~Valid(tmp')
      BY <1>1, <1>2, FileAssumption DEF FilesAreReady, Valid, Operation
    <3>2. style # "settings" /\ target = NoFile => ~Valid(bak)
      <4>1. CASE fileOp.do = "read"
        BY <1>1, <1>2, <1>3, <2>2, <4>1, FileAssumption DEF FilesAreReady, Valid, Styles, FirstOf
      <4>2. CASE fileOp.do = "write"
        BY <1>1, <1>2, <1>4, <2>2, <4>2, FileAssumption DEF FilesAreReady, Valid, FirstOf
      <4>3. QED
        BY <1>2, <4>1, <4>2 DEF Operation
    <3>3. style = "settings" /\ target = NoFile => tmp = NoFile /\ bak = NoFile
      BY <1>1, <1>2 DEF FilesAreReady
    <3>4. QED
      BY <1>1, <2>2, <3>1, <3>2, <3>3 DEF FilesAreFine, Fine
  <2>3. CASE ~Spoilt /\ target # last'
    <3>1. style # "settings"
      <4>1. CASE fileOp.do = "read"
        BY <1>3, <2>3, <4>1
      <4>2. CASE fileOp.do = "write"
        BY <1>1, <1>2, <1>4, <2>3, <4>2 DEF FilesAreReady
      <4>3. QED
        BY <1>2, <4>1, <4>2 DEF Operation
    <3>2. target = NoFile
      <4>1. target \in Values \cup {NoFile}
        BY <1>1, <2>3, <3>1, WholeOrNone
      <4>2. target \in Values => FirstOf(target, bak, NoFile) = target /\ FirstOf(target, NoFile, NoFile) = target
        BY DEF FirstOf, Valid
      <4>3. target \in Values => last' = target
        <5>1. CASE fileOp.do = "read"
          BY <1>1, <1>2, <1>3, <3>1, <4>2, <5>1 DEF Styles
        <5>2. CASE fileOp.do = "write"
          BY <1>1, <1>2, <1>4, <3>1, <4>2, <5>2 DEF FilesAreReady
        <5>3. QED
          BY <1>2, <5>1, <5>2 DEF Operation
      <4>4. QED
        BY <2>3, <4>1, <4>3
    <3>3. style = "record"
      <4>1. FirstOf(NoFile, NoFile, NoFile) = NoFile
        BY DEF FirstOf
      <4>2. QED
        BY <1>1, <1>2, <1>3, <1>4, <2>3, <3>1, <3>2, <4>1 DEF FilesAreReady, Styles, Operation
    <3>4. last' = IF Valid(bak) THEN bak ELSE NoFile
      BY <1>1, <1>2, <1>3, <1>4, <3>2, <3>3, FileAssumption
         DEF FilesAreReady, Operation, FirstOf, Valid
    <3>5. QED
      BY <1>1, <3>2, <3>3, <3>4 DEF FilesAreFine, Fine
  <2>4. QED
    BY <2>1, <2>2, <2>3
<1>7. DeletedIsGone'
  BY <1>1, <1>2 DEF FileIInv, DeletedIsGone, Reply, FilesAreReady, Operation
<1>8. FileTypeOK'
  BY <1>1, <1>5 DEF FileIInv, FileTypeOK, Reply
<1>9. QED
  BY <1>1, <1>5, <1>6, <1>7, <1>8 DEF FileIInv

LEMMA StopKeepsFileIInv == ASSUME FileIInv, Stop PROVE FileIInv'
<1>1. FileTypeOK'
  BY DEF FileIInv, FileTypeOK, Stop, files
<1>2. exposed' \/ Whole' = Whole
  BY DEF Stop, Whole, files, FileAt
<1>3. Spoilt' \/ FilesAreFine'
  BY <1>2 DEF FileIInv, Stop, files, Spoilt, FilesAreFine, Fine
<1>4. QED
  BY <1>1, <1>3 DEF FileIInv, Stop, files, DeletedIsGone

LEMMA DamageKeepsFileIInv == ASSUME FileIInv, Damage PROVE FileIInv'
BY DEF FileIInv, FileTypeOK, FileContent, Damage, Spoilt, DeletedIsGone

LEMMA StepKeepsFileIInv == FileIInv /\ [FileNext]_fileVars => FileIInv'
<1> SUFFICES ASSUME FileIInv, [FileNext]_fileVars PROVE FileIInv'
  OBVIOUS
<1>1. CASE FileNext
  BY <1>1, LoadKeepsFileIInv, StoreKeepsFileIInv, RecoveryKeepsFileIInv, UiRecoveryKeepsFileIInv,
     WriteKeepsFileIInv, ReplyKeepsFileIInv, StopKeepsFileIInv, DamageKeepsFileIInv DEF FileNext
<1>2. CASE UNCHANGED fileVars
  BY <1>2 DEF fileVars, files, fileHistory, FileIInv, FileTypeOK, FilesAreFine, Fine, Spoilt, Whole,
     FileAt, ValueIsFine, FilesMatchTheStage, FilesAreReady, DeletedIsGone
<1>3. QED
  BY <1>1, <1>2

\* The files are what the operation at work has got them to be, and what is
\* found in the place of an unfinished one is fine (store/io.rs, durable.rs).
THEOREM FileInvariance == FileSpec => []FileIInv
<1>1. FileInit => FileIInv
  BY InitFileIInv
<1>2. FileIInv /\ [FileNext]_fileVars => FileIInv'
  BY StepKeepsFileIInv
<1>3. QED
  BY <1>1, <1>2, PTL DEF FileSpec
-------------------------------------------------------------------------------
(* What the next reader finds.                                             *)

LEMMA RecoveredIsFine == ASSUME FileIInv PROVE LastWriteSurvives
<1> SUFFICES ASSUME ~exposed, ~damaged, ~FileAt("restore"), ~FileAt("putback")
             PROVE  Fine(Recovered)
  BY FileAssumption DEF LastWriteSurvives, Fine
<1>1. FilesAreFine /\ Whole = target
  BY DEF FileIInv, Spoilt, Whole
<1>2. CASE style = "settings"
  BY <1>1, <1>2 DEF FilesAreFine, Recovered
<1>3. CASE style # "settings"
  <2>1. target \in Values \cup {NoFile}
    BY <1>1, <1>3, WholeOrNone DEF Spoilt
  <2>2. Fine(FirstOf(target, bak, NoFile))
    BY <1>1, <1>3, <2>1, FileAssumption DEF FilesAreFine, FirstOf, Valid
  <2>3. CASE style = "record"
    BY <2>2, <2>3 DEF Recovered
  <2>4. CASE style = "ui"
    <3>1. Valid(tmp) => Fine(FirstOf(tmp, target, bak))
      BY <1>1, <2>4 DEF FilesAreFine, FirstOf
    <3>2. ~Valid(tmp) => FirstOf(tmp, target, bak) = FirstOf(target, bak, NoFile)
      BY FileAssumption DEF FirstOf, Valid
    <3>3. QED
      BY <2>2, <2>4, <3>1, <3>2 DEF Recovered
  <2>5. QED
    BY <1>3, <2>3, <2>4 DEF FileIInv, FileTypeOK, Styles
<1>4. QED
  BY <1>2, <1>3

LEMMA DeletedIsNotRecovered == ASSUME FileIInv PROVE DeletionOutlivesDamage
BY FileAssumption DEF FileIInv, DeletedIsGone, DeletionOutlivesDamage, Recovered, FirstOf, Valid

\* Whatever crashes or fails, the next reader of a file finds what was last
\* confirmed or tried, and damage to a record never brings back what was
\* deleted: durable.rs:43-110, store/io.rs:261-330.
THEOREM FilesAreKept == FileSpec => []FilesKeepTheirContents
<1>1. FileIInv => FilesKeepTheirContents
  BY RecoveredIsFine, DeletedIsNotRecovered DEF FilesKeepTheirContents
<1>2. QED
  BY <1>1, FileInvariance, PTL

(***************************************************************************)
(* Moves of the data directory                                             *)
(***************************************************************************)

\* A record's clock knows nothing later than the record, and when it was written.
Dated(r, now) ==
  r # None =>
    /\ r.at <= now /\ r.causal[r.by] = r.at
    /\ \A d \in Devices : r.causal[d] <= r.at

\* Versions that one and the same write has made
SameWrite(a, b) == a.at = b.at /\ a.by = b.by /\ a.data = b.data

\* The record e stands for what r was.
Supersedes(e, r) ==
  r # None => e # None /\ e.at >= r.at /\ ~Descends(r.causal, e.causal)

-------------------------------------------------------------------------------
(* Records that are saved and merged.                                      *)

LEMMA NoRecord == ASSUME NEW r \in Record PROVE r # None
BY NoneAssumption

LEMMA RecordType ==
  ASSUME NEW r \in Record
  PROVE  /\ r.data \in Content /\ r.at \in Nat /\ r.by \in Devices /\ r.causal \in Clock
         /\ \A d \in Devices : r.causal[d] \in Nat
BY DEF Record, Clock

LEMMA MakeRecord ==
  ASSUME NEW d \in Content, NEW at \in Nat, NEW by \in Devices, NEW c \in Clock
  PROVE  [data |-> d, at |-> at, by |-> by, causal |-> c] \in Record
BY DEF Record

\* A clock that is behind the wall clock becomes the clock of a write.
LEMMA BumpIsDated ==
  ASSUME NEW c \in Clock, NEW dev \in Devices, NEW now \in Nat, \A d \in Devices : c[d] < now
  PROVE  LET b == BumpCausal(c, dev, now)
         IN  /\ b \in Clock /\ b[dev] = now /\ (\A d \in Devices : b[d] <= now)
             /\ Descends(b, c)
<1> DEFINE b == BumpCausal(c, dev, now)
<1>1. \A d \in Devices : c[d] \in Nat
  BY DEF Clock
<1>2. MaxOf(c[dev] + 1, now) = now
  BY <1>1 DEF MaxOf
<1>3. b \in Clock /\ b[dev] = now /\ \A d \in Devices \ {dev} : b[d] = c[d]
  BY <1>2, BumpCausalType DEF BumpCausal, Clock
<1> HIDE DEF b
<1>4. ASSUME NEW d \in Devices PROVE b[d] <= now /\ c[d] <= b[d]
  <2>1. c[d] \in Nat /\ c[d] < now
    BY <1>1
  <2>2. CASE d = dev
    BY <1>3, <2>1, <2>2
  <2>3. CASE d # dev
    BY <1>3, <2>1, <2>3
  <2>4. QED
    BY <2>2, <2>3
<1>5. Descends(b, c)
  BY <1>1, <1>3, <1>4 DEF Descends, Exceeds
<1>6. QED
  BY <1>3, <1>4, <1>5 DEF b

LEMMA DatedLater ==
  ASSUME NEW r \in Record \cup {None}, NEW now \in Nat, NEW later \in Nat, now <= later, Dated(r, now)
  PROVE  Dated(r, later)
BY RecordType DEF Dated

\* The clock a write continues is behind it.
LEMMA BaseIsBehind ==
  ASSUME NEW r \in Record \cup {None}, NEW now \in Nat, Dated(r, now)
  PROVE  /\ BaseClock(FingerprintOf(r)) \in Clock
         /\ \A d \in Devices : BaseClock(FingerprintOf(r))[d] < now + 1
<1>1. CASE r = None
  BY <1>1, NoClockType DEF BaseClock, FingerprintOf, NoClock
<1>2. CASE r # None
  <2>1. BaseClock(FingerprintOf(r)) = r.causal
    BY <1>2, NoneAssumption, RecordType DEF BaseClock, FingerprintOf, Fingerprint
  <2>2. QED
    BY <1>2, <2>1, RecordType DEF Dated
<1>3. QED
  BY <1>1, <1>2

-------------------------------------------------------------------------------
(* A save of one record.                                                   *)

\* What the page sends.
SaveOf(tree, k, d, now) ==
  [mem |-> [Contents(tree) EXCEPT ![k] = d], sent |-> {k} \ {x \in {k} : d = Gone},
   base |-> Fingerprints(tree), at |-> now]

LEMMA SavedRecord ==
  ASSUME NEW tree \in Tree, NEW k \in Keys, NEW d \in Content, NEW now \in Nat,
         Dated(tree[k], now), d # Contents(tree)[k]
  PROVE  LET r == SaveOf(tree, k, d, now + 1)
             m == MergedRecord(r, tree[k], k)
         IN  /\ m \in Record /\ m.data = d /\ m.at = now + 1 /\ m.by = Device
             /\ Dated(m, now + 1) /\ IsWritten(r, m, k)
<1> DEFINE r == SaveOf(tree, k, d, now + 1)
           cur == tree[k]
           base == FingerprintOf(cur)
           from == BaseClock(base)
           ours == [data |-> d, at |-> now + 1, by |-> Device, causal |-> BumpCausal(from, Device, now + 1)]
<1>1. r.at = now + 1 /\ r.base[k] = base /\ r.mem[k] = d /\ (k \in r.sent <=> d # Gone)
  BY DEF SaveOf, Fingerprints, Contents
<1>2. cur \in Record \cup {None}
  BY DEF Tree
<1>3. IF cur = None THEN base = None ELSE base # None /\ base.hash = cur.data /\ base.causal = cur.causal
  BY <1>2, NoneAssumption, RecordType DEF FingerprintOf, Fingerprint
<1>4. cur # None => cur.data # d
  BY <1>2 DEF Contents, IsLive
<1>5. from \in Clock /\ \A x \in Devices : from[x] < now + 1
  BY <1>2, BaseIsBehind
<1>6. /\ BumpCausal(from, Device, now + 1) \in Clock
      /\ BumpCausal(from, Device, now + 1)[Device] = now + 1
      /\ \A x \in Devices : BumpCausal(from, Device, now + 1)[x] <= now + 1
      /\ Descends(BumpCausal(from, Device, now + 1), from)
  BY <1>5, BumpIsDated, DeviceAssumption
<1>7. ours \in Record /\ ours # None
  BY <1>6, MakeRecord, NoRecord, DeviceAssumption
<1>8. Dated(ours, now + 1)
  BY <1>6 DEF Dated
<1>9. MergedRecord(r, cur, k) = ours
  <2>1. CASE d # Gone
    <3>1. Incoming(r, cur, k) = ours
      BY <1>1, <1>3, <1>4, <2>1
         DEF Incoming, PrepareLocal, LiveRecord, BaseClock, IsTombstone
    <3>2. cur # None => Descends(ours.causal, cur.causal)
      BY <1>3, <1>6 DEF BaseClock
    <3>3. IncomingChanged(base, ours, k \in LiveKeys(r.mem)) /\ ~CurrentChanged(base, cur)
      BY <1>3, <1>4, <1>7 DEF IncomingChanged, CurrentChanged
    <3>4. TakeIncoming(base, ours, cur, Device, now + 1) = ours
      BY <1>7, <3>2 DEF TakeIncoming, IsTombstone
    <3>5. QED
      BY <1>1, <3>1, <3>3, <3>4 DEF MergedRecord, MergeRecord
  <2>2. CASE d = Gone
    <3>1. Incoming(r, cur, k) = None /\ k \notin LiveKeys(r.mem) /\ cur # None
      BY <1>1, <2>2 DEF Incoming, LiveKeys, Contents, IsLive
    <3>2. IncomingChanged(base, None, k \in LiveKeys(r.mem)) /\ ~CurrentChanged(base, cur)
      BY <1>3, <3>1 DEF IncomingChanged, IncomingDeleted, CurrentChanged
    <3>3. TakeIncoming(base, None, cur, Device, now + 1) = ours
      BY <2>2 DEF TakeIncoming, TombstoneWithBase
    <3>4. QED
      BY <1>1, <3>1, <3>2, <3>3 DEF MergedRecord, MergeRecord
  <2>3. QED
    BY <2>1, <2>2
<1>10. IsWritten(r, ours, k)
  BY <1>1, <1>3, <1>4, <1>7 DEF IsWritten, RecordChangedSinceBase
<1>11. QED
  BY <1>7, <1>8, <1>9, <1>10

\* The other records are not written, and stay what they are; a tombstone is
\* made anew in the cache.
LEMMA OtherRecords ==
  ASSUME NEW tree \in Tree, NEW k \in Keys, NEW d \in Content, NEW now \in Nat,
         NEW j \in Keys \ {k}, Dated(tree[j], now)
  PROVE  LET r == SaveOf(tree, k, d, now + 1)
             m == MergedRecord(r, tree[j], j)
         IN  /\ m \in Record \cup {None} /\ Dated(m, now + 1) /\ ~IsWritten(r, m, j)
             /\ (IF IsLive(m) THEN m.data ELSE Gone) = Contents(tree)[j]
<1> DEFINE r == SaveOf(tree, k, d, now + 1)
           cur == tree[j]
           base == FingerprintOf(cur)
           tomb == TombstoneWithBase(base, Device, now + 1)
<1>1. /\ r.at = now + 1 /\ r.base[j] = base /\ j \notin r.sent
      /\ r.mem[j] = Contents(tree)[j]
  BY DEF SaveOf, Fingerprints, Contents
<1>2. cur \in Record \cup {None}
  BY DEF Tree
<1>3. IF cur = None THEN base = None ELSE base # None /\ base.hash = cur.data
  BY <1>2, NoneAssumption, RecordType DEF FingerprintOf, Fingerprint
<1>4. MergedRecord(r, cur, j) = MergeRecord(base, None, cur, j \in LiveKeys(r.mem), Device, now + 1)
  BY <1>1 DEF MergedRecord, Incoming
<1>5. j \in LiveKeys(r.mem) <=> IsLive(cur)
  BY <1>1, <1>2, DataAssumption DEF LiveKeys, Contents, IsLive, Gone
<1>6. CASE IsTombstone(cur)
  <2>1. MergedRecord(r, cur, j) = tomb
    BY <1>3, <1>4, <1>5, <1>6
       DEF MergeRecord, IncomingChanged, IncomingDeleted, CurrentChanged, TakeIncoming, IsTombstone, IsLive
  <2>2. tomb \in Record /\ tomb.data = Gone /\ ~IsLive(tomb)
    BY <1>2, FingerprintOfType, TombstoneType, DeviceAssumption DEF IsLive
  <2>3. Dated(tomb, now + 1)
    <3>1. BaseClock(base) \in Clock /\ \A x \in Devices : BaseClock(base)[x] < now + 1
      BY <1>2, BaseIsBehind
    <3>2. QED
      BY <3>1, BumpIsDated, DeviceAssumption DEF Dated, TombstoneWithBase
  <2>4. ~IsWritten(r, tomb, j)
    BY <1>1, <1>3, <1>6, <2>2 DEF IsWritten, RecordChangedSinceBase, IsTombstone
  <2>5. QED
    BY <1>6, <2>1, <2>2, <2>3, <2>4 DEF Contents, IsLive, IsTombstone
<1>7. CASE ~IsTombstone(cur)
  <2>1. MergedRecord(r, cur, j) = cur
    BY <1>3, <1>4, <1>5, <1>7
       DEF MergeRecord, IncomingChanged, IncomingDeleted, IsTombstone, IsLive
  <2>2. ~IsWritten(r, cur, j)
    BY <1>1, <1>3 DEF IsWritten, RecordChangedSinceBase
  <2>3. QED
    BY <1>2, <2>1, <2>2, DatedLater DEF Contents
<1>8. QED
  BY <1>6, <1>7

-------------------------------------------------------------------------------
(* The merge of two directories.                                           *)

LEMMA DescendsIsLater ==
  ASSUME NEW a \in Record, NEW b \in Record, NEW now \in Nat, Dated(a, now), Dated(b, now),
         Descends(a.causal, b.causal)
  PROVE  a.at >= b.at
<1>1. b.causal[b.by] = b.at /\ a.causal[b.by] <= a.at /\ b.by \in Devices
  BY RecordType, NoRecord DEF Dated
<1>2. ~(b.causal[b.by] > a.causal[b.by])
  BY <1>1 DEF Descends, Exceeds
<1>3. QED
  BY <1>1, <1>2, RecordType

LEMMA DescendsOneWay ==
  ASSUME NEW a, NEW b, Descends(a, b)
  PROVE  ~Descends(b, a)
BY DEF Descends

LEMMA KeptIsLater ==
  ASSUME NEW a \in Record, NEW b \in Record
  PROVE  IF ShouldKeepIncoming(a, b) THEN a.at >= b.at ELSE b.at >= a.at
BY RecordType DEF ShouldKeepIncoming

LEMMA MergedIsLater ==
  ASSUME NEW i \in Record, NEW c \in Record \cup {None}, NEW now \in Nat,
         NEW then \in Nat, Dated(i, now), Dated(c, now)
  PROVE  LET m == MergeRecord(None, i, c, TRUE, Device, then)
         IN  /\ m \in Record /\ Dated(m, now) /\ Supersedes(m, i) /\ Supersedes(m, c)
             /\ SameWrite(m, i) \/ (c # None /\ SameWrite(m, c))
<1> DEFINE m == MergeRecord(None, i, c, TRUE, Device, then)
<1>1. i # None /\ IncomingChanged(None, i, TRUE)
  BY NoRecord DEF IncomingChanged
<1>2. CASE c = None
  <2>1. m = i
    BY <1>1, <1>2 DEF MergeRecord, CurrentChanged, TakeIncoming, IsTombstone
  <2>2. ~Descends(i.causal, i.causal)
    BY DEF Descends
  <2>3. i.at >= i.at
    BY RecordType
  <2>4. Supersedes(i, i) /\ Supersedes(i, c) /\ SameWrite(i, i)
    BY <1>1, <1>2, <2>2, <2>3 DEF Supersedes, SameWrite
  <2>5. QED
    BY <1>2, <2>1, <2>4
<1>3. CASE c # None /\ i.data = c.data
  <2> DEFINE w == IF ShouldKeepIncoming(i, c) THEN i ELSE c
             j == JoinCausal(i.causal, c.causal)
  <2>1. m = [w EXCEPT !.causal = j, !.at = MaxOf(i.at, c.at)]
    BY <1>1, <1>3 DEF MergeRecord, CurrentChanged, MergeEqualRecords
  <2>2. w \in Record /\ w.at = MaxOf(i.at, c.at) /\ w.at >= i.at /\ w.at >= c.at
    BY <1>3, KeptIsLater, RecordType DEF MaxOf
  <2>3. /\ j \in Clock
        /\ \A x \in Devices :
             j[x] \in {i.causal[x], c.causal[x]} /\ j[x] >= i.causal[x] /\ j[x] >= c.causal[x]
    <3>1. j \in Clock
      BY <1>3, JoinCausalType, RecordType
    <3>2. ASSUME NEW x \in Devices
          PROVE  j[x] \in {i.causal[x], c.causal[x]} /\ j[x] >= i.causal[x] /\ j[x] >= c.causal[x]
      <4>1. i.causal[x] \in Nat /\ c.causal[x] \in Nat
        BY <1>3, RecordType
      <4>2. j[x] = MaxOf(i.causal[x], c.causal[x])
        BY DEF JoinCausal
      <4>3. QED
        BY <4>1, <4>2 DEF MaxOf
    <3>3. QED
      BY <3>1, <3>2
  <2>4. m \in Record /\ m.data = w.data /\ m.by = w.by /\ m.at = w.at /\ m.causal = j
    BY <2>1, <2>2, <2>3 DEF Record
  <2>5. \A x \in Devices : i.causal[x] <= i.at /\ c.causal[x] <= c.at
    BY <1>1, <1>3 DEF Dated
  <2>6. w.causal[w.by] = w.at /\ w.at <= now
    BY <1>1, <1>3 DEF Dated
  <2>7. Dated(m, now)
    <3>1. ASSUME NEW x \in Devices PROVE j[x] <= w.at
      <4>1. i.causal[x] \in Nat /\ c.causal[x] \in Nat /\ i.at \in Nat /\ c.at \in Nat /\ w.at \in Nat
        BY <1>3, <2>2, RecordType
      <4>2. j[x] \in {i.causal[x], c.causal[x]} /\ i.causal[x] <= i.at /\ c.causal[x] <= c.at
        BY <2>3, <2>5
      <4>3. w.at >= i.at /\ w.at >= c.at
        BY <2>2
      <4>4. QED
        BY <4>1, <4>2, <4>3
    <3>2. j[w.by] >= w.at
      BY <2>2, <2>3, <2>6, RecordType
    <3>3. j[w.by] = w.at
      BY <2>2, <2>3, <3>1, <3>2, RecordType DEF Clock
    <3>4. QED
      BY <2>4, <2>6, <3>1, <3>3 DEF Dated
  <2>8. ~Exceeds(i.causal, j) /\ ~Exceeds(c.causal, j)
    BY <1>3, <2>3, RecordType DEF Exceeds, Clock
  <2>9. QED
    BY <1>3, <2>2, <2>4, <2>7, <2>8, NoRecord DEF Supersedes, SameWrite, Descends
<1>4. CASE c # None /\ i.data # c.data
  <2>1. m = Resolve(None, i, c, Device, then)
    BY <1>1, <1>4 DEF MergeRecord, CurrentChanged, IncomingDeleted
  <2>2. m = IF Descends(i.causal, c.causal) THEN i
            ELSE IF Descends(c.causal, i.causal) THEN c
            ELSE IF ShouldKeepIncoming(i, c) THEN i ELSE c
    BY <1>1, <1>4, <2>1 DEF Resolve
  <2>3. ~Descends(i.causal, i.causal) /\ ~Descends(c.causal, c.causal)
    BY DEF Descends
  <2>4. CASE m = i /\ ~Descends(c.causal, i.causal) /\ i.at >= c.at
    <3>1. c \in Record /\ i.at >= i.at
      BY <1>4, RecordType
    <3>2. QED
      BY <1>1, <1>4, <2>3, <2>4, <3>1 DEF Supersedes, SameWrite
  <2>5. CASE m = c /\ ~Descends(i.causal, c.causal) /\ c.at >= i.at
    <3>1. c \in Record /\ c.at >= c.at
      BY <1>4, RecordType
    <3>2. QED
      BY <1>1, <1>4, <2>3, <2>5, <3>1 DEF Supersedes, SameWrite
  <2>6. QED
    BY <1>4, <2>2, <2>4, <2>5, DescendsIsLater, DescendsOneWay, KeptIsLater
<1>5. QED
  BY <1>2, <1>3, <1>4

LEMMA NothingToMerge ==
  ASSUME NEW c, NEW then
  PROVE  MergeRecord(None, None, c, FALSE, Device, then) = c
BY DEF MergeRecord, IncomingChanged, IncomingDeleted

-------------------------------------------------------------------------------
(* The inductive invariant of a move.                                      *)

\* No record is of later than now, and no two writes share their time.
RecordsAreDated ==
  /\ \A f \in Dirs, k \in Keys : Dated(recs[f][k], clock)
  /\ cache # None => \A k \in Keys : Dated(cache[k], clock)
  /\ \A f, g \in Dirs, k \in Keys :
       recs[f][k] # None /\ recs[g][k] # None /\ recs[f][k].at = recs[g][k].at =>
         SameWrite(recs[f][k], recs[g][k])

SavesAreIn(tree) ==
  "gone" \notin mishaps =>
    \A k \in Keys : saved[k] > 0 => tree[k] # None /\ tree[k].at >= saved[k]

CacheIsCurrent == cache # None => Contents(cache) = Contents(recs[dir])

\* How far a move has got with the records of the directory chosen.
RecordsAreMoved ==
  /\ move.at \in {"copy images", "copy records"} => \A k \in Keys : move.found[k] = None
  /\ move.at = "merge records" => move.found = recs[move.to]
  /\ move.at \in {"merge images", "switch"} =>
       \A k \in Keys : /\ Supersedes(recs[move.to][k], recs[dir][k])
                       /\ Supersedes(recs[move.to][k], move.found[k])

\* The entry m of a book's image is no newer than the book's record r, and of the
\* same write if it is as new; the image file is what the entry says.
EntryMatches(m, r, file) ==
  IF m = None THEN file = Gone
  ELSE /\ r # None /\ m.at <= r.at /\ file = m.hash /\ (m.dead <=> m.hash = Gone)
       /\ m.at = r.at => m.by = r.by /\ m.hash = r.data

ImageMatches(f, t) == EntryMatches(manifest[f][t], recs[f][t], image[f][t])

KeepsImage(to, t) ==
  LET r == recs[dir][t]
  IN  r # None /\ manifest[dir][t] = Entry(image[dir][t], r.at, r.by) /\ recs[to][t] = r
        => image[to][t] = image[dir][t]

ImagesMatch ==
  "broken" \notin mishaps =>
    /\ \A f \in Dirs, t \in Texts : (move.at = "copy records" /\ move.to = f) \/ ImageMatches(f, t)
    /\ move.at = "copy records" => image[move.to] = image[dir]
    /\ move.at = "switch" => \A t \in Texts : KeepsImage(move.to, t)

MoveIInv ==
  /\ MoveTypeOK /\ pointer = dir /\ RecordsAreDated
  /\ SavesAreIn(recs[dir]) /\ CacheIsCurrent
  /\ RecordsAreMoved /\ ImagesMatch

Moving == [at : MoveStages, to : Dirs \ {dir}, found : Tree]

LEMMA MoveCases ==
  ASSUME MoveTypeOK
  PROVE  \/ move = Settled /\ move.at = "idle"
         \/ move # Settled /\ move \in Moving /\ move.at # "idle" /\ move.to \in Dirs /\ move.to # dir
<1>1. CASE move = Settled
  BY <1>1 DEF Settled
<1>2. CASE move \in Moving
  <2>1. move.at \in MoveStages /\ move.to \in Dirs /\ move.to # dir
    BY <1>2 DEF Moving
  <2>2. move.at # "idle"
    BY <2>1 DEF MoveStages
  <2>3. QED
    BY <1>2, <2>1, <2>2 DEF Settled
<1>3. QED
  BY <1>1, <1>2 DEF MoveTypeOK, Moving

LEMMA MovedOn ==
  ASSUME MoveTypeOK, move # Settled, NEW stage \in MoveStages, MoveOn(stage), UNCHANGED dir
  PROVE  /\ move' \in Moving' /\ move'.at = stage /\ move'.to = move.to /\ move'.found = move.found
         /\ move' # Settled
<1>1. move \in Moving
  BY MoveCases
<1>2. /\ move' \in Moving /\ move'.at = stage /\ move'.to = move.to /\ move'.found = move.found
  BY <1>1 DEF Moving, MoveOn
<1>3. stage # "idle"
  BY DEF MoveStages
<1>4. QED
  BY <1>2, <1>3 DEF Moving, Settled

LEMMA CurrentType ==
  ASSUME MoveIInv
  PROVE  /\ Current \in Tree /\ (\A k \in Keys : Dated(Current[k], clock))
         /\ Contents(Current) = Contents(recs[dir])
<1>1. MoveTypeOK /\ RecordsAreDated /\ CacheIsCurrent
  BY DEF MoveIInv
<1>2. CASE cache = None
  BY <1>1, <1>2 DEF Current, MoveTypeOK, RecordsAreDated
<1>3. CASE cache # None
  BY <1>1, <1>3 DEF Current, MoveTypeOK, RecordsAreDated, CacheIsCurrent
<1>4. QED
  BY <1>2, <1>3

LEMMA InitMoveIInv == MoveInit => MoveIInv
<1> SUFFICES ASSUME MoveInit PROVE MoveIInv
  OBVIOUS
<1>1. EmptyBase \in Tree /\ \A k \in Keys : EmptyBase[k] = None
  BY DEF EmptyBase, Tree
<1>2. MoveTypeOK
  BY <1>1, RelocationAssumption DEF MoveInit, MoveTypeOK, NoImages, NoManifest, Content
<1>3. RecordsAreDated
  BY <1>1 DEF MoveInit, RecordsAreDated, Dated
<1>4. SavesAreIn(recs[dir]) /\ CacheIsCurrent
  BY <1>2 DEF MoveInit, SavesAreIn, CacheIsCurrent
<1>5. move.at = "idle"
  BY DEF MoveInit, Settled
<1>6. ImagesMatch
  BY <1>5 DEF MoveInit, ImagesMatch, ImageMatches, EntryMatches, NoImages, NoManifest
<1>7. QED
  BY <1>2, <1>3, <1>4, <1>5, <1>6 DEF MoveInit, MoveIInv, RecordsAreMoved

-------------------------------------------------------------------------------
(* The store in use.                                                       *)

\* The entry of the image that is saved, or deleted, with a book
LEMMA EntryType ==
  ASSUME NEW d \in Content, NEW at \in Nat, NEW by \in Devices
  PROVE  LET e == [Entry(d, at, by) EXCEPT !.dead = (d = Gone)]
         IN  /\ e \in ManifestEntry /\ e # None
             /\ e.hash = d /\ e.at = at /\ e.by = by /\ (e.dead <=> d = Gone)
<1> DEFINE e == [Entry(d, at, by) EXCEPT !.dead = (d = Gone)]
<1>1. (d = Gone) \in BOOLEAN
  OBVIOUS
<1>2. Entry(d, at, by) \in ManifestEntry
  BY DEF Entry, ManifestEntry
<1>3. e \in ManifestEntry /\ e.hash = d /\ e.at = at /\ e.by = by /\ (e.dead <=> d = Gone)
  BY <1>1, <1>2 DEF ManifestEntry, Entry
<1>4. QED
  BY <1>3, RelocationAssumption

\* One record of one directory is written, later than everything before.
LEMMA WriteKeepsDates ==
  ASSUME MoveIInv, clock' = clock + 1, NEW f \in Dirs, NEW k \in Keys,
         NEW r \in Record, r.at = clock + 1, Dated(r, clock + 1),
         recs' = [recs EXCEPT ![f] = [recs[f] EXCEPT ![k] = r]],
         cache' # None => \A j \in Keys : Dated(cache'[j], clock + 1),
         cache' \in Tree \cup {None}
  PROVE  RecordsAreDated'
<1>1. MoveTypeOK /\ RecordsAreDated
  BY DEF MoveIInv
<1>2. recs \in [Dirs -> [Keys -> Record \cup {None}]] /\ clock \in Nat
  BY <1>1 DEF MoveTypeOK, Tree
<1>3. \A g \in Dirs, j \in Keys :
        recs'[g][j] = IF g = f /\ j = k THEN r ELSE recs[g][j]
  BY <1>2
<1>4. \A g \in Dirs, j \in Keys : Dated(recs'[g][j], clock + 1)
  BY <1>1, <1>2, <1>3, DatedLater DEF RecordsAreDated
<1>5. ASSUME NEW g \in Dirs, NEW j \in Keys, recs[g][j] # None
      PROVE  recs[g][j].at < clock + 1
  <2>1. recs[g][j] \in Record /\ Dated(recs[g][j], clock)
    BY <1>1, <1>2, <1>5 DEF RecordsAreDated
  <2>2. QED
    BY <1>2, <1>5, <2>1, RecordType DEF Dated
<1>6. ASSUME NEW g \in Dirs, NEW h \in Dirs, NEW j \in Keys,
             recs'[g][j] # None, recs'[h][j] # None, recs'[g][j].at = recs'[h][j].at
      PROVE  SameWrite(recs'[g][j], recs'[h][j])
  <2>1. CASE g = f /\ j = k /\ h = f
    BY <1>3, <2>1 DEF SameWrite
  <2>2. CASE j # k \/ (g # f /\ h # f)
    BY <1>1, <1>3, <1>6, <2>2 DEF RecordsAreDated
  <2>3. CASE j = k /\ ((g = f /\ h # f) \/ (g # f /\ h = f))
    BY <1>2, <1>3, <1>5, <1>6, <2>3
  <2>4. QED
    BY <2>1, <2>2, <2>3
<1>7. QED
  BY <1>4, <1>6, <1>1, <1>2 DEF RecordsAreDated

LEMMA WriteKeepsImages ==
  ASSUME MoveIInv, move = Settled, move' = Settled, mishaps' = mishaps,
         NEW f \in Dirs, NEW k \in Keys, NEW r \in Record, r.at = clock + 1,
         recs' = [recs EXCEPT ![f] = [recs[f] EXCEPT ![k] = r]],
         IF k \in Texts
         THEN /\ image' = [image EXCEPT ![f] = [image[f] EXCEPT ![k] = r.data]]
              /\ manifest' = [manifest EXCEPT ![f] = [manifest[f] EXCEPT ![k] =
                                [Entry(r.data, r.at, r.by) EXCEPT !.dead = (r.data = Gone)]]]
         ELSE UNCHANGED <<image, manifest>>
  PROVE  /\ ImagesMatch'
         /\ image' \in [Dirs -> [Texts -> Content \cup {Cut}]]
         /\ manifest' \in [Dirs -> [Texts -> ManifestEntry \cup {None}]]
<1> DEFINE e == [Entry(r.data, r.at, r.by) EXCEPT !.dead = (r.data = Gone)]
<1>1. /\ recs \in [Dirs -> [Keys -> Record \cup {None}]]
      /\ image \in [Dirs -> [Texts -> Content \cup {Cut}]]
      /\ manifest \in [Dirs -> [Texts -> ManifestEntry \cup {None}]]
  BY DEF MoveIInv, MoveTypeOK, Tree
<1>2. move.at = "idle" /\ move'.at = "idle"
  BY DEF Settled
<1>3. r # None /\ r.data \in Content /\ r.at \in Nat /\ r.by \in Devices
  BY RecordType, NoRecord
<1>4. /\ e \in ManifestEntry /\ e # None
      /\ e.hash = r.data /\ e.at = r.at /\ e.by = r.by /\ (e.dead <=> r.data = Gone)
  BY <1>3, EntryType
<1>5. IF k \in Texts
      THEN /\ image' = [image EXCEPT ![f] = [image[f] EXCEPT ![k] = r.data]]
           /\ manifest' = [manifest EXCEPT ![f] = [manifest[f] EXCEPT ![k] = e]]
      ELSE image' = image /\ manifest' = manifest
  OBVIOUS
<1> HIDE DEF e
<1>6. /\ image' \in [Dirs -> [Texts -> Content \cup {Cut}]]
      /\ manifest' \in [Dirs -> [Texts -> ManifestEntry \cup {None}]]
  <2>1. CASE k \in Texts
    <3>1. [image[f] EXCEPT ![k] = r.data] \in [Texts -> Content \cup {Cut}]
      BY <1>1, <1>3
    <3>2. [manifest[f] EXCEPT ![k] = e] \in [Texts -> ManifestEntry \cup {None}]
      BY <1>1, <1>4
    <3>3. QED
      BY <1>1, <1>5, <2>1, <3>1, <3>2
  <2>2. CASE k \notin Texts
    BY <1>1, <1>5, <2>2
  <2>3. QED
    BY <2>1, <2>2
<1>7. ASSUME "broken" \notin mishaps, NEW g \in Dirs, NEW t \in Texts
      PROVE  ImageMatches(g, t)'
  <2>1. ImageMatches(g, t) /\ t \in Keys
    BY <1>2, <1>7, RelocationAssumption DEF MoveIInv, ImagesMatch
  <2>2. CASE g = f /\ t = k
    <3>1. recs'[g][t] = r /\ image'[g][t] = r.data /\ manifest'[g][t] = e
      BY <1>1, <1>5, <1>7, <2>1, <2>2
    <3>2. r.at <= r.at
      BY <1>3
    <3>3. QED
      BY <1>3, <1>4, <3>1, <3>2 DEF ImageMatches, EntryMatches
  <2>3. CASE ~(g = f /\ t = k)
    <3>1. recs'[g][t] = recs[g][t] /\ image'[g][t] = image[g][t] /\ manifest'[g][t] = manifest[g][t]
      <4>1. CASE k \in Texts
        BY <1>1, <1>5, <1>7, <2>1, <2>3, <4>1
      <4>2. CASE k \notin Texts
        BY <1>1, <1>5, <1>7, <2>1, <2>3, <4>2
      <4>3. QED
        BY <4>1, <4>2
    <3>2. QED
      BY <2>1, <3>1 DEF ImageMatches
  <2>4. QED
    BY <2>2, <2>3
<1>8. QED
  BY <1>2, <1>6, <1>7 DEF ImagesMatch

LEMMA SaveKeepsMoveIInv ==
  ASSUME MoveIInv, NEW k \in Keys, NEW d \in Content, Save(k, d)
  PROVE  MoveIInv'
<1> DEFINE r == SaveOf(Current, k, d, clock + 1)
           m == MergedRecord(r, Current[k], k)
<1>1. /\ clock' = clock + 1 /\ move = Settled /\ move' = Settled /\ d # Contents(Current)[k]
      /\ recs' = [recs EXCEPT ![dir] = After(r, Current, recs[dir])]
      /\ cache' = Merged(r, Current) /\ saved' = [saved EXCEPT ![k] = clock + 1]
      /\ UNCHANGED <<dir, pointer, mishaps>>
  BY DEF Save, Tick, SaveOf
<1>2. MoveTypeOK /\ clock \in Nat /\ clock + 1 \in Nat /\ RecordsAreDated
  BY DEF MoveIInv, MoveTypeOK
<1>3. Current \in Tree /\ (\A j \in Keys : Dated(Current[j], clock)) /\ Contents(Current) = Contents(recs[dir])
  BY CurrentType
<1>4. /\ m \in Record /\ m.data = d /\ m.at = clock + 1 /\ m.by = Device
      /\ Dated(m, clock + 1) /\ IsWritten(r, m, k)
  BY <1>1, <1>2, <1>3, SavedRecord
<1>5. ASSUME NEW j \in Keys \ {k}
      PROVE  LET n == MergedRecord(r, Current[j], j)
             IN  /\ n \in Record \cup {None} /\ Dated(n, clock + 1) /\ ~IsWritten(r, n, j)
                 /\ (IF IsLive(n) THEN n.data ELSE Gone) = Contents(Current)[j]
  BY <1>2, <1>3, OtherRecords
<1>6. recs \in [Dirs -> [Keys -> Record \cup {None}]] /\ dir \in Dirs
  BY <1>2 DEF MoveTypeOK, Tree
<1>7. After(r, Current, recs[dir]) = [recs[dir] EXCEPT ![k] = m]
  BY <1>4, <1>5, <1>6 DEF After
<1>8. recs' = [recs EXCEPT ![dir] = [recs[dir] EXCEPT ![k] = m]]
  BY <1>1, <1>7
<1>9. \A j \in Keys : cache'[j] = MergedRecord(r, Current[j], j)
  BY <1>1 DEF Merged
<1>10. cache' \in Tree /\ \A j \in Keys : Dated(cache'[j], clock + 1)
  BY <1>1, <1>4, <1>5, <1>9 DEF Merged, Tree
<1>11. RecordsAreDated'
  BY <1>1, <1>4, <1>6, <1>8, <1>10, WriteKeepsDates
<1>12. /\ ImagesMatch'
       /\ image' \in [Dirs -> [Texts -> Content \cup {Cut}]]
       /\ manifest' \in [Dirs -> [Texts -> ManifestEntry \cup {None}]]
  <2>1. IF k \in Texts
        THEN /\ image' = [image EXCEPT ![dir] = [image[dir] EXCEPT ![k] = m.data]]
             /\ manifest' = [manifest EXCEPT ![dir] = [manifest[dir] EXCEPT ![k] =
                               [Entry(m.data, m.at, m.by) EXCEPT !.dead = (m.data = Gone)]]]
        ELSE UNCHANGED <<image, manifest>>
    BY <1>1, <1>4 DEF Save, Put
  <2>2. move = Settled /\ move' = Settled /\ mishaps' = mishaps
    BY <1>1
  <2>3. m \in Record /\ m.at = clock + 1
    BY <1>4
  <2> HIDE DEF m
  <2>4. QED
    BY <1>6, <1>8, <2>1, <2>2, <2>3, WriteKeepsImages
<1>13. MoveTypeOK'
  <2> HIDE DEF m
  <2>1. recs' \in [Dirs -> Tree]
    BY <1>4, <1>6, <1>8 DEF Tree
  <2>2. saved' \in [Keys -> Nat]
    BY <1>1, <1>2 DEF MoveTypeOK
  <2>3. QED
    BY <1>1, <1>2, <1>10, <1>12, <2>1, <2>2 DEF MoveTypeOK
<1>14. SavesAreIn(recs[dir])'
  <2>1. \A j \in Keys : recs'[dir][j] = IF j = k THEN m ELSE recs[dir][j]
    BY <1>6, <1>8
  <2>2. m # None /\ clock + 1 >= clock + 1
    BY <1>2, <1>4, NoRecord
  <2>3. \A j \in Keys : saved'[j] = IF j = k THEN clock + 1 ELSE saved[j]
    BY <1>1, <1>2 DEF MoveTypeOK
  <2>4. QED
    BY <1>1, <1>4, <2>1, <2>2, <2>3 DEF MoveIInv, SavesAreIn
<1>15. CacheIsCurrent'
  <2>1. ASSUME NEW j \in Keys PROVE Contents(cache')[j] = Contents(recs'[dir])[j]
    <3>1. CASE j = k
      BY <1>6, <1>8, <1>9, <3>1 DEF Contents
    <3>2. CASE j # k
      <4>1. Contents(cache')[j] = Contents(Current)[j]
        BY <1>5, <1>9, <3>2 DEF Contents
      <4>2. Contents(recs'[dir])[j] = Contents(recs[dir])[j]
        BY <1>6, <1>8, <3>2 DEF Contents
      <4>3. QED
        BY <1>3, <4>1, <4>2
    <3>3. QED
      BY <3>1, <3>2
  <2>2. Contents(cache') = Contents(recs'[dir])
    BY <2>1 DEF Contents
  <2>3. QED
    BY <1>1, <2>2 DEF CacheIsCurrent
<1>16. move'.at = "idle" /\ pointer' = dir'
  BY <1>1 DEF Settled, MoveIInv
<1>17. QED
  BY <1>11, <1>12, <1>13, <1>14, <1>15, <1>16 DEF MoveIInv, RecordsAreMoved

LEMMA OtherDeviceKeepsMoveIInv ==
  ASSUME MoveIInv, NEW f \in Dirs, NEW k \in Keys, NEW d \in Content, OtherDeviceWrites(f, k, d)
  PROVE  MoveIInv'
<1>1. PICK other \in Devices \ {Device} :
        /\ recs' = [recs EXCEPT ![f] = [@ EXCEPT ![k] =
             [data |-> d, at |-> clock', by |-> other,
              causal |-> BumpCausal(BaseClock(FingerprintOf(recs[f][k])), other, clock')]]]
        /\ IF k \in Texts
           THEN /\ image' = [image EXCEPT ![f] = [@ EXCEPT ![k] = d]]
                /\ manifest' = [manifest EXCEPT ![f] = [@ EXCEPT ![k] =
                                  [Entry(d, clock', other) EXCEPT !.dead = (d = Gone)]]]
           ELSE UNCHANGED <<image, manifest>>
  BY DEF OtherDeviceWrites
<1> DEFINE from == BaseClock(FingerprintOf(recs[f][k]))
           m == [data |-> d, at |-> clock + 1, by |-> other,
                 causal |-> BumpCausal(from, other, clock + 1)]
<1>2. /\ clock' = clock + 1 /\ move = Settled /\ move' = Settled /\ f # dir
      /\ UNCHANGED <<dir, pointer, cache, saved, mishaps>>
  BY DEF OtherDeviceWrites, Tick
<1>3. MoveTypeOK /\ clock \in Nat /\ clock + 1 \in Nat /\ RecordsAreDated
  BY DEF MoveIInv, MoveTypeOK
<1>4. recs \in [Dirs -> [Keys -> Record \cup {None}]] /\ dir \in Dirs
  BY <1>3 DEF MoveTypeOK, Tree
<1>5. recs[f][k] \in Record \cup {None} /\ Dated(recs[f][k], clock)
  BY <1>3, <1>4 DEF RecordsAreDated
<1>6. from \in Clock /\ \A x \in Devices : from[x] < clock + 1
  BY <1>3, <1>5, BaseIsBehind
<1>7. /\ BumpCausal(from, other, clock + 1) \in Clock
      /\ BumpCausal(from, other, clock + 1)[other] = clock + 1
      /\ \A x \in Devices : BumpCausal(from, other, clock + 1)[x] <= clock + 1
  BY <1>3, <1>6, BumpIsDated
<1>8. m \in Record /\ m.at = clock + 1 /\ m.data = d /\ m.by = other
  BY <1>3, <1>7, MakeRecord
<1>9. Dated(m, clock + 1)
  BY <1>3, <1>7 DEF Dated
<1>10. recs' = [recs EXCEPT ![f] = [recs[f] EXCEPT ![k] = m]]
  BY <1>1, <1>2
<1>11. IF k \in Texts
       THEN /\ image' = [image EXCEPT ![f] = [image[f] EXCEPT ![k] = m.data]]
            /\ manifest' = [manifest EXCEPT ![f] = [manifest[f] EXCEPT ![k] =
                              [Entry(m.data, m.at, m.by) EXCEPT !.dead = (m.data = Gone)]]]
       ELSE UNCHANGED <<image, manifest>>
  BY <1>1, <1>2, <1>8
<1> HIDE DEF m
<1>12. cache' \in Tree \cup {None} /\ (cache' # None => \A j \in Keys : Dated(cache'[j], clock + 1))
  <2>1. cache \in Tree \cup {None} /\ (cache # None => \A j \in Keys : Dated(cache[j], clock))
    BY <1>3 DEF MoveTypeOK, RecordsAreDated
  <2>2. clock <= clock + 1
    BY <1>3
  <2>3. QED
    BY <1>2, <1>3, <2>1, <2>2, DatedLater DEF Tree
<1>13. RecordsAreDated'
  BY <1>2, <1>8, <1>9, <1>10, <1>12, WriteKeepsDates
<1>14. /\ ImagesMatch'
       /\ image' \in [Dirs -> [Texts -> Content \cup {Cut}]]
       /\ manifest' \in [Dirs -> [Texts -> ManifestEntry \cup {None}]]
  BY <1>2, <1>8, <1>10, <1>11, WriteKeepsImages
<1>15. recs'[dir] = recs[dir] /\ recs' \in [Dirs -> Tree]
  BY <1>2, <1>4, <1>8, <1>10 DEF Tree
<1>16. MoveTypeOK'
  BY <1>2, <1>3, <1>12, <1>14, <1>15 DEF MoveTypeOK
<1>17. SavesAreIn(recs[dir])' /\ CacheIsCurrent'
  BY <1>2, <1>15 DEF MoveIInv, SavesAreIn, CacheIsCurrent
<1>18. move'.at = "idle" /\ pointer' = dir'
  BY <1>2 DEF Settled, MoveIInv
<1>19. QED
  BY <1>13, <1>14, <1>16, <1>17, <1>18 DEF MoveIInv, RecordsAreMoved

-------------------------------------------------------------------------------
(* The steps of a move.                                                    *)

LEMMA SameImageMatches ==
  ASSUME NEW f \in Dirs, NEW t \in Texts,
         recs'[f][t] = recs[f][t], image'[f][t] = image[f][t], manifest'[f][t] = manifest[f][t]
  PROVE  ImageMatches(f, t)' <=> ImageMatches(f, t)
BY DEF ImageMatches

LEMMA ChooseKeepsMoveIInv ==
  ASSUME MoveIInv, NEW f \in Dirs, Choose(f)
  PROVE  MoveIInv'
<1>1. move = Settled /\ f # dir /\ UNCHANGED <<trees, dir, pointer, cache, clock, saved, mishaps>>
  BY DEF Choose
<1>2. move' = [at |-> IF HasData(f) THEN "merge records" ELSE "copy images", to |-> f, found |-> recs[f]]
  BY DEF Choose
<1>3. MoveTypeOK /\ move.at = "idle"
  BY <1>1 DEF MoveIInv, Settled
<1>4. UNCHANGED <<recs, image, manifest, dir, pointer, cache, clock, saved, mishaps>>
  BY <1>1 DEF trees
<1>5. /\ move' \in Moving /\ move'.to = f /\ move'.found = recs[f]
      /\ move'.at = (IF HasData(f) THEN "merge records" ELSE "copy images")
  BY <1>1, <1>2, <1>3 DEF Moving, MoveTypeOK, MoveStages
<1>6. MoveTypeOK'
  BY <1>3, <1>4, <1>5 DEF MoveTypeOK, Moving
<1>7. RecordsAreMoved'
  BY <1>4, <1>5 DEF RecordsAreMoved, HasData
<1>8. ImagesMatch'
  BY <1>3, <1>4, <1>5 DEF MoveIInv, ImagesMatch, ImageMatches
<1>9. QED
  BY <1>4, <1>6, <1>7, <1>8
     DEF MoveIInv, RecordsAreDated, SavesAreIn, CacheIsCurrent

LEMMA CopySomeImagesKeepsMoveIInv ==
  ASSUME MoveIInv, NEW some \in SUBSET Texts, NEW cut \in SUBSET Texts, CopySomeImages(some, cut)
  PROVE  MoveIInv'
<1>1. /\ move.at = "copy images" /\ move' = Settled /\ "broken" \in mishaps'
      /\ ("gone" \in mishaps' <=> "gone" \in mishaps)
      /\ UNCHANGED <<recs, manifest, dir, pointer, cache, clock, saved>>
  BY DEF CopySomeImages
<1>2. image' \in [Dirs -> [Texts -> Content \cup {Cut}]]
  <2>1. image \in [Dirs -> [Texts -> Content \cup {Cut}]] /\ dir \in Dirs
    BY DEF MoveIInv, MoveTypeOK
  <2>2. [t \in Texts |-> IF t \notin some \/ image[dir][t] = Gone THEN Gone
                         ELSE IF t \in cut THEN Cut ELSE image[dir][t]]
          \in [Texts -> Content \cup {Cut}]
    BY <2>1 DEF Content
  <2>3. QED
    BY <2>1, <2>2 DEF CopySomeImages
<1>3. MoveTypeOK'
  BY <1>1, <1>2 DEF MoveIInv, MoveTypeOK
<1>4. move'.at = "idle"
  BY <1>1 DEF Settled
<1>5. ImagesMatch' /\ RecordsAreMoved'
  BY <1>1, <1>4 DEF ImagesMatch, RecordsAreMoved
<1>6. QED
  BY <1>1, <1>3, <1>5 DEF MoveIInv, RecordsAreDated, SavesAreIn, CacheIsCurrent

LEMMA CopyImagesKeepsMoveIInv == ASSUME MoveIInv, CopyImages PROVE MoveIInv'
<1>1. /\ move.at = "copy images" /\ MoveOn("copy records")
      /\ image' = [image EXCEPT ![move.to] = image[dir]]
      /\ UNCHANGED <<recs, manifest, dir, pointer, cache, clock, saved, mishaps>>
  BY DEF CopyImages, moveHistory
<1>2. MoveTypeOK /\ move # Settled /\ move.to \in Dirs /\ move.to # dir
  BY <1>1, MoveCases DEF MoveIInv
<1>3. /\ move' \in Moving' /\ move'.at = "copy records" /\ move'.to = move.to /\ move'.found = move.found
  BY <1>1, <1>2, MovedOn DEF MoveStages
<1>4. image \in [Dirs -> [Texts -> Content \cup {Cut}]] /\ dir \in Dirs
  BY <1>2 DEF MoveTypeOK
<1>5. image' \in [Dirs -> [Texts -> Content \cup {Cut}]] /\ image'[move.to] = image'[dir]
      /\ \A f \in Dirs \ {move.to} : image'[f] = image[f]
  BY <1>1, <1>2, <1>4
<1>6. MoveTypeOK'
  BY <1>1, <1>2, <1>3, <1>5 DEF MoveTypeOK, Moving
<1>7. ImagesMatch'
  <2>1. ASSUME "broken" \notin mishaps, NEW f \in Dirs, NEW t \in Texts, f # move.to
        PROVE  ImageMatches(f, t)'
    <3>1. ImageMatches(f, t)
      BY <1>1, <2>1 DEF MoveIInv, ImagesMatch
    <3>2. QED
      BY <1>1, <1>5, <2>1, <3>1, SameImageMatches
  <2>2. QED
    BY <1>1, <1>3, <1>5, <2>1 DEF ImagesMatch
<1>8. RecordsAreMoved'
  BY <1>1, <1>3 DEF MoveIInv, RecordsAreMoved
<1>9. QED
  BY <1>1, <1>6, <1>7, <1>8 DEF MoveIInv, RecordsAreDated, SavesAreIn, CacheIsCurrent

\* The chosen directory gets records of the one in use.
LEMMA CopyRecordsKeepsMoveIInv ==
  ASSUME MoveIInv, NEW some \in SUBSET Keys, CopyRecords(some)
  PROVE  MoveIInv'
<1>1. /\ move.at = "copy records"
      /\ recs' = [recs EXCEPT ![move.to] = [k \in Keys |-> IF k \in some THEN recs[dir][k] ELSE None]]
      /\ UNCHANGED <<image, dir, pointer, cache, clock, saved>>
      /\ ("gone" \in mishaps' <=> "gone" \in mishaps)
  BY DEF CopyRecords
<1>2. MoveTypeOK /\ move # Settled /\ move.to \in Dirs /\ move.to # dir
  BY <1>1, MoveCases DEF MoveIInv
<1>3. recs \in [Dirs -> [Keys -> Record \cup {None}]] /\ dir \in Dirs
  BY <1>2 DEF MoveTypeOK, Tree
<1>4. /\ recs' \in [Dirs -> [Keys -> Record \cup {None}]]
      /\ \A f \in Dirs \ {move.to} : recs'[f] = recs[f]
      /\ \A k \in Keys : recs'[move.to][k] = IF k \in some THEN recs[dir][k] ELSE None
  BY <1>1, <1>2, <1>3
<1>5. RecordsAreDated'
  <2>1. \A f \in Dirs, k \in Keys :
          recs'[f][k] # None => recs'[f][k] = recs[f][k] \/ recs'[f][k] = recs[dir][k]
    BY <1>4
  <2>2. \A f \in Dirs, k \in Keys : \E g \in Dirs : recs'[f][k] # None => recs'[f][k] = recs[g][k]
    BY <1>3, <2>1
  <2>3. RecordsAreDated
    BY DEF MoveIInv
  <2>4. \A f \in Dirs, k \in Keys : Dated(recs'[f][k], clock)
    BY <2>2, <2>3 DEF RecordsAreDated, Dated
  <2>5. ASSUME NEW f \in Dirs, NEW g \in Dirs, NEW k \in Keys,
               recs'[f][k] # None, recs'[g][k] # None, recs'[f][k].at = recs'[g][k].at
        PROVE  SameWrite(recs'[f][k], recs'[g][k])
    <3>1. PICK a \in Dirs : recs'[f][k] = recs[a][k]
      BY <2>2, <2>5
    <3>2. PICK b \in Dirs : recs'[g][k] = recs[b][k]
      BY <2>2, <2>5
    <3>3. QED
      BY <2>3, <2>5, <3>1, <3>2 DEF RecordsAreDated
  <2>6. QED
    BY <1>1, <2>3, <2>4, <2>5 DEF RecordsAreDated
<1>6. SavesAreIn(recs[dir])' /\ CacheIsCurrent' /\ pointer' = dir'
  BY <1>1, <1>2, <1>3, <1>4 DEF MoveIInv, SavesAreIn, CacheIsCurrent
<1>7. CASE some = Keys /\ manifest' = [manifest EXCEPT ![move.to] = manifest[dir]]
           /\ MoveOn("switch") /\ UNCHANGED <<faults, mishaps>>
  <2>1. /\ move' \in Moving' /\ move'.at = "switch" /\ move'.to = move.to /\ move'.found = move.found
    BY <1>1, <1>2, <1>7, MovedOn DEF MoveStages
  <2>2. manifest \in [Dirs -> [Texts -> ManifestEntry \cup {None}]]
    BY <1>2 DEF MoveTypeOK
  <2>3. /\ manifest' \in [Dirs -> [Texts -> ManifestEntry \cup {None}]]
        /\ manifest'[move.to] = manifest[dir]
        /\ \A f \in Dirs \ {move.to} : manifest'[f] = manifest[f]
    BY <1>2, <1>3, <1>7, <2>2
  <2>4. MoveTypeOK'
    BY <1>1, <1>2, <1>4, <2>1, <2>3 DEF MoveTypeOK, Moving, Tree
  <2>5. \A k \in Keys : recs'[move.to][k] = recs'[dir][k]
    BY <1>2, <1>3, <1>4, <1>7
  <2>6. RecordsAreMoved'
    <3>1. ASSUME NEW k \in Keys
          PROVE  Supersedes(recs'[move.to][k], recs'[dir][k]) /\ move.found[k] = None
      <4>1. recs'[dir][k] \in Record \cup {None}
        BY <1>3, <1>4
      <4>2. recs'[dir][k] # None => recs'[dir][k].at >= recs'[dir][k].at
        BY <4>1, RecordType
      <4>3. QED
        BY <1>1, <2>5, <4>2 DEF Supersedes, Descends, MoveIInv, RecordsAreMoved
    <3>2. QED
      BY <1>1, <2>1, <3>1 DEF RecordsAreMoved, Supersedes
  <2>7. ImagesMatch'
    <3>1. SUFFICES ASSUME "broken" \notin mishaps
                   PROVE  /\ \A f \in Dirs, t \in Texts : ImageMatches(f, t)'
                          /\ \A t \in Texts : KeepsImage(move.to, t)'
      BY <1>7, <2>1 DEF ImagesMatch
    <3>2. image[move.to] = image[dir] /\ \A f \in Dirs \ {move.to}, t \in Texts : ImageMatches(f, t)
      BY <1>1, <3>1 DEF MoveIInv, ImagesMatch
    <3>3. ASSUME NEW f \in Dirs, NEW t \in Texts PROVE ImageMatches(f, t)'
      <4>1. t \in Keys
        BY RelocationAssumption
      <4>2. CASE f # move.to
        BY <1>1, <1>4, <2>3, <3>2, <4>2, SameImageMatches
      <4>3. CASE f = move.to
        <5>1. recs'[f][t] = recs[dir][t] /\ manifest'[f][t] = manifest[dir][t] /\ image'[f][t] = image[dir][t]
          BY <1>1, <1>4, <1>7, <2>3, <3>2, <4>1, <4>3
        <5>2. ImageMatches(dir, t)
          BY <1>2, <1>3, <3>2
        <5>3. QED
          BY <5>1, <5>2 DEF ImageMatches
      <4>4. QED
        BY <4>2, <4>3
    <3>4. ASSUME NEW t \in Texts PROVE KeepsImage(move.to, t)'
      BY <1>1, <3>2, <2>1 DEF KeepsImage
    <3>5. QED
      BY <3>3, <3>4
  <2>8. QED
    BY <1>5, <1>6, <2>4, <2>6, <2>7 DEF MoveIInv
<1>8. CASE mishaps' = mishaps \cup {"broken"} /\ move' = Settled /\ manifest' = manifest
  <2>1. move'.at = "idle"
    BY <1>8 DEF Settled
  <2>2. MoveTypeOK'
    BY <1>1, <1>2, <1>4, <1>8 DEF MoveTypeOK, Tree
  <2>3. RecordsAreMoved' /\ ImagesMatch'
    BY <1>8, <2>1 DEF RecordsAreMoved, ImagesMatch
  <2>4. QED
    BY <1>5, <1>6, <2>2, <2>3 DEF MoveIInv
<1>9. QED
  BY <1>7, <1>8 DEF CopyRecords

\* What a merge leaves in the chosen directory: the records merged so far.
LEMMA MergeRecordsKeepsMoveIInv ==
  ASSUME MoveIInv, NEW some \in SUBSET Keys, MergeRecords(some)
  PROVE  MoveIInv'
<1> DEFINE to == move.to
           M(k) == MergeRecord(None, recs[dir][k], recs[to][k], recs[dir][k] # None, Device, clock + 1)
<1>1. /\ move.at = "merge records" /\ clock' = clock + 1
      /\ UNCHANGED <<image, manifest, dir, pointer, cache, saved, mishaps>>
      /\ \/ some = Keys /\ MoveOn("merge images")
         \/ move' = Settled
  BY DEF MergeRecords, Tick
<1>2. MoveTypeOK /\ move # Settled /\ to \in Dirs /\ to # dir /\ clock \in Nat /\ RecordsAreDated
  BY <1>1, MoveCases DEF MoveIInv, MoveTypeOK
<1>3. recs \in [Dirs -> [Keys -> Record \cup {None}]] /\ dir \in Dirs
  BY <1>2 DEF MoveTypeOK, Tree
<1>4. recs' = [recs EXCEPT ![to] = [k \in Keys |-> IF k \in some THEN M(k) ELSE recs[to][k]]]
  BY <1>1 DEF MergeRecords, MergeDirectories
<1>5. ASSUME NEW k \in Keys
      PROVE  /\ M(k) \in Record \cup {None} /\ Dated(M(k), clock)
             /\ Supersedes(M(k), recs[dir][k]) /\ Supersedes(M(k), recs[to][k])
             /\ M(k) # None => \/ recs[dir][k] # None /\ SameWrite(M(k), recs[dir][k])
                               \/ recs[to][k] # None /\ SameWrite(M(k), recs[to][k])
  <2>1. /\ recs[dir][k] \in Record \cup {None} /\ recs[to][k] \in Record \cup {None}
        /\ Dated(recs[dir][k], clock) /\ Dated(recs[to][k], clock)
    BY <1>2, <1>3 DEF RecordsAreDated
  <2>2. CASE recs[dir][k] = None
    <3>1. M(k) = recs[to][k]
      BY <2>2, NothingToMerge
    <3>2. recs[to][k] # None => recs[to][k].at >= recs[to][k].at
      BY <2>1, RecordType
    <3>3. QED
      BY <2>1, <2>2, <3>1, <3>2 DEF Supersedes, SameWrite, Descends
  <2>3. CASE recs[dir][k] # None
    <3>1. clock + 1 \in Nat /\ recs[dir][k] \in Record
      BY <1>2, <2>1, <2>3
    <3>2. M(k) = MergeRecord(None, recs[dir][k], recs[to][k], TRUE, Device, clock + 1)
      BY <2>3
    <3>3. QED
      BY <1>2, <2>1, <2>3, <3>1, <3>2, MergedIsLater
  <2>4. QED
    BY <2>2, <2>3
<1> HIDE DEF M
<1>6. /\ recs' \in [Dirs -> [Keys -> Record \cup {None}]]
      /\ \A f \in Dirs, k \in Keys :
           recs'[f][k] = IF f = to /\ k \in some THEN M(k) ELSE recs[f][k]
  BY <1>2, <1>3, <1>4, <1>5
<1>types. recs' \in [Dirs -> Tree] /\ clock' \in Nat
  <2>1. recs' \in [Dirs -> [Keys -> Record \cup {None}]]
    BY <1>6
  <2>2. recs' \in [Dirs -> Tree]
    BY <2>1 DEF Tree
  <2>3. clock' \in Nat
    <3>1. clock' = clock + 1
      BY <1>1
    <3>2. clock \in Nat
      BY <1>2
    <3>3. QED
      BY <3>1, <3>2
  <2>4. QED
    BY <2>2, <2>3
\* Every record there is was written by what wrote one that was there.
<1>7. ASSUME NEW f \in Dirs, NEW k \in Keys, recs'[f][k] # None
      PROVE  \E g \in Dirs : recs[g][k] # None /\ SameWrite(recs'[f][k], recs[g][k])
  <2>1. CASE f = to /\ k \in some
    BY <1>2, <1>3, <1>5, <1>6, <1>7, <2>1
  <2>2. CASE ~(f = to /\ k \in some)
    BY <1>6, <1>7, <2>2 DEF SameWrite
  <2>3. QED
    BY <2>1, <2>2
<1>8. RecordsAreDated'
  <2>1. clock <= clock + 1 /\ clock + 1 \in Nat
    BY <1>2
  <2>2. ASSUME NEW f \in Dirs, NEW k \in Keys PROVE Dated(recs'[f][k], clock + 1)
    <3>1. recs'[f][k] \in Record \cup {None} /\ Dated(recs'[f][k], clock)
      BY <1>2, <1>5, <1>6 DEF RecordsAreDated
    <3>2. QED
      BY <1>2, <2>1, <3>1, DatedLater
  <2>3. cache # None => \A k \in Keys : Dated(cache[k], clock + 1)
    <3>1. cache # None => \A k \in Keys : cache[k] \in Record \cup {None} /\ Dated(cache[k], clock)
      BY <1>2 DEF RecordsAreDated, MoveTypeOK, Tree
    <3>2. QED
      BY <1>2, <2>1, <3>1, DatedLater
  <2>4. ASSUME NEW f \in Dirs, NEW g \in Dirs, NEW k \in Keys,
               recs'[f][k] # None, recs'[g][k] # None, recs'[f][k].at = recs'[g][k].at
        PROVE  SameWrite(recs'[f][k], recs'[g][k])
    <3>1. PICK a \in Dirs : recs[a][k] # None /\ SameWrite(recs'[f][k], recs[a][k])
      BY <1>7, <2>4
    <3>2. PICK b \in Dirs : recs[b][k] # None /\ SameWrite(recs'[g][k], recs[b][k])
      BY <1>7, <2>4
    <3>3. SameWrite(recs[a][k], recs[b][k])
      <4>1. recs[a][k].at = recs[b][k].at
        BY <2>4, <3>1, <3>2 DEF SameWrite
      <4>2. QED
        BY <1>2, <3>1, <3>2, <4>1 DEF RecordsAreDated
    <3>4. QED
      BY <3>1, <3>2, <3>3 DEF SameWrite
  <2>5. QED
    BY <1>1, <2>2, <2>3, <2>4 DEF RecordsAreDated
<1>9. recs'[dir] = recs[dir]
  BY <1>2, <1>3, <1>4
<1>10. SavesAreIn(recs[dir])' /\ CacheIsCurrent' /\ pointer' = dir'
  BY <1>1, <1>9 DEF MoveIInv, SavesAreIn, CacheIsCurrent
<1>11. ASSUME "broken" \notin mishaps, NEW f \in Dirs, NEW t \in Texts
       PROVE  ImageMatches(f, t)'
  <2>1. ImageMatches(f, t) /\ t \in Keys
    BY <1>1, <1>11, RelocationAssumption DEF MoveIInv, ImagesMatch
  <2>2. CASE ~(f = to /\ t \in some)
    BY <1>1, <1>6, <2>1, <2>2, SameImageMatches
  <2>3. CASE f = to /\ t \in some /\ manifest[f][t] = None
    BY <1>1, <2>1, <2>3 DEF ImageMatches, EntryMatches
  <2>4. CASE f = to /\ t \in some /\ manifest[f][t] # None
    <3> DEFINE m == manifest[f][t]
               old == recs[to][t]
               new == recs'[to][t]
    <3>1. /\ old # None /\ m.at <= old.at /\ image[f][t] = m.hash /\ (m.dead <=> m.hash = Gone)
          /\ m.at = old.at => m.by = old.by /\ m.hash = old.data
      BY <2>1, <2>4 DEF ImageMatches, EntryMatches
    <3>2. new = M(t) /\ new # None /\ new.at >= old.at
      BY <1>2, <1>5, <1>6, <2>1, <2>4, <3>1 DEF Supersedes
    <3>3. new \in Record /\ old \in Record /\ m.at \in Nat /\ new.at \in Nat /\ old.at \in Nat
      <4>1. m \in ManifestEntry
        BY <1>2, <2>4 DEF MoveTypeOK
      <4>2. new \in Record /\ old \in Record
        BY <1>2, <1>3, <1>6, <2>1, <3>1, <3>2
      <4>3. QED
        BY <4>1, <4>2, RecordType DEF ManifestEntry
    <3>4. m.at <= new.at
      BY <3>1, <3>2, <3>3
    <3>5. ASSUME m.at = new.at PROVE m.by = new.by /\ m.hash = new.data
      <4>1. old.at = new.at
        BY <3>1, <3>2, <3>3, <3>5
      <4>2. SameWrite(new, old)
        <5>1. CASE SameWrite(new, old)
          BY <5>1
        <5>2. CASE recs[dir][t] # None /\ SameWrite(new, recs[dir][t])
          <6>1. recs[dir][t].at = old.at
            BY <4>1, <5>2 DEF SameWrite
          <6>2. SameWrite(recs[dir][t], old)
            BY <1>2, <1>3, <2>1, <3>1, <5>2, <6>1 DEF RecordsAreDated
          <6>3. QED
            BY <5>2, <6>2 DEF SameWrite
        <5>3. QED
          BY <1>5, <2>1, <3>2, <5>1, <5>2
      <4>3. QED
        BY <3>1, <3>5, <4>1, <4>2 DEF SameWrite
    <3>6. m # None /\ manifest'[f][t] = m /\ image'[f][t] = image[f][t] /\ recs'[f][t] = new
      BY <1>1, <2>4
    <3> HIDE DEF m, new, old
    <3>7. QED
      BY <3>1, <3>2, <3>4, <3>5, <3>6 DEF ImageMatches, EntryMatches
  <2>5. QED
    BY <2>2, <2>3, <2>4
<1>12. CASE some = Keys /\ MoveOn("merge images")
  <2>1. /\ move' \in Moving' /\ move'.at = "merge images" /\ move'.to = to /\ move'.found = move.found
    BY <1>1, <1>2, <1>12, MovedOn DEF MoveStages
  <2>2. MoveTypeOK'
    BY <1>1, <1>2, <2>1, <1>types DEF MoveTypeOK, Moving
  <2>3. move.found = recs[to]
    BY <1>1 DEF MoveIInv, RecordsAreMoved
  <2>4. \A k \in Keys : recs'[to][k] = M(k)
    BY <1>2, <1>6, <1>12
  <2>5. RecordsAreMoved'
    BY <1>1, <1>5, <1>9, <2>1, <2>3, <2>4 DEF RecordsAreMoved
  <2>6. ImagesMatch'
    BY <1>1, <1>11, <2>1 DEF ImagesMatch
  <2>7. QED
    BY <1>8, <1>10, <2>2, <2>5, <2>6 DEF MoveIInv
<1>13. CASE move' = Settled
  <2>1. move'.at = "idle"
    BY <1>13 DEF Settled
  <2>2. MoveTypeOK'
    BY <1>1, <1>2, <1>13, <1>types DEF MoveTypeOK
  <2>3. RecordsAreMoved' /\ ImagesMatch'
    BY <1>1, <1>11, <2>1 DEF RecordsAreMoved, ImagesMatch
  <2>4. QED
    BY <1>8, <1>10, <2>2, <2>3 DEF MoveIInv
<1>14. QED
  BY <1>1, <1>12, <1>13

\* A manifest is what the files are, as long as bringing images was not broken off.
LEMMA NothingToRefresh ==
  ASSUME NEW f \in Dirs, NEW t \in Texts, NEW now, MoveTypeOK, ImageMatches(f, t)
  PROVE  Refreshed(image[f], manifest[f], now)[t] = manifest[f][t]
BY DEF Refreshed, ImageMatches, EntryMatches

\* The entry that is kept is the newer one.
LEMMA KeptEntryIsLater ==
  ASSUME NEW a \in ManifestEntry, NEW b \in ManifestEntry
  PROVE  IF KeepsAsset(a, b) THEN a.at >= b.at ELSE b.at >= a.at
BY DEF KeepsAsset, ManifestEntry

\* The entry of one book in merged manifests, and its image as it is applied
MergedEntry(left, right) ==
  IF right = None \/ (left # None /\ KeepsAsset(left, right)) THEN left ELSE right

AppliedImage(m, from, to) ==
  IF m = None THEN to
  ELSE IF m.dead THEN Gone
  ELSE IF to # m.hash /\ from = m.hash THEN from ELSE to

\* What two directories hold of one book: its entries, records and image files
OneImage(left, right, before, ends, from, to) ==
  /\ left \in ManifestEntry \cup {None} /\ right \in ManifestEntry \cup {None}
  /\ before \in Record \cup {None} /\ ends \in Record \cup {None}
  /\ from \in Content \cup {Cut} /\ to \in Content \cup {Cut}
  /\ EntryMatches(left, before, from) /\ EntryMatches(right, ends, to)
  /\ before # None => ends # None /\ ends.at >= before.at
  /\ before # None /\ ends # None /\ before.at = ends.at => SameWrite(before, ends)

\* The images of one book are merged: what the entry of the outcome says, the
\* file is, and an image stays what it is if the record it goes with does.
LEMMA MergeOneImage ==
  ASSUME NEW left, NEW right, NEW before, NEW ends, NEW from, NEW to,
         OneImage(left, right, before, ends, from, to)
  PROVE  LET m == MergedEntry(left, right)
             file == AppliedImage(m, from, to)
         IN  /\ EntryMatches(m, ends, file)
             /\ before # None /\ left = Entry(from, before.at, before.by) /\ ends = before => file = from
<1> USE DEF OneImage
<1> DEFINE m == MergedEntry(left, right)
           file == AppliedImage(m, from, to)
<1>1. /\ before # None => before.at \in Nat
      /\ ends # None => ends.at \in Nat
      /\ left # None => left.at \in Nat
      /\ right # None => right.at \in Nat
  BY RecordType DEF ManifestEntry
<1>2. left # None /\ right # None =>
        IF KeepsAsset(left, right) THEN left.at >= right.at ELSE right.at >= left.at
  BY KeptEntryIsLater
<1>3. left # None => EntryMatches(left, ends, from)
  BY <1>1 DEF EntryMatches, SameWrite
<1>4. CASE m = None
  BY <1>4 DEF EntryMatches, MergedEntry, AppliedImage
<1>5. CASE m = left /\ left # None
  <2>1. file = from
    BY <1>5 DEF EntryMatches, AppliedImage
  <2>2. QED
    BY <1>3, <1>5, <2>1
<1>6. CASE m = right /\ right # None /\ m # left
  <2>1. file = to
    BY <1>6 DEF EntryMatches, AppliedImage
  <2>2. ASSUME before # None, left = Entry(from, before.at, before.by), ends = before
        PROVE  to = from
    <3>1. left # None /\ left.at = before.at /\ left.hash = from
      <4>1. left # None
        <5>1. before.at \in Nat /\ before.by \in Devices
          BY <2>2, RecordType
        <5>2. Entry(from, before.at, before.by) \in ManifestEntry
          BY <5>1 DEF Entry, ManifestEntry
        <5>3. QED
          BY <2>2, <5>2, RelocationAssumption
      <4>2. QED
        BY <2>2, <4>1 DEF Entry
    <3>2. right.at = before.at
      BY <1>1, <1>2, <1>6, <2>2, <3>1 DEF EntryMatches, MergedEntry
    <3>3. right.hash = ends.data /\ left.hash = before.data
      BY <1>6, <2>2, <3>1, <3>2 DEF EntryMatches
    <3>4. QED
      BY <1>6, <2>2, <3>1, <3>3 DEF EntryMatches
  <2>3. QED
    BY <1>6, <2>1, <2>2
<1>7. QED
  BY <1>4, <1>5, <1>6 DEF MergedEntry

LEMMA WholeMergeOfImagesKeepsMoveIInv ==
  ASSUME MoveIInv, MergeImages(Texts), MoveOn("switch"), UNCHANGED mishaps,
         manifest' = [manifest EXCEPT ![move.to] =
           MergedManifests(Refreshed(image[dir], manifest[dir], clock'),
                           Refreshed(image[move.to], manifest[move.to], clock'))]
  PROVE  MoveIInv'
<1> DEFINE to == move.to
           left == Refreshed(image[dir], manifest[dir], clock')
           right == Refreshed(image[to], manifest[to], clock')
           merged == MergedManifests(left, right)
<1>0. Applied(merged, image[dir], image[to]) =
        [t \in Texts |-> IF t \in Texts THEN Applied(merged, image[dir], image[to])[t] ELSE image[to][t]]
  BY DEF Applied
<1>1. /\ move.at = "merge images" /\ MoveOn("switch") /\ clock' = clock + 1
      /\ UNCHANGED <<recs, dir, pointer, cache, saved, mishaps>>
      /\ manifest' = [manifest EXCEPT ![to] = merged]
      /\ image' = [image EXCEPT ![to] = Applied(merged, image[dir], image[to])]
  BY <1>0 DEF MergeImages, Tick
<1>2. MoveTypeOK /\ move # Settled /\ to \in Dirs /\ to # dir /\ dir \in Dirs
  BY <1>1, MoveCases DEF MoveIInv, MoveTypeOK
<1>3. /\ recs \in [Dirs -> [Keys -> Record \cup {None}]] /\ clock \in Nat
      /\ image \in [Dirs -> [Texts -> Content \cup {Cut}]]
      /\ manifest \in [Dirs -> [Texts -> ManifestEntry \cup {None}]]
  BY <1>2 DEF MoveTypeOK, Tree
<1>4. clock' \in Nat /\ clock <= clock'
  <2>1. clock' = clock + 1
    BY <1>1
  <2>2. clock \in Nat
    BY <1>3
  <2>3. QED
    BY <2>1, <2>2
<1>5. ASSUME NEW f \in Dirs, NEW t \in Texts
      PROVE  Refreshed(image[f], manifest[f], clock')[t] \in ManifestEntry \cup {None}
  <2>1. image[f][t] \in Content \cup {Cut} /\ manifest[f][t] \in ManifestEntry \cup {None}
    BY <1>3
  <2>2. Entry(image[f][t], clock', Device) \in ManifestEntry
    BY <1>4, <2>1, DeviceAssumption DEF Entry, ManifestEntry
  <2>3. QED
    BY <2>1, <2>2 DEF Refreshed
<1>6. merged \in [Texts -> ManifestEntry \cup {None}]
  BY <1>2, <1>5 DEF MergedManifests
<1>7. Applied(merged, image[dir], image[to]) \in [Texts -> Content \cup {Cut}]
  BY <1>2, <1>3 DEF Applied, Content
<1>8. /\ manifest' \in [Dirs -> [Texts -> ManifestEntry \cup {None}]]
      /\ image' \in [Dirs -> [Texts -> Content \cup {Cut}]]
      /\ manifest'[to] = merged /\ image'[to] = Applied(merged, image[dir], image[to])
      /\ \A f \in Dirs \ {to} : manifest'[f] = manifest[f] /\ image'[f] = image[f]
  BY <1>1, <1>2, <1>3, <1>6, <1>7
<1>9. /\ move' \in Moving' /\ move'.at = "switch" /\ move'.to = to /\ move'.found = move.found
  BY <1>1, <1>2, MovedOn DEF MoveStages
<1>10. MoveTypeOK'
  BY <1>1, <1>2, <1>4, <1>8, <1>9 DEF MoveTypeOK, Moving
<1>11. RecordsAreDated'
  <2>1. RecordsAreDated
    BY DEF MoveIInv
  <2>2. \A f \in Dirs, k \in Keys : Dated(recs[f][k], clock')
    <3>1. ASSUME NEW f \in Dirs, NEW k \in Keys PROVE Dated(recs[f][k], clock')
      <4>1. recs[f][k] \in Record \cup {None} /\ Dated(recs[f][k], clock)
        BY <1>3, <2>1 DEF RecordsAreDated
      <4>2. QED
        BY <1>3, <1>4, <4>1, DatedLater
    <3>2. QED
      BY <3>1
  <2>3. cache # None => \A k \in Keys : cache[k] \in Record \cup {None} /\ Dated(cache[k], clock)
    BY <1>2, <2>1 DEF RecordsAreDated, MoveTypeOK, Tree
  <2>4. cache # None => \A k \in Keys : Dated(cache[k], clock')
    BY <1>3, <1>4, <2>3, DatedLater
  <2>5. QED
    BY <1>1, <2>1, <2>2, <2>4 DEF RecordsAreDated
<1>12. RecordsAreMoved'
  BY <1>1, <1>9 DEF MoveIInv, RecordsAreMoved
<1>13. ASSUME "broken" \notin mishaps, NEW t \in Texts
       PROVE  /\ ImageMatches(to, t)' /\ ImageMatches(dir, t)
              /\ KeepsImage(to, t)'
  <2>1. ImageMatches(dir, t) /\ ImageMatches(to, t) /\ t \in Keys
    BY <1>1, <1>2, <1>13, RelocationAssumption DEF MoveIInv, ImagesMatch
  <2>2. left[t] = manifest[dir][t] /\ right[t] = manifest[to][t]
    BY <1>2, <2>1, NothingToRefresh
  <2>3. /\ recs[dir][t] # None => recs[to][t] # None /\ recs[to][t].at >= recs[dir][t].at
        /\ recs[dir][t] # None /\ recs[to][t] # None /\ recs[dir][t].at = recs[to][t].at =>
             SameWrite(recs[dir][t], recs[to][t])
    BY <1>1, <1>2, <2>1 DEF MoveIInv, RecordsAreMoved, RecordsAreDated, Supersedes
  <2> DEFINE l == manifest[dir][t]
             r == manifest[to][t]
             m == MergedEntry(l, r)
             file == AppliedImage(m, image[dir][t], image[to][t])
  <2>4. merged[t] = m
    BY <2>2 DEF MergedManifests, MergedEntry
  <2>5. /\ EntryMatches(m, recs[to][t], file)
        /\ recs[dir][t] # None /\ l = Entry(image[dir][t], recs[dir][t].at, recs[dir][t].by)
             /\ recs[to][t] = recs[dir][t] => file = image[dir][t]
    <3>1. /\ l \in ManifestEntry \cup {None} /\ r \in ManifestEntry \cup {None}
          /\ recs[dir][t] \in Record \cup {None} /\ recs[to][t] \in Record \cup {None}
      BY <1>2, <1>3, <2>1
    <3>2. EntryMatches(l, recs[dir][t], image[dir][t]) /\ EntryMatches(r, recs[to][t], image[to][t])
      BY <2>1 DEF ImageMatches
    <3>3. image[dir][t] \in Content \cup {Cut} /\ image[to][t] \in Content \cup {Cut}
      BY <1>2, <1>3
    <3>4. OneImage(l, r, recs[dir][t], recs[to][t], image[dir][t], image[to][t])
      BY <2>3, <3>1, <3>2, <3>3 DEF OneImage
    <3> HIDE DEF l, r
    <3>5. QED
      BY <3>4, MergeOneImage
  <2>6. manifest'[to][t] = m /\ image'[to][t] = file
    <3>1. image'[to][t] = AppliedImage(merged[t], image[dir][t], image[to][t])
      BY <1>8 DEF Applied, AppliedImage
    <3> HIDE DEF m, merged
    <3>2. QED
      BY <1>8, <2>4, <3>1
  <2>7. manifest'[dir][t] = l /\ image'[dir][t] = image[dir][t]
    BY <1>2, <1>8
  <2> HIDE DEF m, file, merged
  <2>8. QED
    <3>1. ImageMatches(to, t)'
      BY <1>1, <1>9, <2>5, <2>6 DEF ImageMatches
    <3>2. KeepsImage(to, t)'
      BY <1>1, <1>9, <2>5, <2>6, <2>7 DEF KeepsImage
    <3>3. QED
      BY <2>1, <3>1, <3>2
<1>14. ASSUME "broken" \notin mishaps, NEW f \in Dirs, NEW t \in Texts, f # to
       PROVE  ImageMatches(f, t)'
  <2>1. ImageMatches(f, t)
    BY <1>1, <1>14 DEF MoveIInv, ImagesMatch
  <2>2. QED
    BY <1>1, <1>8, <1>14, <2>1, SameImageMatches
<1>15. ImagesMatch'
  BY <1>1, <1>9, <1>13, <1>14 DEF ImagesMatch
<1>16. QED
  BY <1>1, <1>10, <1>11, <1>12, <1>15 DEF MoveIInv, SavesAreIn, CacheIsCurrent

\* After a merge of images that is broken off only their types are of interest.
LEMMA MergeImagesKeepsMoveIInv ==
  ASSUME MoveIInv, NEW some \in SUBSET Texts, MergeImages(some)
  PROVE  MoveIInv'
<1> DEFINE to == move.to
           right == Refreshed(image[to], manifest[to], clock')
           merged == MergedManifests(Refreshed(image[dir], manifest[dir], clock'), right)
           applied == Applied(merged, image[dir], image[to])
           brought == [t \in Texts |-> IF t \in some THEN applied[t] ELSE image[to][t]]
<1>1. /\ move.at = "merge images" /\ clock' = clock + 1
      /\ UNCHANGED <<recs, dir, pointer, cache, saved>>
      /\ image' = [image EXCEPT ![to] = brought]
  BY DEF MergeImages, Tick
<1>2. \/ some = Texts /\ manifest' = [manifest EXCEPT ![to] = merged] /\ MoveOn("switch") /\ UNCHANGED mishaps
      \/ /\ mishaps' = mishaps \cup {"broken"} /\ move' = Settled
         /\ manifest' = [manifest EXCEPT ![to] = right]
  BY DEF MergeImages
<1>3. CASE some = Texts /\ manifest' = [manifest EXCEPT ![to] = merged] /\ MoveOn("switch") /\ UNCHANGED mishaps
  BY <1>3, WholeMergeOfImagesKeepsMoveIInv
<1>4. CASE /\ mishaps' = mishaps \cup {"broken"} /\ move' = Settled
           /\ manifest' = [manifest EXCEPT ![to] = right]
  <2>1. MoveTypeOK /\ to \in Dirs /\ dir \in Dirs
    BY <1>1, MoveCases DEF MoveIInv, MoveTypeOK
  <2>2. /\ recs \in [Dirs -> [Keys -> Record \cup {None}]] /\ clock \in Nat
        /\ image \in [Dirs -> [Texts -> Content \cup {Cut}]]
        /\ manifest \in [Dirs -> [Texts -> ManifestEntry \cup {None}]]
        /\ cache \in Tree \cup {None}
    BY <2>1 DEF MoveTypeOK, Tree
  <2>3. clock' \in Nat /\ clock <= clock'
    <3>1. clock' = clock + 1 /\ clock \in Nat
      BY <1>1, <2>2
    <3>2. QED
      BY <3>1
  <2>4. applied \in [Texts -> Content \cup {Cut}]
    BY <2>1, <2>2 DEF Applied, Content
  <2>5. right \in [Texts -> ManifestEntry \cup {None}]
    <3>1. ASSUME NEW t \in Texts PROVE right[t] \in ManifestEntry \cup {None}
      <4>1. image[to][t] \in Content \cup {Cut} /\ manifest[to][t] \in ManifestEntry \cup {None}
        BY <2>1, <2>2
      <4>2. Entry(image[to][t], clock', Device) \in ManifestEntry
        BY <2>3, <4>1, DeviceAssumption DEF Entry, ManifestEntry
      <4>3. QED
        BY <4>1, <4>2 DEF Refreshed
    <3>2. QED
      BY <3>1 DEF Refreshed
  <2> HIDE DEF applied, right
  <2>6. brought \in [Texts -> Content \cup {Cut}]
    BY <2>1, <2>2, <2>4
  <2> HIDE DEF brought
  <2>7. /\ manifest' \in [Dirs -> [Texts -> ManifestEntry \cup {None}]]
        /\ image' \in [Dirs -> [Texts -> Content \cup {Cut}]]
    BY <1>1, <1>4, <2>2, <2>5, <2>6
  <2>8. move'.at = "idle"
    BY <1>4 DEF Settled
  <2>9. MoveTypeOK'
    BY <1>1, <1>4, <2>1, <2>3, <2>7 DEF MoveTypeOK
  <2>10. RecordsAreDated'
    <3>1. RecordsAreDated
      BY DEF MoveIInv
    <3>2. ASSUME NEW f \in Dirs, NEW k \in Keys PROVE Dated(recs[f][k], clock')
      <4>1. recs[f][k] \in Record \cup {None} /\ Dated(recs[f][k], clock)
        BY <2>2, <3>1 DEF RecordsAreDated
      <4>2. QED
        BY <2>2, <2>3, <4>1, DatedLater
    <3>3. cache # None => \A k \in Keys : cache[k] \in Record \cup {None} /\ Dated(cache[k], clock)
      BY <2>1, <3>1 DEF RecordsAreDated, MoveTypeOK, Tree
    <3>4. cache # None => \A k \in Keys : Dated(cache[k], clock')
      BY <2>2, <2>3, <3>3, DatedLater
    <3>5. QED
      BY <1>1, <3>1, <3>2, <3>4 DEF RecordsAreDated
  <2>11. RecordsAreMoved' /\ ImagesMatch'
    BY <1>4, <2>8 DEF RecordsAreMoved, ImagesMatch
  <2>12. QED
    BY <1>1, <1>4, <2>9, <2>10, <2>11 DEF MoveIInv, SavesAreIn, CacheIsCurrent
<1>5. QED
  BY <1>2, <1>3, <1>4

-------------------------------------------------------------------------------
(* The end of a move, and restarts.                                        *)

\* However a move ends, the directories match what is said of them, unless
\* bringing images to one was broken off.
LEMMA EndOfMoveKeepsMoveIInv ==
  ASSUME MoveIInv, move' = Settled, UNCHANGED <<trees, clock, saved>>,
         mishaps \cup BrokenOff \subseteq mishaps',
         NEW f \in Dirs, dir' = f, pointer' = f, cache' = None \/ UNCHANGED <<cache, dir>>,
         SavesAreIn(recs[f])'
  PROVE  MoveIInv'
<1>1. UNCHANGED <<recs, image, manifest, clock, saved>>
  BY DEF trees
<1>2. move'.at = "idle"
  BY DEF Settled
<1>3. MoveTypeOK'
  BY <1>1 DEF MoveIInv, MoveTypeOK
<1>4. RecordsAreDated' /\ CacheIsCurrent' /\ RecordsAreMoved'
  BY <1>1, <1>2 DEF MoveIInv, RecordsAreDated, CacheIsCurrent, RecordsAreMoved
<1>5. ASSUME "broken" \notin mishaps', NEW g \in Dirs, NEW t \in Texts
      PROVE  ImageMatches(g, t)'
  <2>1. "broken" \notin mishaps /\ move.at # "copy records"
    BY <1>5 DEF BrokenOff
  <2>2. ImageMatches(g, t)
    BY <2>1 DEF MoveIInv, ImagesMatch
  <2>3. QED
    BY <1>1, <1>5, <2>2, SameImageMatches
<1>6. ImagesMatch'
  BY <1>2, <1>5 DEF ImagesMatch
<1>7. SavesAreIn(recs[dir])'
  BY DEF SavesAreIn
<1>8. QED
  BY <1>3, <1>4, <1>6, <1>7 DEF MoveIInv

LEMMA SwitchKeepsMoveIInv == ASSUME MoveIInv, Switch PROVE MoveIInv'
<1>1. /\ move.at = "switch" /\ dir' = move.to /\ pointer' = move.to /\ cache' = None /\ move' = Settled
      /\ UNCHANGED <<trees, clock, saved, mishaps, recs>>
  BY DEF Switch, moveHistory, trees
<1>2. MoveTypeOK /\ move.to \in Dirs /\ dir \in Dirs /\ move \in Moving /\ move # Settled
  BY <1>1, MoveCases DEF MoveIInv, MoveTypeOK
<1>3. BrokenOff = {}
  BY <1>1 DEF BrokenOff
<1>4. PICK to \in Dirs : to = move.to
  BY <1>2
<1>5. SavesAreIn(recs[to])'
  <2> SUFFICES ASSUME "gone" \notin mishaps, NEW k \in Keys, saved[k] > 0
               PROVE  recs[move.to][k] # None /\ recs[move.to][k].at >= saved[k]
    BY <1>1, <1>4 DEF SavesAreIn
  <2>1. recs[dir][k] # None /\ recs[dir][k].at >= saved[k]
    BY DEF MoveIInv, SavesAreIn
  <2>2. recs[move.to][k] # None /\ recs[move.to][k].at >= recs[dir][k].at
    BY <1>1, <2>1 DEF MoveIInv, RecordsAreMoved, Supersedes
  <2>3. recs[dir][k] \in Record /\ recs[move.to][k] \in Record /\ saved[k] \in Nat
    BY <1>2, <2>1, <2>2 DEF MoveTypeOK, Tree
  <2>4. recs[dir][k].at \in Nat /\ recs[move.to][k].at \in Nat /\ saved[k] \in Nat
    BY <2>3, RecordType
  <2>5. QED
    BY <2>1, <2>2, <2>4
<1>6. QED
  BY <1>1, <1>2, <1>3, <1>4, <1>5, EndOfMoveKeepsMoveIInv

LEMMA FailKeepsMoveIInv == ASSUME MoveIInv, Fail PROVE MoveIInv'
<1>1. /\ move' = Settled /\ cache' \in {None, cache} /\ mishaps' = mishaps \cup BrokenOff
      /\ UNCHANGED <<trees, dir, pointer, clock, saved, recs>>
  BY DEF Fail, trees
<1>2. PICK f \in Dirs : f = dir /\ f = pointer
  BY DEF MoveIInv, MoveTypeOK
<1>3. SavesAreIn(recs[f])'
  BY <1>1, <1>2 DEF MoveIInv, SavesAreIn
<1>4. QED
  BY <1>1, <1>2, <1>3, EndOfMoveKeepsMoveIInv

LEMMA RestartKeepsMoveIInv == ASSUME MoveIInv, Restart PROVE MoveIInv'
<1>1. /\ move' = Settled /\ cache' = None /\ dir' = pointer /\ mishaps' = mishaps \cup BrokenOff
      /\ UNCHANGED <<trees, pointer, clock, saved, recs>>
  BY DEF Restart, trees
<1>2. PICK f \in Dirs : f = dir /\ f = pointer
  BY DEF MoveIInv, MoveTypeOK
<1>3. SavesAreIn(recs[f])'
  BY <1>1, <1>2 DEF MoveIInv, SavesAreIn
<1>4. QED
  BY <1>1, <1>2, <1>3, EndOfMoveKeepsMoveIInv

LEMMA RestartWithoutKeepsMoveIInv == ASSUME MoveIInv, RestartWithout PROVE MoveIInv'
<1>1. /\ move' = Settled /\ cache' = None /\ dir' = DefaultDir /\ pointer' = DefaultDir
      /\ mishaps' = mishaps \cup {"gone"} \cup BrokenOff
      /\ UNCHANGED <<trees, clock, saved>>
  BY DEF RestartWithout
<1>2. SavesAreIn(recs[DefaultDir])'
  BY <1>1 DEF SavesAreIn
<1>3. QED
  BY <1>1, <1>2, RelocationAssumption, EndOfMoveKeepsMoveIInv

-------------------------------------------------------------------------------
(* The theorems.                                                           *)

LEMMA MoveStepKeepsMoveIInv ==
  ASSUME MoveIInv, [MoveNext]_moveVars
  PROVE  MoveIInv'
<1>1. ASSUME NEW k \in Keys, NEW d \in Content, Save(k, d) PROVE MoveIInv'
  BY <1>1, SaveKeepsMoveIInv
<1>2. ASSUME NEW k \in Keys, NEW d \in Content, NEW f \in Dirs, OtherDeviceWrites(f, k, d)
      PROVE  MoveIInv'
  BY <1>2, OtherDeviceKeepsMoveIInv
<1>3. ASSUME NEW f \in Dirs, Choose(f) PROVE MoveIInv'
  BY <1>3, ChooseKeepsMoveIInv
<1>4. ASSUME NEW some \in SUBSET Texts, NEW cut \in SUBSET Texts, CopySomeImages(some, cut)
      PROVE  MoveIInv'
  BY <1>4, CopySomeImagesKeepsMoveIInv
<1>5. ASSUME NEW some \in SUBSET Keys, CopyRecords(some) PROVE MoveIInv'
  BY <1>5, CopyRecordsKeepsMoveIInv
<1>6. ASSUME NEW some \in SUBSET Keys, MergeRecords(some) PROVE MoveIInv'
  BY <1>6, MergeRecordsKeepsMoveIInv
<1>7. CopyImages \/ Switch \/ Fail \/ Restart \/ RestartWithout => MoveIInv'
  BY CopyImagesKeepsMoveIInv, SwitchKeepsMoveIInv, FailKeepsMoveIInv,
     RestartKeepsMoveIInv, RestartWithoutKeepsMoveIInv
<1>10. ASSUME NEW some \in SUBSET Texts, MergeImages(some) PROVE MoveIInv'
  BY <1>10, MergeImagesKeepsMoveIInv
<1>8. ASSUME UNCHANGED moveVars PROVE MoveIInv'
  <2>1. UNCHANGED <<recs, image, manifest, dir, pointer, cache, move, clock, saved, mishaps>>
    BY <1>8 DEF moveVars, trees, moveHistory
  <2>2. ImagesMatch'
    BY <2>1 DEF MoveIInv, ImagesMatch, ImageMatches, KeepsImage
  <2>3. QED
    BY <2>1, <2>2
       DEF MoveIInv, MoveTypeOK, RecordsAreDated, SavesAreIn, CacheIsCurrent, RecordsAreMoved
<1>9. QED
  BY <1>1, <1>2, <1>3, <1>4, <1>5, <1>6, <1>7, <1>8, <1>10 DEF MoveNext

(* What the moves rest on: a record's time tells versions apart, the       *)
(* records of a directory moved to are never behind, and an image, its     *)
(* entry and its book agree unless bringing images to a directory was      *)
(* broken off (mod.rs: relocate, media_assets.rs).                         *)
THEOREM MoveInvariance == MoveSpec => []MoveIInv
<1>1. MoveInit => MoveIInv
  BY InitMoveIInv
<1>2. MoveIInv /\ [MoveNext]_moveVars => MoveIInv'
  BY MoveStepKeepsMoveIInv
<1>3. QED
  BY <1>1, <1>2, PTL DEF MoveSpec

(* Whatever step of a move fails or is the last one, the directory that    *)
(* the next start uses has every save or a newer version of it, unless a   *)
(* start found a directory gone; the cache shows what the directory in     *)
(* use holds (mod.rs:235-256).                                             *)
THEOREM SavesAreFound == MoveSpec => []SavesAreWhereTheStoreIs
<1>1. MoveIInv => SavesAreWhereTheStoreIs
  BY DEF MoveIInv, SavesAreIn, CacheIsCurrent, SavesAreWhereTheStoreIs
<1>2. QED
  BY <1>1, MoveInvariance, PTL

LEMMA FaultsAreCounted == MoveSpec => [](faults \in Nat)
<1>1. MoveInit => faults \in Nat
  BY DEF MoveInit
<1>2. [MoveNext]_moveVars => faults' \in {faults, faults + 1}
  <2>1. \A k \in Keys, d \in Content : Save(k, d) => faults' = faults
    BY DEF Save
  <2>2. \A f \in Dirs, k \in Keys, d \in Content : OtherDeviceWrites(f, k, d) => faults' = faults
    BY DEF OtherDeviceWrites
  <2>3. \A f \in Dirs : Choose(f) => faults' = faults
    BY DEF Choose
  <2>4. \A some, cut \in SUBSET Texts : CopySomeImages(some, cut) => faults' = faults + 1
    BY DEF CopySomeImages
  <2>5. \A some \in SUBSET Keys :
          CopyRecords(some) \/ MergeRecords(some) => faults' \in {faults, faults + 1}
    BY DEF CopyRecords, MergeRecords
  <2>9. \A some \in SUBSET Texts : MergeImages(some) => faults' \in {faults, faults + 1}
    BY DEF MergeImages
  <2>6. CopyImages \/ Switch \/ Restart \/ UNCHANGED moveVars => faults' = faults
    BY DEF CopyImages, Switch, Restart, moveVars, moveHistory
  <2>7. Fail \/ RestartWithout => faults' = faults + 1
    BY DEF Fail, RestartWithout
  <2>8. QED
    BY <2>1, <2>2, <2>3, <2>4, <2>5, <2>6, <2>7, <2>9 DEF MoveNext
<1>3. faults \in Nat /\ [MoveNext]_moveVars => (faults \in Nat)'
  BY <1>2
<1>4. QED
  BY <1>1, <1>3, PTL DEF MoveSpec

\* The step that completes a move is the switch.
LEMMA MoveIsSwitch ==
  ASSUME MoveIInv, faults \in Nat, [MoveNext]_moveVars, Moves
  PROVE  dir' = move.to /\ UNCHANGED <<recs, image>> /\ move.at = "switch"
<1>1. move.at = "switch" /\ dir' = move.to /\ faults' = faults
  BY DEF Moves
<1>2. move # Settled /\ move.to # dir /\ pointer = dir
  BY <1>1, MoveCases DEF MoveIInv, Settled
<1>3. Switch
  <2>1. dir' # dir
    BY <1>1, <1>2
  <2>2. ~Restart /\ ~UNCHANGED moveVars /\ ~Fail
    BY <1>2, <2>1 DEF Restart, Fail, moveVars
  <2>3. ~RestartWithout
    <3>1. SUFFICES ASSUME RestartWithout PROVE FALSE
      OBVIOUS
    <3>2. faults' = faults + 1
      BY <3>1 DEF RestartWithout
    <3>3. QED
      BY <1>1, <3>2
  <2>4. QED
    BY <1>1, <1>2, <2>1, <2>2, <2>3
       DEF MoveNext, Save, OtherDeviceWrites, Choose, CopySomeImages, CopyRecords, MergeRecords,
           CopyImages, MergeImages
<1>4. QED
  BY <1>1, <1>3 DEF Switch, trees

(* No record of either directory is missing after a move, and none is      *)
(* replaced by one that its own version descends from (mod.rs:             *)
(* merge_data_dir, merge.rs).                                              *)
LEMMA MovesKeepRecords == MoveSpec => MovesKeepBothSides
<1> DEFINE Kept == \A k \in Keys :
                     LET ends == recs[dir'][k]
                     IN  \A r \in {recs[dir][k], move.found[k]} \ {None} :
                           ends # None /\ ~Descends(r.causal, ends.causal)
<1>1. ASSUME MoveIInv, faults \in Nat, [MoveNext]_moveVars, Moves PROVE Kept
  BY <1>1, MoveIsSwitch DEF MoveIInv, RecordsAreMoved, Supersedes
<1>2. MoveIInv /\ faults \in Nat /\ [MoveNext]_moveVars => [Moves => Kept]_moveVars
  BY <1>1
<1>3. QED
  BY <1>2, MoveInvariance, FaultsAreCounted, PTL DEF MoveSpec, MovesKeepBothSides

(* The image that goes with a book's version is there after a move if the  *)
(* version is, unless bringing images to a directory was broken off before *)
(* (mod.rs:606, media_assets.rs).                                          *)
LEMMA UnbrokenMovesAreWhole == MoveSpec => UnbrokenMovesKeepImages
<1>1. ASSUME MoveIInv, faults \in Nat, [MoveNext]_moveVars, Moves, "broken" \notin mishaps PROVE KeepsImages
  <2>1. dir' = move.to /\ UNCHANGED <<recs, image>> /\ move.at = "switch"
    BY <1>1, MoveIsSwitch
  <2>2. \A t \in Texts : KeepsImage(move.to, t)
    BY <1>1, <2>1 DEF MoveIInv, ImagesMatch
  <2>3. QED
    BY <2>1, <2>2 DEF KeepsImage, KeepsImages
<1>2. MoveIInv /\ faults \in Nat /\ [MoveNext]_moveVars => [Moves /\ "broken" \notin mishaps => KeepsImages]_moveVars
  BY <1>1
<1>3. QED
  BY <1>2, MoveInvariance, FaultsAreCounted, PTL DEF MoveSpec, UnbrokenMovesKeepImages

(* A move to a directory with data loses nothing that either directory     *)
(* had, nor does one to an empty directory, but for images after bringing  *)
(* them to one was broken off (mod.rs: relocate).                          *)
THEOREM MovesAreWhole == MoveSpec => MovesLoseNothing
BY MovesKeepRecords, UnbrokenMovesAreWhole DEF MovesLoseNothing
===============================================================================
