----------------------------- MODULE ReadingProof -----------------------------
(***************************************************************************)
(* Proofs about Speech, for any number of sentences, of readings and words *)
(* asked for, and on each of the three voices: at most one text sounds.    *)
(* And about the Reader, for any books of any number of pages: it shows    *)
(* the open page, at the place where the book was left.                    *)
(***************************************************************************)
EXTENDS Speech, Reader, FiniteSetTheorems, SequenceTheorems, TLAPS

\* What the page s still expects to sound, or listens to.
Sounding(s) == ({s.listener, s.fetch, s.audio} \cup Range(s.queue)) \ {None}

\* What a task may be spoken by.
Suits(u) == u.how = platform \/ (platform = "android" /\ u.how = "local")

\* A task of the text being read; its handlers would read on.
Tells(s, u) == u.kind = "text" /\ u.session = s.session

\* The page, whatever the platform: nothing sounds that was stopped, no text
\* when none is read.
Sane(s) ==
  /\ s \in Page
  /\ \A u \in Sounding(s) : u.session = s.session
  /\ \A u \in Sounding(s) \cup s.gone : Suits(u)
  /\ \A u \in s.waits : u.how = platform
  /\ platform = "android" => s.fetch = None /\ s.audio = None
  /\ platform # "android" => s.listener = None /\ s.paused = None /\ s.waits = {}
  /\ s.button = "stop" => s.finish
  /\ s.finish => s.speaking
  /\ ~s.speaking => \A u \in Sounding(s) \cup s.gone : ~Tells(s, u)

\* Where a text may be on Android.
InQueue(s) == \E i \in DOMAIN s.queue : s.queue[i].kind = "text"
InGone(s) == \E u \in s.gone : Tells(s, u)
InWaits(s) == \E u \in s.waits : u.kind = "text"
Listens(s) == s.listener.kind = "text"

\* It is in one place only, and while it waits there is none to take up.
OneText(s) ==
  /\ \A i, j \in DOMAIN s.queue : s.queue[i].kind = "text" /\ s.queue[j].kind = "text" => i = j
  /\ \A u, w \in s.gone : Tells(s, u) /\ Tells(s, w) => u = w
  /\ \A u, w \in s.waits : u.kind = "text" /\ w.kind = "text" => u = w
  /\ InQueue(s) => ~InGone(s) /\ ~Listens(s)
  /\ InGone(s) => ~Listens(s)
  /\ InWaits(s) => ~InQueue(s) /\ ~InGone(s) /\ ~Listens(s) /\ s.paused = None

\* The other voices: one task at a time, of what was asked for last.
Alone(s, ask) ==
  /\ Len(s.queue) <= 1
  /\ s.fetch # None => s.audio = None /\ s.queue = <<>>
  /\ s.audio # None => s.queue = <<>>
  /\ \A u \in Sounding(s) : u.ask = ask
  /\ \A u \in s.gone : u.session # s.session

IInv ==
  /\ SpeechTypeOK /\ Sane(tts)
  /\ ~ready => tts.paused = None
  /\ platform = "android" /\ hidden => ~tts.speaking
  /\ platform = "android" /\ ~overlapped => OneText(tts)
  /\ platform # "android" => Alone(tts, asks) /\ ~overlapped
-------------------------------------------------------------------------------
(* Nothing sounds, and nothing is left that would go on by itself: where   *)
(* the operators of the page start from.                                   *)
Quiet(s, over) ==
  /\ platform = "android" /\ ~over => ~InQueue(s) /\ ~InGone(s) /\ ~Listens(s) /\ ~InWaits(s)
  /\ platform # "android" =>
       /\ s.queue = <<>> /\ s.fetch = None /\ s.audio = None
       /\ \A u \in s.gone : u.session # s.session

\* One text, or one task: where they end.
Lone(s, over, ask) ==
  /\ platform = "android" /\ ~over => OneText(s)
  /\ platform # "android" => Alone(s, ask)

\* Of the texts that wait there is one, and none to take up.
WaitsOnce(s, over) ==
  platform = "android" /\ ~over =>
    /\ \A u, w \in s.waits : u.kind = "text" /\ w.kind = "text" => u = w
    /\ InWaits(s) => s.paused = None

\* A sentence that may be read, or the end of the text.
Step == [session : Nat, kind : {"text"}, how : {"local", "edge", "android"},
         index : 1..Sentences + 1, ask : Nat]

-------------------------------------------------------------------------------
(* Sequences and records.                                                  *)
LEMMA RangeOfOne ==
  ASSUME NEW u
  PROVE  Range(<<u>>) = {u} /\ Range(<<>>) = {}
BY DEF Range

LEMMA RangeOfAppend ==
  ASSUME NEW S, NEW q \in Seq(S), NEW u \in S
  PROVE  Range(Append(q, u)) = Range(q) \cup {u}
<1>1. /\ Append(q, u) \in Seq(S) /\ Len(Append(q, u)) = Len(q) + 1 /\ Len(q) \in Nat
      /\ DOMAIN q = 1..Len(q) /\ DOMAIN Append(q, u) = 1..Len(q) + 1
      /\ \A i \in 1..Len(q) : Append(q, u)[i] = q[i]
      /\ Append(q, u)[Len(q) + 1] = u
  OBVIOUS
<1> QED
  BY <1>1, SMT DEF Range

LEMMA RangeOfTail ==
  ASSUME NEW S, NEW q \in Seq(S), q # <<>>
  PROVE  Head(q) \in Range(q) /\ Range(Tail(q)) \subseteq Range(q)
<1>1. /\ Len(q) \in Nat /\ Len(q) >= 1 /\ DOMAIN q = 1..Len(q)
      /\ Head(q) = q[1] /\ DOMAIN Tail(q) = 1..Len(q) - 1
      /\ \A i \in 1..Len(q) - 1 : Tail(q)[i] = q[i + 1]
  OBVIOUS
<1> QED
  BY <1>1, SMT DEF Range

LEMMA NoneIsNoTask ==
  /\ None \notin Task /\ None \notin Chain /\ None.kind = "none" /\ None.session = -1
  /\ \A u \in Step : u.index <= Sentences => u \in Task
BY SpeechAssumption DEF None, Task, Chain, Step

LEMMA PageFields ==
  ASSUME NEW s \in Page
  PROVE  /\ s.session \in Nat /\ s.speaking \in BOOLEAN /\ s.finish \in BOOLEAN
         /\ s.button \in {"play", "stop"} /\ s.waits \subseteq Task
         /\ s.listener \in Maybe /\ s.queue \in Seq(Task) /\ s.fetch \in Maybe
         /\ s.audio \in Maybe /\ s.gone \subseteq Task /\ s.paused \in Chain \cup {None}
BY DEF Page

-------------------------------------------------------------------------------
(* The operators of the page.                                              *)

LEMMA StopFields ==
  ASSUME NEW s \in Page, NEW T, T = Stop(s)
  PROVE  /\ T \in Page /\ T.session = s.session + 1 /\ ~T.speaking /\ ~T.finish
         /\ T.button = (IF s.finish THEN "play" ELSE s.button)
         /\ T.waits = s.waits /\ T.paused = s.paused /\ T.listener = None
         /\ T.queue = <<>> /\ T.fetch = None /\ T.audio = None
         /\ T.gone = (Range(s.queue) \cup {s.fetch}) \ {None}
<1>1. Range(s.queue) \subseteq Task
  BY PageFields DEF Range
<1>2. (Range(s.queue) \cup {s.fetch}) \ {None} \subseteq Task
  BY <1>1, PageFields DEF Maybe
<1>3. T = [session |-> s.session + 1, speaking |-> FALSE, finish |-> FALSE,
           button |-> IF s.finish THEN "play" ELSE s.button, waits |-> s.waits,
           listener |-> None, queue |-> <<>>, fetch |-> None, audio |-> None,
           gone |-> (Range(s.queue) \cup {s.fetch}) \ {None}, paused |-> s.paused]
  BY DEF Stop, Page
<1>4. T \in Page
  <2>1. s.session + 1 \in Nat /\ (IF s.finish THEN "play" ELSE s.button) \in {"play", "stop"}
    BY PageFields
  <2> QED
    BY <1>2, <1>3, <2>1, PageFields DEF Page, Maybe
<1> QED
  BY <1>3, <1>4

LEMMA StopIsSane ==
  ASSUME NEW s, Sane(s), NEW T, T = Stop(s)
  PROVE  Sane(T) /\ Sounding(T) = {} /\ \A u \in T.gone : u.session # T.session
<1>1. /\ T \in Page /\ T.session = s.session + 1 /\ ~T.speaking /\ ~T.finish
      /\ T.button = (IF s.finish THEN "play" ELSE s.button)
      /\ T.waits = s.waits /\ T.paused = s.paused /\ T.listener = None
      /\ T.queue = <<>> /\ T.fetch = None /\ T.audio = None
      /\ T.gone = (Range(s.queue) \cup {s.fetch}) \ {None}
  BY StopFields DEF Sane
<1>2. Sounding(T) = {}
  BY <1>1 DEF Sounding, Range
<1>3. T.gone \subseteq Sounding(s)
  BY <1>1 DEF Sounding
<1>4. \A u \in T.gone : u.session # T.session
  BY <1>1, <1>3, PageFields DEF Sane
<1>5. \A u \in Sounding(T) \cup T.gone : Suits(u)
  BY <1>1, <1>2, <1>3 DEF Sane
<1>6. \A u \in Sounding(T) \cup T.gone : ~Tells(T, u)
  BY <1>2, <1>4 DEF Tells
<1>7. T.button # "stop"
  BY <1>1 DEF Sane
<1> QED
  BY <1>1, <1>2, <1>4, <1>5, <1>6, <1>7 DEF Sane

LEMMA StopIsLone ==
  ASSUME NEW s, Sane(s), NEW T, T = Stop(s), NEW over, NEW ask, WaitsOnce(s, over)
  PROVE  Lone(T, over, ask)
<1>1. /\ T.queue = <<>> /\ T.waits = s.waits /\ T.paused = s.paused /\ T.listener = None
      /\ T.fetch = None /\ T.audio = None
  BY StopFields DEF Sane
<1>2. Sounding(T) = {} /\ \A u \in T.gone : u.session # T.session
  BY StopIsSane
<1>3. platform = "android" /\ ~over => OneText(T)
  BY <1>1, <1>2, NoneIsNoTask DEF WaitsOnce, OneText, InQueue, InGone, InWaits, Listens, Tells
<1>4. Alone(T, ask)
  BY <1>1, <1>2 DEF Alone
<1> QED
  BY <1>3, <1>4 DEF Lone

\* Where no text waits, none waits twice.
LEMMA QuietWaitsOnce ==
  ASSUME NEW s, NEW over, Quiet(s, over)
  PROVE  WaitsOnce(s, over)
BY DEF Quiet, WaitsOnce, InWaits

\* The browser's synthesizer is given a sentence.
LEMMA SayReads ==
  ASSUME NEW s, Sane(s), s.speaking, NEW over, NEW ask, Quiet(s, over),
         NEW u \in Task, Suits(u), Tells(s, u), platform # "android" => u.ask = ask,
         NEW T, T = Say(s, u)
  PROVE  Sane(T) /\ Lone(T, over, ask) /\ T.paused = s.paused /\ T.speaking
<1>0. /\ s \in Page /\ s.queue \in Seq(Task) /\ s.session \in Nat
  BY PageFields DEF Sane
<1>1. T = [s EXCEPT !.queue = Append(s.queue, u)]
  BY DEF Say
<1>2. Append(s.queue, u) \in Seq(Task)
  BY <1>0
<1>3. /\ T \in Page /\ T.queue = Append(s.queue, u) /\ T.session = s.session
      /\ T.speaking = s.speaking /\ T.finish = s.finish /\ T.button = s.button
      /\ T.waits = s.waits /\ T.listener = s.listener /\ T.fetch = s.fetch
      /\ T.audio = s.audio /\ T.gone = s.gone /\ T.paused = s.paused
  BY <1>0, <1>1, <1>2 DEF Page
<1>4. Sounding(T) = Sounding(s) \cup {u}
  <2>1. Range(T.queue) = Range(s.queue) \cup {u}
    <3>1. Range(Append(s.queue, u)) = Range(s.queue) \cup {u}
      BY <1>0, RangeOfAppend
    <3> QED
      BY <1>3, <3>1
  <2> QED
    BY <2>1, <1>3, NoneIsNoTask DEF Sounding
<1>5. Sane(T)
  BY <1>3, <1>4 DEF Sane, Tells
<1>6. ASSUME platform = "android", ~over PROVE OneText(T)
  <2>1. ~InQueue(s) /\ ~InGone(T) /\ ~Listens(T) /\ ~InWaits(T)
    BY <1>3, <1>6 DEF Quiet, InGone, Listens, InWaits, Tells
  <2>2. \A i, j \in DOMAIN T.queue :
          T.queue[i].kind = "text" /\ T.queue[j].kind = "text" => i = j
    <3>1. /\ DOMAIN T.queue = 1..Len(s.queue) + 1 /\ DOMAIN s.queue = 1..Len(s.queue)
          /\ Len(s.queue) \in Nat /\ \A i \in 1..Len(s.queue) : T.queue[i] = s.queue[i]
      BY <1>0, <1>3
    <3>2. \A i \in DOMAIN T.queue : T.queue[i].kind = "text" => i = Len(s.queue) + 1
      BY <2>1, <3>1 DEF InQueue
    <3> QED
      BY <3>2
  <2> QED
    BY <2>1, <2>2 DEF OneText, InGone, InWaits
<1>7. ASSUME platform # "android" PROVE Alone(T, ask)
  <2>1. /\ s.queue = <<>> /\ s.fetch = None /\ s.audio = None /\ s.listener = None
        /\ \A w \in s.gone : w.session # s.session
    BY <1>7 DEF Quiet, Sane
  <2>2. Sounding(T) = {u}
    BY <2>1, <1>4 DEF Sounding, Range
  <2>3. Len(T.queue) = 1
    BY <2>1, <1>3
  <2> QED
    BY <2>1, <2>2, <2>3, <1>3, <1>7 DEF Alone
<1> QED
  BY <1>3, <1>5, <1>6, <1>7 DEF Lone

\* An Edge voice is asked for a sentence or a word.
LEMMA FetchReads ==
  ASSUME NEW s, Sane(s), NEW over, NEW ask, Quiet(s, over),
         NEW u \in Task, u.how = "edge", Suits(u), u.session = s.session, u.ask = ask,
         u.kind = "text" => s.speaking,
         NEW T, T = [s EXCEPT !.fetch = u]
  PROVE  Sane(T) /\ Lone(T, over, ask) /\ T.paused = s.paused /\ T.speaking = s.speaking
<1>0. s \in Page /\ platform = "edge"
  BY DEF Sane, Suits
<1>1. /\ T \in Page /\ T.queue = s.queue /\ T.session = s.session
      /\ T.speaking = s.speaking /\ T.finish = s.finish /\ T.button = s.button
      /\ T.waits = s.waits /\ T.listener = s.listener /\ T.fetch = u
      /\ T.audio = s.audio /\ T.gone = s.gone /\ T.paused = s.paused
  BY <1>0 DEF Page, Maybe
<1>2. /\ s.queue = <<>> /\ s.fetch = None /\ s.audio = None /\ s.listener = None
      /\ \A w \in s.gone : w.session # s.session
  BY <1>0 DEF Quiet, Sane
<1>3. Sounding(T) = {u}
  BY <1>1, <1>2, NoneIsNoTask DEF Sounding, Range
<1>4. Sane(T)
  BY <1>0, <1>1, <1>3 DEF Sane, Tells
<1>5. Len(T.queue) <= 1
  BY <1>1, <1>2
<1> QED
  BY <1>0, <1>1, <1>2, <1>3, <1>4, <1>5 DEF Lone, Alone

\* The Android engine is asked for a sentence.
LEMMA EngineReads ==
  ASSUME NEW s, Sane(s), s.speaking, NEW over, NEW ask, Quiet(s, over),
         NEW u \in Task, u.how = "android", Suits(u), Tells(s, u),
         NEW T, T = [s EXCEPT !.listener = u]
  PROVE  Sane(T) /\ Lone(T, over, ask) /\ T.paused = s.paused /\ T.speaking
<1>0. s \in Page /\ platform = "android"
  BY DEF Sane, Suits
<1>1. /\ T \in Page /\ T.queue = s.queue /\ T.session = s.session
      /\ T.speaking = s.speaking /\ T.finish = s.finish /\ T.button = s.button
      /\ T.waits = s.waits /\ T.listener = u /\ T.fetch = s.fetch
      /\ T.audio = s.audio /\ T.gone = s.gone /\ T.paused = s.paused
  BY <1>0 DEF Page, Maybe
<1>2. Sounding(T) \subseteq Sounding(s) \cup {u}
  BY <1>1 DEF Sounding
<1>3. Sane(T)
  BY <1>0, <1>1, <1>2 DEF Sane, Tells
<1>4. ASSUME ~over PROVE OneText(T)
  BY <1>0, <1>1, <1>4 DEF Quiet, OneText, InQueue, InGone, InWaits, Tells
<1> QED
  BY <1>0, <1>1, <1>3, <1>4 DEF Lone

\* A page that expects less is as sane as before.
LEMMA LessIsSane ==
  ASSUME NEW s, Sane(s), NEW T \in Page, T.session = s.session, T.speaking = s.speaking,
         T.finish = s.finish, T.button = s.button, Sounding(T) \subseteq Sounding(s),
         T.gone \subseteq s.gone, T.waits \subseteq s.waits, T.fetch \in {None, s.fetch},
         T.audio \in {None, s.audio}, T.listener \in {None, s.listener},
         T.paused \in {None, s.paused}
  PROVE  Sane(T)
BY DEF Sane, Tells

\* The listener is forgotten.
LEMMA Unheard ==
  ASSUME NEW s, Sane(s), NEW T, T = [s EXCEPT !.listener = None]
  PROVE  /\ Sane(T) /\ T.session = s.session /\ T.speaking = s.speaking
         /\ T.queue = s.queue /\ T.gone = s.gone /\ T.waits = s.waits /\ T.listener = None
         /\ T.fetch = s.fetch /\ T.audio = s.audio /\ T.paused = s.paused
<1>1. /\ T \in Page /\ T.queue = s.queue /\ T.session = s.session
      /\ T.speaking = s.speaking /\ T.finish = s.finish /\ T.button = s.button
      /\ T.waits = s.waits /\ T.listener = None /\ T.fetch = s.fetch
      /\ T.audio = s.audio /\ T.gone = s.gone /\ T.paused = s.paused
  BY DEF Sane, Page, Maybe
<1>2. Sounding(T) \subseteq Sounding(s)
  BY <1>1 DEF Sounding
<1> QED
  BY <1>1, <1>2, LessIsSane

LEMMA QuietIsLone ==
  ASSUME NEW s, Sane(s), NEW over, NEW ask, Quiet(s, over)
  PROVE  Lone(s, over, ask)
<1>1. platform # "android" => Len(s.queue) <= 1 /\ Sounding(s) = {}
  BY DEF Quiet, Sane, Sounding, Range
<1> QED
  BY <1>1 DEF Quiet, Lone, OneText, Alone, InQueue, InGone, InWaits, Listens

\* Reading goes on in silence, and is then the one thing that sounds.
LEMMA ReadNextIsLone ==
  ASSUME NEW s, Sane(s), NEW over, NEW ask, Quiet(s, over),
         NEW u \in Step, Suits(u), Tells(s, u), platform # "android" => u.ask = ask,
         NEW accepted, NEW T, T = ReadNext(s, u, accepted)
  PROVE  Sane(T) /\ Lone(T, over, ask) /\ T.paused = s.paused /\ (T.speaking => s.speaking)
<1>1. ASSUME NEW S, Sane(S), Quiet(S, over), NEW R, R = Stop(S)
      PROVE  Sane(R) /\ Lone(R, over, ask) /\ R.paused = S.paused /\ ~R.speaking
  <2>1. R.paused = S.paused /\ ~R.speaking
    BY <1>1, StopFields DEF Sane
  <2> QED
    BY <1>1, <2>1, StopIsSane, StopIsLone, QuietWaitsOnce
<1>2. CASE ~s.speaking \/ u.index > Sentences
  BY <1>1, <1>2 DEF ReadNext
<1>3. CASE s.speaking /\ u.index <= Sentences
  <2>0. u \in Task /\ ~(~s.speaking \/ u.index > Sentences)
    BY <1>3, NoneIsNoTask, SpeechAssumption DEF Step
  <2>1. CASE u.how = "local"
    <3>1. T = IF synth THEN Say(s, u) ELSE s
      BY <2>0, <2>1 DEF ReadNext, ReadNextLocal
    <3> QED
      BY <3>1, <2>0, <1>3, SayReads, QuietIsLone
  <2>2. CASE u.how = "edge"
    <3>1. u.ask = ask
      BY <2>2 DEF Suits
    <3> QED
      BY <3>1, <2>2, <2>0, <1>3, FetchReads DEF ReadNext, Tells
  <2>3. CASE u.how = "android"
    <3> DEFINE S == [s EXCEPT !.listener = None]
    <3>1. T = IF accepted THEN [s EXCEPT !.listener = u]
              ELSE IF synth THEN Say(S, u) ELSE Stop(s)
      BY <2>0, <2>3 DEF ReadNext, ReadNextAndroid
    <3>2. /\ Sane(S) /\ S.speaking /\ Tells(S, u) /\ S.paused = s.paused /\ S.queue = s.queue
          /\ S.gone = s.gone /\ S.waits = s.waits /\ S.fetch = s.fetch /\ S.audio = s.audio
          /\ S.session = s.session /\ S.listener = None
      BY <1>3, Unheard DEF Tells
    <3> HIDE DEF S
    <3>3. Quiet(S, over)
      BY <3>2, NoneIsNoTask DEF Quiet, InQueue, InGone, InWaits, Listens, Tells
    <3> QED
      BY <3>1, <3>2, <3>3, <2>0, <2>3, <1>1, <1>3, SayReads, EngineReads
  <2> QED
    BY <2>1, <2>2, <2>3 DEF Step
<1> QED
  BY <1>2, <1>3, SpeechAssumption DEF Step

\* A sentence that has ended is followed by the next, if it is of the text
\* being read, and nothing else sounds.
LEMMA EndedIsLone ==
  ASSUME NEW s, Sane(s), NEW over, NEW ask, Lone(s, over, ask),
         NEW u \in Task, Suits(u), Tells(s, u) => Quiet(s, over),
         platform # "android" /\ Tells(s, u) => u.ask = ask, NEW accepted,
         NEW T, T = Ended(s, u, accepted)
  PROVE  Sane(T) /\ Lone(T, over, ask) /\ T.paused = s.paused /\ (T.speaking => s.speaking)
<1>1. CASE u.kind = "text" /\ Current(s, u)
  <2> DEFINE n == Next1(u)
  <2>1. /\ n \in Step /\ n.kind = "text" /\ n.session = u.session /\ n.how = u.how
        /\ n.ask = u.ask
    BY <1>1, SpeechAssumption DEF Next1, Task, Step
  <2>2. T = ReadNext(s, n, accepted)
    BY <1>1 DEF Ended
  <2> HIDE DEF n
  <2>3. Suits(n) /\ Tells(s, n) /\ Tells(s, u)
    BY <1>1, <2>1 DEF Suits, Tells, Current
  <2> QED
    BY <2>1, <2>2, <2>3, ReadNextIsLone
<1>2. CASE ~(u.kind = "text" /\ Current(s, u))
  BY <1>2 DEF Ended
<1> QED
  BY <1>1, <1>2

\* The browser's synthesizer is given a word, and drops what it spoke.
LEMMA SayWordIsLone ==
  ASSUME NEW s, Sane(s), NEW over, NEW ask, Lone(s, over, ask),
         NEW u \in Task, u.kind = "word", Suits(u), u.session = s.session,
         platform # "android" =>
           u.ask = ask /\ s.queue = <<>> /\ s.fetch = None /\ s.audio = None,
         NEW T, T = SayWord(s, u)
  PROVE  Sane(T) /\ Lone(T, over, ask) /\ T.paused = s.paused /\ T.speaking = s.speaking
<1>1. CASE ~synth
  BY <1>1 DEF SayWord
<1>2. CASE synth
  <2>0. s \in Page /\ Range(s.queue) \subseteq Task
    BY PageFields DEF Sane, Range
  <2>7. <<u>> \in Seq(Task) /\ T = [s EXCEPT !.queue = <<u>>, !.gone = Range(s.queue)]
    BY <1>2 DEF SayWord
  <2>1. /\ T \in Page /\ T.queue = <<u>> /\ T.session = s.session
        /\ T.speaking = s.speaking /\ T.finish = s.finish /\ T.button = s.button
        /\ T.waits = s.waits /\ T.listener = s.listener /\ T.fetch = s.fetch
        /\ T.audio = s.audio /\ T.gone = Range(s.queue) /\ T.paused = s.paused
    BY <2>0, <2>7 DEF Page
  <2>2. Sounding(T) \subseteq Sounding(s) \cup {u} /\ T.gone \subseteq Sounding(s) \cup {None}
    BY <2>1, RangeOfOne DEF Sounding
  <2>3. T.gone \subseteq Sounding(s)
    BY <2>0, <2>1, <2>2, NoneIsNoTask
  <2>4. Sane(T)
    BY <2>1, <2>2, <2>3 DEF Sane, Tells
  <2>5. ASSUME platform = "android", ~over PROVE OneText(T)
    <3>1. OneText(s)
      BY <2>5 DEF Lone
    <3>2. ~InQueue(T)
      BY <2>1 DEF InQueue
    <3>3. /\ InGone(T) => InQueue(s)
          /\ \A v, w \in T.gone : Tells(T, v) /\ Tells(T, w) => v = w
      BY <2>1, <3>1 DEF InGone, InQueue, OneText, Range, Tells
    <3>4. Listens(T) = Listens(s) /\ InWaits(T) = InWaits(s)
      BY <2>1 DEF Listens, InWaits
    <3> QED
      BY <2>1, <3>1, <3>2, <3>3, <3>4 DEF OneText, InQueue
  <2>6. ASSUME platform # "android" PROVE Alone(T, ask)
    <3>1. T.gone = {} /\ Len(T.queue) = 1 /\ T.fetch = None /\ T.audio = None
      BY <2>1, <2>6, RangeOfOne
    <3>2. Sounding(T) \subseteq {u}
      BY <2>1, <2>6, <3>1, RangeOfOne DEF Sounding, Sane
    <3> QED
      BY <2>6, <3>1, <3>2 DEF Alone
  <2> QED
    BY <2>1, <2>4, <2>5, <2>6 DEF Lone
<1> QED
  BY <1>1, <1>2

-------------------------------------------------------------------------------
(* The wait for the Android engine.                                        *)

\* One more waits.
LEMMA AwaitsIsLone ==
  ASSUME platform = "android", NEW s, Sane(s), NEW over, NEW ask, Lone(s, over, ask),
         NEW u \in Task, u.how = "android",
         u.kind = "text" /\ ~over => Quiet(s, over) /\ s.paused = None,
         NEW T, T = [s EXCEPT !.waits = @ \cup {u}]
  PROVE  Sane(T) /\ Lone(T, over, ask) /\ T.paused = s.paused /\ T.speaking = s.speaking
<1>1. s \in Page /\ s.waits \cup {u} \in SUBSET Task
  BY PageFields DEF Sane
<1>2. /\ T \in Page /\ T.queue = s.queue /\ T.session = s.session
      /\ T.speaking = s.speaking /\ T.finish = s.finish /\ T.button = s.button
      /\ T.waits = s.waits \cup {u} /\ T.listener = s.listener /\ T.fetch = s.fetch
      /\ T.audio = s.audio /\ T.gone = s.gone /\ T.paused = s.paused
  BY <1>1 DEF Page
<1>3. Sounding(T) = Sounding(s)
  BY <1>2 DEF Sounding
<1>4. Sane(T)
  BY <1>2, <1>3 DEF Sane, Tells
<1>5. ASSUME ~over PROVE OneText(T)
  <2>1. OneText(s) /\ (InQueue(T) = InQueue(s)) /\ (InGone(T) = InGone(s)) /\ (Listens(T) = Listens(s))
    BY <1>2, <1>5 DEF Lone, InQueue, InGone, Listens, Tells
  <2>2. CASE u.kind = "text"
    BY <1>2, <1>5, <2>1, <2>2 DEF Quiet, OneText, InWaits, Tells
  <2>3. CASE u.kind # "text"
    BY <1>2, <2>1, <2>3 DEF OneText, InWaits, Tells
  <2> QED
    BY <2>2, <2>3
<1> QED
  BY <1>2, <1>4, <1>5 DEF Lone

\* The wait of u is over.
LEMMA WaitedIsLone ==
  ASSUME platform = "android", NEW s, Sane(s), NEW over, NEW ask, Lone(s, over, ask),
         NEW u \in Task, u.how = "android", u.kind = "text" => Quiet(s, over),
         NEW accepted, NEW T, T = Waited(s, u, accepted)
  PROVE  /\ Sane(T) /\ Lone(T, over, ask) /\ (T.paused # s.paused => ready)
         /\ (T.speaking => s.speaking)
<1>0. s \in Page /\ s.session \in Nat
  BY PageFields DEF Sane
<1>1. CASE u.kind = "word" /\ Current(s, u)
  <2> DEFINE S == [s EXCEPT !.listener = u]
  <2>1. T = IF accepted THEN S ELSE SayWord(s, u)
    BY <1>1 DEF Waited
  <2>2. /\ S \in Page /\ S.queue = s.queue /\ S.session = s.session
        /\ S.speaking = s.speaking /\ S.finish = s.finish /\ S.button = s.button
        /\ S.waits = s.waits /\ S.listener = u /\ S.fetch = s.fetch
        /\ S.audio = s.audio /\ S.gone = s.gone /\ S.paused = s.paused
    BY <1>0 DEF Page, Maybe
  <2> HIDE DEF S
  <2>3. Suits(u) /\ u.session = s.session
    BY <1>1 DEF Suits, Current
  <2>4. Sane(S)
    <3>1. Sounding(S) \subseteq Sounding(s) \cup {u}
      BY <2>2 DEF Sounding
    <3> QED
      BY <1>1, <2>2, <2>3, <3>1 DEF Sane, Tells
  <2>5. Lone(S, over, ask)
    BY <1>1, <2>2 DEF Lone, OneText, InQueue, InGone, InWaits, Listens, Tells
  <2> QED
    BY <1>1, <2>1, <2>2, <2>3, <2>4, <2>5, SayWordIsLone
<1>2. CASE u.kind = "text" /\ s.speaking /\ ready
  <2> DEFINE n == [u EXCEPT !.session = s.session]
             S == [s EXCEPT !.paused = n]
  <2>1. n \in Chain /\ n \in Step /\ n.session = s.session /\ n.kind = "text" /\ n.how = "android"
    BY <1>0, <1>2, SpeechAssumption DEF Chain, Step, Task
  <2>2. T = ReadNext(S, n, accepted)
    BY <1>2 DEF Waited
  <2>3. /\ S \in Page /\ S.queue = s.queue /\ S.session = s.session
        /\ S.speaking = s.speaking /\ S.finish = s.finish /\ S.button = s.button
        /\ S.waits = s.waits /\ S.listener = s.listener /\ S.fetch = s.fetch
        /\ S.audio = s.audio /\ S.gone = s.gone /\ S.paused = n
    BY <1>0, <2>1 DEF Page
  <2> HIDE DEF n, S
  <2>4. Sounding(S) = Sounding(s)
    BY <2>3 DEF Sounding
  <2>5. Sane(S)
    BY <2>3, <2>4 DEF Sane, Tells
  <2>6. Quiet(S, over)
    BY <1>2, <2>3 DEF Quiet, InQueue, InGone, InWaits, Listens, Tells
  <2>7. Suits(n) /\ Tells(S, n)
    BY <2>1, <2>3 DEF Suits, Tells
  <2> QED
    BY <1>2, <2>1, <2>2, <2>3, <2>5, <2>6, <2>7, ReadNextIsLone
<1>3. CASE u.kind = "text" /\ s.speaking /\ ~ready
  <2> DEFINE m == [u EXCEPT !.session = s.session]
             n == [m EXCEPT !.how = "local"]
  <2>1. n \in Step /\ n.session = s.session /\ n.kind = "text" /\ n.how = "local"
    <3>1. m \in Step /\ m.session = s.session /\ m.kind = "text"
      BY <1>0, <1>3, SpeechAssumption DEF Step, Task
    <3> HIDE DEF m
    <3> QED
      BY <3>1 DEF Step
  <2>2. \E no : T = ReadNext(s, n, no)
    BY <1>3 DEF Waited
  <2> HIDE DEF n
  <2>3. Suits(n) /\ Tells(s, n)
    BY <2>1 DEF Suits, Tells
  <2> QED
    BY <1>3, <2>1, <2>2, <2>3, ReadNextIsLone
<1>4. CASE (u.kind = "word" /\ ~Current(s, u)) \/ (u.kind = "text" /\ ~s.speaking)
  BY <1>4 DEF Waited
<1> QED
  BY <1>1, <1>2, <1>3, <1>4 DEF Task

-------------------------------------------------------------------------------
(* What is asked for, when everything before it has been stopped.          *)
LEMMA BeginTextIsLone ==
  ASSUME NEW s, Sane(s), s.speaking, NEW over, NEW ask, Quiet(s, over),
         ~ready => s.paused = None,
         NEW u \in Task, Tells(s, u), u.how = platform, u.ask = ask,
         NEW accepted, NEW T, T = Begin(s, u, accepted)
  PROVE  Sane(T) /\ Lone(T, over, ask) /\ (T.paused # s.paused => ready)
<1>1. Lone(s, over, ask) /\ Suits(u) /\ u.kind = "text" /\ u \in Step
  BY QuietIsLone, SpeechAssumption DEF Suits, Tells, Step, Task
<1>2. CASE platform = "android" /\ ~ready
  BY <1>1, <1>2, AwaitsIsLone DEF Begin
<1>3. CASE platform = "android" /\ ready
  BY <1>1, <1>3, WaitedIsLone DEF Begin
<1>4. CASE platform # "android"
  <2>1. \E no : T = ReadNext(s, u, no)
    BY <1>1, <1>4 DEF Begin
  <2> QED
    BY <1>1, <1>4, <2>1, ReadNextIsLone
<1> QED
  BY <1>2, <1>3, <1>4

LEMMA BeginWordIsLone ==
  ASSUME NEW s, Sane(s), NEW over, NEW ask, Lone(s, over, ask),
         platform # "android" => Quiet(s, over),
         NEW u \in Task, u.kind = "word", u.session = s.session, u.how = platform, u.ask = ask,
         NEW accepted, NEW T, T = Begin(s, u, accepted)
  PROVE  /\ Sane(T) /\ Lone(T, over, ask) /\ (T.paused # s.paused => ready)
         /\ (T.speaking => s.speaking)
<1>1. Suits(u)
  BY DEF Suits
<1>2. CASE platform = "android" /\ ~ready
  BY <1>2, AwaitsIsLone DEF Begin
<1>3. CASE platform = "android" /\ ready
  BY <1>3, WaitedIsLone DEF Begin
<1>4. CASE platform = "edge"
  <2>1. T = [s EXCEPT !.fetch = u]
    BY <1>4 DEF Begin
  <2> QED
    BY <1>1, <1>4, <2>1, FetchReads
<1>5. CASE platform # "android" /\ platform # "edge"
  <2>1. T = SayWord(s, u)
    BY <1>5 DEF Begin
  <2> QED
    BY <1>1, <1>5, <2>1, SayWordIsLone DEF Quiet
<1> QED
  BY <1>2, <1>3, <1>4, <1>5

\* A voice has failed, and nothing else sounds.
LEMMA FallBackIsLone ==
  ASSUME platform # "android", NEW s, Sane(s), NEW over, NEW ask, Quiet(s, over),
         NEW u \in Task, Suits(u), u.session = s.session, u.ask = ask,
         NEW accepted, NEW T, T = FallBack(s, u, accepted)
  PROVE  Sane(T) /\ Lone(T, over, ask) /\ T.paused = s.paused /\ (T.speaking => s.speaking)
<1>1. Lone(s, over, ask)
  BY QuietIsLone
<1>2. CASE ~Current(s, u)
  BY <1>1, <1>2 DEF FallBack
<1>3. CASE Current(s, u) /\ u.kind = "word"
  <2>1. T = SayWord(s, u)
    BY <1>3 DEF FallBack
  <2> QED
    BY <1>1, <1>3, <2>1, SayWordIsLone DEF Quiet
<1>4. CASE Current(s, u) /\ u.kind = "text"
  <2>1. T = IF synth THEN Say(s, u) ELSE Ended(s, u, accepted)
    BY <1>4 DEF FallBack
  <2>2. Tells(s, u) /\ s.speaking
    BY <1>4 DEF Tells, Current
  <2> QED
    BY <1>1, <2>1, <2>2, SayReads, EndedIsLone
<1> QED
  BY <1>2, <1>3, <1>4 DEF Task

\* The utterance that is listened to has been heard.
LEMMA HeardIsLone ==
  ASSUME NEW over, NEW ask, Sane(tts), Lone(tts, over, ask), NEW status, NEW accepted,
         NEW T, T = Heard(tts.listener, status, accepted)
  PROVE  /\ Sane(T) /\ Lone(T, over, ask) /\ (T.paused # None => tts.paused # None)
         /\ (T.speaking => tts.speaking)
<1> DEFINE u == tts.listener
           S == [tts EXCEPT !.listener = None]
           P == [S EXCEPT !.paused = IF @ = None THEN @ ELSE [@ EXCEPT !.index = u.index + 1]]
<1>1. /\ Sane(S) /\ S.session = tts.session /\ S.speaking = tts.speaking
      /\ S.queue = tts.queue /\ S.gone = tts.gone /\ S.waits = tts.waits /\ S.listener = None
      /\ S.fetch = tts.fetch /\ S.audio = tts.audio /\ S.paused = tts.paused
  BY Unheard
<1>2. u \in Maybe /\ S \in Page /\ S.session \in Nat
  BY <1>1, PageFields DEF Sane
<1>3. T = IF ~Current(S, u) \/ u.kind = "word" THEN S
          ELSE IF status = "done" THEN Ended(P, u, accepted) ELSE Stop(S)
  BY DEF Heard
<1>4. /\ P = [S EXCEPT !.paused = IF tts.paused = None THEN None
                                  ELSE [tts.paused EXCEPT !.index = u.index + 1]]
  BY <1>1
<1> HIDE DEF S, P
<1>5. Lone(S, over, ask)
  <2>1. platform = "android" /\ ~over => OneText(S)
    BY <1>1, NoneIsNoTask DEF Lone, OneText, InQueue, InGone, InWaits, Listens, Tells
  <2>2. platform # "android" => Alone(S, ask)
    BY <1>1 DEF Lone, Alone, Sounding
  <2> QED
    BY <2>1, <2>2 DEF Lone
<1>6. CASE ~Current(S, u) \/ u.kind = "word"
  BY <1>1, <1>3, <1>5, <1>6
<1>7. CASE Current(S, u) /\ u.kind # "word"
  <2>1. u \in Task /\ u.kind = "text" /\ Tells(tts, u) /\ platform = "android"
    BY <1>1, <1>2, <1>7, NoneIsNoTask DEF Current, Maybe, Task, Tells, Sane
  <2>2. Suits(u) /\ u.index + 1 \in 1..Sentences + 1
    BY <2>1, NoneIsNoTask, SpeechAssumption DEF Sane, Sounding, Task
  <2>3. /\ P \in Page /\ P.queue = S.queue /\ P.session = S.session
        /\ P.speaking = S.speaking /\ P.finish = S.finish /\ P.button = S.button
        /\ P.waits = S.waits /\ P.listener = S.listener /\ P.fetch = S.fetch
        /\ P.audio = S.audio /\ P.gone = S.gone /\ (P.paused # None => tts.paused # None)
    <3>1. S.paused \in Chain \cup {None}
      BY <1>2, PageFields
    <3>2. tts.paused # None => [tts.paused EXCEPT !.index = u.index + 1] \in Chain
      BY <1>1, <2>2, <3>1 DEF Chain
    <3> QED
      BY <1>2, <1>4, <3>2 DEF Page
  <2>4. Sane(P)
    <3>1. Sounding(P) = Sounding(S)
      BY <2>3 DEF Sounding
    <3> QED
      BY <1>1, <2>1, <2>3, <3>1 DEF Sane, Tells
  <2>5. Quiet(S, over) /\ Quiet(P, over)
    BY <1>1, <2>1, <2>3, NoneIsNoTask DEF Quiet, Lone, OneText, InQueue, InGone, InWaits, Listens, Tells
  <2>6. Lone(P, over, ask)
    BY <2>4, <2>5, QuietIsLone
  <2>7. CASE status = "done"
    BY <1>1, <1>3, <1>7, <2>1, <2>2, <2>3, <2>4, <2>5, <2>6, <2>7, EndedIsLone
  <2>8. CASE status # "done"
    <3>1. T = Stop(S)
      BY <1>3, <1>7, <2>8
    <3>2. T.paused = S.paused /\ ~T.speaking
      BY <1>2, <3>1, StopFields
    <3> QED
      BY <1>1, <2>5, <3>1, <3>2, StopIsSane, StopIsLone, QuietWaitsOnce
  <2> QED
    BY <2>7, <2>8
<1> QED
  BY <1>6, <1>7

-------------------------------------------------------------------------------
(* Every step keeps the invariant.                                         *)

\* What a step of the page asks of the engine.
LEMMA BecomesTypes ==
  ASSUME SpeechTypeOK, NEW s \in Page, NEW accepted, Becomes(s, accepted)
  PROVE  /\ tts' = s /\ engine' \in Maybe /\ stops' \in Nat
         /\ events' \subseteq {"done", "error", "stopped"}
<1>1. s.listener \in Maybe
  BY PageFields
<1>2. stops' \in Nat
  BY DEF Becomes, SpeechTypeOK
<1> QED
  BY <1>1, <1>2 DEF Becomes, SpeechTypeOK

\* A step of the page to s, with or without something new asked for.
LEMMA PageStep ==
  ASSUME IInv, NEW s, Sane(s), NEW accepted, Becomes(s, accepted),
         overlapped' \in BOOLEAN, asks' \in Nat, hides' \in Nat, hidden' \in BOOLEAN,
         Lone(s, overlapped', asks'), platform # "android" => ~overlapped',
         s.paused # None => tts.paused # None \/ ready,
         platform = "android" /\ hidden' => ~s.speaking,
         UNCHANGED <<fixed, ready, backend>>
  PROVE  IInv'
<1>1. /\ tts' = s /\ engine' \in Maybe /\ stops' \in Nat
      /\ events' \subseteq {"done", "error", "stopped"} /\ s \in Page
  BY BecomesTypes DEF IInv, Sane
<1>2. /\ platform' = platform /\ synth' = synth /\ ready' = ready /\ busy' = busy
  BY DEF fixed, backend
<1>3. SpeechTypeOK'
  BY <1>1, <1>2 DEF IInv, SpeechTypeOK
<1>4. Sane(tts)'
  BY <1>1, <1>2 DEF Sane, Sounding, Suits, Tells
<1>5. (platform = "android" /\ ~overlapped => OneText(tts))'
  BY <1>1, <1>2 DEF Lone, OneText, InQueue, InGone, InWaits, Listens, Tells
<1>6. (platform # "android" => Alone(tts, asks) /\ ~overlapped)'
  BY <1>1, <1>2 DEF Lone, Alone, Sounding
<1>7. (~ready => tts.paused = None)'
  BY <1>1, <1>2 DEF IInv
<1>8. (platform = "android" /\ hidden => ~tts.speaking)'
  BY <1>1, <1>2
<1> QED
  BY <1>3, <1>4, <1>5, <1>6, <1>7, <1>8 DEF IInv

LEMMA LoneNow ==
  ASSUME IInv
  PROVE  Lone(tts, overlapped, asks) /\ WaitsOnce(tts, overlapped)
BY DEF IInv, Lone, WaitsOnce, OneText

LEMMA AskedIsTask ==
  ASSUME IInv, NEW s \in Page, NEW kind \in {"text", "word"}
  PROVE  /\ Asked(s, kind) \in Task /\ Asked(s, kind).kind = kind
         /\ Asked(s, kind).session = s.session /\ Asked(s, kind).how = platform
         /\ Asked(s, kind).ask = asks + 1
<1>1. s.session \in Nat /\ asks + 1 \in Nat /\ 1 \in 1..Sentences
  BY PageFields, SpeechAssumption DEF IInv, SpeechTypeOK
<1>2. platform \in {"local", "edge", "android"}
  BY SpeechAssumption DEF IInv, SpeechTypeOK
<1> QED
  BY <1>1, <1>2 DEF Asked, Task

LEMMA SpeakTextKeeps ==
  ASSUME IInv, SpeakText
  PROVE  IInv'
<1> DEFINE R == Stop(tts)
           s == [R EXCEPT !.speaking = TRUE, !.finish = TRUE, !.button = "stop"]
           u == Asked(s, "text")
<1>1. PICK accepted \in BOOLEAN : Becomes(Begin(s, u, accepted), accepted)
  BY DEF SpeakText
<1>2. /\ asks' = asks + 1 /\ asks \in Nat
      /\ overlapped' = (overlapped \/ InWaits(tts))
      /\ UNCHANGED <<fixed, ready, backend, hidden, hides>> /\ ~hidden
  BY DEF SpeakText, InWaits, IInv, SpeechTypeOK
<1>3. /\ Sane(R) /\ Sounding(R) = {} /\ \A w \in R.gone : w.session # R.session
  BY StopIsSane DEF IInv
<1>4. /\ R \in Page /\ R.waits = tts.waits /\ R.paused = tts.paused /\ R.listener = None
      /\ R.queue = <<>> /\ R.fetch = None /\ R.audio = None
  BY StopFields DEF IInv, Sane
<1> HIDE DEF R
<1>5. /\ s \in Page /\ s.queue = <<>> /\ s.session = R.session
      /\ s.speaking = TRUE /\ s.finish = TRUE /\ s.button = "stop"
      /\ s.waits = tts.waits /\ s.listener = None /\ s.fetch = None
      /\ s.audio = None /\ s.gone = R.gone /\ s.paused = tts.paused
  BY <1>4 DEF Page
<1> HIDE DEF s
<1>6. Sane(s)
  <2>1. Sounding(s) = {}
    BY <1>5 DEF Sounding, Range
  <2> QED
    BY <1>3, <1>4, <1>5, <2>1 DEF Sane
<1>7. Quiet(s, overlapped')
  <2>1. ~InQueue(s) /\ ~InGone(s) /\ ~Listens(s)
    BY <1>3, <1>5, NoneIsNoTask DEF InQueue, InGone, Listens, Tells
  <2>2. ~overlapped' => ~InWaits(s)
    BY <1>2, <1>5 DEF InWaits
  <2> QED
    BY <1>3, <1>5, <2>1, <2>2 DEF Quiet
<1>8. /\ u \in Task /\ u.kind = "text" /\ u.session = s.session /\ u.how = platform
      /\ u.ask = asks'
  BY <1>2, <1>5, AskedIsTask
<1>9. ~ready => s.paused = None
  BY <1>5 DEF IInv
<1> DEFINE T == Begin(s, u, accepted)
<1>10. Sane(T) /\ Lone(T, overlapped', asks') /\ (T.paused # s.paused => ready)
  <2> HIDE DEF u
  <2> QED
    BY <1>5, <1>6, <1>7, <1>8, <1>9, BeginTextIsLone DEF Tells
<1>11. platform # "android" => ~overlapped'
  BY <1>2 DEF IInv, Sane, InWaits
<1>12. overlapped' \in BOOLEAN
  BY <1>2 DEF IInv, SpeechTypeOK
<1>13. asks' \in Nat /\ hides' \in Nat /\ hidden' \in BOOLEAN /\ ~hidden'
  BY <1>2 DEF IInv, SpeechTypeOK
<1> HIDE DEF T
<1>14. Becomes(T, accepted)
  BY <1>1 DEF T
<1> QED
  BY <1>2, <1>5, <1>10, <1>11, <1>12, <1>13, <1>14, PageStep

LEMMA SpeakWordKeeps ==
  ASSUME IInv, SpeakWord
  PROVE  IInv'
<1> DEFINE s == Stop(tts)
           u == Asked(s, "word")
<1>1. PICK accepted \in BOOLEAN : Becomes(Begin(s, u, accepted), accepted)
  BY DEF SpeakWord
<1>2. /\ asks' = asks + 1 /\ asks \in Nat /\ overlapped' = overlapped
      /\ UNCHANGED <<fixed, ready, backend, hidden, hides>> /\ ~hidden
  BY DEF SpeakWord, IInv, SpeechTypeOK
<1>3. /\ Sane(s) /\ Sounding(s) = {} /\ \A w \in s.gone : w.session # s.session
      /\ Lone(s, overlapped, asks')
  BY StopIsSane, StopIsLone, LoneNow DEF IInv
<1>4. /\ s \in Page /\ s.paused = tts.paused /\ s.queue = <<>> /\ s.fetch = None /\ s.audio = None
  BY StopFields DEF IInv, Sane
<1>5. platform # "android" => Quiet(s, overlapped)
  BY <1>3, <1>4 DEF Quiet
<1> HIDE DEF s
<1>6. /\ u \in Task /\ u.kind = "word" /\ u.session = s.session /\ u.how = platform
      /\ u.ask = asks'
  BY <1>2, <1>4, AskedIsTask
<1> DEFINE T == Begin(s, u, accepted)
<1>7. Sane(T) /\ Lone(T, overlapped, asks') /\ (T.paused # s.paused => ready)
  <2> HIDE DEF u
  <2> QED
    BY <1>3, <1>5, <1>6, BeginWordIsLone
<1>8. /\ asks' \in Nat /\ hides' \in Nat /\ hidden' \in BOOLEAN /\ ~hidden'
      /\ overlapped' \in BOOLEAN /\ (platform # "android" => ~overlapped')
  BY <1>2 DEF IInv, SpeechTypeOK
<1>9. Becomes(T, accepted)
  BY <1>1
<1> HIDE DEF T
<1> QED
  BY <1>2, <1>4, <1>7, <1>8, <1>9, PageStep

\* A step of the page alone, to s.
LEMMA TtsStep ==
  ASSUME IInv, NEW s, Sane(s), NEW accepted, Becomes(s, accepted), Lone(s, overlapped, asks),
         s.paused # None => tts.paused # None \/ ready, s.speaking => tts.speaking,
         UNCHANGED <<fixed, ready, backend, user>>
  PROVE  IInv'
<1>1. /\ overlapped' = overlapped /\ asks' = asks /\ hides' = hides /\ hidden' = hidden
      /\ UNCHANGED <<fixed, ready, backend>>
  BY DEF user
<1>2. /\ overlapped \in BOOLEAN /\ asks \in Nat /\ hides \in Nat /\ hidden \in BOOLEAN
      /\ (platform # "android" => ~overlapped) /\ (platform = "android" /\ hidden => ~tts.speaking)
  BY DEF IInv, SpeechTypeOK
<1> QED
  BY <1>1, <1>2, PageStep

\* Stopping, for whatever reason.
LEMMA StoppedNow ==
  ASSUME IInv, NEW s, s = Stop(tts)
  PROVE  Sane(s) /\ Lone(s, overlapped, asks) /\ s.paused = tts.paused /\ ~s.speaking
<1>1. Sane(s) /\ Lone(s, overlapped, asks)
  BY StopIsSane, StopIsLone, LoneNow DEF IInv
<1>2. s.paused = tts.paused /\ ~s.speaking
  BY StopFields DEF IInv, Sane
<1> QED
  BY <1>1, <1>2

LEMMA StopReadingKeeps ==
  ASSUME IInv, StopReading
  PROVE  IInv'
<1>1. \E no : Becomes(Stop(tts), no)
  BY DEF StopReading
<1> QED
  BY <1>1, StoppedNow, TtsStep DEF StopReading

LEMMA HideKeeps ==
  ASSUME IInv, Hide
  PROVE  IInv'
<1> DEFINE s == IF tts.speaking /\ platform = "android" THEN Stop(tts) ELSE tts
<1>1. \E no : Becomes(s, no)
  BY DEF Hide
<1>2. /\ UNCHANGED <<fixed, ready, backend>> /\ overlapped' = overlapped /\ asks' = asks
      /\ hidden' = TRUE /\ hides' = hides + 1
  BY DEF Hide
<1>3. Sane(s) /\ Lone(s, overlapped, asks) /\ s.paused = tts.paused
  BY StoppedNow, LoneNow DEF IInv
<1>4. platform = "android" => ~s.speaking
  BY StoppedNow
<1> HIDE DEF s
<1>5. /\ overlapped' \in BOOLEAN /\ asks' \in Nat /\ hides' \in Nat /\ hidden' \in BOOLEAN
      /\ (platform # "android" => ~overlapped')
  BY <1>2 DEF IInv, SpeechTypeOK
<1> QED
  BY <1>1, <1>2, <1>3, <1>4, <1>5, PageStep

\* What is taken up again is alone: the page was hidden, and then no text is
\* being read on Android.
LEMMA ShowKeeps ==
  ASSUME IInv, Show
  PROVE  IInv'
<1> DEFINE chain == tts.paused
           s == [tts EXCEPT !.paused = None]
           r == [s EXCEPT !.speaking = TRUE, !.finish = TRUE]
           u == [chain EXCEPT !.session = s.session]
<1>1. PICK resumed \in BOOLEAN, accepted \in BOOLEAN :
        Becomes(IF chain = None \/ ~resumed \/ chain.index > Sentences THEN s
                ELSE ReadNext(r, u, accepted), accepted)
  BY DEF Show
<1>2. /\ UNCHANGED <<fixed, ready, backend, overlapped, asks, hides>> /\ hidden /\ hidden' = FALSE
  BY DEF Show
<1>3. /\ tts \in Page /\ chain \in Chain \cup {None} /\ tts.session \in Nat
  BY PageFields DEF IInv, Sane
<1>4. /\ s \in Page /\ s.queue = tts.queue /\ s.session = tts.session
      /\ s.speaking = tts.speaking /\ s.finish = tts.finish /\ s.button = tts.button
      /\ s.waits = tts.waits /\ s.listener = tts.listener /\ s.fetch = tts.fetch
      /\ s.audio = tts.audio /\ s.gone = tts.gone /\ s.paused = None
  BY <1>3 DEF Page
<1>5. Sane(s)
  <2>1. Sounding(s) = Sounding(tts)
    BY <1>4 DEF Sounding
  <2> QED
    BY <1>4, <2>1, LessIsSane DEF IInv
<1>6. Lone(s, overlapped, asks)
  <2>1. platform = "android" /\ ~overlapped => OneText(s)
    BY <1>4 DEF IInv, OneText, InQueue, InGone, InWaits, Listens, Tells
  <2>2. platform # "android" => Alone(s, asks)
    BY <1>4 DEF IInv, Alone, Sounding
  <2> QED
    BY <2>1, <2>2 DEF Lone
<1>7. /\ overlapped' \in BOOLEAN /\ asks' \in Nat /\ hides' \in Nat /\ hidden' \in BOOLEAN
      /\ (platform # "android" => ~overlapped') /\ ~hidden'
  BY <1>2 DEF IInv, SpeechTypeOK
<1>8. CASE chain = None \/ ~resumed \/ chain.index > Sentences
  <2>1. Becomes(s, accepted)
    BY <1>1, <1>8
  <2> HIDE DEF s
  <2> QED
    BY <1>2, <1>4, <1>5, <1>6, <1>7, <2>1, PageStep
<1>9. CASE ~(chain = None \/ ~resumed \/ chain.index > Sentences)
  <2>1. Becomes(ReadNext(r, u, accepted), accepted)
    BY <1>1, <1>9
  <2>2. chain \in Chain /\ platform = "android" /\ ~tts.speaking
    BY <1>2, <1>3, <1>9 DEF IInv, Sane
  <2>3. u \in Step /\ u.kind = "text" /\ u.session = s.session /\ u.how = "android"
    BY <1>3, <1>4, <2>2 DEF Chain, Step
  <2> HIDE DEF s
  <2>4. /\ r \in Page /\ r.queue = s.queue /\ r.session = s.session
        /\ r.speaking = TRUE /\ r.finish = TRUE /\ r.button = s.button
        /\ r.waits = s.waits /\ r.listener = s.listener /\ r.fetch = s.fetch
        /\ r.audio = s.audio /\ r.gone = s.gone /\ r.paused = s.paused
    BY <1>4 DEF Page
  <2> HIDE DEF r, u
  <2>5. Sounding(r) = Sounding(s)
    BY <2>4 DEF Sounding
  <2>6. Sane(r)
    BY <1>5, <2>4, <2>5 DEF Sane, Tells
  <2>7. Quiet(r, overlapped)
    <3>1. \A w \in Sounding(tts) \cup tts.gone : ~Tells(tts, w)
      BY <2>2 DEF IInv, Sane
    <3>2. ~InGone(r)
      BY <1>4, <2>4, <3>1 DEF InGone, Tells
    <3>3. ~Listens(r) /\ ~InQueue(r)
      <4>1. \A w \in Sounding(tts) : w.kind # "text"
        BY <3>1 DEF IInv, Sane, Tells
      <4> QED
        BY <1>4, <2>4, <4>1, NoneIsNoTask DEF Listens, InQueue, Sounding, Range
    <3>4. ~overlapped => ~InWaits(r)
      BY <1>4, <1>9, <2>2, <2>4 DEF IInv, OneText, InWaits
    <3> QED
      BY <2>2, <3>2, <3>3, <3>4 DEF Quiet
  <2>8. Suits(u) /\ Tells(r, u)
    BY <2>2, <2>3, <2>4 DEF Suits, Tells
  <2> DEFINE T == ReadNext(r, u, accepted)
  <2>9. Sane(T) /\ Lone(T, overlapped, asks) /\ T.paused = r.paused
    BY <2>2, <2>3, <2>6, <2>7, <2>8, ReadNextIsLone
  <2> HIDE DEF T
  <2> QED
    <3>1. Becomes(T, accepted)
      BY <2>1 DEF T
    <3> QED
      BY <1>2, <1>4, <1>7, <2>4, <2>9, <3>1, PageStep
<1> QED
  BY <1>8, <1>9

\* The page does not move, and the engine may have become ready.
LEMMA PageStays ==
  ASSUME IInv, UNCHANGED <<fixed, tts, user>>, SpeechTypeOK', ready => ready'
  PROVE  IInv'
<1>1. /\ platform' = platform /\ tts' = tts /\ hidden' = hidden
      /\ overlapped' = overlapped /\ asks' = asks
  BY DEF fixed, user
<1>2. Sane(tts)'
  BY <1>1 DEF IInv, Sane, Sounding, Suits, Tells
<1>3. (platform = "android" /\ ~overlapped => OneText(tts))'
  BY <1>1 DEF IInv, OneText, InQueue, InGone, InWaits, Listens, Tells
<1>4. (platform # "android" => Alone(tts, asks) /\ ~overlapped)'
  BY <1>1 DEF IInv, Alone, Sounding
<1> QED
  BY <1>1, <1>2, <1>3, <1>4 DEF IInv

LEMMA EngineFallsTypes ==
  ASSUME SpeechTypeOK, NEW status \in {"done", "error", "stopped"}, EngineFalls(status)
  PROVE  engine' \in Maybe /\ events' \subseteq {"done", "error", "stopped"}
BY DEF SpeechTypeOK, EngineFalls, Maybe

LEMMA EngineIsReadyKeeps ==
  ASSUME IInv, EngineIsReady
  PROVE  IInv'
<1>1. SpeechTypeOK'
  BY DEF IInv, SpeechTypeOK, EngineIsReady, fixed, backend, user
<1> QED
  BY <1>1, PageStays DEF EngineIsReady

LEMMA EngineEndsKeeps ==
  ASSUME IInv, NEW status \in {"done", "error"}, EngineEnds(status)
  PROVE  IInv'
<1>1. engine' \in Maybe /\ events' \subseteq {"done", "error", "stopped"}
  BY EngineFallsTypes DEF IInv, EngineEnds
<1>2. SpeechTypeOK'
  BY <1>1 DEF IInv, SpeechTypeOK, EngineEnds, fixed, backend, user
<1> QED
  BY <1>2, PageStays DEF EngineEnds

LEMMA StopRunsKeeps ==
  ASSUME IInv, StopRuns
  PROVE  IInv'
<1>1. engine' \in Maybe /\ events' \subseteq {"done", "error", "stopped"}
  BY EngineFallsTypes DEF IInv, StopRuns
<1>2. stops' \in Nat
  BY DEF IInv, SpeechTypeOK, StopRuns
<1>3. SpeechTypeOK'
  BY <1>1, <1>2 DEF IInv, SpeechTypeOK, StopRuns, fixed, backend, user
<1> QED
  BY <1>3, PageStays DEF StopRuns

LEMMA SynthesizeKeeps ==
  ASSUME IInv, Synthesize
  PROVE  IInv'
<1>1. tts.fetch \in Task
  BY PageFields DEF IInv, Sane, Synthesize, Maybe
<1>2. SpeechTypeOK'
  BY <1>1 DEF IInv, SpeechTypeOK, Synthesize, fixed, user
<1> QED
  BY <1>2, PageStays DEF Synthesize

\* The wait of a text is over: nothing else was to sound.
LEMMA WaitEndsKeeps ==
  ASSUME IInv, NEW u \in tts.waits, WaitEnds(u)
  PROVE  IInv'
<1> DEFINE s == [tts EXCEPT !.waits = @ \ {u}]
<1>1. PICK accepted \in BOOLEAN : Becomes(Waited(s, u, accepted), accepted)
  BY DEF WaitEnds
<1>2. tts \in Page /\ u \in Task /\ platform = "android" /\ u.how = "android"
  BY PageFields DEF IInv, Sane
<1>3. /\ s \in Page /\ s.queue = tts.queue /\ s.session = tts.session
      /\ s.speaking = tts.speaking /\ s.finish = tts.finish /\ s.button = tts.button
      /\ s.waits = tts.waits \ {u} /\ s.listener = tts.listener /\ s.fetch = tts.fetch
      /\ s.audio = tts.audio /\ s.gone = tts.gone /\ s.paused = tts.paused
  BY <1>2, PageFields DEF Page
<1> HIDE DEF s
<1>4. Sane(s)
  <2>1. Sounding(s) = Sounding(tts)
    BY <1>3 DEF Sounding
  <2> QED
    BY <1>3, <2>1, LessIsSane DEF IInv
<1>5. Lone(s, overlapped, asks) /\ (u.kind = "text" => Quiet(s, overlapped))
  <2>1. ASSUME ~overlapped PROVE OneText(tts)
    BY <1>2, <2>1 DEF IInv
  <2>2. ASSUME ~overlapped PROVE OneText(s)
    BY <1>3, <2>1, <2>2 DEF OneText, InQueue, InGone, InWaits, Listens, Tells
  <2>3. ASSUME ~overlapped, u.kind = "text"
        PROVE  ~InQueue(s) /\ ~InGone(s) /\ ~Listens(s) /\ ~InWaits(s)
    BY <1>3, <2>1, <2>3 DEF OneText, InQueue, InGone, InWaits, Listens, Tells
  <2> QED
    BY <1>2, <2>2, <2>3 DEF Lone, Quiet
<1> DEFINE T == Waited(s, u, accepted)
<1>6. /\ Sane(T) /\ Lone(T, overlapped, asks) /\ (T.paused # s.paused => ready)
      /\ (T.speaking => s.speaking)
  BY <1>2, <1>4, <1>5, WaitedIsLone
<1>7. Becomes(T, accepted)
  BY <1>1
<1> HIDE DEF T
<1> QED
  BY <1>3, <1>6, <1>7, TtsStep DEF WaitEnds

LEMMA ResultArrivesKeeps ==
  ASSUME IInv, NEW status, ResultArrives(status)
  PROVE  IInv'
<1>1. PICK accepted : Becomes(Heard(tts.listener, status, accepted), accepted)
  BY DEF ResultArrives
<1> DEFINE T == Heard(tts.listener, status, accepted)
<1>2. /\ Sane(T) /\ Lone(T, overlapped, asks) /\ (T.paused # None => tts.paused # None)
      /\ (T.speaking => tts.speaking)
  BY LoneNow, HeardIsLone DEF IInv
<1>3. Becomes(T, accepted)
  BY <1>1
<1> HIDE DEF T
<1> QED
  BY <1>2, <1>3, TtsStep DEF ResultArrives

LEMMA ListenerTimesOutKeeps ==
  ASSUME IInv, ListenerTimesOut
  PROVE  IInv'
<1>1. PICK no : Becomes(Heard(tts.listener, "timeout", no), no)
  BY DEF ListenerTimesOut
<1> DEFINE T == Heard(tts.listener, "timeout", no)
<1>2. /\ Sane(T) /\ Lone(T, overlapped, asks) /\ (T.paused # None => tts.paused # None)
      /\ (T.speaking => tts.speaking)
  BY LoneNow, HeardIsLone DEF IInv
<1>3. Becomes(T, no)
  BY <1>1
<1> HIDE DEF T
<1> QED
  BY <1>2, <1>3, TtsStep DEF ListenerTimesOut

LEMMA UtteranceEndsKeeps ==
  ASSUME IInv, NEW failed, UtteranceEnds(failed)
  PROVE  IInv'
<1> DEFINE u == Head(tts.queue)
           s == [tts EXCEPT !.queue = Tail(@)]
<1>1. PICK accepted :
        Becomes(IF failed /\ u.kind = "text" /\ u.how = "local" /\ Current(s, u)
                THEN Stop(s) ELSE Ended(s, u, accepted), accepted)
  BY DEF UtteranceEnds
<1>2. /\ tts \in Page /\ tts.queue \in Seq(Task) /\ tts.queue # <<>>
  BY PageFields DEF IInv, Sane, UtteranceEnds
<1>3. /\ Tail(tts.queue) \in Seq(Task) /\ u \in Range(tts.queue) /\ u \in Task
      /\ Range(Tail(tts.queue)) \subseteq Range(tts.queue)
  BY <1>2, RangeOfTail
<1>4. /\ s \in Page /\ s.queue = Tail(tts.queue) /\ s.session = tts.session
      /\ s.speaking = tts.speaking /\ s.finish = tts.finish /\ s.button = tts.button
      /\ s.waits = tts.waits /\ s.listener = tts.listener /\ s.fetch = tts.fetch
      /\ s.audio = tts.audio /\ s.gone = tts.gone /\ s.paused = tts.paused
  BY <1>2, <1>3 DEF Page
<1>5. /\ u = tts.queue[1] /\ DOMAIN tts.queue = 1..Len(tts.queue) /\ Len(tts.queue) \in Nat
      /\ Len(tts.queue) >= 1 /\ DOMAIN s.queue = 1..Len(tts.queue) - 1
      /\ \A i \in 1..Len(tts.queue) - 1 : s.queue[i] = tts.queue[i + 1]
      /\ Len(s.queue) = Len(tts.queue) - 1
  BY <1>2, <1>4
<1> HIDE DEF s, u
<1>6. /\ 1 \in DOMAIN tts.queue
       /\ \A i \in DOMAIN s.queue :
            i + 1 \in DOMAIN tts.queue /\ i + 1 # 1 /\ s.queue[i] = tts.queue[i + 1]
  <2>1. 1 \in 1..Len(tts.queue)
    BY <1>5
  <2>2. \A i \in 1..Len(tts.queue) - 1 : i + 1 \in 1..Len(tts.queue) /\ i + 1 # 1
    BY <1>5
  <2> QED
    BY <1>5, <2>1, <2>2
<1>7. Sane(s)
  <2>1. Sounding(s) \subseteq Sounding(tts)
    BY <1>3, <1>4 DEF Sounding
  <2> QED
    BY <1>4, <2>1, LessIsSane DEF IInv
<1>8. Lone(s, overlapped, asks)
  <2>1. ASSUME platform = "android", ~overlapped PROVE OneText(s)
    <3>1. OneText(tts)
      BY <2>1 DEF IInv
    <3>2. \A i, j \in DOMAIN s.queue :
            s.queue[i].kind = "text" /\ s.queue[j].kind = "text" => i = j
      <4> SUFFICES ASSUME NEW i \in DOMAIN s.queue, NEW j \in DOMAIN s.queue,
                          s.queue[i].kind = "text", s.queue[j].kind = "text"
                   PROVE  i = j
        OBVIOUS
      <4>1. i + 1 = j + 1
        BY <1>6, <3>1 DEF OneText
      <4> QED
        BY <1>5, <4>1
    <3>3. InQueue(s) => InQueue(tts)
      BY <1>6 DEF InQueue
    <3> QED
      BY <1>4, <3>1, <3>2, <3>3 DEF OneText, InGone, InWaits, Listens, Tells
  <2>2. ASSUME platform # "android" PROVE Alone(s, asks)
    <3>1. Alone(tts, asks)
      BY <2>2 DEF IInv
    <3>2. Len(s.queue) <= 1 /\ tts.fetch = None /\ tts.audio = None
      BY <1>2, <1>5, <3>1 DEF Alone
    <3>3. Sounding(s) \subseteq Sounding(tts)
      BY <1>3, <1>4 DEF Sounding
    <3> QED
      BY <1>4, <3>1, <3>2, <3>3 DEF Alone
  <2> QED
    BY <2>1, <2>2 DEF Lone
<1>9. Suits(u) /\ u.session = s.session /\ (platform # "android" => u.ask = asks)
  <2>1. u \in Sounding(tts)
    BY <1>3, NoneIsNoTask DEF Sounding
  <2> QED
    BY <1>4, <2>1 DEF IInv, Sane, Alone
<1>10. u.kind = "text" => Quiet(s, overlapped)
  <2>1. ASSUME platform = "android", ~overlapped, u.kind = "text"
        PROVE  ~InQueue(s) /\ ~InGone(s) /\ ~Listens(s) /\ ~InWaits(s)
    <3>1. OneText(tts) /\ InQueue(tts)
      BY <1>5, <1>6, <2>1 DEF IInv, InQueue
    <3>2. ~InQueue(s)
      BY <1>5, <1>6, <2>1, <3>1 DEF OneText, InQueue
    <3> QED
      BY <1>4, <3>1, <3>2 DEF OneText, InGone, InWaits, Listens, Tells
  <2>2. ASSUME platform # "android"
        PROVE  /\ s.queue = <<>> /\ s.fetch = None /\ s.audio = None
               /\ \A w \in s.gone : w.session # s.session
    <3>1. Alone(tts, asks)
      BY <2>2 DEF IInv
    <3>2. Len(s.queue) = 0 /\ s.queue \in Seq(Task)
      <4>1. Len(tts.queue) <= 1
        BY <3>1 DEF Alone
      <4>2. Len(tts.queue) \in Nat /\ Len(tts.queue) >= 1 /\ Len(s.queue) = Len(tts.queue) - 1
        BY <1>5
      <4>3. \A n \in Nat : n >= 1 /\ n <= 1 => n - 1 = 0
        OBVIOUS
      <4>4. Len(s.queue) = 0
        BY <4>1, <4>2, <4>3, Zenon
      <4> QED
        BY <1>3, <1>4, <4>4
    <3> QED
      BY <1>2, <1>4, <3>1, <3>2 DEF Alone
  <2> QED
    BY <2>1, <2>2 DEF Quiet
<1>11. CASE failed /\ u.kind = "text" /\ u.how = "local" /\ Current(s, u)
  <2> DEFINE T == Stop(s)
  <2>1. Sane(T) /\ Lone(T, overlapped, asks)
    BY <1>7, <1>10, <1>11, StopIsSane, StopIsLone, QuietWaitsOnce
  <2>2. T.paused = s.paused /\ ~T.speaking
    BY <1>4, StopFields
  <2>3. Becomes(T, accepted)
    BY <1>1, <1>11
  <2> HIDE DEF T
  <2> QED
    BY <1>4, <2>1, <2>2, <2>3, TtsStep DEF UtteranceEnds
<1>12. CASE ~(failed /\ u.kind = "text" /\ u.how = "local" /\ Current(s, u))
  <2> DEFINE T == Ended(s, u, accepted)
  <2>1. /\ Sane(T) /\ Lone(T, overlapped, asks) /\ T.paused = s.paused /\ (T.speaking => s.speaking)
    BY <1>3, <1>7, <1>8, <1>9, <1>10, EndedIsLone DEF Tells
  <2>2. Becomes(T, accepted)
    BY <1>1, <1>12
  <2> HIDE DEF T
  <2> QED
    BY <1>4, <2>1, <2>2, TtsStep DEF UtteranceEnds
<1> QED
  BY <1>11, <1>12

\* A synthesis that ends becomes a playback, if the page waits for it.
LEMMA SynthesisEndsKeeps ==
  ASSUME IInv, NEW u \in busy, SynthesisEnds(u)
  PROVE  IInv'
<1>1. /\ UNCHANGED <<fixed, engine, ready, stops, events, user>> /\ busy' = busy \ {u}
      /\ u \in Task
  BY DEF SynthesisEnds, IInv, SpeechTypeOK
<1>2. CASE tts' = tts
  <2>1. SpeechTypeOK'
    BY <1>1, <1>2 DEF IInv, SpeechTypeOK, fixed, user
  <2> QED
    BY <1>1, <1>2, <2>1, PageStays
<1>3. CASE tts' # tts
  <2> DEFINE s == [tts EXCEPT !.fetch = None, !.audio = u]
  <2>1. u = tts.fetch /\ tts' = s
    BY <1>3 DEF SynthesisEnds
  <2>2. /\ tts \in Page /\ platform # "android" /\ tts.fetch # None
    BY <1>1, <2>1, NoneIsNoTask DEF IInv, Sane
  <2>3. /\ s \in Page /\ s.queue = tts.queue /\ s.session = tts.session
        /\ s.speaking = tts.speaking /\ s.finish = tts.finish /\ s.button = tts.button
        /\ s.waits = tts.waits /\ s.listener = tts.listener /\ s.fetch = None
        /\ s.audio = u /\ s.gone = tts.gone /\ s.paused = tts.paused
    BY <1>1, <2>2 DEF Page, Maybe
  <2> HIDE DEF s
  <2>4. Sounding(s) \subseteq Sounding(tts)
    BY <2>1, <2>2, <2>3 DEF Sounding
  <2>5. Sane(s)
    BY <2>2, <2>3, <2>4 DEF IInv, Sane, Tells
  <2>6. Alone(s, asks)
    BY <2>2, <2>3, <2>4 DEF IInv, Alone
  <2>7. /\ platform' = platform /\ hidden' = hidden /\ overlapped' = overlapped
        /\ asks' = asks /\ ready' = ready
    BY <1>1 DEF fixed, user
  <2>8. SpeechTypeOK'
    BY <1>1, <2>1, <2>3 DEF IInv, SpeechTypeOK, fixed, user
  <2>9. Sane(tts)'
    BY <2>1, <2>5, <2>7 DEF Sane, Sounding, Suits, Tells
  <2>10. Alone(tts, asks)'
    BY <2>1, <2>6, <2>7 DEF Alone, Sounding
  <2> QED
    BY <2>1, <2>2, <2>3, <2>7, <2>8, <2>9, <2>10 DEF IInv
<1> QED
  BY <1>2, <1>3

\* Without the request, or without the playback, nothing sounds.
LEMMA EdgeFallsSilent ==
  ASSUME IInv, NEW u \in {tts.fetch, tts.audio}, u # None, NEW s,
         \/ u = tts.fetch /\ s = [tts EXCEPT !.fetch = None]
         \/ u = tts.audio /\ s = [tts EXCEPT !.audio = None]
  PROVE  /\ platform # "android" /\ Sane(s) /\ Quiet(s, overlapped) /\ Lone(s, overlapped, asks)
         /\ u \in Task /\ Suits(u) /\ u.session = s.session /\ u.ask = asks
         /\ s.paused = tts.paused /\ s.speaking = tts.speaking
<1>1. /\ tts \in Page /\ platform # "android" /\ u \in Task /\ u \in Sounding(tts)
  BY PageFields DEF IInv, Sane, Sounding, Maybe
<1>2. Alone(tts, asks)
  BY <1>1 DEF IInv
<1>3. /\ s \in Page /\ s.queue = tts.queue /\ s.session = tts.session
      /\ s.speaking = tts.speaking /\ s.finish = tts.finish /\ s.button = tts.button
      /\ s.waits = tts.waits /\ s.listener = tts.listener /\ s.fetch = None
      /\ s.audio = None /\ s.gone = tts.gone /\ s.paused = tts.paused
  <2>1. CASE u = tts.fetch /\ s = [tts EXCEPT !.fetch = None]
    BY <1>1, <1>2, <2>1 DEF Page, Maybe, Alone
  <2>2. CASE u = tts.audio /\ s = [tts EXCEPT !.audio = None]
    BY <1>1, <1>2, <2>2 DEF Page, Maybe, Alone
  <2> QED
    BY <2>1, <2>2
<1>4. Sane(s)
  <2>1. Sounding(s) \subseteq Sounding(tts)
    BY <1>3 DEF Sounding
  <2> QED
    BY <1>3, <2>1, LessIsSane DEF IInv
<1>5. Quiet(s, overlapped)
  BY <1>1, <1>2, <1>3 DEF Alone, Quiet
<1>6. Suits(u) /\ u.session = tts.session /\ u.ask = asks
  BY <1>1, <1>2 DEF IInv, Sane, Alone
<1> QED
  BY <1>1, <1>3, <1>4, <1>5, <1>6, QuietIsLone

LEMMA FetchFailsKeeps ==
  ASSUME IInv, FetchFails
  PROVE  IInv'
<1> DEFINE u == tts.fetch
           s == [tts EXCEPT !.fetch = None]
<1>1. PICK no : Becomes(FallBack(s, u, no), no)
  BY DEF FetchFails
<1>2. /\ platform # "android" /\ Sane(s) /\ Quiet(s, overlapped)
      /\ u \in Task /\ Suits(u) /\ u.session = s.session /\ u.ask = asks
      /\ s.paused = tts.paused /\ s.speaking = tts.speaking
  BY EdgeFallsSilent DEF FetchFails
<1> HIDE DEF s, u
<1> DEFINE T == FallBack(s, u, no)
<1>3. Sane(T) /\ Lone(T, overlapped, asks) /\ T.paused = s.paused /\ (T.speaking => s.speaking)
  BY <1>2, FallBackIsLone
<1>4. Becomes(T, no)
  BY <1>1
<1> HIDE DEF T
<1> QED
  BY <1>2, <1>3, <1>4, TtsStep DEF FetchFails

LEMMA AudioFailsKeeps ==
  ASSUME IInv, AudioFails
  PROVE  IInv'
<1> DEFINE u == tts.audio
           s == [tts EXCEPT !.audio = None]
<1>1. PICK no : Becomes(FallBack(s, u, no), no)
  BY DEF AudioFails
<1>2. /\ platform # "android" /\ Sane(s) /\ Quiet(s, overlapped)
      /\ u \in Task /\ Suits(u) /\ u.session = s.session /\ u.ask = asks
      /\ s.paused = tts.paused /\ s.speaking = tts.speaking
  BY EdgeFallsSilent DEF AudioFails
<1> HIDE DEF s, u
<1> DEFINE T == FallBack(s, u, no)
<1>3. Sane(T) /\ Lone(T, overlapped, asks) /\ T.paused = s.paused /\ (T.speaking => s.speaking)
  BY <1>2, FallBackIsLone
<1>4. Becomes(T, no)
  BY <1>1
<1> HIDE DEF T
<1> QED
  BY <1>2, <1>3, <1>4, TtsStep DEF AudioFails

LEMMA AudioEndsKeeps ==
  ASSUME IInv, AudioEnds
  PROVE  IInv'
<1> DEFINE u == tts.audio
           s == [tts EXCEPT !.audio = None]
<1>1. PICK no : Becomes(Ended(s, u, no), no)
  BY DEF AudioEnds
<1>2. /\ platform # "android" /\ Sane(s) /\ Quiet(s, overlapped) /\ Lone(s, overlapped, asks)
      /\ u \in Task /\ Suits(u) /\ u.session = s.session /\ u.ask = asks
      /\ s.paused = tts.paused /\ s.speaking = tts.speaking
  BY EdgeFallsSilent DEF AudioEnds
<1> HIDE DEF s, u
<1> DEFINE T == Ended(s, u, no)
<1>3. Sane(T) /\ Lone(T, overlapped, asks) /\ T.paused = s.paused /\ (T.speaking => s.speaking)
  BY <1>2, EndedIsLone
<1>4. Becomes(T, no)
  BY <1>1
<1> HIDE DEF T
<1> QED
  BY <1>2, <1>3, <1>4, TtsStep DEF AudioEnds

\* The handler of what was cancelled reads on only if a word has cancelled
\* the sentence of a text that is still being read.
LEMMA LateHandlerKeeps ==
  ASSUME IInv, NEW u \in tts.gone, LateHandler(u)
  PROVE  IInv'
<1> DEFINE s == [tts EXCEPT !.gone = @ \ {u}]
<1>1. PICK no : Becomes(Ended(s, u, no), no)
  BY DEF LateHandler
<1>2. tts \in Page /\ u \in Task /\ Suits(u)
  BY PageFields DEF IInv, Sane
<1>3. /\ s \in Page /\ s.queue = tts.queue /\ s.session = tts.session
      /\ s.speaking = tts.speaking /\ s.finish = tts.finish /\ s.button = tts.button
      /\ s.waits = tts.waits /\ s.listener = tts.listener /\ s.fetch = tts.fetch
      /\ s.audio = tts.audio /\ s.gone = tts.gone \ {u} /\ s.paused = tts.paused
  BY <1>2, PageFields DEF Page
<1> HIDE DEF s
<1>4. Sounding(s) = Sounding(tts)
  BY <1>3 DEF Sounding
<1>5. Sane(s)
  BY <1>3, <1>4, LessIsSane DEF IInv
<1>6. ASSUME platform = "android", ~overlapped
      PROVE  /\ OneText(s)
             /\ Tells(s, u) => ~InQueue(s) /\ ~InGone(s) /\ ~Listens(s) /\ ~InWaits(s)
  <2>1. OneText(tts)
    BY <1>6 DEF IInv
  <2> QED
    BY <1>3, <2>1 DEF OneText, InQueue, InGone, InWaits, Listens, Tells
<1>7. ASSUME platform # "android" PROVE Alone(s, asks) /\ ~Tells(s, u)
  BY <1>3, <1>4, <1>7 DEF IInv, Alone, Tells
<1> DEFINE T == Ended(s, u, no)
<1>8. Sane(T) /\ Lone(T, overlapped, asks) /\ T.paused = s.paused /\ (T.speaking => s.speaking)
  <2>1. Lone(s, overlapped, asks) /\ (Tells(s, u) => Quiet(s, overlapped))
    BY <1>6, <1>7 DEF Lone, Quiet
  <2> QED
    BY <1>2, <1>5, <1>7, <2>1, EndedIsLone
<1>9. Becomes(T, no)
  BY <1>1
<1> HIDE DEF T
<1> QED
  BY <1>3, <1>8, <1>9, TtsStep DEF LateHandler

-------------------------------------------------------------------------------
(* The inductive invariant holds in every state the voices can reach.      *)
THEOREM Invariance == SpeechSpec => []IInv
<1>1. SpeechInit => IInv
  <2> SUFFICES ASSUME SpeechInit PROVE IInv
    OBVIOUS
  <2>1. /\ tts \in Page /\ tts.session = 0 /\ ~tts.speaking /\ ~tts.finish /\ tts.button = "play"
        /\ tts.waits = {} /\ tts.listener = None /\ tts.queue = <<>> /\ tts.fetch = None
        /\ tts.audio = None /\ tts.gone = {} /\ tts.paused = None
    BY DEF SpeechInit, Page, Maybe
  <2>2. Sounding(tts) = {}
    BY <2>1 DEF Sounding, Range
  <2>3. SpeechTypeOK
    BY <2>1 DEF SpeechInit, SpeechTypeOK, Maybe
  <2>4. Sane(tts)
    BY <2>1, <2>2 DEF Sane
  <2>5. OneText(tts) /\ Alone(tts, asks)
    BY <2>1, <2>2 DEF OneText, Alone, InQueue, InGone, InWaits, Listens
  <2> QED
    BY <2>1, <2>3, <2>4, <2>5 DEF IInv, SpeechInit
<1>2. IInv /\ [SpeechNext]_speechVars => IInv'
  <2> SUFFICES ASSUME IInv, [SpeechNext]_speechVars PROVE IInv'
    OBVIOUS
  <2>1. CASE UNCHANGED speechVars
    <3>1. SpeechTypeOK'
      BY <2>1 DEF IInv, SpeechTypeOK, speechVars
    <3> QED
      BY <2>1, <3>1, PageStays DEF speechVars, fixed, user
  <2>2. CASE SpeakText
    BY <2>2, SpeakTextKeeps
  <2>3. CASE SpeakWord
    BY <2>3, SpeakWordKeeps
  <2>4. CASE StopReading
    BY <2>4, StopReadingKeeps
  <2>5. CASE Hide
    BY <2>5, HideKeeps
  <2>6. CASE Show
    BY <2>6, ShowKeeps
  <2>7. CASE EngineIsReady
    BY <2>7, EngineIsReadyKeeps
  <2>8. CASE \E status \in {"done", "error"} : EngineEnds(status)
    BY <2>8, EngineEndsKeeps
  <2>9. CASE StopRuns
    BY <2>9, StopRunsKeeps
  <2>10. CASE Synthesize
    BY <2>10, SynthesizeKeeps
  <2>11. CASE \E u \in busy : SynthesisEnds(u)
    BY <2>11, SynthesisEndsKeeps
  <2>12. CASE \E u \in tts.gone : LateHandler(u)
    BY <2>12, LateHandlerKeeps
  <2>13. CASE Answers
    BY <2>13, WaitEndsKeeps, ResultArrivesKeeps, ListenerTimesOutKeeps, UtteranceEndsKeeps,
       FetchFailsKeeps, AudioEndsKeeps, AudioFailsKeeps DEF Answers
  <2> QED
    BY <2>1, <2>2, <2>3, <2>4, <2>5, <2>6, <2>7, <2>8, <2>9, <2>10, <2>11, <2>12, <2>13
       DEF SpeechNext
<1> QED
  BY <1>1, <1>2, PTL DEF SpeechSpec

LEMMA AtMostOne ==
  ASSUME NEW S, \A u, w \in S : u = w
  PROVE  Cardinality(S) <= 1
<1>1. CASE S = {}
  BY <1>1, FS_EmptySet
<1>2. CASE S # {}
  <2>1. PICK u : S = {u}
    BY <1>2
  <2>2. Cardinality(S) = 1
    BY <2>1, FS_Singleton
  <2> QED
    BY <2>2
<1> QED
  BY <1>1, <1>2

(* What is stopped stays stopped, what sounds belongs to the last thing    *)
(* asked for, of a text one sentence at a time; and the stop button has    *)
(* something to stop (the session numbers of tts.ts).                      *)
THEOREM OneVoiceSounds == SpeechSpec => []OneVoiceAtHand
<1>1. IInv => OneVoiceAtHand
  <2> SUFFICES ASSUME IInv PROVE OneVoice /\ ButtonStopsSomething
    BY DEF IInv, OneVoiceAtHand
  <2>1. Pending = Sounding(tts)
    BY DEF Pending, Sounding
  <2>2. ASSUME platform # "android"
        PROVE  (\A u, w \in Pending : u = w) /\ (\A u \in Pending : u.ask = asks)
    <3>1. Alone(tts, asks) /\ tts.listener = None
      BY <2>2 DEF IInv, Sane
    <3>2. \A u, w \in Range(tts.queue) : u = w
      BY <3>1, PageFields DEF Alone, Range, IInv, Sane
    <3>3. tts.queue = <<>> => Range(tts.queue) = {}
      BY DEF Range
    <3>4. \A u \in Pending : u.ask = asks
      BY <2>1, <3>1 DEF Alone
    <3> QED
      BY <3>1, <3>2, <3>3, <3>4 DEF Alone, Pending
  <2>3. ASSUME ~overlapped
        PROVE  \A u, w \in {v \in Pending : v.kind = "text"} : u = w
    <3>1. CASE platform # "android"
      BY <2>2, <3>1
    <3>2. CASE platform = "android"
      <4>1. OneText(tts) /\ tts.fetch = None /\ tts.audio = None
        BY <2>3, <3>2 DEF IInv, Sane
      <4> QED
        BY <4>1 DEF OneText, InQueue, Listens, Pending, Range
    <3> QED
      BY <3>1, <3>2
  <2>4. \A u \in Pending : u.session = tts.session /\ u \in Task
    BY <2>1, PageFields DEF IInv, Sane, Sounding, Maybe, Range
  <2>5. ~tts.speaking => \A u \in Pending : u.kind = "word"
    BY <2>1, <2>4 DEF IInv, Sane, Tells, Task
  <2>6. OneVoice
    BY <2>2, <2>3, <2>4, <2>5, AtMostOne DEF OneVoice
  <2>7. ButtonStopsSomething
    BY DEF IInv, Sane, ButtonStopsSomething
  <2> QED
    BY <2>6, <2>7
<1> QED
  BY <1>1, Invariance, PTL

-------------------------------------------------------------------------------
(***************************************************************************)
(* The Reader: what its state may hold.                                    *)
(***************************************************************************)

SomeBook == Books \cup {NoBook}
Place == [page : Nat, at : Offsets \cup {Anywhere}]
Pass == [step : Nat, id : Nat, book : Books, page : Nat, saved : [page : Nat, at : Offsets]]

UiFields == {"view", "current", "page", "pages", "scrolls", "perPage", "held", "loading", "counted",
             "shown", "rendering", "renders", "texts", "renderId", "passes"}

UiType(s) ==
  /\ DOMAIN s = UiFields
  /\ s.view \in {"library", "reader"} /\ s.current \in SomeBook /\ s.page \in Nat \ {0}
  /\ s.pages \in [Books -> Nat] /\ s.scrolls \in [Books -> [page : Nat, at : Offsets]]
  /\ DOMAIN s.perPage = Books
  /\ \A b \in Books : s.perPage[b] \in [1..Pages[b] -> Offsets \cup {Unseen}]
  /\ s.held \subseteq Books /\ s.loading \in SomeBook /\ s.counted \in SomeBook
  /\ s.rendering \in BOOLEAN /\ s.renders \in Nat /\ s.texts \in Nat /\ s.renderId \in Nat
  /\ DOMAIN s.shown = {"kind", "parts", "at", "whole"}
  /\ s.shown.kind \in {"empty", "spinner", "page"}
  /\ s.shown.at \in Offsets /\ s.shown.whole \in BOOLEAN
  /\ s.passes \subseteq Pass

-------------------------------------------------------------------------------
(* Passes.                                                                 *)

\* A pass that will go on writing
Live(s, p) == p \in s.passes /\ IF p.step = 0 THEN p.id = s.renders ELSE p.id = s.renderId

\* The two counters do not meet: there are no more texts than renderings.
PassesAreTold(s) ==
  /\ s.texts <= s.renders /\ s.renderId <= s.renders
  /\ \A p \in s.passes : p.book \notin Scans /\ IF p.step = 0 THEN p.id <= s.renders ELSE p.id <= s.texts
  /\ \A p, q \in s.passes : p.id = q.id /\ (p.step = 0 <=> q.step = 0) => p = q

OpenPage(s) ==
  /\ s.current \in s.held /\ s.counted = s.current
  /\ s.pages[s.current] = s.page /\ s.page <= Pages[s.current]

LivePassRenders(s) ==
  \A p \in s.passes : Live(s, p) =>
    /\ p.book = s.current /\ s.rendering /\ ~s.shown.whole /\ p.book \in s.held
    /\ IF p.step = 0
       THEN s.shown.kind = "spinner" /\ s.renderId = s.renders /\ s.texts < s.renders
       ELSE /\ s.shown.kind = "page" /\ p.step <= Chunks + 1 /\ OpenPage(s)
            /\ p.page \in 1..Pages[p.book]
            /\ s.shown.parts = SubSeq(Whole(p.book, p.page), 1, p.step - 1)

WhatIsShown(s) ==
  /\ s.shown.kind = "page" => s.current # NoBook
  /\ s.shown.kind = "page" /\ ~s.shown.whole => \E p \in s.passes : p.step # 0 /\ Live(s, p)
  /\ s.shown.whole => s.shown.kind = "page" /\ ~s.rendering /\ OpenPage(s)

Renders(s) == PassesAreTold(s) /\ LivePassRenders(s) /\ WhatIsShown(s)

-------------------------------------------------------------------------------
(* The book on its way.                                                    *)

InReader(s, o) ==
  s.view = "reader" /\ s.current # NoBook =>
    /\ s.current \in s.held /\ s.shown.kind # "empty"
    /\ o = NotOpening => s.shown.kind = "page" \/ \E p \in s.passes : p.step = 0 /\ Live(s, p)

OpeningFits(s, o) ==
  /\ o \in [book : SomeBook, step : {"load", "remap"}, moved : BOOLEAN]
  /\ IF o.step = "load" THEN o.book # NoBook /\ s.loading = o.book
     ELSE s.loading = NoBook /\ (o.book # NoBook => o.book \in s.held)
  /\ o.book = NoBook => ~o.moved
  /\ o.moved => s.view # "reader" \/ s.current = NoBook

-------------------------------------------------------------------------------
(* Places.                                                                 *)

\* What passes write is the open page at the place that is saved.
Steady(s) ==
  /\ \A p \in s.passes : Live(s, p) => p.saved = s.scrolls[p.book] /\ (p.step # 0 => p.page = s.page)
  /\ s.shown.whole => s.shown.parts = Whole(s.current, s.page)

Agrees(k, page, at) == k.page \in {0, page} /\ k.at \in {Anywhere, at}

\* Where a rendering would find the book b.
FoundPage(s, b) == IF s.pages[b] > Pages[b] THEN Pages[b] ELSE s.pages[b]
FoundAt(s, b) ==
  IF s.scrolls[b].page = FoundPage(s, b) THEN s.scrolls[b].at
  ELSE IF s.perPage[b][FoundPage(s, b)] # Unseen THEN s.perPage[b][FoundPage(s, b)] ELSE 0

Found(s, k, b) == IF s.pages[b] = 0 THEN k[b] = Unknown ELSE Agrees(k[b], FoundPage(s, b), FoundAt(s, b))

\* The place of the open book may be in the Reader only, while nothing is on
\* its way that would render it without asking.
PlacesFit(s, k, o, j) ==
  /\ s.view = "reader" /\ s.shown.whole => Agrees(k[s.current], s.page, s.shown.at)
  /\ \A b \in Books : Found(s, k, b) \/ (b = s.current /\ s.view = "reader" /\ s.shown.whole /\ o = NotOpening /\ ~j)
  /\ Steady(s) \/ (j /\ s.current # NoBook /\ k[s.current] = Unknown)

Ready(s, k, o, j) ==
  /\ UiType(s) /\ k \in [Books -> Place]
  /\ Renders(s) /\ InReader(s, o) /\ OpeningFits(s, o) /\ PlacesFit(s, k, o, j)

ReaderIInv == Ready(ui, place, opening, jumping) /\ jumping \in BOOLEAN /\ KeepsYourPlace

-------------------------------------------------------------------------------
(* What is found stays found.                                              *)

LEMMA UnknownAgrees == ASSUME NEW page, NEW at PROVE Agrees(Unknown, page, at) /\ Unknown \in Place
BY DEF Agrees, Unknown, Place, Offsets, Anywhere

LEMMA FoundAlike ==
  ASSUME NEW s, NEW t, NEW k, NEW m, NEW b, t.pages[b] = s.pages[b], t.scrolls[b] = s.scrolls[b],
         t.perPage[b] = s.perPage[b], m[b] = k[b], Found(s, k, b)
  PROVE  Found(t, m, b)
BY DEF Found, FoundPage, FoundAt

LEMMA UnknownIsFound ==
  ASSUME NEW s, NEW k, NEW b, k[b] = Unknown
  PROVE  Found(s, k, b)
BY UnknownAgrees DEF Found

\* What Renders says does not depend on the other fields.
LEMMA RendersAlike ==
  ASSUME NEW s, NEW t, Renders(s),
         t.texts = s.texts, t.renders = s.renders, t.renderId = s.renderId, t.passes = s.passes,
         t.current = s.current, t.rendering = s.rendering, t.shown.kind = s.shown.kind,
         t.shown.whole = s.shown.whole, t.shown.parts = s.shown.parts,
         s.held \subseteq t.held, OpenPage(s) => OpenPage(t)
  PROVE  Renders(t)
<1>1. \A p : Live(t, p) <=> Live(s, p)
  BY DEF Live
<1>2. PassesAreTold(t)
  BY DEF Renders, PassesAreTold
<1>3. LivePassRenders(t)
  BY <1>1 DEF Renders, LivePassRenders
<1>4. WhatIsShown(t)
  BY <1>1 DEF Renders, WhatIsShown
<1>5. QED
  BY <1>2, <1>3, <1>4 DEF Renders

LEMMA SteadyAlike ==
  ASSUME NEW s, NEW t, Steady(s),
         t.renders = s.renders, t.renderId = s.renderId, t.passes = s.passes,
         t.shown.whole = s.shown.whole, t.shown.parts = s.shown.parts,
         t.current = s.current, t.page = s.page,
         \A p \in s.passes : Live(s, p) => t.scrolls[p.book] = s.scrolls[p.book]
  PROVE  Steady(t)
<1>1. \A p : Live(t, p) <=> Live(s, p)
  BY DEF Live
<1>2. QED
  BY <1>1 DEF Steady

-------------------------------------------------------------------------------
(* Remembering a place.                                                    *)

Remembers(s) ==
  s.current # NoBook /\ s.view = "reader" /\ ~s.rendering /\ s.shown.kind # "spinner"

LEMMA RememberIs ==
  ASSUME NEW s, UiType(s)
  PROVE  LET t == Remember(s)
         IN  /\ UiType(t)
             /\ t.view = s.view /\ t.current = s.current /\ t.page = s.page /\ t.pages = s.pages
             /\ t.held = s.held /\ t.loading = s.loading /\ t.counted = s.counted /\ t.shown = s.shown
             /\ t.rendering = s.rendering /\ t.renders = s.renders /\ t.texts = s.texts
             /\ t.renderId = s.renderId /\ t.passes = s.passes
             /\ \A b \in Books : b # s.current => t.scrolls[b] = s.scrolls[b] /\ t.perPage[b] = s.perPage[b]
             /\ Remembers(s) => t.scrolls[s.current] = [page |-> s.page, at |-> s.shown.at]
             /\ ~Remembers(s) => t = s
<1> DEFINE t == Remember(s)
<1>1. CASE ~Remembers(s)
  BY <1>1 DEF Remembers, Remember
<1>2. CASE Remembers(s)
  <2>1. t = [s EXCEPT !.scrolls[s.current] = [page |-> s.page, at |-> s.shown.at],
                      !.perPage[s.current][s.page] = s.shown.at]
    BY <1>2 DEF Remembers, Remember
  <2>2. s.current \in Books /\ s.page \in Nat /\ s.shown.at \in Offsets
    BY <1>2 DEF Remembers, UiType, SomeBook
  <2>3. /\ DOMAIN t = UiFields
        /\ t.view = s.view /\ t.current = s.current /\ t.page = s.page /\ t.pages = s.pages
        /\ t.held = s.held /\ t.loading = s.loading /\ t.counted = s.counted /\ t.shown = s.shown
        /\ t.rendering = s.rendering /\ t.renders = s.renders /\ t.texts = s.texts
        /\ t.renderId = s.renderId /\ t.passes = s.passes
        /\ t.scrolls = [s.scrolls EXCEPT ![s.current] = [page |-> s.page, at |-> s.shown.at]]
        /\ t.perPage = [s.perPage EXCEPT ![s.current] = [s.perPage[s.current] EXCEPT ![s.page] = s.shown.at]]
    BY <2>1 DEF UiType, UiFields
  <2> HIDE DEF t
  <2>4. /\ t.scrolls \in [Books -> [page : Nat, at : Offsets]]
        /\ t.scrolls[s.current] = [page |-> s.page, at |-> s.shown.at]
        /\ \A b \in Books : b # s.current => t.scrolls[b] = s.scrolls[b]
    BY <2>2, <2>3 DEF UiType
  <2>5. /\ DOMAIN t.perPage = Books
        /\ \A b \in Books : b # s.current => t.perPage[b] = s.perPage[b]
    BY <2>2, <2>3 DEF UiType
  <2>8. ASSUME NEW b \in Books PROVE t.perPage[b] \in [1..Pages[b] -> Offsets \cup {Unseen}]
    <3>1. CASE b # s.current
      BY <3>1, <2>5 DEF UiType
    <3>2. CASE b = s.current
      <4>1. t.perPage[b] = [s.perPage[b] EXCEPT ![s.page] = s.shown.at]
        BY <3>2, <2>2, <2>3 DEF UiType
      <4>2. s.perPage[b] \in [1..Pages[b] -> Offsets \cup {Unseen}]
        BY DEF UiType
      <4>3. QED
        BY <4>1, <4>2, <2>2
    <3>3. QED
      BY <3>1, <3>2
  <2>6. UiType(t)
    BY <2>3, <2>4, <2>5, <2>8 DEF UiType
  <2>7. QED
    BY <1>2, <2>3, <2>4, <2>5, <2>6 DEF t
<1>3. QED
  BY <1>1, <1>2

-------------------------------------------------------------------------------
(* Rendering.                                                              *)

NewPass(s) == [step |-> 0, id |-> s.renders + 1, book |-> s.current, page |-> 0,
               saved |-> s.scrolls[s.current]]

\* What every rendering leaves alone, and that it overtakes the others.
Overtakes(t, s) ==
  /\ t.view = s.view /\ t.current = s.current /\ t.scrolls = s.scrolls
  /\ t.perPage = s.perPage /\ t.held = s.held /\ t.loading = s.loading /\ t.texts = s.texts
  /\ t.renders = s.renders + 1 /\ t.renderId = s.renders + 1

SameBook(t, s) == t.page = s.page /\ t.pages = s.pages /\ t.counted = s.counted

ShowsNothing(s) == s.loading # NoBook \/ s.current = NoBook \/ s.current \notin s.held

LEMMA OpenedPageIs ==
  ASSUME NEW s, UiType(s), NEW b \in Books
  PROVE  /\ OpenedPage(s, b) \in 1..Pages[b]
         /\ s.pages[b] # 0 => OpenedPage(s, b) = FoundPage(s, b)
<1>1. Pages[b] \in Nat \ {0} /\ s.pages[b] \in Nat /\ s.page \in Nat \ {0}
  BY ReaderAssumption DEF UiType
<1>2. QED
  BY <1>1 DEF OpenedPage, FoundPage

LEMMA RenderedNothing ==
  ASSUME NEW s, UiType(s), ShowsNothing(s)
  PROVE  LET t == Rendered(s)
         IN  /\ DOMAIN t = UiFields /\ Overtakes(t, s) /\ SameBook(t, s) /\ t.rendering = FALSE
             /\ t.passes = s.passes /\ t.shown \in {Blank, Spinner}
             /\ t.shown = Blank => s.current = NoBook
<1> DEFINE u == [s EXCEPT !.renders = s.renders + 1, !.renderId = s.renders + 1, !.rendering = FALSE,
                          !.shown = Spinner]
           v == [u EXCEPT !.shown = Blank]
<1>1. Rendered(s) \in {u, v} /\ (Rendered(s) = v /\ u # v => s.current = NoBook)
  BY DEF Rendered, ShowsNothing, UiType, UiFields
<1>2. /\ DOMAIN u = UiFields /\ Overtakes(u, s) /\ SameBook(u, s) /\ u.rendering = FALSE
      /\ u.passes = s.passes /\ u.shown = Spinner
  BY DEF UiType, UiFields, Overtakes, SameBook
<1>3. /\ DOMAIN v = UiFields /\ Overtakes(v, s) /\ SameBook(v, s) /\ v.rendering = FALSE
      /\ v.passes = s.passes /\ v.shown = Blank
  BY DEF UiType, UiFields, Overtakes, SameBook
<1>4. Spinner # Blank
  <2>1. Spinner.kind = "spinner" /\ Blank.kind = "empty"
    BY DEF Spinner, Blank
  <2>2. QED
    BY <2>1
<1> HIDE DEF u, v
<1>5. QED
  BY <1>1, <1>2, <1>3, <1>4

LEMMA RenderedScan ==
  ASSUME NEW s, UiType(s), ~ShowsNothing(s), s.current \in Scans
  PROVE  LET t == Rendered(s)  b == s.current  p == OpenedPage(s, b)
         IN  /\ DOMAIN t = UiFields /\ Overtakes(t, s) /\ t.rendering = FALSE
             /\ t.page = p /\ t.pages = [s.pages EXCEPT ![b] = p] /\ t.counted = b
             /\ t.passes = s.passes
             /\ t.shown = PageOf(Whole(b, p), Restored(t, b, s.scrolls[b]), TRUE)
<1> DEFINE b == s.current
           p == OpenedPage(s, b)
           u == [s EXCEPT !.renders = s.renders + 1, !.renderId = s.renders + 1, !.rendering = FALSE,
                          !.shown = Spinner]
           v == [u EXCEPT !.page = p, !.pages[b] = p, !.counted = b]
           w == [v EXCEPT !.shown = PageOf(Whole(b, v.page), Restored(v, b, s.scrolls[b]), TRUE)]
<1>1. OpenedPage(u, b) = p
  BY DEF OpenedPage, UiType, UiFields
<1>2. AtPage(u, b) = v
  BY <1>1 DEF AtPage
<1>3. u.loading = s.loading /\ u.held = s.held /\ u.current = s.current
  BY DEF UiType, UiFields
<1>4. Rendered(s) = w
  BY <1>2, <1>3 DEF Rendered, ShowsNothing
<1>5. /\ v.page = p /\ v.pages = [s.pages EXCEPT ![b] = p] /\ v.counted = b /\ v.perPage = s.perPage
      /\ DOMAIN v = UiFields /\ Overtakes(v, s) /\ v.rendering = FALSE /\ v.passes = s.passes
  BY DEF UiType, UiFields, Overtakes
<1> HIDE DEF v
<1>6. /\ w.page = p /\ w.pages = v.pages /\ w.counted = b /\ w.perPage = v.perPage
      /\ DOMAIN w = UiFields /\ Overtakes(w, s) /\ w.rendering = FALSE /\ w.passes = s.passes
      /\ w.shown = PageOf(Whole(b, p), Restored(v, b, s.scrolls[b]), TRUE)
  BY <1>5 DEF UiFields, Overtakes
<1>7. Restored(w, b, s.scrolls[b]) = Restored(v, b, s.scrolls[b])
  BY <1>5, <1>6 DEF Restored
<1> HIDE DEF w
<1>8. QED
  BY <1>4, <1>5, <1>6, <1>7

LEMMA RenderedText ==
  ASSUME NEW s, UiType(s), ~ShowsNothing(s), s.current \notin Scans
  PROVE  LET t == Rendered(s)
         IN  /\ DOMAIN t = UiFields /\ Overtakes(t, s) /\ SameBook(t, s) /\ t.rendering = TRUE
             /\ t.shown = Spinner /\ t.passes = s.passes \cup {NewPass(s)}
<1> DEFINE u == [s EXCEPT !.renders = s.renders + 1, !.renderId = s.renders + 1, !.rendering = FALSE,
                          !.shown = Spinner]
           w == [u EXCEPT !.rendering = TRUE, !.passes = s.passes \cup {NewPass(s)}]
<1>1. /\ u.loading = s.loading /\ u.held = s.held /\ u.current = s.current /\ u.passes = s.passes
      /\ u.scrolls = s.scrolls
  BY DEF UiType, UiFields
<1>2. Rendered(s) = w
  BY <1>1 DEF Rendered, ShowsNothing, NewPass
<1>3. /\ DOMAIN w = UiFields /\ Overtakes(w, s) /\ SameBook(w, s) /\ w.rendering = TRUE
      /\ w.shown = Spinner /\ w.passes = s.passes \cup {NewPass(s)}
  BY DEF UiType, UiFields, Overtakes, SameBook
<1> HIDE DEF w
<1>4. QED
  BY <1>2, <1>3

LEMMA NewPassIs ==
  ASSUME NEW s, UiType(s), s.current \in Books
  PROVE  /\ NewPass(s) \in Pass /\ NewPass(s).step = 0 /\ NewPass(s).id = s.renders + 1
         /\ NewPass(s).book = s.current /\ NewPass(s).saved = s.scrolls[s.current]
BY DEF NewPass, Pass, UiType

LEMMA ARenderingOvertakes ==
  ASSUME NEW s, NEW t, UiType(s), PassesAreTold(s), Overtakes(t, s)
  PROVE  \A p \in s.passes : ~Live(t, p)
<1> SUFFICES ASSUME NEW p \in s.passes PROVE ~Live(t, p)
  OBVIOUS
<1>1. p.step \in Nat /\ p.id \in Nat /\ s.renders \in Nat /\ s.texts \in Nat
  BY DEF UiType, Pass
<1>2. IF p.step = 0 THEN p.id <= s.renders ELSE p.id <= s.texts /\ s.texts <= s.renders
  BY DEF PassesAreTold
<1>3. QED
  BY <1>1, <1>2 DEF Live, Overtakes

LEMMA PassesAreStillTold ==
  ASSUME NEW s, NEW t, UiType(s), PassesAreTold(s), Overtakes(t, s),
         t.passes = s.passes \/ (t.passes = s.passes \cup {NewPass(s)} /\ s.current \in Books \ Scans)
  PROVE  PassesAreTold(t)
<1>1. s.renders \in Nat /\ s.texts \in Nat /\ s.texts <= s.renders
  BY DEF UiType, PassesAreTold
<1>2. t.texts <= t.renders /\ t.renderId <= t.renders
  BY <1>1 DEF Overtakes
<1>3. ASSUME NEW p \in s.passes
      PROVE  p.step \in Nat /\ p.id \in Nat /\ p.book \notin Scans
             /\ IF p.step = 0 THEN p.id <= s.renders ELSE p.id <= s.texts
  BY DEF UiType, Pass, PassesAreTold
<1>4. ASSUME NEW p \in t.passes
      PROVE  p.book \notin Scans /\ IF p.step = 0 THEN p.id <= t.renders ELSE p.id <= t.texts
  <2>1. CASE p \in s.passes
    BY <1>1, <1>3, <2>1 DEF Overtakes
  <2>2. CASE p \notin s.passes
    BY <1>1, <2>2, NewPassIs DEF Overtakes
  <2>3. QED
    BY <2>1, <2>2
<1>5. ASSUME NEW p \in t.passes, NEW q \in t.passes, p.id = q.id, p.step = 0 <=> q.step = 0
      PROVE  p = q
  <2>1. CASE p \in s.passes /\ q \in s.passes
    BY <1>5, <2>1 DEF PassesAreTold
  <2>2. CASE p \in s.passes /\ q \notin s.passes
    BY <1>1, <1>3, <1>5, <2>2, NewPassIs
  <2>3. CASE p \notin s.passes /\ q \in s.passes
    BY <1>1, <1>3, <1>5, <2>3, NewPassIs
  <2>4. CASE p \notin s.passes /\ q \notin s.passes
    BY <2>4
  <2>5. QED
    BY <2>1, <2>2, <2>3, <2>4
<1>6. QED
  BY <1>2, <1>4, <1>5 DEF PassesAreTold

\* Opening a book is none of its business.
LEMMA OpeningFitsAlike ==
  ASSUME NEW s, NEW t, NEW o, OpeningFits(s, o), t.loading = s.loading, s.held \subseteq t.held,
         t.view = s.view, t.current = s.current
  PROVE  OpeningFits(t, o)
BY DEF OpeningFits

LEMMA ShownTyped ==
  ASSUME NEW parts, NEW at \in Offsets, NEW whole \in BOOLEAN
  PROVE  /\ DOMAIN PageOf(parts, at, whole) = {"kind", "parts", "at", "whole"}
         /\ PageOf(parts, at, whole).kind = "page" /\ PageOf(parts, at, whole).parts = parts
         /\ PageOf(parts, at, whole).at = at /\ PageOf(parts, at, whole).whole = whole
BY DEF PageOf

LEMMA BlankTyped ==
  ASSUME NEW x \in {Blank, Spinner}
  PROVE  /\ DOMAIN x = {"kind", "parts", "at", "whole"} /\ x.at \in Offsets /\ x.whole = FALSE
         /\ x.kind = IF x = Blank THEN "empty" ELSE "spinner"
<1>1. /\ DOMAIN Blank = {"kind", "parts", "at", "whole"} /\ Blank.at \in Offsets
      /\ Blank.whole = FALSE /\ Blank.kind = "empty"
  BY DEF Blank, Offsets
<1>2. /\ DOMAIN Spinner = {"kind", "parts", "at", "whole"} /\ Spinner.at \in Offsets
      /\ Spinner.whole = FALSE /\ Spinner.kind = "spinner"
  BY DEF Spinner, Blank, Offsets
<1>3. QED
  BY <1>1, <1>2

LEMMA RestoredTyped ==
  ASSUME NEW s, UiType(s), NEW b \in Books, s.page \in 1..Pages[b], NEW saved \in [page : Nat, at : Offsets]
  PROVE  Restored(s, b, saved) \in Offsets
<1>1. s.perPage[b][s.page] \in Offsets \cup {Unseen} /\ saved.at \in Offsets /\ 0 \in Offsets
  BY DEF UiType, Offsets
<1>2. QED
  BY <1>1 DEF Restored

LEMMA OvertakesTyped ==
  ASSUME NEW s, NEW t, UiType(s), Overtakes(t, s), DOMAIN t = UiFields,
         t.page \in Nat \ {0}, t.pages \in [Books -> Nat], t.counted \in SomeBook,
         t.rendering \in BOOLEAN, t.passes \subseteq Pass,
         DOMAIN t.shown = {"kind", "parts", "at", "whole"},
         t.shown.kind \in {"empty", "spinner", "page"},
         t.shown.at \in Offsets, t.shown.whole \in BOOLEAN
  PROVE  UiType(t)
<1>1. /\ t.view \in {"library", "reader"} /\ t.current \in SomeBook
      /\ t.scrolls \in [Books -> [page : Nat, at : Offsets]] /\ DOMAIN t.perPage = Books
      /\ t.held \subseteq Books /\ t.loading \in SomeBook
  BY DEF UiType, Overtakes
<1>2. \A b \in Books : t.perPage[b] \in [1..Pages[b] -> Offsets \cup {Unseen}]
  BY DEF UiType, Overtakes
<1>3. t.renders \in Nat /\ t.texts \in Nat /\ t.renderId \in Nat
  BY DEF UiType, Overtakes
<1>4. QED
  BY <1>1, <1>2, <1>3 DEF UiType

\* What a rendering needs.
Renderable(s, k, o) ==
  /\ UiType(s) /\ PassesAreTold(s) /\ k \in [Books -> Place] /\ OpeningFits(s, o)
  /\ s.view = "reader" /\ s.current # NoBook => s.current \in s.held
  /\ \A b \in Books : Found(s, k, b)

LEMMA NothingReady ==
  ASSUME NEW s, NEW k, NEW o, NEW j, Renderable(s, k, o), ShowsNothing(s)
  PROVE  Ready(Rendered(s), k, o, j)
<1> DEFINE t == Rendered(s)
<1>1. UiType(s) /\ PassesAreTold(s) /\ k \in [Books -> Place] /\ OpeningFits(s, o)
  BY DEF Renderable
<1>2. /\ DOMAIN t = UiFields /\ Overtakes(t, s) /\ SameBook(t, s) /\ t.rendering = FALSE
      /\ t.passes = s.passes /\ t.shown \in {Blank, Spinner}
      /\ t.shown = Blank => s.current = NoBook
  BY <1>1, RenderedNothing
<1> HIDE DEF t
<1>3. /\ DOMAIN t.shown = {"kind", "parts", "at", "whole"} /\ t.shown.at \in Offsets
      /\ t.shown.whole = FALSE /\ t.shown.kind \in {"empty", "spinner"}
      /\ t.shown.kind = "empty" => s.current = NoBook
  BY <1>2, BlankTyped
<1>4. UiType(t)
  <2>1. /\ t.page \in Nat \ {0} /\ t.pages \in [Books -> Nat] /\ t.counted \in SomeBook
        /\ t.passes \subseteq Pass
    BY <1>1, <1>2 DEF UiType, SameBook
  <2>2. QED
    BY <1>1, <1>2, <1>3, <2>1, OvertakesTyped
<1>5. \A p \in t.passes : ~Live(t, p)
  BY <1>1, <1>2, ARenderingOvertakes
<1>6. Renders(t)
  <2>1. PassesAreTold(t)
    BY <1>1, <1>2, PassesAreStillTold
  <2>2. LivePassRenders(t)
    BY <1>5 DEF LivePassRenders
  <2>3. WhatIsShown(t)
    BY <1>3 DEF WhatIsShown
  <2>4. QED
    BY <2>1, <2>2, <2>3 DEF Renders
<1>7. OpeningFits(t, o)
  BY <1>1, <1>2, OpeningFitsAlike DEF Overtakes
<1>8. InReader(t, o)
  <2> SUFFICES ASSUME t.view = "reader", t.current # NoBook
               PROVE  t.current \in t.held /\ t.shown.kind # "empty" /\ o # NotOpening
    BY DEF InReader
  <2>1. s.current \in s.held /\ s.view = "reader" /\ s.current # NoBook
    BY <1>2 DEF Renderable, Overtakes
  <2>2. s.loading # NoBook
    BY <2>1 DEF ShowsNothing
  <2>3. o.step = "load"
    BY <1>1, <2>2 DEF OpeningFits
  <2>4. NotOpening.step = "remap"
    BY DEF NotOpening
  <2>5. QED
    BY <1>2, <1>3, <2>1, <2>3, <2>4 DEF Overtakes
<1>9. PlacesFit(t, k, o, j)
  <2>1. \A b \in Books : Found(t, k, b)
    BY <1>2, FoundAlike DEF Renderable, Overtakes, SameBook
  <2>2. Steady(t)
    BY <1>3, <1>5 DEF Steady
  <2>3. QED
    BY <1>3, <2>1, <2>2 DEF PlacesFit
<1>10. QED
  BY <1>1, <1>4, <1>6, <1>7, <1>8, <1>9 DEF Ready, t

LEMMA TextReady ==
  ASSUME NEW s, NEW k, NEW o, NEW j, Renderable(s, k, o), ~ShowsNothing(s), s.current \notin Scans
  PROVE  Ready(Rendered(s), k, o, j)
<1> DEFINE t == Rendered(s)
<1>1. UiType(s) /\ PassesAreTold(s) /\ k \in [Books -> Place] /\ OpeningFits(s, o)
  BY DEF Renderable
<1>2. /\ DOMAIN t = UiFields /\ Overtakes(t, s) /\ SameBook(t, s) /\ t.rendering = TRUE
      /\ t.shown = Spinner /\ t.passes = s.passes \cup {NewPass(s)}
  BY <1>1, RenderedText
<1> HIDE DEF t
<1>3. /\ DOMAIN t.shown = {"kind", "parts", "at", "whole"} /\ t.shown.at \in Offsets
      /\ t.shown.whole = FALSE /\ t.shown.kind = "spinner"
  <2>1. Spinner # Blank
    <3>1. Spinner.kind = "spinner" /\ Blank.kind = "empty"
      BY DEF Spinner, Blank
    <3>2. QED
      BY <3>1
  <2>2. QED
    BY <1>2, <2>1, BlankTyped
<1>4. s.current \in Books /\ s.current \in s.held
  BY <1>1 DEF ShowsNothing, UiType
<1>5. NewPass(s) \in Pass /\ NewPass(s).step = 0 /\ NewPass(s).id = s.renders + 1
      /\ NewPass(s).book = s.current /\ NewPass(s).saved = s.scrolls[s.current]
  BY <1>1, <1>4, NewPassIs
<1>6. UiType(t)
  <2>1. /\ t.page \in Nat \ {0} /\ t.pages \in [Books -> Nat] /\ t.counted \in SomeBook
        /\ t.passes \subseteq Pass
    BY <1>1, <1>2, <1>5 DEF UiType, SameBook
  <2>2. QED
    BY <1>1, <1>2, <1>3, <2>1, OvertakesTyped
<1>7. \A p \in t.passes : Live(t, p) <=> p = NewPass(s)
  <2>1. \A p \in s.passes : ~Live(t, p)
    BY <1>1, <1>2, ARenderingOvertakes
  <2>2. Live(t, NewPass(s))
    BY <1>2, <1>5 DEF Live, Overtakes
  <2>3. QED
    BY <1>2, <2>1, <2>2
<1>8. Renders(t)
  <2>1. PassesAreTold(t)
    BY <1>1, <1>2, <1>4, PassesAreStillTold
  <2>2. t.renderId = t.renders /\ t.texts < t.renders
    BY <1>1, <1>2 DEF Overtakes, UiType, PassesAreTold
  <2>3. LivePassRenders(t)
    BY <1>2, <1>3, <1>4, <1>5, <1>7, <2>2 DEF LivePassRenders, Overtakes
  <2>4. WhatIsShown(t)
    BY <1>3 DEF WhatIsShown
  <2>5. QED
    BY <2>1, <2>3, <2>4 DEF Renders
<1>9. OpeningFits(t, o)
  BY <1>1, <1>2, OpeningFitsAlike DEF Overtakes
<1>10. InReader(t, o)
  BY <1>2, <1>3, <1>4, <1>5, <1>7 DEF InReader, Overtakes
<1>11. PlacesFit(t, k, o, j)
  <2>1. \A b \in Books : Found(t, k, b)
    BY <1>2, FoundAlike DEF Renderable, Overtakes, SameBook
  <2>2. Steady(t)
    BY <1>2, <1>3, <1>5, <1>7 DEF Steady, Overtakes
  <2>3. QED
    BY <1>3, <2>1, <2>2 DEF PlacesFit
<1>12. QED
  BY <1>1, <1>6, <1>8, <1>9, <1>10, <1>11 DEF Ready, t

LEMMA ScanReady ==
  ASSUME NEW s, NEW k, NEW o, NEW j, Renderable(s, k, o), ~ShowsNothing(s), s.current \in Scans
  PROVE  Ready(Rendered(s), k, o, j)
<1> DEFINE t == Rendered(s)
           b == s.current
           p == OpenedPage(s, b)
           at == Restored(t, b, s.scrolls[b])
<1>1. UiType(s) /\ PassesAreTold(s) /\ k \in [Books -> Place] /\ OpeningFits(s, o)
  BY DEF Renderable
<1>2. /\ DOMAIN t = UiFields /\ Overtakes(t, s) /\ t.rendering = FALSE
      /\ t.page = p /\ t.pages = [s.pages EXCEPT ![b] = p] /\ t.counted = b /\ t.passes = s.passes
      /\ t.shown = PageOf(Whole(b, p), at, TRUE)
  BY <1>1, RenderedScan
<1> HIDE DEF t
<1>3. b \in Books /\ b \in s.held /\ b # NoBook
  BY <1>1, ReaderAssumption DEF ShowsNothing, UiType
<1>4. p \in 1..Pages[b] /\ Pages[b] \in Nat /\ (s.pages[b] # 0 => p = FoundPage(s, b))
  BY <1>1, <1>3, OpenedPageIs, ReaderAssumption
<1>5. at \in Offsets
  <2>1. t.perPage = s.perPage
    BY <1>2 DEF Overtakes
  <2>2. s.scrolls[b] \in [page : Nat, at : Offsets]
    BY <1>1, <1>3 DEF UiType
  <2>3. t.perPage[b][t.page] \in Offsets \cup {Unseen}
    BY <1>1, <1>2, <1>3, <1>4, <2>1 DEF UiType
  <2>4. QED
    BY <2>2, <2>3 DEF Restored, Offsets
<1>6. /\ DOMAIN t.shown = {"kind", "parts", "at", "whole"} /\ t.shown.at = at
      /\ t.shown.whole = TRUE /\ t.shown.kind = "page" /\ t.shown.parts = Whole(b, p)
  <2> HIDE DEF at, p, b
  <2>1. QED
    BY <1>2 DEF PageOf
<1>7. t.pages \in [Books -> Nat] /\ t.pages[b] = p /\ \A c \in Books : c # b => t.pages[c] = s.pages[c]
  <2>1. s.pages \in [Books -> Nat] /\ p \in Nat
    BY <1>1, <1>4 DEF UiType
  <2> HIDE DEF p
  <2>2. QED
    BY <1>2, <1>3, <2>1
<1>8. UiType(t)
  <2>1. t.page \in Nat \ {0} /\ t.counted \in SomeBook /\ t.passes \subseteq Pass
    BY <1>1, <1>2, <1>3, <1>4 DEF UiType, SomeBook
  <2> HIDE DEF at
  <2>2. QED
    BY <1>1, <1>2, <1>5, <1>6, <1>7, <2>1, OvertakesTyped
<1>9. \A q \in t.passes : ~Live(t, q)
  BY <1>1, <1>2, ARenderingOvertakes
<1>10. OpenPage(t)
  BY <1>2, <1>3, <1>4, <1>7 DEF OpenPage, Overtakes
<1>11. Renders(t)
  <2>1. PassesAreTold(t)
    BY <1>1, <1>2, PassesAreStillTold
  <2>2. LivePassRenders(t)
    BY <1>9 DEF LivePassRenders
  <2>3. WhatIsShown(t)
    BY <1>2, <1>3, <1>6, <1>10 DEF WhatIsShown, Overtakes
  <2>4. QED
    BY <2>1, <2>2, <2>3 DEF Renders
<1>12. OpeningFits(t, o)
  BY <1>1, <1>2, OpeningFitsAlike DEF Overtakes
<1>13. InReader(t, o)
  BY <1>2, <1>3, <1>6 DEF InReader, Overtakes
<1>14. PlacesFit(t, k, o, j)
  <2>1. FoundPage(t, b) = p
    BY <1>4, <1>7 DEF FoundPage
  <2>2. FoundAt(t, b) = at
    BY <1>2, <2>1 DEF FoundAt, Restored, Overtakes
  <2>3. Agrees(k[b], p, at)
    <3>1. CASE s.pages[b] = 0
      BY <1>3, <3>1, UnknownAgrees DEF Renderable, Found
    <3>2. CASE s.pages[b] # 0
      <4>1. FoundPage(s, b) = p
        BY <1>4, <3>2
      <4>2. FoundAt(s, b) = at
        BY <1>2, <4>1 DEF FoundAt, Restored, Overtakes
      <4>3. QED
        BY <1>3, <3>2, <4>1, <4>2 DEF Renderable, Found
    <3>3. QED
      BY <3>1, <3>2
  <2>4. Found(t, k, b)
    BY <1>4, <1>7, <2>1, <2>2, <2>3 DEF Found
  <2>5. \A c \in Books : Found(t, k, c)
    BY <1>2, <1>7, <2>4, FoundAlike DEF Renderable, Overtakes
  <2>6. Steady(t)
    BY <1>2, <1>6, <1>9 DEF Steady, Overtakes
  <2>7. QED
    BY <1>2, <1>6, <2>3, <2>5, <2>6 DEF PlacesFit, Overtakes
<1>15. QED
  BY <1>1, <1>8, <1>11, <1>12, <1>13, <1>14 DEF Ready, t

LEMMA RenderReady ==
  ASSUME NEW s, NEW k, NEW o, NEW j, Renderable(s, k, o)
  PROVE  Ready(Rendered(s), k, o, j)
BY NothingReady, TextReady, ScanReady

-------------------------------------------------------------------------------
(* What the state is after a step.                                         *)

LEMMA InReaderAlike ==
  ASSUME NEW s, NEW t, NEW o, InReader(s, o), t.view = s.view, t.current = s.current,
         s.held \subseteq t.held, t.shown.kind = s.shown.kind, t.passes = s.passes,
         t.renders = s.renders, t.renderId = s.renderId
  PROVE  InReader(t, o)
<1>1. \A p : Live(t, p) <=> Live(s, p)
  BY DEF Live
<1>2. QED
  BY <1>1 DEF InReader

\* Every book would be found where it was left, and so is the one that is open.
AllFound(s, k, j) ==
  /\ s.view = "reader" /\ s.shown.whole => Agrees(k[s.current], s.page, s.shown.at)
  /\ \A b \in Books : Found(s, k, b)
  /\ Steady(s) \/ (j /\ s.current # NoBook /\ k[s.current] = Unknown)

LEMMA AllFoundFits ==
  ASSUME NEW s, NEW k, NEW o, NEW j, AllFound(s, k, j)
  PROVE  PlacesFit(s, k, o, j)
BY DEF AllFound, PlacesFit

\* While a book is on its way, or a jump is, the places of all are saved.
LEMMA OnTheWayAllFound ==
  ASSUME NEW s, NEW k, NEW o, NEW j, PlacesFit(s, k, o, j), o # NotOpening \/ j
  PROVE  AllFound(s, k, j)
BY DEF AllFound, PlacesFit

SettledAs(s, k, o, j, m) ==
  m = [b \in Books |->
    IF b = s.current /\ s.view = "reader" /\ s.shown.whole /\ ~j /\ o = NotOpening
    THEN [page |-> IF k[b].page = 0 THEN s.page ELSE k[b].page,
          at |-> IF k[b].at = Anywhere THEN s.shown.at ELSE k[b].at]
    ELSE k[b]]

LEMMA SettledReady ==
  ASSUME NEW s, NEW k, NEW o, NEW j, NEW m, Ready(s, k, o, j), SettledAs(s, k, o, j, m)
  PROVE  /\ Ready(s, m, o, j)
         /\ s.view = "reader" /\ s.shown.whole /\ ~j /\ o = NotOpening =>
              m[s.current] = [page |-> s.page, at |-> s.shown.at]
<1>1. UiType(s) /\ k \in [Books -> Place] /\ Renders(s) /\ InReader(s, o) /\ OpeningFits(s, o)
      /\ PlacesFit(s, k, o, j)
  BY DEF Ready
<1>2. s.shown.whole => s.current \in Books
  BY <1>1 DEF UiType, SomeBook, Renders, WhatIsShown
<1>3. CASE s.view = "reader" /\ s.shown.whole /\ ~j /\ o = NotOpening
  <2> DEFINE b == s.current
  <2>1. b \in Books /\ s.page \in Nat \ {0} /\ s.shown.at \in Offsets
    BY <1>1, <1>2, <1>3 DEF UiType
  <2>2. k[b].page \in {0, s.page} /\ k[b].at \in {Anywhere, s.shown.at}
    BY <1>1, <1>3 DEF PlacesFit, Agrees
  <2>3. m[b] = [page |-> s.page, at |-> s.shown.at]
    BY <1>3, <2>1, <2>2 DEF SettledAs
  <2>4. m \in [Books -> Place] /\ \A c \in Books : c # b => m[c] = k[c]
    <3>1. DOMAIN m = Books /\ m = [c \in Books |-> m[c]]
      BY DEF SettledAs
    <3>2. \A c \in Books : c # b => m[c] = k[c]
      BY DEF SettledAs
    <3>3. \A c \in Books : k[c] \in Place
      BY <1>1
    <3>4. m[b] \in Place
      BY <2>1, <2>3 DEF Place
    <3>5. QED
      BY <3>1, <3>2, <3>3, <3>4
  <2>5. PlacesFit(s, m, o, j)
    <3>1. Agrees(m[b], s.page, s.shown.at)
      BY <2>3 DEF Agrees
    <3>2. ASSUME NEW c \in Books, c # b PROVE Found(s, m, c)
      <4>1. Found(s, k, c)
        BY <1>1, <3>2 DEF PlacesFit
      <4>2. QED
        BY <2>4, <3>2, <4>1, FoundAlike
    <3>3. Steady(s)
      BY <1>1, <1>3 DEF PlacesFit
    <3>4. QED
      BY <1>3, <3>1, <3>2, <3>3 DEF PlacesFit
  <2>6. QED
    BY <1>1, <2>3, <2>4, <2>5 DEF Ready
<1>4. CASE ~(s.view = "reader" /\ s.shown.whole /\ ~j /\ o = NotOpening)
  <2>1. m = [b \in Books |-> k[b]]
    BY <1>4 DEF SettledAs
  <2>2. m = k
    BY <1>1, <2>1
  <2>3. QED
    BY <1>4, <2>2
<1>5. QED
  BY <1>3, <1>4

LEMMA SettledOK ==
  ASSUME NEW k, Settled(k), Ready(ui', k, opening', jumping'), jumping' \in BOOLEAN
  PROVE  ReaderIInv'
<1>1. SettledAs(ui', k, opening', jumping', place')
  BY DEF Settled, SettledAs
<1>2. /\ Ready(ui', place', opening', jumping')
      /\ ui'.view = "reader" /\ ui'.shown.whole /\ ~jumping' /\ opening' = NotOpening =>
           place'[ui'.current] = [page |-> ui'.page, at |-> ui'.shown.at]
  BY <1>1, SettledReady
<1>3. QED
  BY <1>2 DEF ReaderIInv, KeepsYourPlace

\* Whatever is remembered of the open book is where it is.
LEMMA RememberReady ==
  ASSUME NEW s, NEW k, NEW o, NEW j, UiType(s), Renders(s), InReader(s, o), PlacesFit(s, k, o, j)
  PROVE  LET t == Remember(s)
         IN  UiType(t) /\ Renders(t) /\ InReader(t, o) /\ AllFound(t, k, j)
<1> DEFINE t == Remember(s)
<1>1. /\ UiType(t)
      /\ t.view = s.view /\ t.current = s.current /\ t.page = s.page /\ t.pages = s.pages
      /\ t.held = s.held /\ t.loading = s.loading /\ t.counted = s.counted /\ t.shown = s.shown
      /\ t.rendering = s.rendering /\ t.renders = s.renders /\ t.texts = s.texts
      /\ t.renderId = s.renderId /\ t.passes = s.passes
      /\ \A b \in Books : b # s.current => t.scrolls[b] = s.scrolls[b] /\ t.perPage[b] = s.perPage[b]
      /\ Remembers(s) => t.scrolls[s.current] = [page |-> s.page, at |-> s.shown.at]
      /\ ~Remembers(s) => t = s
  BY RememberIs
<1> HIDE DEF t
<1>2. Renders(t)
  BY <1>1, RendersAlike DEF OpenPage
<1>3. InReader(t, o)
  BY <1>1, InReaderAlike
<1>4. s.view = "reader" /\ s.shown.whole => Remembers(s)
  BY DEF Renders, WhatIsShown, Remembers
<1>5. CASE ~Remembers(s)
  <2>1. AllFound(s, k, j)
    BY <1>4, <1>5 DEF PlacesFit, AllFound
  <2>2. QED
    BY <1>1, <1>2, <1>3, <1>5, <2>1 DEF t
<1>6. CASE Remembers(s)
  <2> DEFINE b == s.current
  <2>1. b \in Books /\ s.page \in Nat \ {0}
    BY <1>6 DEF Remembers, UiType, SomeBook
  <2>2. \A p \in s.passes : ~Live(s, p)
    BY <1>6 DEF Remembers, Renders, LivePassRenders
  <2>3. s.shown.whole
    <3>1. s.shown.kind = "page"
      BY <1>6 DEF Remembers, InReader, UiType
    <3>2. QED
      BY <2>2, <3>1 DEF Renders, WhatIsShown
  <2>4. s.pages[b] = s.page /\ s.page <= Pages[b]
    BY <2>3 DEF Renders, WhatIsShown, OpenPage
  <2>5. Agrees(k[b], s.page, s.shown.at)
    BY <1>6, <2>3 DEF PlacesFit, Remembers
  <2>6. Found(t, k, b)
    <3>1. FoundPage(t, b) = s.page
      BY <1>1, <2>1, <2>4, ReaderAssumption DEF FoundPage
    <3>2. FoundAt(t, b) = s.shown.at
      BY <1>1, <1>6, <3>1 DEF FoundAt
    <3>3. t.pages[b] # 0
      BY <1>1, <2>1, <2>4
    <3>4. QED
      BY <2>5, <3>1, <3>2, <3>3 DEF Found
  <2>7. ASSUME NEW c \in Books PROVE Found(t, k, c)
    <3>1. CASE c = b
      BY <2>6, <3>1
    <3>2. CASE c # b
      <4>1. Found(s, k, c)
        BY <3>2 DEF PlacesFit
      <4>2. QED
        BY <1>1, <3>2, <4>1, FoundAlike
    <3>3. QED
      BY <3>1, <3>2
  <2>8. Steady(t) \/ (j /\ t.current # NoBook /\ k[t.current] = Unknown)
    <3>1. CASE Steady(s)
      BY <1>1, <2>2, <3>1, SteadyAlike
    <3>2. CASE ~Steady(s)
      BY <1>1, <3>2 DEF PlacesFit
    <3>3. QED
      BY <3>1, <3>2
  <2>9. AllFound(t, k, j)
    BY <1>1, <2>5, <2>7, <2>8 DEF AllFound
  <2>10. QED
    BY <1>1, <1>2, <1>3, <2>9 DEF t
<1>7. QED
  BY <1>5, <1>6

-------------------------------------------------------------------------------
(* The steps.                                                              *)

LEMMA Given ==
  ASSUME ReaderIInv
  PROVE  /\ UiType(ui) /\ place \in [Books -> Place] /\ Renders(ui) /\ PassesAreTold(ui)
         /\ InReader(ui, opening) /\ OpeningFits(ui, opening)
         /\ PlacesFit(ui, place, opening, jumping) /\ jumping \in BOOLEAN /\ KeepsYourPlace
         /\ ui.view = "reader" /\ ui.current # NoBook => ui.current \in ui.held
         /\ \A b \in Books : b # ui.current => Found(ui, place, b)
         /\ ui.shown.whole => ui.current \in Books /\ OpenPage(ui)
<1>1. /\ UiType(ui) /\ place \in [Books -> Place] /\ Renders(ui)
      /\ InReader(ui, opening) /\ OpeningFits(ui, opening)
      /\ PlacesFit(ui, place, opening, jumping) /\ jumping \in BOOLEAN /\ KeepsYourPlace
  BY DEF ReaderIInv, Ready
<1>2. \A b \in Books : b # ui.current => Found(ui, place, b)
  BY <1>1 DEF PlacesFit
<1>3. ui.shown.whole => ui.current \in Books /\ OpenPage(ui)
  BY <1>1 DEF Renders, WhatIsShown, UiType, SomeBook
<1>4. PassesAreTold(ui) /\ (ui.view = "reader" /\ ui.current # NoBook => ui.current \in ui.held)
  BY <1>1 DEF Renders, InReader
<1>5. QED
  BY <1>1, <1>2, <1>3, <1>4

LEMMA ForgottenIs ==
  ASSUME ReaderIInv
  PROVE  /\ Forgotten \in [Books -> Place]
         /\ ui.current # NoBook => Forgotten[ui.current] = Unknown
         /\ \A b \in Books : b # ui.current => Forgotten[b] = place[b]
<1>1. place \in [Books -> Place] /\ ui.current \in SomeBook
  BY Given DEF UiType
<1>2. CASE ui.current = NoBook
  BY <1>1, <1>2 DEF Forgotten
<1>3. CASE ui.current # NoBook
  <2>1. ui.current \in Books /\ Unknown \in Place
    BY <1>1, <1>3, UnknownAgrees DEF SomeBook
  <2>2. Forgotten = [place EXCEPT ![ui.current] = Unknown]
    BY <1>3 DEF Forgotten
  <2>3. QED
    BY <1>1, <2>1, <2>2
<1>4. QED
  BY <1>2, <1>3

LEMMA NowIs ==
  ASSUME ReaderIInv, NEW b \in Books, NEW p \in Nat, NEW at \in Offsets \cup {Anywhere}
  PROVE  /\ Now(b, p, at) \in [Books -> Place]
         /\ Now(b, p, at)[b] = [page |-> p, at |-> at]
         /\ \A c \in Books : c # b => Now(b, p, at)[c] = place[c]
<1>1. place \in [Books -> Place] /\ [page |-> p, at |-> at] \in Place
  BY Given DEF Place
<1>2. QED
  BY <1>1 DEF Now

\* The place of the open book need not be known.
LEMMA FoundButForgotten ==
  ASSUME ReaderIInv, NEW s,
         \A b \in Books : b # ui.current =>
           s.pages[b] = ui.pages[b] /\ s.scrolls[b] = ui.scrolls[b] /\ s.perPage[b] = ui.perPage[b]
  PROVE  \A b \in Books : Found(s, Forgotten, b)
<1> SUFFICES ASSUME NEW b \in Books PROVE Found(s, Forgotten, b)
  OBVIOUS
<1>1. CASE b = ui.current
  <2>1. Forgotten[b] = Unknown
    BY <1>1, ForgottenIs, ReaderAssumption
  <2>2. QED
    BY <2>1, UnknownIsFound
<1>2. CASE b # ui.current
  <2>1. Found(ui, place, b) /\ Forgotten[b] = place[b]
    BY <1>2, Given, ForgottenIs
  <2>2. QED
    BY <1>2, <2>1, FoundAlike
<1>3. QED
  BY <1>1, <1>2

LEMMA RerenderKeeps == ASSUME ReaderIInv, Rerender PROVE ReaderIInv'
<1> DEFINE k == IF ui.current # NoBook /\ ui.scrolls[ui.current] # [page |-> ui.page, at |-> ui.shown.at]
                THEN Forgotten ELSE place
<1>1. ui' = Rendered(ui) /\ opening' = opening /\ jumping' = jumping /\ Settled(k)
  BY DEF Rerender
<1>2. \A b \in Books : Found(ui, k, b)
  <2>1. CASE k = Forgotten
    BY <2>1, FoundButForgotten
  <2>2. ASSUME NEW b \in Books, k # Forgotten PROVE Found(ui, k, b)
    <3>1. k = place
      BY <2>2
    <3>2. CASE Found(ui, place, b)
      BY <3>1, <3>2
    <3>3. CASE ~Found(ui, place, b)
      <4>1. b = ui.current /\ ui.view = "reader" /\ ui.shown.whole /\ opening = NotOpening /\ ~jumping
        BY <3>3, Given DEF PlacesFit
      <4>2. place[b] = [page |-> ui.page, at |-> ui.shown.at]
        BY <4>1, Given DEF KeepsYourPlace
      <4>3. ui.scrolls[b] = [page |-> ui.page, at |-> ui.shown.at]
        BY <2>2, <4>1, ReaderAssumption
      <4>4. ui.pages[b] = ui.page /\ ui.page <= Pages[b] /\ ui.page \in Nat \ {0} /\ Pages[b] \in Nat
        BY <4>1, Given, ReaderAssumption DEF OpenPage, UiType
      <4>5. FoundPage(ui, b) = ui.page
        BY <4>4 DEF FoundPage
      <4>6. FoundAt(ui, b) = ui.shown.at
        BY <4>3, <4>5 DEF FoundAt
      <4>7. QED
        BY <3>1, <4>2, <4>4, <4>5, <4>6 DEF Found, Agrees
    <3>4. QED
      BY <3>2, <3>3
  <2>3. QED
    BY <2>1, <2>2
<1>3. k \in [Books -> Place]
  BY Given, ForgottenIs
<1> HIDE DEF k
<1>4. Renderable(ui, k, opening)
  BY <1>2, <1>3, Given DEF Renderable
<1>5. Ready(ui', k, opening', jumping')
  BY <1>1, <1>4, RenderReady
<1>6. QED
  BY <1>1, <1>5, Given, SettledOK

LEMMA JumpEndsKeeps == ASSUME ReaderIInv, JumpEnds PROVE ReaderIInv'
<1>1. ui' = Rendered(ui) /\ opening' = opening /\ jumping' = FALSE /\ Settled(place) /\ jumping
  BY DEF JumpEnds
<1>2. AllFound(ui, place, jumping)
  BY <1>1, Given, OnTheWayAllFound
<1>3. Renderable(ui, place, opening)
  BY <1>2, Given DEF Renderable, AllFound
<1>4. Ready(ui', place, opening', jumping')
  BY <1>1, <1>3, RenderReady
<1>5. QED
  BY <1>1, <1>4, SettledOK

LEMMA ChangeWordsPerPageKeeps == ASSUME ReaderIInv, ChangeWordsPerPage PROVE ReaderIInv'
<1> DEFINE s == [ui EXCEPT !.page = 1]
           t == IF s.current = NoBook THEN s
                ELSE [s EXCEPT !.scrolls[s.current] = [page |-> 1, at |-> 0]]
<1>1. /\ ui' = Rendered(t) /\ opening' = opening /\ jumping' = jumping /\ Settled(Forgotten)
      /\ ui.view # "reader"
  BY DEF ChangeWordsPerPage
<1>2. UiType(ui)
  BY Given
<1>3. /\ DOMAIN s = UiFields /\ s.page = 1 /\ s.view = ui.view /\ s.current = ui.current
      /\ s.pages = ui.pages /\ s.scrolls = ui.scrolls /\ s.perPage = ui.perPage /\ s.held = ui.held
      /\ s.loading = ui.loading /\ s.counted = ui.counted /\ s.shown = ui.shown
      /\ s.rendering = ui.rendering /\ s.renders = ui.renders /\ s.texts = ui.texts
      /\ s.renderId = ui.renderId /\ s.passes = ui.passes
  BY <1>2 DEF UiType, UiFields
<1> HIDE DEF s
<1>4. /\ DOMAIN t = UiFields /\ t.page = 1 /\ t.view = s.view /\ t.current = s.current
      /\ t.pages = s.pages /\ t.perPage = s.perPage /\ t.held = s.held
      /\ t.loading = s.loading /\ t.counted = s.counted /\ t.shown = s.shown
      /\ t.rendering = s.rendering /\ t.renders = s.renders /\ t.texts = s.texts
      /\ t.renderId = s.renderId /\ t.passes = s.passes
      /\ t.scrolls = IF s.current = NoBook THEN s.scrolls
                     ELSE [s.scrolls EXCEPT ![s.current] = [page |-> 1, at |-> 0]]
  BY <1>3 DEF UiFields
<1> HIDE DEF t
<1>5. /\ t.scrolls \in [Books -> [page : Nat, at : Offsets]]
      /\ \A b \in Books : b # ui.current => t.scrolls[b] = ui.scrolls[b]
  <2>1. ui.scrolls \in [Books -> [page : Nat, at : Offsets]] /\ ui.current \in SomeBook
    BY <1>2 DEF UiType
  <2>2. [page |-> 1, at |-> 0] \in [page : Nat, at : Offsets]
    BY DEF Offsets
  <2>3. CASE ui.current = NoBook
    BY <1>3, <1>4, <2>1, <2>3
  <2>4. CASE ui.current # NoBook
    <3>1. ui.current \in Books
      BY <2>1, <2>4 DEF SomeBook
    <3>2. t.scrolls = [ui.scrolls EXCEPT ![ui.current] = [page |-> 1, at |-> 0]]
      BY <1>3, <1>4, <2>4
    <3>3. QED
      BY <2>1, <2>2, <3>1, <3>2
  <2>5. QED
    BY <2>3, <2>4
<1>6. UiType(t)
  BY <1>2, <1>3, <1>4, <1>5 DEF UiType
<1>7. Renderable(t, Forgotten, opening)
  <2>1. PassesAreTold(t)
    BY <1>3, <1>4, Given DEF PassesAreTold
  <2>2. OpeningFits(t, opening)
    BY <1>3, <1>4, Given, OpeningFitsAlike
  <2>3. \A b \in Books : Found(t, Forgotten, b)
    BY <1>3, <1>4, <1>5, FoundButForgotten
  <2>4. QED
    BY <1>1, <1>3, <1>4, <1>6, <2>1, <2>2, <2>3, ForgottenIs DEF Renderable
<1>8. Ready(ui', Forgotten, opening', jumping')
  BY <1>1, <1>7, RenderReady
<1>9. QED
  BY <1>1, <1>8, Given, SettledOK

LEMMA TurnPageKeeps ==
  ASSUME ReaderIInv, NEW p \in AnyPage, TurnPage(p)
  PROVE  ReaderIInv'
<1> DEFINE b == ui.current
           s == [ui EXCEPT !.page = p, !.pages[b] = p]
           k == IF ui.shown.whole /\ ~jumping THEN Now(b, p, Anywhere) ELSE Forgotten
<1>1. /\ ui' = Rendered(s) /\ opening' = opening /\ jumping' = jumping /\ Settled(k)
      /\ ui.view = "reader" /\ b # NoBook /\ (ui.counted = b => p <= Pages[b])
  BY DEF TurnPage
<1>2. p \in Nat \ {0}
  BY ReaderAssumption DEF AnyPage
<1>3. UiType(ui)
  BY Given
<1>4. b \in Books /\ b \in ui.held
  BY <1>1, <1>3, Given DEF UiType, SomeBook
<1>5. /\ DOMAIN s = UiFields /\ s.page = p /\ s.view = ui.view /\ s.current = ui.current
      /\ s.pages = [ui.pages EXCEPT ![b] = p] /\ s.scrolls = ui.scrolls
      /\ s.perPage = ui.perPage /\ s.held = ui.held
      /\ s.loading = ui.loading /\ s.counted = ui.counted /\ s.shown = ui.shown
      /\ s.rendering = ui.rendering /\ s.renders = ui.renders /\ s.texts = ui.texts
      /\ s.renderId = ui.renderId /\ s.passes = ui.passes
  BY <1>3 DEF UiType, UiFields
<1> HIDE DEF s
<1>6. /\ s.pages \in [Books -> Nat] /\ s.pages[b] = p
      /\ \A c \in Books : c # b => s.pages[c] = ui.pages[c]
  <2>1. ui.pages \in [Books -> Nat]
    BY <1>3 DEF UiType
  <2>2. QED
    BY <1>2, <1>4, <1>5, <2>1
<1>7. UiType(s)
  BY <1>2, <1>3, <1>5, <1>6 DEF UiType
<1>8. /\ k \in [Books -> Place]
      /\ \A c \in Books : c # b => k[c] = place[c]
      /\ k[b] = Unknown \/ (k[b] = [page |-> p, at |-> Anywhere] /\ p <= Pages[b])
  <2>1. CASE ui.shown.whole /\ ~jumping
    <3>1. p <= Pages[b]
      BY <1>1, <2>1, Given DEF OpenPage
    <3>2. QED
      BY <1>2, <1>4, <2>1, <3>1, NowIs
  <2>2. CASE ~(ui.shown.whole /\ ~jumping)
    BY <1>1, <2>2, ForgottenIs
  <2>3. QED
    BY <2>1, <2>2
<1> HIDE DEF k
<1>9. ASSUME NEW c \in Books PROVE Found(s, k, c)
  <2>1. CASE c # b
    BY <1>5, <1>6, <1>8, <2>1, Given, FoundAlike
  <2>2. CASE c = b /\ k[b] = Unknown
    BY <2>2, UnknownIsFound
  <2>3. CASE c = b /\ k[b] = [page |-> p, at |-> Anywhere] /\ p <= Pages[b]
    <3>1. FoundPage(s, b) = p
      BY <1>2, <1>4, <1>6, <2>3, ReaderAssumption DEF FoundPage
    <3>2. QED
      BY <1>2, <1>6, <2>3, <3>1 DEF Found, Agrees
  <2>4. QED
    BY <1>8, <2>1, <2>2, <2>3
<1>10. Renderable(s, k, opening)
  <2>1. PassesAreTold(s)
    BY <1>5, Given DEF PassesAreTold
  <2>2. OpeningFits(s, opening)
    BY <1>5, Given, OpeningFitsAlike
  <2>3. QED
    BY <1>4, <1>5, <1>7, <1>8, <1>9, <2>1, <2>2 DEF Renderable
<1>11. Ready(ui', k, opening', jumping')
  BY <1>1, <1>10, RenderReady
<1>12. QED
  BY <1>1, <1>11, Given, SettledOK

LEMMA ScrollKeeps == ASSUME ReaderIInv, Scroll PROVE ReaderIInv'
<1> DEFINE b == ui.current
           s == [ui EXCEPT !.shown.at = 1 - ui.shown.at]
           k == IF jumping \/ opening # NotOpening THEN Forgotten ELSE Now(b, ui.page, s.shown.at)
<1>1. /\ ui' = s /\ opening' = opening /\ jumping' = jumping /\ Settled(k)
      /\ ui.view = "reader" /\ ui.shown.whole
  BY DEF Scroll
<1>2. UiType(ui) /\ b \in Books /\ b # NoBook
  BY <1>1, Given, ReaderAssumption
<1>3. /\ DOMAIN s = UiFields /\ s.page = ui.page /\ s.view = ui.view /\ s.current = ui.current
      /\ s.pages = ui.pages /\ s.scrolls = ui.scrolls /\ s.perPage = ui.perPage /\ s.held = ui.held
      /\ s.loading = ui.loading /\ s.counted = ui.counted
      /\ s.rendering = ui.rendering /\ s.renders = ui.renders /\ s.texts = ui.texts
      /\ s.renderId = ui.renderId /\ s.passes = ui.passes
      /\ s.shown = [ui.shown EXCEPT !.at = 1 - ui.shown.at]
  BY <1>2 DEF UiType, UiFields
<1> HIDE DEF s
<1>4. /\ DOMAIN s.shown = {"kind", "parts", "at", "whole"} /\ s.shown.at \in Offsets
      /\ s.shown.kind = ui.shown.kind /\ s.shown.whole = ui.shown.whole
      /\ s.shown.parts = ui.shown.parts
  <2>1. DOMAIN ui.shown = {"kind", "parts", "at", "whole"} /\ ui.shown.at \in Offsets
    BY <1>2 DEF UiType
  <2>2. QED
    BY <1>3, <2>1 DEF Offsets
<1>5. UiType(s)
  BY <1>2, <1>3, <1>4 DEF UiType
<1>6. Renders(s) /\ InReader(s, opening) /\ OpeningFits(s, opening)
  <2>1. Renders(s)
    BY <1>3, <1>4, Given, RendersAlike DEF OpenPage
  <2>2. InReader(s, opening)
    BY <1>3, <1>4, Given, InReaderAlike
  <2>3. OpeningFits(s, opening)
    BY <1>3, Given, OpeningFitsAlike
  <2>4. QED
    BY <2>1, <2>2, <2>3
<1>7. /\ k \in [Books -> Place]
      /\ \A c \in Books : c # b => k[c] = place[c]
      /\ IF jumping \/ opening # NotOpening THEN k[b] = Unknown
         ELSE k[b] = [page |-> ui.page, at |-> s.shown.at]
  <2>1. ui.page \in Nat
    BY <1>2 DEF UiType
  <2>2. CASE jumping \/ opening # NotOpening
    BY <1>2, <2>2, ForgottenIs
  <2>3. CASE ~(jumping \/ opening # NotOpening)
    BY <1>2, <1>4, <2>1, <2>3, NowIs
  <2>4. QED
    BY <2>2, <2>3
<1> HIDE DEF k
<1>8. PlacesFit(s, k, opening, jumping)
  <2>1. Agrees(k[b], s.page, s.shown.at)
    BY <1>3, <1>7, UnknownAgrees DEF Agrees
  <2>2. ASSUME NEW c \in Books, c # b PROVE Found(s, k, c)
    BY <1>3, <1>7, <2>2, Given, FoundAlike
  <2>3. CASE jumping \/ opening # NotOpening
    <3>1. Found(s, k, b)
      BY <1>2, <1>7, <2>3, UnknownIsFound
    <3>2. Steady(s) \/ (jumping /\ s.current # NoBook /\ k[s.current] = Unknown)
      <4>1. CASE Steady(ui)
        BY <1>3, <1>4, <4>1, SteadyAlike
      <4>2. CASE ~Steady(ui)
        BY <1>2, <1>3, <1>7, <4>2, Given DEF PlacesFit
      <4>3. QED
        BY <4>1, <4>2
    <3>3. QED
      BY <1>3, <2>1, <2>2, <3>1, <3>2 DEF PlacesFit
  <2>4. CASE ~(jumping \/ opening # NotOpening)
    <3>1. Steady(ui)
      BY <2>4, Given DEF PlacesFit
    <3>2. Steady(s)
      BY <1>3, <1>4, <3>1, SteadyAlike
    <3>3. QED
      BY <1>1, <1>3, <1>4, <2>1, <2>2, <2>4, <3>2 DEF PlacesFit
  <2>5. QED
    BY <2>3, <2>4
<1>9. Ready(ui', k, opening', jumping')
  BY <1>1, <1>5, <1>6, <1>7, <1>8 DEF Ready
<1>10. QED
  BY <1>1, <1>9, Given, SettledOK

LEMMA ScrollTimerFiresKeeps == ASSUME ReaderIInv, ScrollTimerFires PROVE ReaderIInv'
<1>1. /\ ui' = ui \/ ui' = Remember(ui)
      /\ opening' = opening /\ jumping' = jumping /\ Settled(place)
  BY DEF ScrollTimerFires
<1>2. CASE ui' = ui
  <2>1. Ready(ui', place, opening', jumping')
    BY <1>1, <1>2 DEF ReaderIInv
  <2>2. QED
    BY <1>1, <2>1, Given, SettledOK
<1>3. CASE ui' = Remember(ui)
  <2>1. UiType(ui') /\ Renders(ui') /\ InReader(ui', opening) /\ AllFound(ui', place, jumping)
    BY <1>3, Given, RememberReady
  <2>2. OpeningFits(ui', opening)
    BY <1>3, Given, RememberIs, OpeningFitsAlike
  <2>3. Ready(ui', place, opening', jumping')
    BY <1>1, <2>1, <2>2, Given, AllFoundFits DEF Ready
  <2>4. QED
    BY <1>1, <2>3, Given, SettledOK
<1>4. QED
  BY <1>1, <1>2, <1>3

LEMMA JumpKeeps ==
  ASSUME ReaderIInv, NEW p \in AnyPage, NEW at \in Offsets, Jump(p, at)
  PROVE  ReaderIInv'
<1> DEFINE b == ui.current
           s == [ui EXCEPT !.page = p, !.pages[b] = p, !.scrolls[b] = [page |-> p, at |-> at],
                           !.perPage[b][p] = Unseen]
<1>1. /\ ui' = s /\ opening' = opening /\ jumping' = TRUE /\ Settled(Forgotten)
      /\ ui.view = "reader" /\ b # NoBook /\ p <= Pages[b]
  BY DEF Jump
<1>2. p \in Nat \ {0}
  BY ReaderAssumption DEF AnyPage
<1>3. UiType(ui) /\ b \in Books
  BY <1>1, Given DEF UiType, SomeBook
<1>4. /\ DOMAIN s = UiFields /\ s.page = p /\ s.view = ui.view /\ s.current = ui.current
      /\ s.pages = [ui.pages EXCEPT ![b] = p]
      /\ s.scrolls = [ui.scrolls EXCEPT ![b] = [page |-> p, at |-> at]]
      /\ s.perPage = [ui.perPage EXCEPT ![b] = [ui.perPage[b] EXCEPT ![p] = Unseen]]
      /\ s.held = ui.held /\ s.loading = ui.loading /\ s.counted = ui.counted
      /\ s.shown = ui.shown /\ s.rendering = ui.rendering /\ s.renders = ui.renders
      /\ s.texts = ui.texts /\ s.renderId = ui.renderId /\ s.passes = ui.passes
  BY <1>3 DEF UiType, UiFields
<1> HIDE DEF s
<1>5. /\ s.pages \in [Books -> Nat] /\ s.pages[b] = p
      /\ \A c \in Books : c # b => s.pages[c] = ui.pages[c]
  <2>1. ui.pages \in [Books -> Nat]
    BY <1>3 DEF UiType
  <2>2. QED
    BY <1>2, <1>3, <1>4, <2>1
<1>6. /\ s.scrolls \in [Books -> [page : Nat, at : Offsets]]
      /\ \A c \in Books : c # b => s.scrolls[c] = ui.scrolls[c]
  <2>1. ui.scrolls \in [Books -> [page : Nat, at : Offsets]]
    BY <1>3 DEF UiType
  <2>2. [page |-> p, at |-> at] \in [page : Nat, at : Offsets]
    BY <1>2
  <2>3. QED
    BY <1>3, <1>4, <2>1, <2>2
<1>7. /\ DOMAIN s.perPage = Books
      /\ \A c \in Books : c # b => s.perPage[c] = ui.perPage[c]
      /\ s.perPage[b] = [ui.perPage[b] EXCEPT ![p] = Unseen]
  BY <1>3, <1>4 DEF UiType
<1>8. ASSUME NEW c \in Books PROVE s.perPage[c] \in [1..Pages[c] -> Offsets \cup {Unseen}]
  <2>1. ui.perPage[c] \in [1..Pages[c] -> Offsets \cup {Unseen}]
    BY <1>3 DEF UiType
  <2>2. CASE c # b
    BY <1>7, <2>1, <2>2
  <2>3. CASE c = b
    <3>1. s.perPage[c] = [ui.perPage[c] EXCEPT ![p] = Unseen]
      BY <1>7, <2>3
    <3>2. QED
      BY <2>1, <3>1
  <2>4. QED
    BY <2>2, <2>3
<1>9. UiType(s)
  BY <1>2, <1>3, <1>4, <1>5, <1>6, <1>7, <1>8 DEF UiType
<1>10. Renders(s) /\ InReader(s, opening) /\ OpeningFits(s, opening)
  <2>1. OpenPage(ui) => OpenPage(s)
    BY <1>1, <1>4, <1>5 DEF OpenPage
  <2>2. Renders(s)
    BY <1>4, <2>1, Given, RendersAlike
  <2>3. InReader(s, opening)
    BY <1>4, Given, InReaderAlike
  <2>4. OpeningFits(s, opening)
    BY <1>4, Given, OpeningFitsAlike
  <2>5. QED
    BY <2>2, <2>3, <2>4
<1>11. AllFound(s, Forgotten, TRUE)
  <2>1. \A c \in Books : Found(s, Forgotten, c)
    BY <1>5, <1>6, <1>7, FoundButForgotten
  <2>2. Forgotten[s.current] = Unknown /\ s.current # NoBook
    BY <1>1, <1>4, ForgottenIs
  <2>3. QED
    BY <2>1, <2>2, UnknownAgrees DEF AllFound
<1>12. Ready(ui', Forgotten, opening', jumping')
  BY <1>1, <1>9, <1>10, <1>11, ForgottenIs, AllFoundFits DEF Ready
<1>13. QED
  BY <1>1, <1>12, SettledOK

-------------------------------------------------------------------------------
(* Opening a book, and leaving the Reader.                                 *)

\* Only the texts that are held, or loaded, differ.
LoadsAside(t, s) ==
  /\ DOMAIN t = UiFields /\ t.view = s.view /\ t.current = s.current /\ t.page = s.page
  /\ t.pages = s.pages /\ t.scrolls = s.scrolls /\ t.perPage = s.perPage /\ t.counted = s.counted
  /\ t.shown = s.shown /\ t.rendering = s.rendering /\ t.renders = s.renders
  /\ t.texts = s.texts /\ t.renderId = s.renderId /\ t.passes = s.passes
  /\ s.held \subseteq t.held /\ t.held \subseteq Books /\ t.loading \in SomeBook

LEMMA LoadsAsideReady ==
  ASSUME NEW s, NEW t, NEW k, NEW o, NEW j, LoadsAside(t, s),
         UiType(s), Renders(s), InReader(s, o), PlacesFit(s, k, o, j)
  PROVE  UiType(t) /\ Renders(t) /\ InReader(t, o) /\ PlacesFit(t, k, o, j)
<1>1. UiType(t)
  BY DEF LoadsAside, UiType
<1>2. Renders(t)
  <2>1. OpenPage(s) => OpenPage(t)
    BY DEF LoadsAside, OpenPage
  <2>2. QED
    BY <2>1, RendersAlike DEF LoadsAside
<1>3. InReader(t, o)
  BY InReaderAlike DEF LoadsAside
<1>4. PlacesFit(t, k, o, j)
  <2>1. \A b \in Books : Found(s, k, b) => Found(t, k, b)
    BY FoundAlike DEF LoadsAside
  <2>2. Steady(s) => Steady(t)
    BY SteadyAlike DEF LoadsAside
  <2>3. QED
    BY <2>1, <2>2 DEF PlacesFit, LoadsAside
<1>5. QED
  BY <1>1, <1>2, <1>3, <1>4

LEMMA LoadingIs ==
  ASSUME NEW s, UiType(s), NEW l \in SomeBook
  PROVE  LET t == [s EXCEPT !.loading = l]
         IN  LoadsAside(t, s) /\ t.loading = l /\ t.held = s.held
<1> DEFINE t == [s EXCEPT !.loading = l]
<1>1. /\ DOMAIN t = UiFields /\ t.view = s.view /\ t.current = s.current /\ t.page = s.page
      /\ t.pages = s.pages /\ t.scrolls = s.scrolls /\ t.perPage = s.perPage /\ t.counted = s.counted
      /\ t.shown = s.shown /\ t.rendering = s.rendering /\ t.renders = s.renders
      /\ t.texts = s.texts /\ t.renderId = s.renderId /\ t.passes = s.passes
      /\ t.held = s.held /\ t.loading = l
  BY DEF UiType, UiFields
<1>2. s.held \subseteq Books
  BY DEF UiType
<1>3. LoadsAside(t, s) /\ t.loading = l /\ t.held = s.held
  <2> HIDE DEF t
  <2>1. QED
    BY <1>1, <1>2 DEF LoadsAside
<1>4. QED
  BY <1>3

LEMMA OpenBookReady ==
  ASSUME ReaderIInv, NEW b \in Books, OpenBook(b)
  PROVE  Ready(ui', place, opening', jumping)
<1> DEFINE r == [ui EXCEPT !.loading = NoBook]
           s == Remember(r)
           t == [s EXCEPT !.loading = b]
<1>1. LoadsAside(r, ui) /\ r.loading = NoBook /\ r.held = ui.held
  BY Given, LoadingIs DEF SomeBook
<1>2. /\ UiType(r) /\ Renders(r) /\ InReader(r, opening)
      /\ PlacesFit(r, place, opening, jumping)
  BY <1>1, Given, LoadsAsideReady
<1> HIDE DEF r
<1>3. UiType(s) /\ Renders(s) /\ InReader(s, opening) /\ AllFound(s, place, jumping)
  BY <1>2, RememberReady
<1>4. /\ s.loading = NoBook /\ s.held = ui.held /\ s.view = ui.view /\ s.current = ui.current
  BY <1>1, <1>2, RememberIs DEF LoadsAside
<1> HIDE DEF s
<1>5. CASE b \in ui.held
  <2>1. ui' = s /\ opening' = [book |-> b, step |-> "remap", moved |-> FALSE]
    BY <1>5 DEF OpenBook, s, r
  <2>2. b # NoBook /\ opening'.book = b /\ opening'.step = "remap" /\ opening'.moved = FALSE
        /\ opening' \in [book : SomeBook, step : {"load", "remap"}, moved : BOOLEAN]
    BY <2>1, ReaderAssumption DEF SomeBook
  <2>3. OpeningFits(ui', opening')
    BY <1>4, <1>5, <2>1, <2>2 DEF OpeningFits
  <2>4. opening' # NotOpening
    BY <2>2 DEF NotOpening
  <2>5. InReader(ui', opening')
    BY <1>3, <2>1, <2>4 DEF InReader
  <2>6. QED
    BY <1>3, <2>1, <2>3, <2>5, Given, AllFoundFits DEF Ready
<1>6. CASE b \notin ui.held
  <2>1. ui' = Rendered(t) /\ opening' = [book |-> b, step |-> "load", moved |-> FALSE]
    BY <1>6 DEF OpenBook, s, r
  <2>2. LoadsAside(t, s) /\ t.loading = b /\ t.held = s.held
    BY <1>3, LoadingIs DEF SomeBook
  <2> HIDE DEF t
  <2>3. UiType(t) /\ Renders(t)
    <3>1. PlacesFit(s, place, opening, jumping)
      BY <1>3, AllFoundFits
    <3>2. QED
      BY <1>3, <2>2, <3>1, LoadsAsideReady
  <2>4. b # NoBook /\ opening'.book = b /\ opening'.step = "load" /\ opening'.moved = FALSE
        /\ opening' \in [book : SomeBook, step : {"load", "remap"}, moved : BOOLEAN]
    BY <2>1, ReaderAssumption DEF SomeBook
  <2>5. OpeningFits(t, opening')
    BY <2>2, <2>4 DEF OpeningFits
  <2>6. \A c \in Books : Found(t, place, c)
    BY <1>3, <2>2, FoundAlike DEF AllFound, LoadsAside
  <2>7. t.view = "reader" /\ t.current # NoBook => t.current \in t.held
    BY <1>4, <2>2, Given DEF LoadsAside
  <2>8. Renderable(t, place, opening')
    BY <2>3, <2>5, <2>6, <2>7, Given DEF Renderable, Renders
  <2>9. QED
    BY <2>1, <2>8, RenderReady
<1>7. QED
  BY <1>5, <1>6

LEMMA OpenKeeps == ASSUME ReaderIInv, NEW b \in Books, Open(b) PROVE ReaderIInv'
<1>1. OpenBook(b) /\ jumping' = jumping /\ Settled(place)
  BY DEF Open
<1>2. Ready(ui', place, opening', jumping')
  BY <1>1, OpenBookReady
<1>3. QED
  BY <1>1, <1>2, Given, SettledOK

LEMMA LoadedKeeps == ASSUME ReaderIInv, Loaded PROVE ReaderIInv'
<1> DEFINE s == [ui EXCEPT !.loading = NoBook, !.held = @ \cup {opening.book}]
<1>1. /\ ui' = s /\ jumping' = jumping /\ Settled(place) /\ opening.step = "load"
      /\ opening' = IF opening.moved THEN NotOpening ELSE [opening EXCEPT !.step = "remap"]
  BY DEF Loaded
<1>2. /\ UiType(ui) /\ opening \in [book : SomeBook, step : {"load", "remap"}, moved : BOOLEAN]
      /\ opening.book \in Books /\ opening.book # NoBook
      /\ opening.moved => ui.view # "reader" \/ ui.current = NoBook
  BY <1>1, Given DEF OpeningFits, SomeBook
<1>3. /\ DOMAIN s = UiFields /\ s.view = ui.view /\ s.current = ui.current /\ s.page = ui.page
      /\ s.pages = ui.pages /\ s.scrolls = ui.scrolls /\ s.perPage = ui.perPage
      /\ s.counted = ui.counted /\ s.shown = ui.shown /\ s.rendering = ui.rendering
      /\ s.renders = ui.renders /\ s.texts = ui.texts /\ s.renderId = ui.renderId
      /\ s.passes = ui.passes /\ s.loading = NoBook /\ s.held = ui.held \cup {opening.book}
  BY <1>2 DEF UiType, UiFields
<1> HIDE DEF s
<1>4. LoadsAside(s, ui)
  BY <1>2, <1>3 DEF LoadsAside, SomeBook, UiType
<1>5. opening # NotOpening
  BY <1>1 DEF NotOpening
<1>6. UiType(s) /\ Renders(s) /\ InReader(s, opening) /\ AllFound(s, place, jumping)
  BY <1>4, <1>5, Given, LoadsAsideReady, OnTheWayAllFound
<1>7. OpeningFits(s, opening') /\ InReader(s, opening')
  <2>1. CASE opening.moved
    <3>1. opening' = NotOpening
      BY <1>1, <2>1
    <3>2. OpeningFits(s, opening')
      BY <1>3, <3>1 DEF OpeningFits, NotOpening, SomeBook
    <3>3. QED
      BY <1>2, <1>3, <2>1, <3>2 DEF InReader
  <2>2. CASE ~opening.moved
    <3>1. /\ opening' \in [book : SomeBook, step : {"load", "remap"}, moved : BOOLEAN]
          /\ opening'.step = "remap" /\ opening'.book = opening.book /\ opening'.moved = FALSE
      BY <1>1, <1>2, <2>2
    <3>2. opening' # NotOpening
      BY <1>2, <3>1 DEF NotOpening
    <3>3. OpeningFits(s, opening')
      BY <1>2, <1>3, <3>1 DEF OpeningFits
    <3>4. InReader(s, opening')
      BY <1>6, <3>2 DEF InReader
    <3>5. QED
      BY <3>3, <3>4
  <2>3. QED
    BY <2>1, <2>2
<1>8. Ready(ui', place, opening', jumping')
  BY <1>1, <1>6, <1>7, Given, AllFoundFits DEF Ready
<1>9. QED
  BY <1>1, <1>8, Given, SettledOK

LEMMA NotOpeningFits ==
  ASSUME NEW s, s.loading = NoBook
  PROVE  OpeningFits(s, NotOpening)
BY DEF OpeningFits, NotOpening, SomeBook

LEMMA NotLoadedKeeps == ASSUME ReaderIInv, NotLoaded PROVE ReaderIInv'
<1> DEFINE s == [ui EXCEPT !.loading = NoBook]
<1>1. /\ ui' = (IF ~opening.moved /\ s.view = "reader" THEN Rendered(s) ELSE s)
      /\ opening' = NotOpening /\ jumping' = jumping /\ Settled(place) /\ opening.step = "load"
  BY DEF NotLoaded
<1>2. LoadsAside(s, ui) /\ s.loading = NoBook /\ s.held = ui.held
  BY Given, LoadingIs DEF SomeBook
<1> HIDE DEF s
<1>3. opening # NotOpening
  BY <1>1 DEF NotOpening
<1>4. UiType(s) /\ Renders(s) /\ InReader(s, opening) /\ AllFound(s, place, jumping)
  BY <1>2, <1>3, Given, LoadsAsideReady, OnTheWayAllFound
<1>5. OpeningFits(s, NotOpening)
  BY <1>2, NotOpeningFits
<1>6. CASE ~opening.moved /\ s.view = "reader"
  <2>1. Renderable(s, place, NotOpening)
    BY <1>4, <1>5, Given DEF Renderable, Renders, AllFound, InReader
  <2>2. Ready(ui', place, opening', jumping')
    BY <1>1, <1>6, <2>1, RenderReady
  <2>3. QED
    BY <1>1, <2>2, Given, SettledOK
<1>7. CASE ~(~opening.moved /\ s.view = "reader")
  <2>1. s.view # "reader" \/ s.current = NoBook
    BY <1>2, <1>7, Given DEF OpeningFits, LoadsAside
  <2>2. InReader(s, NotOpening)
    BY <2>1 DEF InReader
  <2>3. Ready(ui', place, opening', jumping')
    BY <1>1, <1>4, <1>5, <1>7, <2>2, Given, AllFoundFits DEF Ready
  <2>4. QED
    BY <1>1, <2>3, Given, SettledOK
<1>8. QED
  BY <1>6, <1>7

\* A book that is held is opened.
LEMMA OpenedKeeps == ASSUME ReaderIInv, Opened PROVE ReaderIInv'
<1> DEFINE r == [ui EXCEPT !.current = opening.book]
           s == [r EXCEPT !.view = "reader"]
<1>1. /\ ui' = (IF opening.moved THEN ui ELSE SetView(r, "reader"))
      /\ opening' = NotOpening /\ jumping' = jumping /\ Settled(place)
      /\ opening.step = "remap" /\ opening.book # NoBook
  BY DEF Opened
<1>2. ui.loading = NoBook /\ opening.book \in ui.held /\ opening.book \in Books /\ UiType(ui)
  BY <1>1, Given DEF OpeningFits, SomeBook
<1>3. opening # NotOpening
  BY <1>1 DEF NotOpening
<1>4. AllFound(ui, place, jumping)
  BY <1>3, Given, OnTheWayAllFound
<1>5. CASE opening.moved
  <2>1. OpeningFits(ui, NotOpening)
    BY <1>2, NotOpeningFits
  <2>2. InReader(ui, NotOpening)
    BY <1>5, Given DEF OpeningFits, InReader
  <2>3. Ready(ui', place, opening', jumping')
    BY <1>1, <1>2, <1>4, <1>5, <2>1, <2>2, Given, AllFoundFits DEF Ready
  <2>4. QED
    BY <1>1, <2>3, Given, SettledOK
<1>6. CASE ~opening.moved
  <2>1. ui' = Rendered(s)
    BY <1>1, <1>6 DEF SetView
  <2>2. /\ DOMAIN s = UiFields /\ s.view = "reader" /\ s.current = opening.book /\ s.page = ui.page
        /\ s.pages = ui.pages /\ s.scrolls = ui.scrolls /\ s.perPage = ui.perPage
        /\ s.counted = ui.counted /\ s.shown = ui.shown /\ s.rendering = ui.rendering
        /\ s.renders = ui.renders /\ s.texts = ui.texts /\ s.renderId = ui.renderId
        /\ s.passes = ui.passes /\ s.loading = ui.loading /\ s.held = ui.held
    BY <1>2 DEF UiType, UiFields
  <2> HIDE DEF s
  <2>3. UiType(s)
    BY <1>2, <2>2 DEF UiType, SomeBook
  <2>4. PassesAreTold(s)
    BY <2>2, Given DEF PassesAreTold
  <2>5. OpeningFits(s, NotOpening)
    BY <1>2, <2>2, NotOpeningFits
  <2>6. \A b \in Books : Found(s, place, b)
    BY <1>4, <2>2, FoundAlike DEF AllFound
  <2>7. Renderable(s, place, NotOpening)
    BY <1>2, <2>2, <2>3, <2>4, <2>5, <2>6, Given DEF Renderable
  <2>8. Ready(ui', place, opening', jumping')
    BY <1>1, <2>1, <2>7, RenderReady
  <2>9. QED
    BY <1>1, <2>8, Given, SettledOK
<1>7. QED
  BY <1>5, <1>6

LEMMA MovedFits ==
  ASSUME ReaderIInv, NEW s, s.loading = ui.loading, s.held = ui.held,
         s.view # "reader" \/ s.current = NoBook
  PROVE  OpeningFits(s, [opening EXCEPT !.moved = opening.book # NoBook])
<1> DEFINE o == [opening EXCEPT !.moved = opening.book # NoBook]
<1>1. /\ opening \in [book : SomeBook, step : {"load", "remap"}, moved : BOOLEAN]
      /\ OpeningFits(ui, opening)
  BY Given DEF OpeningFits
<1>2. /\ o \in [book : SomeBook, step : {"load", "remap"}, moved : BOOLEAN]
      /\ o.book = opening.book /\ o.step = opening.step /\ o.moved = (opening.book # NoBook)
  BY <1>1
<1> HIDE DEF o
<1>3. OpeningFits(s, o)
  BY <1>1, <1>2 DEF OpeningFits
<1>4. QED
  BY <1>3 DEF o

LEMMA ReturnKeeps == ASSUME ReaderIInv, Return PROVE ReaderIInv'
<1>1. jumping' = jumping /\ Settled(place)
  BY DEF Return
<1>2. CASE ui.current # NoBook
  <2>1. OpenBook(ui.current)
    BY <1>2 DEF Return
  <2>2. ui.current \in Books
    BY <1>2, Given DEF UiType, SomeBook
  <2>3. Ready(ui', place, opening', jumping')
    BY <1>1, <2>1, <2>2, OpenBookReady
  <2>4. QED
    BY <1>1, <2>3, Given, SettledOK
<1>3. CASE ui.current = NoBook
  <2> DEFINE s == [ui EXCEPT !.view = "reader"]
             o == [opening EXCEPT !.moved = opening.book # NoBook]
  <2>1. ui' = Rendered(s) /\ opening' = o
    BY <1>3 DEF Return, SetView
  <2>2. /\ DOMAIN s = UiFields /\ s.view = "reader" /\ s.current = ui.current /\ s.page = ui.page
        /\ s.pages = ui.pages /\ s.scrolls = ui.scrolls /\ s.perPage = ui.perPage
        /\ s.counted = ui.counted /\ s.shown = ui.shown /\ s.rendering = ui.rendering
        /\ s.renders = ui.renders /\ s.texts = ui.texts /\ s.renderId = ui.renderId
        /\ s.passes = ui.passes /\ s.loading = ui.loading /\ s.held = ui.held
    BY Given DEF UiType, UiFields
  <2> HIDE DEF s
  <2>3. UiType(s)
    BY <2>2, Given DEF UiType
  <2>4. PassesAreTold(s)
    BY <2>2, Given DEF PassesAreTold
  <2>5. OpeningFits(s, o)
    BY <1>3, <2>2, MovedFits
  <2>6. \A b \in Books : Found(s, place, b)
    <3>1. \A b \in Books : Found(ui, place, b)
      BY <1>3, Given, ReaderAssumption
    <3>2. QED
      BY <2>2, <3>1, FoundAlike
  <2> HIDE DEF o
  <2>7. Renderable(s, place, o)
    BY <1>3, <2>2, <2>3, <2>4, <2>5, <2>6, Given DEF Renderable
  <2>8. Ready(ui', place, opening', jumping')
    BY <1>1, <2>1, <2>7, RenderReady
  <2>9. QED
    BY <1>1, <2>8, Given, SettledOK
<1>4. QED
  BY <1>2, <1>3

LEMMA LeaveKeeps == ASSUME ReaderIInv, Leave PROVE ReaderIInv'
<1> DEFINE b == ui.current
           t == Remember(ui)
           u == IF b # NoBook THEN [t EXCEPT !.pages[b] = ui.page] ELSE t
           w == [u EXCEPT !.view = "library"]
           k == IF b # NoBook /\ ui.pages[b] # ui.page THEN Forgotten ELSE place
           o == [opening EXCEPT !.moved = opening.book # NoBook]
<1>1. ui' = w /\ opening' = o /\ jumping' = jumping /\ Settled(k) /\ ui.view = "reader"
  BY DEF Leave, SetView
<1>2. UiType(t) /\ Renders(t) /\ AllFound(t, place, jumping)
  BY Given, RememberReady
<1>3. /\ t.view = ui.view /\ t.current = b /\ t.page = ui.page /\ t.pages = ui.pages
      /\ t.held = ui.held /\ t.loading = ui.loading /\ t.shown = ui.shown
      /\ \A c \in Books : c # b => t.scrolls[c] = ui.scrolls[c] /\ t.perPage[c] = ui.perPage[c]
  BY Given, RememberIs
<1> HIDE DEF t
<1>4. /\ DOMAIN w = UiFields /\ w.view = "library" /\ w.current = t.current /\ w.page = t.page
      /\ w.scrolls = t.scrolls /\ w.perPage = t.perPage
      /\ w.counted = t.counted /\ w.shown = t.shown /\ w.rendering = t.rendering
      /\ w.renders = t.renders /\ w.texts = t.texts /\ w.renderId = t.renderId
      /\ w.passes = t.passes /\ w.loading = t.loading /\ w.held = t.held
      /\ w.pages = IF b # NoBook THEN [t.pages EXCEPT ![b] = ui.page] ELSE t.pages
  <2>1. /\ DOMAIN u = UiFields /\ u.current = t.current /\ u.page = t.page
        /\ u.scrolls = t.scrolls /\ u.perPage = t.perPage
        /\ u.counted = t.counted /\ u.shown = t.shown /\ u.rendering = t.rendering
        /\ u.renders = t.renders /\ u.texts = t.texts /\ u.renderId = t.renderId
        /\ u.passes = t.passes /\ u.loading = t.loading /\ u.held = t.held
        /\ u.pages = IF b # NoBook THEN [t.pages EXCEPT ![b] = ui.page] ELSE t.pages
    BY <1>2 DEF UiType, UiFields
  <2> HIDE DEF u
  <2>2. QED
    BY <2>1 DEF UiFields
<1> HIDE DEF w
<1>5. /\ w.pages \in [Books -> Nat]
      /\ \A c \in Books : c # b => w.pages[c] = ui.pages[c]
      /\ b # NoBook => b \in Books /\ w.pages[b] = ui.page
  <2>1. ui.pages \in [Books -> Nat] /\ ui.page \in Nat /\ (b # NoBook => b \in Books)
    BY Given DEF UiType, SomeBook
  <2>2. CASE b = NoBook
    BY <1>3, <1>4, <2>1, <2>2
  <2>3. CASE b # NoBook
    <3>1. w.pages = [ui.pages EXCEPT ![b] = ui.page]
      BY <1>3, <1>4, <2>3
    <3>2. QED
      BY <2>1, <2>3, <3>1
  <2>4. QED
    BY <2>2, <2>3
<1>6. UiType(w)
  BY <1>2, <1>4, <1>5 DEF UiType
<1>7. Renders(w)
  <2>1. OpenPage(t) => OpenPage(w)
    <3> SUFFICES ASSUME OpenPage(t) PROVE OpenPage(w)
      OBVIOUS
    <3>1. b # NoBook
      BY <1>2, <1>3, ReaderAssumption DEF OpenPage, UiType
    <3>2. QED
      BY <1>3, <1>4, <1>5, <3>1 DEF OpenPage
  <2>2. QED
    BY <1>2, <1>4, <2>1, RendersAlike
<1>8. InReader(w, o)
  BY <1>4 DEF InReader
<1>9. OpeningFits(w, o)
  BY <1>3, <1>4, MovedFits
<1>10. AllFound(w, k, jumping)
  <2>1. ASSUME NEW c \in Books PROVE Found(w, k, c)
    <3>1. CASE k = Forgotten
      BY <1>3, <1>4, <1>5, <3>1, FoundButForgotten
    <3>2. CASE k # Forgotten
      <4>1. k = place /\ (b # NoBook => ui.pages[b] = ui.page)
        BY <3>2
      <4>2. w.pages[c] = t.pages[c]
        BY <1>3, <1>5, <4>1, ReaderAssumption
      <4>3. Found(t, place, c)
        BY <1>2 DEF AllFound
      <4>4. QED
        BY <1>4, <4>1, <4>2, <4>3, FoundAlike
    <3>3. QED
      BY <3>1, <3>2
  <2>2. Steady(w) \/ (jumping /\ w.current # NoBook /\ k[w.current] = Unknown)
    <3>1. CASE Steady(t)
      BY <1>4, <3>1, SteadyAlike
    <3>2. CASE ~Steady(t)
      <4>1. jumping /\ b # NoBook /\ place[b] = Unknown
        BY <1>2, <1>3, <3>2 DEF AllFound
      <4>2. k[b] = Unknown
        BY <4>1, ForgottenIs
      <4>3. QED
        BY <1>3, <1>4, <4>1, <4>2
    <3>3. QED
      BY <3>1, <3>2
  <2> HIDE DEF k
  <2>3. QED
    BY <1>4, <2>1, <2>2 DEF AllFound
<1>11. k \in [Books -> Place]
  BY Given, ForgottenIs
<1> HIDE DEF k, o
<1>12. Ready(ui', k, opening', jumping')
  BY <1>1, <1>6, <1>7, <1>8, <1>9, <1>10, <1>11, AllFoundFits DEF Ready
<1>13. QED
  BY <1>1, <1>12, Given, SettledOK

-------------------------------------------------------------------------------
(* Passes write the page.                                                  *)

LEMMA WholeIs ==
  ASSUME NEW b \in Books \ Scans, NEW p, NEW n \in 1..Chunks
  PROVE  /\ SubSeq(Whole(b, p), 1, 0) = <<>>
         /\ Append(SubSeq(Whole(b, p), 1, n - 1), <<b, p, n>>) = SubSeq(Whole(b, p), 1, n)
<1> DEFINE w == Whole(b, p)
           S == {<<b, p, i>> : i \in 1..Chunks}
<1>1. Chunks \in Nat /\ w = [i \in 1..Chunks |-> <<b, p, i>>]
  BY ReaderAssumption DEF Whole
<1>2. w \in Seq(S) /\ Len(w) = Chunks /\ w[n] = <<b, p, n>> /\ <<b, p, n>> \in S
  BY <1>1
<1> HIDE DEF w, S
<1>3. SubSeq(w, 1, 0) = <<>>
  BY SubSeqEmpty
<1>4. SubSeq(w, 1, n - 1) \in Seq(S)
  <2>1. \A i \in 1..(n - 1) : w[i] \in S
    BY <1>1, <1>2
  <2>2. 1 \in Int /\ n - 1 \in Int
    OBVIOUS
  <2>3. \A m \in Int : (\A i \in 1..m : w[i] \in S) => SubSeq(w, 1, m) \in Seq(S)
    BY <2>2, SubSeqProperties, Zenon
  <2>4. QED
    BY <2>1, <2>2, <2>3
<1>5. SubSeq(w, 1, n) = SubSeq(w, 1, n - 1) \o <<w[n]>>
  <2>1. 1 \in 1..Len(w) /\ n \in 1..Len(w)
    BY <1>1, <1>2
  <2>2. \A m \in 1..Len(w) : SubSeq(w, 1, m) = SubSeq(w, 1, m - 1) \o <<w[m]>>
    BY <1>2, <2>1, SubSeqRecursiveSecond, Zenon
  <2>3. QED
    BY <2>1, <2>2
<1>6. Append(SubSeq(w, 1, n - 1), <<b, p, n>>) = SubSeq(w, 1, n - 1) \o << <<b, p, n>> >>
  BY <1>2, <1>4, AppendIsConcat
<1>7. QED
  BY <1>2, <1>3, <1>5, <1>6 DEF w

LEMMA WholeIsAll ==
  ASSUME NEW b \in Books \ Scans, NEW p
  PROVE  SubSeq(Whole(b, p), 1, Chunks) = Whole(b, p) /\ Len(Whole(b, p)) = Chunks
         /\ SubSeq(Whole(b, p), 1, 0) = <<>>
<1> DEFINE w == Whole(b, p)
           S == {<<b, p, i>> : i \in 1..Chunks}
<1>1. Chunks \in Nat /\ w = [i \in 1..Chunks |-> <<b, p, i>>]
  BY ReaderAssumption DEF Whole
<1>2. w \in Seq(S) /\ Len(w) = Chunks
  BY <1>1
<1> HIDE DEF w, S
<1>3. QED
  BY <1>2, SubSeqFull, SubSeqEmpty DEF w

LEMMA OvertakenIs ==
  ASSUME ReaderIInv, NEW pass \in ui.passes, NEW s,
         s.renders = ui.renders, s.renderId = ui.renderId, s.current = ui.current
  PROVE  Overtaken(s, pass) <=> ~Live(ui, pass)
<1>1. Live(ui, pass) => pass.book = ui.current
  BY Given DEF Renders, LivePassRenders
<1>2. QED
  BY <1>1 DEF Overtaken, Live

LEMMA DroppedIs ==
  ASSUME NEW s, UiType(s), NEW pass
  PROVE  LET t == [s EXCEPT !.passes = @ \ {pass}]
         IN  /\ DOMAIN t = UiFields /\ t.view = s.view /\ t.current = s.current /\ t.page = s.page
             /\ t.pages = s.pages /\ t.scrolls = s.scrolls /\ t.perPage = s.perPage
             /\ t.counted = s.counted /\ t.shown = s.shown /\ t.rendering = s.rendering
             /\ t.renders = s.renders /\ t.texts = s.texts /\ t.renderId = s.renderId
             /\ t.loading = s.loading /\ t.held = s.held /\ t.passes = s.passes \ {pass}
BY DEF UiType, UiFields

\* A pass that was overtaken does nothing.
LEMMA OvertakenReady ==
  ASSUME ReaderIInv, NEW pass \in ui.passes, ~Live(ui, pass)
  PROVE  Ready([ui EXCEPT !.passes = @ \ {pass}], place, opening, jumping)
<1> DEFINE t == [ui EXCEPT !.passes = @ \ {pass}]
<1>1. /\ DOMAIN t = UiFields /\ t.view = ui.view /\ t.current = ui.current /\ t.page = ui.page
      /\ t.pages = ui.pages /\ t.scrolls = ui.scrolls /\ t.perPage = ui.perPage
      /\ t.counted = ui.counted /\ t.shown = ui.shown /\ t.rendering = ui.rendering
      /\ t.renders = ui.renders /\ t.texts = ui.texts /\ t.renderId = ui.renderId
      /\ t.loading = ui.loading /\ t.held = ui.held /\ t.passes = ui.passes \ {pass}
  BY Given, DroppedIs
<1> HIDE DEF t
<1>2. \A p : Live(t, p) <=> Live(ui, p)
  BY <1>1 DEF Live
<1>3. UiType(t)
  BY <1>1, Given DEF UiType
<1>4. Renders(t)
  <2>1. PassesAreTold(t)
    BY <1>1, Given DEF PassesAreTold
  <2>2. OpenPage(t) <=> OpenPage(ui)
    BY <1>1 DEF OpenPage
  <2>3. LivePassRenders(t)
    BY <1>1, <1>2, <2>2, Given DEF Renders, LivePassRenders
  <2>4. WhatIsShown(t)
    <3>1. \A p \in ui.passes : Live(ui, p) => p \in t.passes
      BY <1>1
    <3>2. QED
      BY <1>1, <1>2, <2>2, <3>1, Given DEF Renders, WhatIsShown
  <2>5. QED
    BY <2>1, <2>3, <2>4 DEF Renders
<1>5. InReader(t, opening)
  BY <1>1, <1>2, Given DEF InReader
<1>6. OpeningFits(t, opening)
  BY <1>1, Given, OpeningFitsAlike
<1>7. PlacesFit(t, place, opening, jumping)
  <2>1. \A b \in Books : Found(ui, place, b) => Found(t, place, b)
    BY <1>1, FoundAlike
  <2>2. Steady(ui) => Steady(t)
    BY <1>1, <1>2 DEF Steady
  <2>3. QED
    BY <1>1, <2>1, <2>2, Given DEF PlacesFit
<1>8. QED
  BY <1>3, <1>4, <1>5, <1>6, <1>7, Given DEF Ready, t

\* Once it writes, a pass goes by the number of the text.
LEMMA NextPassIsTold ==
  ASSUME ReaderIInv, NEW pass \in ui.passes, NEW next \in Pass, NEW t,
         next.book = pass.book, next.step # 0,
         t.passes = (ui.passes \ {pass}) \cup {next}, t.renders = ui.renders,
         t.renderId = next.id, t.texts = next.id, next.id <= ui.renders, next.id = ui.texts + 1
  PROVE  PassesAreTold(t)
<1>1. UiType(ui) /\ PassesAreTold(ui) /\ ui.texts \in Nat /\ ui.renders \in Nat
  BY Given DEF UiType
<1>2. ASSUME NEW p \in ui.passes
      PROVE  p.step \in Nat /\ p.id \in Nat /\ p.book \notin Scans
             /\ IF p.step = 0 THEN p.id <= ui.renders ELSE p.id <= ui.texts
  BY <1>1 DEF UiType, Pass, PassesAreTold
<1>3. ASSUME NEW p \in ui.passes, p.step # 0 PROVE p.id # next.id
  BY <1>1, <1>2, <1>3
<1>4. ASSUME NEW p \in t.passes
      PROVE  p.book \notin Scans /\ IF p.step = 0 THEN p.id <= t.renders ELSE p.id <= t.texts
  BY <1>1, <1>2
<1>5. ASSUME NEW p \in t.passes, NEW q \in t.passes, p.id = q.id, p.step = 0 <=> q.step = 0
      PROVE  p = q
  <2>1. CASE p \in ui.passes /\ p # pass /\ q \in ui.passes /\ q # pass
    BY <1>1, <1>5, <2>1 DEF PassesAreTold
  <2>2. CASE p = next /\ q \in ui.passes /\ q # pass
    BY <1>3, <1>5, <2>2
  <2>3. CASE p \in ui.passes /\ p # pass /\ q = next
    BY <1>3, <1>5, <2>3
  <2>4. CASE p = next /\ q = next
    BY <2>4
  <2>5. QED
    BY <2>1, <2>2, <2>3, <2>4
<1>6. QED
  BY <1>1, <1>4, <1>5 DEF PassesAreTold

\* Of the passes that write, and of those that wait, one goes on.
LEMMA OneIsLive ==
  ASSUME ReaderIInv, NEW pass \in ui.passes, Live(ui, pass)
  PROVE  /\ pass.book = ui.current /\ pass.book \in Books \ Scans /\ pass.book \in ui.held
         /\ ui.rendering /\ ~ui.shown.whole /\ Found(ui, place, pass.book)
         /\ \A p \in ui.passes : p # pass => ~Live(ui, p)
<1>1. /\ pass.book = ui.current /\ pass.book \in Books \ Scans /\ pass.book \in ui.held
      /\ ui.rendering /\ ~ui.shown.whole
  BY Given DEF Renders, LivePassRenders, UiType, Pass, PassesAreTold
<1>2. Found(ui, place, pass.book)
  BY <1>1, Given DEF PlacesFit
<1>3. ASSUME NEW p \in ui.passes, p # pass PROVE ~Live(ui, p)
  <2>1. CASE p.step = 0 <=> pass.step = 0
    BY <1>3, <2>1, Given DEF Live, PassesAreTold
  <2>2. CASE ~(p.step = 0 <=> pass.step = 0)
    <3>1. Live(ui, p) => FALSE
      BY <2>2, Given DEF Renders, LivePassRenders
    <3>2. QED
      BY <3>1
  <2>3. QED
    BY <2>1, <2>2
<1>4. QED
  BY <1>1, <1>2, <1>3

LEMMA StartedReady ==
  ASSUME ReaderIInv, NEW pass \in ui.passes, Live(ui, pass), pass.step = 0
  PROVE  Ready(Started([ui EXCEPT !.passes = @ \ {pass}], pass), place, opening, jumping)
<1> DEFINE s == [ui EXCEPT !.passes = @ \ {pass}]
           b == pass.book
           p == OpenedPage(s, b)
           n == ui.texts + 1
           next == [pass EXCEPT !.step = 1, !.id = n, !.page = p]
           u == AtPage(s, b)
           t == Started(s, pass)
<1>1. UiType(ui) /\ pass \in Pass
  BY Given DEF UiType
<1>2. /\ b = ui.current /\ b \in Books \ Scans /\ b \in ui.held
      /\ ui.rendering /\ ~ui.shown.whole /\ Found(ui, place, b)
      /\ \A q \in ui.passes : q # pass => ~Live(ui, q)
  BY OneIsLive
<1>3. /\ DOMAIN s = UiFields /\ s.view = ui.view /\ s.current = ui.current /\ s.page = ui.page
      /\ s.pages = ui.pages /\ s.scrolls = ui.scrolls /\ s.perPage = ui.perPage
      /\ s.counted = ui.counted /\ s.shown = ui.shown /\ s.rendering = ui.rendering
      /\ s.renders = ui.renders /\ s.texts = ui.texts /\ s.renderId = ui.renderId
      /\ s.loading = ui.loading /\ s.held = ui.held /\ s.passes = ui.passes \ {pass}
  BY <1>1, DroppedIs
<1> HIDE DEF s
<1>4. p \in 1..Pages[b] /\ (ui.pages[b] # 0 => p = FoundPage(ui, b)) /\ Pages[b] \in Nat
  BY <1>1, <1>2, <1>3, OpenedPageIs, ReaderAssumption DEF OpenedPage
<1>5. /\ DOMAIN u = UiFields /\ u.page = p /\ u.pages = [ui.pages EXCEPT ![b] = p] /\ u.counted = b
      /\ u.view = ui.view /\ u.current = ui.current /\ u.scrolls = ui.scrolls
      /\ u.perPage = ui.perPage /\ u.rendering = ui.rendering
      /\ u.renders = ui.renders /\ u.texts = ui.texts /\ u.renderId = ui.renderId
      /\ u.loading = ui.loading /\ u.held = ui.held /\ u.passes = ui.passes \ {pass}
  BY <1>3 DEF AtPage, UiFields
<1>6. t = [u EXCEPT !.texts = n, !.renderId = n, !.shown = PageOf(<<>>, 0, FALSE),
                    !.passes = (ui.passes \ {pass}) \cup {next}]
  BY <1>3, <1>5 DEF Started
<1> HIDE DEF u
<1>7. /\ DOMAIN t = UiFields /\ t.page = p /\ t.pages = [ui.pages EXCEPT ![b] = p] /\ t.counted = b
      /\ t.view = ui.view /\ t.current = ui.current /\ t.scrolls = ui.scrolls
      /\ t.perPage = ui.perPage /\ t.rendering = ui.rendering
      /\ t.renders = ui.renders /\ t.texts = n /\ t.renderId = n
      /\ t.loading = ui.loading /\ t.held = ui.held
      /\ t.passes = (ui.passes \ {pass}) \cup {next} /\ t.shown = PageOf(<<>>, 0, FALSE)
  BY <1>5, <1>6 DEF UiFields
<1> HIDE DEF t
<1>8. /\ DOMAIN t.shown = {"kind", "parts", "at", "whole"} /\ t.shown.kind = "page"
      /\ t.shown.parts = <<>> /\ t.shown.at \in Offsets /\ t.shown.whole = FALSE
  BY <1>7 DEF PageOf, Offsets
<1>9. ui.texts \in Nat /\ ui.renders \in Nat /\ n \in Nat /\ n <= ui.renders /\ ui.texts <= n
      /\ ui.shown.kind = "spinner"
  <2>1. ui.texts < ui.renders /\ ui.shown.kind = "spinner"
    BY Given DEF Renders, LivePassRenders
  <2>2. QED
    BY <1>1, <2>1 DEF UiType
<1>10. /\ next \in Pass /\ next.step = 1 /\ next.id = n /\ next.page = p /\ next.book = b
       /\ next.saved = pass.saved
  <2>1. p \in Nat
    BY <1>4
  <2> HIDE DEF p, n
  <2>2. QED
    BY <1>1, <1>9, <2>1 DEF Pass
<1> HIDE DEF next
<1>11. /\ t.pages \in [Books -> Nat] /\ t.pages[b] = p
       /\ \A c \in Books : c # b => t.pages[c] = ui.pages[c]
  <2>1. ui.pages \in [Books -> Nat] /\ p \in Nat
    BY <1>1, <1>4 DEF UiType
  <2> HIDE DEF p
  <2>2. QED
    BY <1>2, <1>7, <2>1
<1>12. UiType(t)
  <2>1. t.page \in Nat \ {0} /\ t.counted \in SomeBook
    BY <1>2, <1>4, <1>7 DEF SomeBook
  <2>2. t.passes \subseteq Pass
    BY <1>1, <1>7, <1>10 DEF UiType
  <2>3. t.texts \in Nat /\ t.renderId \in Nat
    BY <1>7, <1>9
  <2> HIDE DEF n, p
  <2>4. QED
    BY <1>1, <1>7, <1>8, <1>11, <2>1, <2>2, <2>3 DEF UiType
<1>13. \A q \in t.passes : Live(t, q) <=> q = next
  <2>1. ASSUME NEW q \in ui.passes, q # pass PROVE ~Live(t, q)
    <3>1. q.step = 0 => q.id # ui.renders
      BY <1>2, <2>1 DEF Live
    <3>2. q.step # 0 => q.id \in Nat /\ q.id <= ui.texts
      BY <1>1, Given DEF UiType, Pass, PassesAreTold
    <3>3. QED
      BY <1>7, <1>9, <3>1, <3>2 DEF Live
  <2>2. Live(t, next)
    BY <1>7, <1>10 DEF Live
  <2>3. QED
    BY <1>7, <2>1, <2>2
<1>14. OpenPage(t)
  BY <1>2, <1>4, <1>7, <1>11 DEF OpenPage
<1>15. Renders(t)
  <2>1. PassesAreTold(t)
    BY <1>7, <1>9, <1>10, NextPassIsTold
  <2>2. t.shown.parts = SubSeq(Whole(b, p), 1, 1 - 1)
    BY <1>2, <1>8, WholeIsAll
  <2>3. LivePassRenders(t)
    <3> SUFFICES ASSUME NEW q \in t.passes, Live(t, q)
                 PROVE  /\ q.book = t.current /\ t.rendering /\ ~t.shown.whole /\ q.book \in t.held
                        /\ q.step # 0 /\ t.shown.kind = "page" /\ q.step <= Chunks + 1
                        /\ q.page \in 1..Pages[q.book]
                        /\ t.shown.parts = SubSeq(Whole(q.book, q.page), 1, q.step - 1)
      BY <1>14 DEF LivePassRenders
    <3>1. q = next
      BY <1>13
    <3>2. 1 <= Chunks + 1
      BY ReaderAssumption
    <3>3. q.step = 1 /\ q.book = b /\ q.page = p
      BY <1>10, <3>1
    <3>4. t.shown.parts = SubSeq(Whole(q.book, q.page), 1, q.step - 1)
      BY <2>2, <3>3
    <3>5. q.page \in 1..Pages[q.book]
      BY <1>4, <3>3
    <3>6. q.book = t.current /\ t.rendering /\ q.book \in t.held
      BY <1>2, <1>7, <3>3
    <3>7. QED
      BY <1>8, <3>2, <3>3, <3>4, <3>5, <3>6
  <2>4. next \in t.passes /\ Live(t, next) /\ next.step # 0
    BY <1>7, <1>10, <1>13
  <2>5. t.current # NoBook
    BY <1>2, <1>7, ReaderAssumption
  <2>6. WhatIsShown(t)
    BY <1>8, <2>4, <2>5 DEF WhatIsShown
  <2>7. QED
    BY <2>1, <2>3, <2>6 DEF Renders
<1>16. InReader(t, opening)
  BY <1>2, <1>7, <1>8 DEF InReader
<1>17. OpeningFits(t, opening)
  BY <1>7, Given, OpeningFitsAlike
<1>18. AllFound(t, place, jumping)
  <2>1. Found(t, place, b)
    <3>1. CASE ui.pages[b] = 0
      BY <1>2, <3>1, UnknownIsFound DEF Found
    <3>2. CASE ui.pages[b] # 0
      <4>1. FoundPage(ui, b) = p
        BY <1>4, <3>2
      <4>2. FoundPage(t, b) = p
        BY <1>4, <1>11 DEF FoundPage
      <4>3. FoundAt(t, b) = FoundAt(ui, b)
        BY <1>7, <4>1, <4>2 DEF FoundAt
      <4>4. QED
        BY <1>2, <1>4, <1>11, <3>2, <4>1, <4>2, <4>3 DEF Found
    <3>3. QED
      BY <3>1, <3>2
  <2>2. ASSUME NEW c \in Books, c # b PROVE Found(t, place, c)
    BY <1>2, <1>7, <1>11, <2>2, Given, FoundAlike
  <2>3. Steady(t) \/ (jumping /\ t.current # NoBook /\ place[t.current] = Unknown)
    <3>1. CASE Steady(ui)
      <4>1. pass.saved = ui.scrolls[b]
        BY <3>1 DEF Steady
      <4>2. QED
        BY <1>7, <1>8, <1>10, <1>13, <4>1 DEF Steady
    <3>2. CASE ~Steady(ui)
      BY <1>7, <3>2, Given DEF PlacesFit
    <3>3. QED
      BY <3>1, <3>2
  <2>4. QED
    BY <1>8, <2>1, <2>2, <2>3 DEF AllFound
<1>19. QED
  BY <1>12, <1>15, <1>16, <1>17, <1>18, Given, AllFoundFits DEF Ready, t, s

\* A part of the page is written.
LEMMA PartReady ==
  ASSUME ReaderIInv, NEW pass \in ui.passes, Live(ui, pass), pass.step # 0, pass.step <= Chunks
  PROVE  Ready(Written([ui EXCEPT !.passes = @ \ {pass}], pass), place, opening, jumping)
<1> DEFINE s == [ui EXCEPT !.passes = @ \ {pass}]
           b == pass.book
           next == [pass EXCEPT !.step = @ + 1]
           t == Written(s, pass)
<1>1. UiType(ui) /\ pass \in Pass
  BY Given DEF UiType
<1>2. /\ b = ui.current /\ b \in Books \ Scans /\ b \in ui.held
      /\ ui.rendering /\ ~ui.shown.whole /\ Found(ui, place, b)
      /\ \A q \in ui.passes : q # pass => ~Live(ui, q)
  BY OneIsLive
<1>3. /\ ui.shown.kind = "page" /\ OpenPage(ui) /\ pass.page \in 1..Pages[b]
      /\ ui.shown.parts = SubSeq(Whole(b, pass.page), 1, pass.step - 1)
  BY Given DEF Renders, LivePassRenders
<1>4. pass.step \in 1..Chunks /\ pass.id \in Nat /\ pass.id = ui.renderId /\ Chunks \in Nat
  BY <1>1, ReaderAssumption DEF Pass, Live
<1>5. /\ DOMAIN s = UiFields /\ s.view = ui.view /\ s.current = ui.current /\ s.page = ui.page
      /\ s.pages = ui.pages /\ s.scrolls = ui.scrolls /\ s.perPage = ui.perPage
      /\ s.counted = ui.counted /\ s.shown = ui.shown /\ s.rendering = ui.rendering
      /\ s.renders = ui.renders /\ s.texts = ui.texts /\ s.renderId = ui.renderId
      /\ s.loading = ui.loading /\ s.held = ui.held /\ s.passes = ui.passes \ {pass}
  BY <1>1, DroppedIs
<1> HIDE DEF s
<1>6. t = [s EXCEPT !.shown.parts = Append(ui.shown.parts, <<b, pass.page, pass.step>>),
                    !.passes = (ui.passes \ {pass}) \cup {next}]
  BY <1>5 DEF Written
<1>7. /\ DOMAIN t = UiFields /\ t.view = ui.view /\ t.current = ui.current /\ t.page = ui.page
      /\ t.pages = ui.pages /\ t.scrolls = ui.scrolls /\ t.perPage = ui.perPage
      /\ t.counted = ui.counted /\ t.rendering = ui.rendering
      /\ t.renders = ui.renders /\ t.texts = ui.texts /\ t.renderId = ui.renderId
      /\ t.loading = ui.loading /\ t.held = ui.held
      /\ t.passes = (ui.passes \ {pass}) \cup {next}
      /\ t.shown = [ui.shown EXCEPT !.parts = Append(ui.shown.parts, <<b, pass.page, pass.step>>)]
  BY <1>5, <1>6 DEF UiFields
<1> HIDE DEF t
<1>8. /\ DOMAIN t.shown = {"kind", "parts", "at", "whole"} /\ t.shown.kind = "page"
      /\ t.shown.parts = Append(ui.shown.parts, <<b, pass.page, pass.step>>)
      /\ t.shown.at \in Offsets /\ t.shown.whole = FALSE
  <2>1. DOMAIN ui.shown = {"kind", "parts", "at", "whole"} /\ ui.shown.at \in Offsets
    BY <1>1 DEF UiType
  <2>2. ui.shown.whole = FALSE
    BY <1>1, <1>2 DEF UiType
  <2>3. QED
    BY <1>3, <1>7, <2>1, <2>2
<1>9. /\ next \in Pass /\ next.step = pass.step + 1 /\ next.id = pass.id
      /\ next.page = pass.page /\ next.book = b /\ next.saved = pass.saved
  BY <1>1 DEF Pass
<1> HIDE DEF next
<1>10. UiType(t)
  <2>1. t.passes \subseteq Pass
    BY <1>1, <1>7, <1>9 DEF UiType
  <2>2. QED
    BY <1>1, <1>7, <1>8, <2>1 DEF UiType
<1>11. \A q \in t.passes : Live(t, q) <=> q = next
  <2>1. ASSUME NEW q \in ui.passes, q # pass PROVE ~Live(t, q)
    BY <1>2, <1>7, <2>1 DEF Live
  <2>2. Live(t, next)
    BY <1>4, <1>7, <1>9 DEF Live
  <2>3. QED
    BY <1>7, <2>1, <2>2
<1>12. OpenPage(t)
  BY <1>3, <1>7 DEF OpenPage
<1>13. Renders(t)
  <2>1. PassesAreTold(t)
    <3>1. ASSUME NEW q \in ui.passes, q # pass, q.step # 0 PROVE q.id # next.id
      BY <1>9, <3>1, Given DEF PassesAreTold
    <3>2. /\ t.texts <= t.renders /\ t.renderId <= t.renders
          /\ \A q \in ui.passes : q.book \notin Scans
                                  /\ IF q.step = 0 THEN q.id <= t.renders ELSE q.id <= t.texts
      BY <1>7, Given DEF PassesAreTold
    <3>3. next.book \notin Scans /\ next.step # 0 /\ next.id <= t.texts
      BY <1>2, <1>4, <1>9, <3>2
    <3>4. ASSUME NEW p \in t.passes, NEW q \in t.passes, p.id = q.id, p.step = 0 <=> q.step = 0
          PROVE  p = q
      <4>1. CASE p \in ui.passes /\ p # pass /\ q \in ui.passes /\ q # pass
        BY <3>4, <4>1, Given DEF PassesAreTold
      <4>2. CASE p = next /\ q \in ui.passes /\ q # pass
        BY <3>1, <3>3, <3>4, <4>2
      <4>3. CASE p \in ui.passes /\ p # pass /\ q = next
        BY <3>1, <3>3, <3>4, <4>3
      <4>4. CASE p = next /\ q = next
        BY <4>4
      <4>5. QED
        BY <1>7, <4>1, <4>2, <4>3, <4>4
    <3>5. QED
      BY <1>7, <3>2, <3>3, <3>4 DEF PassesAreTold
  <2>2. t.shown.parts = SubSeq(Whole(b, pass.page), 1, pass.step)
    BY <1>2, <1>3, <1>4, <1>8, WholeIs
  <2>3. LivePassRenders(t)
    <3> SUFFICES ASSUME NEW q \in t.passes, Live(t, q)
                 PROVE  /\ q.book = t.current /\ t.rendering /\ ~t.shown.whole /\ q.book \in t.held
                        /\ q.step # 0 /\ t.shown.kind = "page" /\ q.step <= Chunks + 1
                        /\ q.page \in 1..Pages[q.book]
                        /\ t.shown.parts = SubSeq(Whole(q.book, q.page), 1, q.step - 1)
      BY <1>12 DEF LivePassRenders
    <3>1. q.step = pass.step + 1 /\ q.book = b /\ q.page = pass.page
      BY <1>9, <1>11
    <3>2. q.step - 1 = pass.step /\ q.step # 0 /\ q.step <= Chunks + 1
      BY <1>4, <3>1
    <3>3. t.shown.parts = SubSeq(Whole(q.book, q.page), 1, q.step - 1)
      BY <2>2, <3>1, <3>2
    <3>4. q.page \in 1..Pages[q.book]
      BY <1>3, <3>1
    <3>5. q.book = t.current /\ t.rendering /\ q.book \in t.held
      BY <1>2, <1>7, <3>1
    <3>6. QED
      BY <1>8, <3>2, <3>3, <3>4, <3>5
  <2>4. next \in t.passes /\ Live(t, next) /\ next.step # 0
    BY <1>4, <1>7, <1>9, <1>11
  <2>5. t.current # NoBook
    BY <1>2, <1>7, ReaderAssumption
  <2>6. WhatIsShown(t)
    BY <1>8, <2>4, <2>5 DEF WhatIsShown
  <2>7. QED
    BY <2>1, <2>3, <2>6 DEF Renders
<1>14. InReader(t, opening)
  BY <1>2, <1>7, <1>8 DEF InReader
<1>15. OpeningFits(t, opening)
  BY <1>7, Given, OpeningFitsAlike
<1>16. AllFound(t, place, jumping)
  <2>1. ASSUME NEW c \in Books PROVE Found(t, place, c)
    <3>1. Found(ui, place, c)
      BY <1>2, Given
    <3>2. QED
      BY <1>7, <3>1, FoundAlike
  <2>2. Steady(t) \/ (jumping /\ t.current # NoBook /\ place[t.current] = Unknown)
    <3>1. CASE Steady(ui)
      <4>1. pass.saved = ui.scrolls[b] /\ pass.page = ui.page
        BY <3>1 DEF Steady
      <4>2. QED
        BY <1>7, <1>8, <1>9, <1>11, <4>1 DEF Steady
    <3>2. CASE ~Steady(ui)
      BY <1>7, <3>2, Given DEF PlacesFit
    <3>3. QED
      BY <3>1, <3>2
  <2>3. QED
    BY <1>8, <2>1, <2>2 DEF AllFound
<1>17. QED
  BY <1>10, <1>13, <1>14, <1>15, <1>16, Given, AllFoundFits DEF Ready, t, s

\* The page is there as a whole, at the place that is saved.
LEMMA LastReady ==
  ASSUME ReaderIInv, NEW pass \in ui.passes, Live(ui, pass), pass.step # 0, ~(pass.step <= Chunks)
  PROVE  Ready(Written([ui EXCEPT !.passes = @ \ {pass}], pass), place, opening, jumping)
<1> DEFINE s == [ui EXCEPT !.passes = @ \ {pass}]
           b == pass.book
           at == Restored(s, b, pass.saved)
           t == Written(s, pass)
<1>1. UiType(ui) /\ pass \in Pass
  BY Given DEF UiType
<1>2. /\ b = ui.current /\ b \in Books \ Scans /\ b \in ui.held
      /\ ui.rendering /\ ~ui.shown.whole /\ Found(ui, place, b)
      /\ \A q \in ui.passes : q # pass => ~Live(ui, q)
  BY OneIsLive
<1>3. /\ ui.shown.kind = "page" /\ OpenPage(ui) /\ pass.page \in 1..Pages[b]
      /\ ui.shown.parts = SubSeq(Whole(b, pass.page), 1, pass.step - 1) /\ pass.step <= Chunks + 1
  BY Given DEF Renders, LivePassRenders
<1>4. pass.step - 1 = Chunks
  BY <1>1, <1>3, ReaderAssumption DEF Pass
<1>5. /\ DOMAIN s = UiFields /\ s.view = ui.view /\ s.current = ui.current /\ s.page = ui.page
      /\ s.pages = ui.pages /\ s.scrolls = ui.scrolls /\ s.perPage = ui.perPage
      /\ s.counted = ui.counted /\ s.shown = ui.shown /\ s.rendering = ui.rendering
      /\ s.renders = ui.renders /\ s.texts = ui.texts /\ s.renderId = ui.renderId
      /\ s.loading = ui.loading /\ s.held = ui.held /\ s.passes = ui.passes \ {pass}
  BY <1>1, DroppedIs
<1> HIDE DEF s
<1>6. ui.pages[b] = ui.page /\ ui.page \in 1..Pages[b] /\ Pages[b] \in Nat
  BY <1>1, <1>2, <1>3, ReaderAssumption DEF OpenPage, UiType
<1>7. at \in Offsets
  <2>1. UiType(s)
    BY <1>1, <1>5 DEF UiType
  <2>2. pass.saved \in [page : Nat, at : Offsets]
    BY <1>1 DEF Pass
  <2>3. QED
    BY <1>2, <1>5, <1>6, <2>1, <2>2, RestoredTyped
<1>8. t = [s EXCEPT !.shown.at = at, !.shown.whole = TRUE, !.rendering = FALSE]
  BY <1>2, <1>5 DEF Written
<1> HIDE DEF at
<1>9. /\ DOMAIN t = UiFields /\ t.view = ui.view /\ t.current = ui.current /\ t.page = ui.page
      /\ t.pages = ui.pages /\ t.scrolls = ui.scrolls /\ t.perPage = ui.perPage
      /\ t.counted = ui.counted /\ t.rendering = FALSE
      /\ t.renders = ui.renders /\ t.texts = ui.texts /\ t.renderId = ui.renderId
      /\ t.loading = ui.loading /\ t.held = ui.held /\ t.passes = ui.passes \ {pass}
      /\ t.shown = [[ui.shown EXCEPT !.at = at] EXCEPT !.whole = TRUE]
  BY <1>5, <1>8 DEF UiFields
<1> HIDE DEF t
<1>10. /\ DOMAIN t.shown = {"kind", "parts", "at", "whole"} /\ t.shown.kind = "page"
       /\ t.shown.parts = ui.shown.parts /\ t.shown.at = at /\ t.shown.whole = TRUE
  <2>1. DOMAIN ui.shown = {"kind", "parts", "at", "whole"}
    BY <1>1 DEF UiType
  <2>2. QED
    BY <1>3, <1>9, <2>1
<1>11. UiType(t)
  BY <1>1, <1>7, <1>9, <1>10 DEF UiType
<1>12. \A q \in t.passes : ~Live(t, q)
  BY <1>2, <1>9 DEF Live
<1>13. OpenPage(t)
  BY <1>3, <1>9 DEF OpenPage
<1>14. Renders(t)
  <2>1. PassesAreTold(t)
    BY <1>9, Given DEF PassesAreTold
  <2>2. LivePassRenders(t)
    BY <1>12 DEF LivePassRenders
  <2>3. t.current # NoBook
    BY <1>2, <1>9, ReaderAssumption
  <2>4. WhatIsShown(t)
    BY <1>9, <1>10, <1>13, <2>3 DEF WhatIsShown
  <2>5. QED
    BY <2>1, <2>2, <2>4 DEF Renders
<1>15. InReader(t, opening)
  BY <1>2, <1>9, <1>10 DEF InReader
<1>16. OpeningFits(t, opening)
  BY <1>9, Given, OpeningFitsAlike
<1>17. AllFound(t, place, jumping)
  <2>1. ASSUME NEW c \in Books PROVE Found(t, place, c)
    <3>1. Found(ui, place, c)
      BY <1>2, Given
    <3>2. QED
      BY <1>9, <3>1, FoundAlike
  <2>2. CASE Steady(ui)
    <3>1. pass.saved = ui.scrolls[b] /\ pass.page = ui.page
      BY <2>2 DEF Steady
    <3>2. t.shown.parts = Whole(t.current, t.page)
      <4>1. SubSeq(Whole(b, pass.page), 1, Chunks) = Whole(b, pass.page)
        BY <1>2, WholeIsAll
      <4>2. t.shown.parts = Whole(b, pass.page)
        BY <1>3, <1>4, <1>10, <4>1
      <4>3. QED
        BY <1>2, <1>9, <3>1, <4>2
    <3>3. FoundPage(ui, b) = ui.page
      BY <1>6 DEF FoundPage
    <3>4. FoundAt(ui, b) = at
      BY <1>5, <3>1, <3>3 DEF FoundAt, Restored, at
    <3>5. Agrees(place[b], ui.page, at)
      BY <1>2, <1>6, <3>3, <3>4 DEF Found
    <3>6. Steady(t)
      BY <1>12, <3>2 DEF Steady
    <3>7. QED
      BY <1>2, <1>9, <1>10, <2>1, <3>5, <3>6 DEF AllFound
  <2>3. CASE ~Steady(ui)
    <3>1. jumping /\ ui.current # NoBook /\ place[ui.current] = Unknown
      BY <2>3, Given DEF PlacesFit
    <3>2. QED
      BY <1>9, <2>1, <3>1, UnknownAgrees DEF AllFound
  <2>4. QED
    BY <2>2, <2>3
<1>18. QED
  BY <1>11, <1>14, <1>15, <1>16, <1>17, Given, AllFoundFits DEF Ready, t, s

LEMMA PassRunsKeeps ==
  ASSUME ReaderIInv, NEW pass \in ui.passes, PassRuns(pass)
  PROVE  ReaderIInv'
<1> DEFINE s == [ui EXCEPT !.passes = @ \ {pass}]
<1>1. /\ ui' = IF Overtaken(s, pass) THEN s ELSE IF pass.step = 0 THEN Started(s, pass) ELSE Written(s, pass)
      /\ opening' = opening /\ jumping' = jumping /\ Settled(place)
  BY DEF PassRuns
<1>2. Overtaken(s, pass) <=> ~Live(ui, pass)
  <2>1. s.renders = ui.renders /\ s.renderId = ui.renderId /\ s.current = ui.current
    BY Given, DroppedIs
  <2> HIDE DEF s
  <2>2. QED
    BY <2>1, OvertakenIs
<1>3. Ready(ui', place, opening', jumping')
  <2>1. CASE ~Live(ui, pass)
    BY <1>1, <1>2, <2>1, OvertakenReady
  <2>2. CASE Live(ui, pass) /\ pass.step = 0
    BY <1>1, <1>2, <2>2, StartedReady
  <2>3. CASE Live(ui, pass) /\ pass.step # 0
    BY <1>1, <1>2, <2>3, PartReady, LastReady
  <2>4. QED
    BY <2>1, <2>2, <2>3
<1>4. QED
  BY <1>1, <1>3, Given, SettledOK

-------------------------------------------------------------------------------
(* What holds in every state.                                              *)

LEMMA ReaderStarts == ReaderInit => ReaderIInv
<1> SUFFICES ASSUME ReaderInit PROVE ReaderIInv
  OBVIOUS
<1>1. PICK last \in Books \cup {NoBook}, texts \in {{}, Books} :
        /\ ui = [view |-> "library", current |-> last, page |-> 1,
                 pages |-> [b \in Books |-> IF b = last THEN Pages[b] ELSE 0],
                 scrolls |-> [b \in Books |-> IF b = last THEN [page |-> Pages[b], at |-> 1] ELSE Nowhere],
                 perPage |-> [b \in Books |-> [p \in 1..Pages[b] |->
                                IF p = Pages[b] THEN IF b = last THEN 1 ELSE Unseen ELSE Unseen]],
                 held |-> texts, loading |-> NoBook, counted |-> NoBook, shown |-> Blank,
                 rendering |-> FALSE, renders |-> 0, texts |-> 0, renderId |-> 0, passes |-> {}]
        /\ place = [b \in Books |-> IF b = last THEN [page |-> Pages[b], at |-> 1] ELSE Unknown]
  BY DEF ReaderInit
<1>2. opening = NotOpening /\ jumping = FALSE
  BY DEF ReaderInit
<1>3. /\ DOMAIN ui = UiFields /\ ui.view = "library" /\ ui.current = last /\ ui.page = 1
      /\ ui.pages = [b \in Books |-> IF b = last THEN Pages[b] ELSE 0]
      /\ ui.scrolls = [b \in Books |-> IF b = last THEN [page |-> Pages[b], at |-> 1] ELSE Nowhere]
      /\ ui.perPage = [b \in Books |-> [p \in 1..Pages[b] |->
                         IF p = Pages[b] THEN IF b = last THEN 1 ELSE Unseen ELSE Unseen]]
      /\ ui.held = texts /\ ui.loading = NoBook /\ ui.counted = NoBook /\ ui.shown = Blank
      /\ ui.rendering = FALSE /\ ui.renders = 0 /\ ui.texts = 0 /\ ui.renderId = 0
      /\ ui.passes = {}
  BY <1>1 DEF UiFields
<1>4. \A b \in Books : Pages[b] \in Nat \ {0}
  BY ReaderAssumption
<1>5. /\ DOMAIN ui.shown = {"kind", "parts", "at", "whole"} /\ ui.shown.at \in Offsets
      /\ ui.shown.whole = FALSE /\ ui.shown.kind = "empty"
  BY <1>3, BlankTyped
<1>6. UiType(ui)
  <2>1. ui.pages \in [Books -> Nat]
    BY <1>3, <1>4
  <2>2. ui.scrolls \in [Books -> [page : Nat, at : Offsets]]
    <3>1. Nowhere \in [page : Nat, at : Offsets]
      BY DEF Nowhere, Offsets
    <3>2. \A b \in Books : [page |-> Pages[b], at |-> 1] \in [page : Nat, at : Offsets]
      BY <1>4 DEF Offsets
    <3>3. QED
      BY <1>3, <3>1, <3>2
  <2>3. DOMAIN ui.perPage = Books
        /\ \A b \in Books : ui.perPage[b] \in [1..Pages[b] -> Offsets \cup {Unseen}]
    BY <1>3 DEF Offsets
  <2>4. ui.held \subseteq Books
    BY <1>1, <1>3
  <2>5. /\ ui.view \in {"library", "reader"} /\ ui.current \in SomeBook /\ ui.page \in Nat \ {0}
        /\ ui.loading \in SomeBook /\ ui.counted \in SomeBook
        /\ ui.rendering \in BOOLEAN /\ ui.renders \in Nat /\ ui.texts \in Nat /\ ui.renderId \in Nat
        /\ ui.passes \subseteq Pass
    BY <1>1, <1>3 DEF SomeBook
  <2>6. QED
    BY <1>3, <1>5, <2>1, <2>2, <2>3, <2>4, <2>5 DEF UiType
<1>7. place \in [Books -> Place]
  <2>1. \A b \in Books : [page |-> Pages[b], at |-> 1] \in Place
    BY <1>4 DEF Place, Offsets
  <2>2. QED
    BY <1>1, <2>1, UnknownAgrees
<1>8. Renders(ui)
  BY <1>3, <1>5 DEF Renders, PassesAreTold, LivePassRenders, WhatIsShown
<1>9. InReader(ui, opening)
  BY <1>3 DEF InReader
<1>10. OpeningFits(ui, opening)
  BY <1>2, <1>3, NotOpeningFits
<1>11. PlacesFit(ui, place, opening, jumping)
  <2>1. ASSUME NEW b \in Books PROVE Found(ui, place, b)
    <3>1. CASE b # last
      BY <1>1, <3>1, UnknownIsFound
    <3>2. CASE b = last
      <4>1. ui.pages[b] = Pages[b] /\ ui.pages[b] # 0
        BY <1>3, <1>4, <3>2
      <4>2. FoundPage(ui, b) = Pages[b]
        BY <4>1 DEF FoundPage
      <4>3. ui.scrolls[b] = [page |-> Pages[b], at |-> 1]
        BY <1>3, <3>2
      <4>4. FoundAt(ui, b) = 1
        BY <4>2, <4>3 DEF FoundAt
      <4>5. place[b] = [page |-> Pages[b], at |-> 1]
        BY <1>1, <3>2
      <4>6. QED
        BY <4>1, <4>2, <4>4, <4>5 DEF Found, Agrees
    <3>3. QED
      BY <3>1, <3>2
  <2>2. Steady(ui)
    BY <1>3, <1>5 DEF Steady
  <2>3. QED
    BY <1>5, <2>1, <2>2 DEF PlacesFit
<1>12. KeepsYourPlace
  BY <1>3 DEF KeepsYourPlace
<1>13. QED
  BY <1>2, <1>6, <1>7, <1>8, <1>9, <1>10, <1>11, <1>12 DEF ReaderIInv, Ready

LEMMA ReaderSteps == ReaderIInv /\ [ReaderNext]_readerVars => ReaderIInv'
<1> SUFFICES ASSUME ReaderIInv, [ReaderNext]_readerVars PROVE ReaderIInv'
  OBVIOUS
<1>1. CASE UNCHANGED readerVars
  BY <1>1 DEF readerVars, ReaderIInv, KeepsYourPlace
<1>2. ASSUME NEW pass \in ui.passes, PassRuns(pass) PROVE ReaderIInv'
  BY <1>2, PassRunsKeeps
<1>3. CASE Loaded
  BY <1>3, LoadedKeeps
<1>4. CASE NotLoaded
  BY <1>4, NotLoadedKeeps
<1>5. CASE Opened
  BY <1>5, OpenedKeeps
<1>6. ASSUME NEW b \in Books, Open(b) PROVE ReaderIInv'
  BY <1>6, OpenKeeps
<1>7. CASE Leave
  BY <1>7, LeaveKeeps
<1>8. CASE Return
  BY <1>8, ReturnKeeps
<1>9. ASSUME NEW p \in AnyPage, TurnPage(p) PROVE ReaderIInv'
  BY <1>9, TurnPageKeeps
<1>10. CASE Scroll
  BY <1>10, ScrollKeeps
<1>11. CASE ScrollTimerFires
  BY <1>11, ScrollTimerFiresKeeps
<1>12. ASSUME NEW p \in AnyPage, NEW at \in Offsets, Jump(p, at) PROVE ReaderIInv'
  BY <1>12, JumpKeeps
<1>13. CASE JumpEnds
  BY <1>13, JumpEndsKeeps
<1>14. CASE Rerender
  BY <1>14, RerenderKeeps
<1>15. CASE ChangeWordsPerPage
  BY <1>15, ChangeWordsPerPageKeeps
<1>16. QED
  BY <1>1, <1>2, <1>3, <1>4, <1>5, <1>6, <1>7, <1>8, <1>9, <1>10, <1>11, <1>12, <1>13,
     <1>14, <1>15 DEF ReaderNext

\* Whatever the user does while texts load and pages render, the passes that
\* still write are told from those that were overtaken, and every place is
\* where the Reader will look for it.
THEOREM ReaderInvariance == ReaderSpec => []ReaderIInv
<1>1. ReaderInit => ReaderIInv
  BY ReaderStarts
<1>2. ReaderIInv /\ [ReaderNext]_readerVars => ReaderIInv'
  BY ReaderSteps
<1>3. QED
  BY <1>1, <1>2, PTL DEF ReaderSpec

LEMMA ShowsWhatIsReady == ReaderIInv => ShowsWhatIsOpen
<1> SUFFICES ASSUME ReaderIInv PROVE ShowsWhatIsOpen
  OBVIOUS
<1> DEFINE b == ui.current
           w == Whole(b, ui.page)
<1>1. ASSUME ui.shown.kind = "page", ~jumping
      PROVE  /\ \E n \in 0..Len(w) : ui.shown.parts = SubSeq(w, 1, n)
             /\ ui.shown.whole => ui.shown.parts = w
  <2>1. Steady(ui) /\ b \in Books
    BY <1>1, Given DEF PlacesFit, Renders, WhatIsShown, UiType, SomeBook
  <2>2. CASE ui.shown.whole
    <3>1. ui.shown.parts = w
      BY <2>1, <2>2 DEF Steady
    <3>2. Len(w) \in Nat /\ SubSeq(w, 1, Len(w)) = w
      <4> DEFINE n == IF b \in Scans THEN 1 ELSE Chunks
                 S == {<<b, ui.page, i>> : i \in 1..n}
      <4>1. n \in Nat /\ w = [i \in 1..n |-> <<b, ui.page, i>>]
        BY ReaderAssumption DEF Whole
      <4> HIDE DEF n, w
      <4>2. w \in Seq(S)
        BY <4>1
      <4> HIDE DEF S
      <4>3. QED
        BY <4>2, SubSeqFull
    <3> HIDE DEF w
    <3>3. Len(w) \in 0..Len(w) /\ ui.shown.parts = SubSeq(w, 1, Len(w))
      BY <3>1, <3>2
    <3>4. QED
      BY <2>2, <3>1, <3>3, Zenon
  <2>3. CASE ~ui.shown.whole
    <3>1. PICK p \in ui.passes : p.step # 0 /\ Live(ui, p)
      BY <1>1, <2>3, Given DEF Renders, WhatIsShown
    <3>2. p.book = b /\ p.book \in Books \ Scans /\ p.step \in Nat
      BY <3>1, OneIsLive, Given DEF UiType, Pass
    <3>3. p.step <= Chunks + 1 /\ ui.shown.parts = SubSeq(Whole(p.book, p.page), 1, p.step - 1)
      BY <3>1, Given DEF Renders, LivePassRenders
    <3>4. p.page = ui.page
      BY <2>1, <3>1 DEF Steady
    <3>5. Len(w) = Chunks
      BY <3>2, WholeIsAll
    <3>6. p.step - 1 \in 0..Len(w)
      BY <3>1, <3>2, <3>3, <3>5, ReaderAssumption
    <3>7. QED
      BY <2>3, <3>2, <3>3, <3>4, <3>6
  <2>4. QED
    BY <2>2, <2>3
<1>2. ASSUME ui.view = "reader", b # NoBook, opening = NotOpening, ui.passes = {}, ~jumping
      PROVE  ui.shown.whole
  BY <1>2, Given DEF InReader, Renders, WhatIsShown
<1>3. QED
  BY <1>1, <1>2 DEF ShowsWhatIsOpen

\* The Reader shows the open page of the open book and nothing else, and a
\* book is found where it was left.
THEOREM PlacesAreShown == ReaderSpec => []ShowsTheOpenPlace
<1>1. ReaderIInv => ShowsTheOpenPlace
  BY ShowsWhatIsReady DEF ReaderIInv, ShowsTheOpenPlace
<1>2. QED
  BY <1>1, ReaderInvariance, PTL
===============================================================================
