-------------------------------- MODULE Speech --------------------------------
(***************************************************************************)
(* Reading aloud (tts.ts, tts.rs, MainActivity.kt).  A text is read        *)
(* sentence by sentence, each started by the end of the one before: by the *)
(* synthesizer of the browser, by Edge voices fetched from the backend, or *)
(* by the Android engine; single words in the same three ways.  Whatever   *)
(* is asked for stops what is being read, and the answers, timers and      *)
(* events of what was stopped may still arrive.                            *)
(*                                                                         *)
(* stopSpeaking and the readNextSentence functions call each other, so     *)
(* they are operators on the state of the page.  androidTtsBroken is left  *)
(* out: it is read only where stopSpeaking has just reset it.  Which word  *)
(* is outlined is Highlight's subject.                                     *)
(***************************************************************************)
EXTENDS Integers, Sequences, FiniteSets, SequencesExt

CONSTANTS
  Platforms,      \* of "local", "edge" and "android"
  Sentences,      \* of every text
  MaxAsks,        \* bound: readings and words asked for, on each platform
  MaxStops,       \* bound: stops waiting for Android's UI thread; more run together
  MaxHides        \* bound: how often the app goes to the background

ASSUME SpeechAssumption ==
  /\ Platforms \subseteq {"local", "edge", "android"}
  /\ Sentences \in Nat \ {0}

VARIABLES
  platform,   \* what reads
  synth,      \* window.speechSynthesis exists
  tts,        \* the page: see Page
  engine,     \* Android: the utterance being spoken, or None
  ready,      \* Android: ttsReady
  stops,      \* Android: stopTts posted to the UI thread and not run
  events,     \* Android: results of the utterance listened to, posted to the page
  busy,       \* the backend's syntheses under way (SynthesisPermit)
  hidden,     \* the app is in the background
  overlapped, \* history: a text was asked for while one waited for the engine
  asks, hides

speechVars == <<platform, synth, tts, engine, ready, stops, events, busy, hidden,
                overlapped, asks, hides>>

None == [session |-> -1, kind |-> "none", how |-> "none", index |-> 0, ask |-> 0]
MaxSynthesis == 2
Task == [session : Nat, kind : {"text", "word"}, how : {"local", "edge", "android"},
         index : 1..Sentences, ask : Nat]
Maybe == Task \cup {None}
\* The text that may be taken up again, and the sentence it would go on with.
Chain == [session : Nat, kind : {"text"}, how : {"android"},
          index : 1..Sentences + 1, ask : Nat]
Page == [session : Nat, speaking : BOOLEAN,
         finish : BOOLEAN,                \* onFinishCallback is set
         button : {"play", "stop"},       \* of the two, the one shown
         waits : SUBSET Task,             \* asks that wait for the Android engine
         listener : Maybe,                \* the Android utterance listened to
         queue : Seq(Task),               \* the browser's synthesizer, the first is heard
         fetch : Maybe, audio : Maybe,    \* Edge: the request, the playback
         gone : SUBSET Task,              \* cancelled by the last stop, with handlers still to run
         paused : Chain \cup {None}]       \* pausedChain

-------------------------------------------------------------------------------
(* The page.                                                               *)

Stop(s) == [s EXCEPT !.session = @ + 1, !.speaking = FALSE, !.finish = FALSE,
                     !.button = IF s.finish THEN "play" ELSE @,
                     !.listener = None, !.queue = <<>>, !.fetch = None, !.audio = None,
                     !.gone = (Range(s.queue) \cup {s.fetch}) \ {None}]

\* Slip: a handler does not look at the session.
CurrentAnyhow(s, u) == u.kind = "text" => s.speaking

\* Every handler of a task asks this first.
Current(s, u) == u.session = s.session /\ (u.kind = "text" => s.speaking)

Say(s, u) == [s EXCEPT !.queue = Append(@, u)]

\* readNextSentenceLocal throws where there is no synthesizer, and leaves
\* everything as it is.
ReadNextLocal(s, u) == IF synth THEN Say(s, u) ELSE s

\* When the engine refuses, the browser's synthesizer reads the sentence.
ReadNextAndroid(s, u, accepted) ==
  IF accepted THEN [s EXCEPT !.listener = u]
  ELSE IF synth THEN Say([s EXCEPT !.listener = None], u)
  ELSE Stop(s)

\* readNextSentenceLocal, readNextSentenceEdge and readNextSentenceAndroid
ReadNext(s, u, accepted) ==
  IF ~s.speaking \/ u.index > Sentences THEN Stop(s)
  ELSE CASE u.how = "local" -> ReadNextLocal(s, u)
         [] u.how = "edge" -> [s EXCEPT !.fetch = u]
         [] u.how = "android" -> ReadNextAndroid(s, u, accepted)

Next1(u) == [u EXCEPT !.index = @ + 1]

\* What follows when a sentence has been read.
Ended(s, u, accepted) ==
  IF u.kind = "text" /\ Current(s, u) THEN ReadNext(s, Next1(u), accepted) ELSE s

\* speakWordLocal
SayWord(s, u) ==
  IF synth THEN [s EXCEPT !.queue = <<u>>, !.gone = Range(s.queue)] ELSE s

\* A sentence whose voice failed is read by the browser's synthesizer; where
\* there is none, speakSentenceLocal ends at once.
FallBack(s, u, accepted) ==
  IF ~Current(s, u) THEN s
  ELSE IF u.kind = "word" THEN SayWord(s, u)
  ELSE IF synth THEN Say(s, u) ELSE Ended(s, u, accepted)

\* A step of the page, and what it asks of the engine: an utterance flushes
\* the one before.  Results of what the page no longer listens to are dropped.
Becomes(s, accepted) ==
  /\ accepted => ready
  /\ tts' = s
  /\ stops' = IF platform = "android" /\ s.session # tts.session /\ stops < MaxStops
              THEN stops + 1 ELSE stops
  /\ engine' = IF s.listener \in {None, tts.listener} THEN engine ELSE s.listener
  /\ events' = IF s.listener = tts.listener THEN events ELSE {}

\* What the engine spoke is over, and the page is told if it listens.
EngineFalls(status) ==
  /\ engine' = None
  /\ events' = IF engine # None /\ engine = tts.listener
               THEN events \cup {status} ELSE events

backend == <<busy>>
user == <<hidden, overlapped, asks, hides>>
fixed == <<platform, synth>>

-------------------------------------------------------------------------------
(* What is asked for.                                                      *)

Asked(s, kind) == [session |-> s.session, kind |-> kind, how |-> platform,
                   index |-> 1, ask |-> asks + 1]

\* After the wait for the Android engine: a word looks at the session, a text
\* only at whether anything is read.
Waited(s, u, accepted) ==
  LET now == [u EXCEPT !.session = s.session] IN
  IF u.kind = "word"
  THEN IF ~Current(s, u) THEN s
       ELSE IF accepted THEN [s EXCEPT !.listener = u] ELSE SayWord(s, u)
  ELSE IF ~s.speaking THEN s
  ELSE IF ready THEN ReadNext([s EXCEPT !.paused = now], now, accepted)
  ELSE ReadNext(s, [now EXCEPT !.how = "local"], FALSE)

\* Where the engine is ready there is nothing to wait for.
Begin(s, u, accepted) ==
  IF platform = "android"
  THEN IF ready THEN Waited(s, u, accepted) ELSE [s EXCEPT !.waits = @ \cup {u}]
  ELSE IF u.kind = "text" THEN ReadNext(s, u, FALSE)
  ELSE IF platform = "edge" THEN [s EXCEPT !.fetch = u]
  ELSE SayWord(s, u)

\* Slip: the callback is set before what is read is stopped.
SpeakTextToldFirst ==
  /\ asks < MaxAsks[platform] /\ ~hidden
  /\ LET s == [Stop([tts EXCEPT !.finish = TRUE]) EXCEPT !.speaking = TRUE, !.button = "stop"]
     IN  \E accepted \in BOOLEAN : Becomes(Begin(s, Asked(s, "text"), accepted), accepted)
  /\ asks' = asks + 1
  /\ UNCHANGED <<fixed, ready, backend, hidden, overlapped, hides>>

\* playReaderText, speakText
SpeakText ==
  /\ asks < MaxAsks[platform] /\ ~hidden
  /\ LET s == [Stop(tts) EXCEPT !.speaking = TRUE, !.finish = TRUE, !.button = "stop"]
     IN  \E accepted \in BOOLEAN : Becomes(Begin(s, Asked(s, "text"), accepted), accepted)
  /\ asks' = asks + 1
  /\ overlapped' = (overlapped \/ \E w \in tts.waits : w.kind = "text")
  /\ UNCHANGED <<fixed, ready, backend, hidden, hides>>

SpeakWord ==
  /\ asks < MaxAsks[platform] /\ ~hidden
  /\ LET s == Stop(tts)
     IN  \E accepted \in BOOLEAN : Becomes(Begin(s, Asked(s, "word"), accepted), accepted)
  /\ asks' = asks + 1
  /\ UNCHANGED <<fixed, ready, backend, hidden, overlapped, hides>>

\* The stop button, the shortcut, the notification
StopReading ==
  /\ tts.speaking
  /\ Becomes(Stop(tts), FALSE)
  /\ UNCHANGED <<fixed, ready, backend, user>>

Hide ==
  /\ ~hidden /\ hides < MaxHides
  /\ hidden' = TRUE /\ hides' = hides + 1
  /\ Becomes(IF tts.speaking /\ platform = "android" THEN Stop(tts) ELSE tts, FALSE)
  /\ UNCHANGED <<fixed, ready, backend, overlapped, asks>>

\* A reading goes on unless a minute has passed, or its page is gone and it
\* was not at its beginning.
Show ==
  /\ hidden
  /\ hidden' = FALSE
  /\ \E resumed, accepted \in BOOLEAN :
       LET chain == tts.paused
           s == [tts EXCEPT !.paused = None]
       IN  Becomes(IF chain = None \/ ~resumed \/ chain.index > Sentences THEN s
                   ELSE ReadNext([s EXCEPT !.speaking = TRUE, !.finish = TRUE],
                                 [chain EXCEPT !.session = s.session], accepted), accepted)
  /\ UNCHANGED <<fixed, ready, backend, overlapped, asks, hides>>

-------------------------------------------------------------------------------
(* The Android engine.                                                     *)

EngineIsReady ==
  /\ platform = "android" /\ ~ready
  /\ ready' = TRUE
  /\ UNCHANGED <<fixed, tts, engine, stops, events, backend, user>>

\* waitForAndroidTtsReady ends: the engine is ready, or 1.5 seconds are over.
WaitEnds(u) ==
  /\ u \in tts.waits
  /\ \E accepted \in BOOLEAN :
       Becomes(Waited([tts EXCEPT !.waits = @ \ {u}], u, accepted), accepted)
  /\ UNCHANGED <<fixed, ready, backend, user>>

EngineEnds(status) ==
  /\ engine # None
  /\ EngineFalls(status)
  /\ UNCHANGED <<fixed, tts, ready, stops, backend, user>>

\* The UI thread stops whatever the engine speaks by now.
StopRuns ==
  /\ stops > 0
  /\ stops' = stops - 1
  /\ EngineFalls("stopped")
  /\ UNCHANGED <<fixed, tts, ready, backend, user>>

\* Slip: only an utterance that was spoken to its end goes on.
HeardIfDone(u, status, accepted) ==
  LET s == [tts EXCEPT !.listener = None] IN
  IF Current(s, u) /\ u.kind = "text" /\ status = "done"
  THEN Ended(s, u, accepted) ELSE s

\* The answer of speakSentenceAndroid: only of the last utterance
Heard(u, status, accepted) ==
  LET s == [tts EXCEPT !.listener = None] IN
  IF ~Current(s, u) \/ u.kind = "word" THEN s
  ELSE IF status = "done"
  THEN Ended([s EXCEPT !.paused = IF @ = None THEN @ ELSE [@ EXCEPT !.index = u.index + 1]],
             u, accepted)
  ELSE Stop(s)     \* finishAndroidTtsChain

ResultArrives(status) ==
  /\ status \in events
  /\ \E accepted \in BOOLEAN : Becomes(Heard(tts.listener, status, accepted), accepted)
  /\ UNCHANGED <<fixed, ready, backend, user>>

\* 20 to 180 seconds without an answer
ListenerTimesOut ==
  /\ tts.listener # None
  /\ Becomes(Heard(tts.listener, "timeout", FALSE), FALSE)
  /\ UNCHANGED <<fixed, ready, backend, user>>

-------------------------------------------------------------------------------
(* The browser's synthesizer.                                              *)

\* An error ends a text the synthesizer reads by itself; a sentence it reads
\* for another voice is over either way.
UtteranceEnds(failed) ==
  /\ tts.queue # <<>>
  /\ \E accepted \in BOOLEAN :
       LET u == Head(tts.queue)
           s == [tts EXCEPT !.queue = Tail(@)]
       IN  Becomes(IF failed /\ u.kind = "text" /\ u.how = "local" /\ Current(s, u)
                   THEN Stop(s) ELSE Ended(s, u, accepted), accepted)
  /\ UNCHANGED <<fixed, ready, backend, user>>

-------------------------------------------------------------------------------
(* Edge voices.                                                            *)

\* serve_edge_tts, synthesize: at most two at a time, a third is refused.
Synthesize ==
  /\ tts.fetch # None /\ tts.fetch \notin busy
  /\ Cardinality(busy) < MaxSynthesis
  /\ busy' = busy \cup {tts.fetch}
  /\ UNCHANGED <<fixed, tts, engine, ready, stops, events, user>>

\* The synthesis of a request ends, or 14 seconds are over; the page may no
\* longer wait for it.
SynthesisEnds(u) ==
  /\ u \in busy
  /\ busy' = busy \ {u}
  /\ \/ UNCHANGED tts
     \/ /\ u = tts.fetch
        /\ tts' = IF Current(tts, u) THEN [tts EXCEPT !.fetch = None, !.audio = u] ELSE tts
  /\ UNCHANGED <<fixed, engine, ready, stops, events, user>>

\* Refused, failed, or 15 seconds are over
FetchFails ==
  /\ tts.fetch # None
  /\ Becomes(FallBack([tts EXCEPT !.fetch = None], tts.fetch, FALSE), FALSE)
  /\ UNCHANGED <<fixed, ready, backend, user>>

AudioEnds ==
  /\ tts.audio # None
  /\ Becomes(Ended([tts EXCEPT !.audio = None], tts.audio, FALSE), FALSE)
  /\ UNCHANGED <<fixed, ready, backend, user>>

\* The playback fails, or the watchdog fires.
AudioFails ==
  /\ tts.audio # None
  /\ Becomes(FallBack([tts EXCEPT !.audio = None], tts.audio, FALSE), FALSE)
  /\ UNCHANGED <<fixed, ready, backend, user>>

\* The handler of something cancelled runs after all.
LateHandler(u) ==
  /\ u \in tts.gone
  /\ Becomes(Ended([tts EXCEPT !.gone = @ \ {u}], u, FALSE), FALSE)
  /\ UNCHANGED <<fixed, ready, backend, user>>

-------------------------------------------------------------------------------
SpeechInit ==
  /\ platform \in Platforms
  /\ synth \in (IF platform = "android" THEN BOOLEAN ELSE {TRUE})
  /\ tts = [session |-> 0, speaking |-> FALSE, finish |-> FALSE, button |-> "play",
            waits |-> {}, listener |-> None, queue |-> <<>>, fetch |-> None,
            audio |-> None, gone |-> {}, paused |-> None]
  /\ engine = None /\ ready = FALSE /\ stops = 0 /\ events = {} /\ busy = {}
  /\ hidden = FALSE /\ overlapped = FALSE /\ asks = 0 /\ hides = 0

Answers ==
  \/ \E u \in tts.waits : WaitEnds(u)
  \/ \E status \in events : ResultArrives(status)
  \/ ListenerTimesOut
  \/ \E failed \in BOOLEAN : UtteranceEnds(failed)
  \/ FetchFails
  \/ AudioEnds
  \/ AudioFails

SpeechNext ==
  \/ SpeakText \/ SpeakWord \/ StopReading \/ Hide \/ Show
  \/ EngineIsReady
  \/ \E status \in {"done", "error"} : EngineEnds(status)
  \/ StopRuns
  \/ Synthesize
  \/ \E u \in busy : SynthesisEnds(u)
  \/ \E u \in tts.gone : LateHandler(u)
  \/ Answers

\* Every wait, request and playback has a timer, and the browser ends what
\* it speaks.  Nothing else is relied on: not the engine, not the backend.
SpeechFairness == WF_speechVars(Answers)

SpeechSpec == SpeechInit /\ [][SpeechNext]_speechVars /\ SpeechFairness

-------------------------------------------------------------------------------
Pending == ({tts.listener, tts.fetch, tts.audio} \cup Range(tts.queue)) \ {None}

\* What is stopped stays stopped: whatever is still to sound belongs to the
\* last thing asked for, and of it to one sentence at a time (the session
\* numbers of tts.ts).  While the Android engine starts up a second text may
\* be asked for, and then both are read; a reading taken up again sets in
\* over a word.
OneVoice ==
  /\ \A u \in Pending : u.session = tts.session
  /\ ~overlapped => Cardinality({u \in Pending : u.kind = "text"}) <= 1
  /\ platform # "android" => Cardinality(Pending) <= 1 /\ \A u \in Pending : u.ask = asks
  /\ ~tts.speaking => \A u \in Pending : u.kind = "word"

\* The stop button is shown only while there is something to stop, and
\* whoever asked to be told of the end has not been told.
ButtonStopsSomething == (tts.button = "stop" => tts.finish) /\ (tts.finish => tts.speaking)

\* Every reading ends, and its button goes back: no voice that fails, falls
\* silent or answers late leaves it hanging.  Except where there is no voice
\* at all: an Android engine that is not ready, and no synthesizer.
ReadingsEnd == (tts.speaking /\ synth) ~> ~tts.speaking

SpeechTypeOK ==
  /\ platform \in Platforms /\ synth \in BOOLEAN /\ tts \in Page
  /\ engine \in Maybe /\ ready \in BOOLEAN /\ stops \in Nat
  /\ busy \subseteq Task /\ events \subseteq {"done", "error", "stopped"}
  /\ hidden \in BOOLEAN /\ overlapped \in BOOLEAN /\ asks \in Nat /\ hides \in Nat

\* One voice at a time, and the button of a reading stops something.
OneVoiceAtHand == SpeechTypeOK /\ OneVoice /\ ButtonStopsSomething
===============================================================================
