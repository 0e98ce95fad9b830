------------------------------- MODULE BooksProof -------------------------------
(***************************************************************************)
(* Proofs about the books of a learner, for any number of books, imports,  *)
(* faults and requests.                                                    *)
(*                                                                         *)
(* BookImport: a live book has its images, orphaned images are marked, and *)
(* a cancelled import leaves nothing behind.                               *)
(*                                                                         *)
(* Library: a text is in the store whole until the learner removes it, and *)
(* one that is moved is found with its bookmarks and its place.            *)
(*                                                                         *)
(* TextStats: no number of a book is of an older vocabulary, and no index  *)
(* of an older text.                                                       *)
(***************************************************************************)
EXTENDS BookImport, Library, TextStats, FiniteSetTheorems, WellFoundedInduction, SequenceTheorems,
        TLAPS

-------------------------------------------------------------------------------
(* Imports of documents (BookImport).                                      *)

\* Only the desktop recognises and stages; only Android has documents that
\* are too long.
EachToItsPlatform ==
  \A i \in Imports :
    /\ platform = "desktop" => i \notin long
    /\ platform = "android" => job[i] \notin Recognising \cup {"layer", "pages", "finalize"}

\* An import that has not begun has no job.
IdleHasNoJob == \A i \in Imports : page[i] = "idle" <=> job[i] = "none"

\* Of a long document there are never all images.
LongIsNeverWhole == \A i \in long : images[i] # "all"

\* Staged images belong to a job at work, or their removal failed.
StagedIsInHand ==
  \A i \in staged \ littered : job[i] \in {"pages", "finalize"}

\* A text on its way has a page that awaits it, unless the page has given up
\* or is gone.
TextsAreAwaited ==
  \A i \in Imports \ late : Msg("text", i) \in sent => page[i] \in {"storing", "gone"}

\* The record of a cancelled import stays dead, so that neither the worker
\* nor a request that is late begins anew.
CancelledIsDead ==
  \A i \in Imports \ (littered \cup late) : page[i] = "cancelled" =>
    record[i] = "dead" /\ images[i] = "none" /\ i \notin marked

IInv ==
  /\ TypeOK /\ EachToItsPlatform /\ IdleHasNoJob /\ LongIsNeverWhole
  /\ StagedIsInHand /\ TextsAreAwaited /\ CancelledIsDead
  /\ LiveBooksHaveTheirImages /\ OrphansAreMarked

-------------------------------------------------------------------------------
(* The page's steps.  Each lemma says that a step keeps the invariant: its *)
(* types, the parts it leaves alone, and one by one those it touches.      *)
LEMMA StartImportKeeps ==
  ASSUME IInv, NEW i \in Imports, StartImport(i)
  PROVE  IInv'
<1>1. TypeOK'
  BY DEF IInv, TypeOK, StartImport, Busy, Message, Ended, Active, Recognising,
        backend, store
<1>2. /\ LongIsNeverWhole' /\ LiveBooksHaveTheirImages' /\ OrphansAreMarked'
  BY DEF IInv, LongIsNeverWhole, LiveBooksHaveTheirImages, OrphansAreMarked,
        StartImport, backend, store
<1>3. EachToItsPlatform'
  BY DEF IInv, TypeOK, EachToItsPlatform, Recognising, StartImport, Busy,
        backend, store
<1>4. IdleHasNoJob'
  BY DEF IInv, TypeOK, IdleHasNoJob, StartImport, Busy, backend, store
<1>5. StagedIsInHand'
  BY DEF IInv, TypeOK, StagedIsInHand, IdleHasNoJob, StartImport, Busy,
        backend, store
<1>6. TextsAreAwaited'
  BY DEF IInv, TypeOK, TextsAreAwaited, StartImport, Busy, backend, store
<1>7. CancelledIsDead'
  BY DEF IInv, TypeOK, CancelledIsDead, StartImport, Busy, backend, store
<1> QED
  BY <1>1, <1>2, <1>3, <1>4, <1>5, <1>6, <1>7 DEF IInv

LEMMA PressCancelKeeps ==
  ASSUME IInv, NEW i \in Imports, PressCancel(i)
  PROVE  IInv'
<1>1. TypeOK'
  BY DEF IInv, TypeOK, PressCancel, Msg, Message, Busy, Ended, Active,
        Recognising, backend, store
<1>2. /\ EachToItsPlatform' /\ LongIsNeverWhole' /\ StagedIsInHand'
      /\ LiveBooksHaveTheirImages' /\ OrphansAreMarked'
  BY DEF IInv, EachToItsPlatform, LongIsNeverWhole, StagedIsInHand,
        LiveBooksHaveTheirImages, OrphansAreMarked, PressCancel, backend, store
<1>3. IdleHasNoJob'
  BY DEF IInv, TypeOK, IdleHasNoJob, PressCancel, Msg, backend, store
<1>4. TextsAreAwaited'
  BY DEF IInv, TypeOK, TextsAreAwaited, PressCancel, Msg, backend, store
<1>5. CancelledIsDead'
  BY DEF IInv, TypeOK, CancelledIsDead, PressCancel, Msg, backend, store
<1> QED
  BY <1>1, <1>2, <1>3, <1>4, <1>5 DEF IInv

LEMMA ReceiveKeeps ==
  ASSUME IInv, NEW i \in Imports, Receive(i)
  PROVE  IInv'
<1>1. TypeOK'
  BY DEF IInv, TypeOK, Receive, CleanUp, Msg, Message, Busy, Ended, Active,
        Recognising, backend, store
<1>2. /\ EachToItsPlatform' /\ LongIsNeverWhole' /\ StagedIsInHand'
      /\ LiveBooksHaveTheirImages' /\ OrphansAreMarked'
  BY DEF IInv, EachToItsPlatform, LongIsNeverWhole, StagedIsInHand,
        LiveBooksHaveTheirImages, OrphansAreMarked, Receive, backend, store
<1>3. IdleHasNoJob'
  BY DEF IInv, TypeOK, IdleHasNoJob, Receive, CleanUp, Msg, backend, store
<1>4. TextsAreAwaited'
  BY DEF IInv, TypeOK, TextsAreAwaited, Receive, CleanUp, Msg, backend, store
<1>5. CancelledIsDead'
  BY DEF IInv, TypeOK, CancelledIsDead, Receive, CleanUp, Msg, backend, store
<1> QED
  BY <1>1, <1>2, <1>3, <1>4, <1>5 DEF IInv

LEMMA RenderKeeps ==
  ASSUME IInv, NEW i \in Imports, Render(i)
  PROVE  IInv'
<1>1. TypeOK'
  BY DEF IInv, TypeOK, Render, CleanUp, Msg, Message, Busy, Ended, Active,
        Recognising, backend, store
<1>2. /\ EachToItsPlatform' /\ LongIsNeverWhole' /\ StagedIsInHand'
      /\ LiveBooksHaveTheirImages' /\ OrphansAreMarked'
  BY DEF IInv, EachToItsPlatform, LongIsNeverWhole, StagedIsInHand,
        LiveBooksHaveTheirImages, OrphansAreMarked, Render, backend, store
<1>3. IdleHasNoJob'
  BY DEF IInv, TypeOK, IdleHasNoJob, Render, CleanUp, Msg, backend, store
<1>4. TextsAreAwaited'
  BY DEF IInv, TypeOK, TextsAreAwaited, Render, CleanUp, Msg, backend, store
<1>5. CancelledIsDead'
  BY DEF IInv, TypeOK, CancelledIsDead, Render, CleanUp, Msg, backend, store
<1> QED
  BY <1>1, <1>2, <1>3, <1>4, <1>5 DEF IInv

LEMMA GiveUpKeeps ==
  ASSUME IInv, NEW i \in Imports, GiveUp(i)
  PROVE  IInv'
<1>1. TypeOK'
  BY DEF IInv, TypeOK, GiveUp, CleanUp, Msg, Message, Busy, Ended, Active,
        Recognising, backend, store
<1>2. /\ EachToItsPlatform' /\ LongIsNeverWhole' /\ LiveBooksHaveTheirImages'
  BY DEF IInv, EachToItsPlatform, LongIsNeverWhole, LiveBooksHaveTheirImages,
        GiveUp, backend, store
<1>3. IdleHasNoJob'
  BY DEF IInv, TypeOK, IdleHasNoJob, GiveUp, CleanUp, Msg, backend, store
<1>4. StagedIsInHand'
  BY DEF IInv, TypeOK, StagedIsInHand, GiveUp, CleanUp, Msg, backend, store
<1>5. TextsAreAwaited'
  BY DEF IInv, TypeOK, TextsAreAwaited, GiveUp, CleanUp, Msg, backend, store
<1>6. CancelledIsDead'
  BY DEF IInv, TypeOK, CancelledIsDead, GiveUp, CleanUp, Msg, backend, store
<1>7. OrphansAreMarked'
  BY DEF IInv, TypeOK, OrphansAreMarked, GiveUp, CleanUp, Msg, backend, store
<1> QED
  BY <1>1, <1>2, <1>3, <1>4, <1>5, <1>6, <1>7 DEF IInv

LEMMA SaveProfileKeeps ==
  ASSUME IInv, NEW i \in Imports, SaveProfile(i)
  PROVE  IInv'
<1>1. TypeOK'
  BY DEF IInv, TypeOK, SaveProfile, CleanUp, Msg, Message, Busy, Ended, Active,
        Recognising, backend, store
<1>2. /\ EachToItsPlatform' /\ LongIsNeverWhole' /\ StagedIsInHand'
      /\ LiveBooksHaveTheirImages' /\ OrphansAreMarked'
  BY DEF IInv, EachToItsPlatform, LongIsNeverWhole, StagedIsInHand,
        LiveBooksHaveTheirImages, OrphansAreMarked, SaveProfile, backend, store
<1>3. IdleHasNoJob'
  BY DEF IInv, TypeOK, IdleHasNoJob, SaveProfile, CleanUp, Msg, backend, store
<1>4. TextsAreAwaited'
  BY DEF IInv, TypeOK, TextsAreAwaited, SaveProfile, CleanUp, Msg, backend,
        store
<1>5. CancelledIsDead'
  BY DEF IInv, TypeOK, CancelledIsDead, SaveProfile, CleanUp, Msg, backend,
        store
<1> QED
  BY <1>1, <1>2, <1>3, <1>4, <1>5 DEF IInv

-------------------------------------------------------------------------------
(* The worker's steps.                                                     *)
LEMMA BeginJobKeeps ==
  ASSUME IInv, NEW i \in Imports, BeginJob(i)
  PROVE  IInv'
<1>1. TypeOK'
  BY DEF IInv, TypeOK, BeginJob, Goto, Worker, Message, Busy, Ended, Active,
        Recognising, backend, store
<1>2. /\ LongIsNeverWhole' /\ TextsAreAwaited' /\ CancelledIsDead'
      /\ OrphansAreMarked'
  BY DEF IInv, LongIsNeverWhole, TextsAreAwaited, CancelledIsDead,
        OrphansAreMarked, BeginJob, Goto, Worker, backend, store
<1>3. EachToItsPlatform'
  BY DEF IInv, TypeOK, EachToItsPlatform, Recognising, BeginJob, Goto, Worker,
        backend, store
<1>4. IdleHasNoJob'
  BY DEF IInv, TypeOK, IdleHasNoJob, BeginJob, Goto, Worker, backend, store
<1>5. StagedIsInHand'
  BY DEF IInv, TypeOK, StagedIsInHand, BeginJob, Goto, Worker, backend, store
<1>6. LiveBooksHaveTheirImages'
  BY DEF IInv, TypeOK, LiveBooksHaveTheirImages, BeginJob, Goto, Worker,
        backend, store
<1> QED
  BY <1>1, <1>2, <1>3, <1>4, <1>5, <1>6 DEF IInv

LEMMA ReadBodyKeeps ==
  ASSUME IInv, NEW i \in Imports, ReadBody(i)
  PROVE  IInv'
<1>1. TypeOK'
  BY DEF IInv, TypeOK, ReadBody, Goto, Fail, EnsureNew, Worker, Message, Busy,
        Ended, Active, Recognising, backend, store
<1>2. /\ LongIsNeverWhole' /\ TextsAreAwaited'
  BY DEF IInv, LongIsNeverWhole, TextsAreAwaited, ReadBody, Goto, Fail, Worker,
        backend, store
<1>3. EachToItsPlatform'
  BY DEF IInv, TypeOK, EachToItsPlatform, Recognising, ReadBody, Goto, Fail,
        EnsureNew, Worker, backend, store
<1>4. IdleHasNoJob'
  BY DEF IInv, TypeOK, IdleHasNoJob, ReadBody, Goto, Fail, EnsureNew, Worker,
        backend, store
<1>5. StagedIsInHand'
  BY DEF IInv, TypeOK, StagedIsInHand, ReadBody, Goto, Fail, EnsureNew, Worker,
        backend, store
<1>6. CancelledIsDead'
  BY DEF IInv, TypeOK, CancelledIsDead, ReadBody, Goto, Fail, EnsureNew,
        Worker, backend, store
<1>7. LiveBooksHaveTheirImages'
  BY DEF IInv, TypeOK, LiveBooksHaveTheirImages, ReadBody, Goto, Fail,
        EnsureNew, Worker, backend, store
<1>8. OrphansAreMarked'
  BY DEF IInv, TypeOK, OrphansAreMarked, ReadBody, Goto, Fail, EnsureNew,
        Worker, backend, store
<1> QED
  BY <1>1, <1>2, <1>3, <1>4, <1>5, <1>6, <1>7, <1>8 DEF IInv

LEMMA RecogniseKeeps ==
  ASSUME IInv, NEW i \in Imports, Recognise(i)
  PROVE  IInv'
<1>1. TypeOK'
  BY DEF IInv, TypeOK, Recognise, Goto, Fail, RunnerFails, Recognising, Worker,
        Message, Busy, Ended, Active, backend, store
<1>2. /\ LongIsNeverWhole' /\ TextsAreAwaited'
  BY DEF IInv, LongIsNeverWhole, TextsAreAwaited, Recognise, Goto, Fail,
        RunnerFails, Worker, backend, store
<1>3. EachToItsPlatform'
  BY DEF IInv, TypeOK, EachToItsPlatform, Recognise, Goto, Fail, RunnerFails,
        Recognising, Worker, backend, store
<1>4. IdleHasNoJob'
  BY DEF IInv, TypeOK, IdleHasNoJob, Recognise, Goto, Fail, RunnerFails,
        Recognising, Worker, backend, store
<1>5. StagedIsInHand'
  BY DEF IInv, TypeOK, StagedIsInHand, Recognise, Goto, Fail, RunnerFails,
        Recognising, Worker, backend, store
<1>6. CancelledIsDead'
  BY DEF IInv, TypeOK, CancelledIsDead, Recognise, Goto, Fail, RunnerFails,
        Recognising, Worker, backend, store
<1>7. LiveBooksHaveTheirImages'
  BY DEF IInv, TypeOK, LiveBooksHaveTheirImages, Recognise, Goto, Fail,
        RunnerFails, Recognising, Worker, backend, store
<1>8. OrphansAreMarked'
  BY DEF IInv, TypeOK, OrphansAreMarked, Recognise, Goto, Fail, RunnerFails,
        Recognising, Worker, backend, store
<1> QED
  BY <1>1, <1>2, <1>3, <1>4, <1>5, <1>6, <1>7, <1>8 DEF IInv

LEMMA ReadLayerKeeps ==
  ASSUME IInv, NEW i \in Imports, ReadLayer(i)
  PROVE  IInv'
<1>1. TypeOK'
  BY DEF IInv, TypeOK, ReadLayer, Goto, Fail, Worker, Message, Busy, Ended,
        Active, Recognising, backend, store
<1>2. /\ LongIsNeverWhole' /\ TextsAreAwaited'
  BY DEF IInv, LongIsNeverWhole, TextsAreAwaited, ReadLayer, Goto, Fail,
        Worker, backend, store
<1>3. EachToItsPlatform'
  BY DEF IInv, TypeOK, EachToItsPlatform, ReadLayer, Goto, Fail, Worker,
        backend, store
<1>4. IdleHasNoJob'
  BY DEF IInv, TypeOK, IdleHasNoJob, ReadLayer, Goto, Fail, Worker, backend,
        store
<1>5. StagedIsInHand'
  BY DEF IInv, TypeOK, StagedIsInHand, ReadLayer, Goto, Fail, Worker, backend,
        store
<1>6. CancelledIsDead'
  BY DEF IInv, TypeOK, CancelledIsDead, ReadLayer, Goto, Fail, Worker, backend,
        store
<1>7. LiveBooksHaveTheirImages'
  BY DEF IInv, TypeOK, LiveBooksHaveTheirImages, ReadLayer, Goto, Fail, Worker,
        backend, store
<1>8. OrphansAreMarked'
  BY DEF IInv, TypeOK, OrphansAreMarked, ReadLayer, Goto, Fail, Worker,
        backend, store
<1> QED
  BY <1>1, <1>2, <1>3, <1>4, <1>5, <1>6, <1>7, <1>8 DEF IInv

LEMMA StagePagesKeeps ==
  ASSUME IInv, NEW i \in Imports, StagePages(i)
  PROVE  IInv'
<1>1. TypeOK'
  BY DEF IInv, TypeOK, StagePages, Goto, Fail, Worker, Message, Busy, Ended,
        Active, Recognising, backend, store
<1>2. /\ LongIsNeverWhole' /\ TextsAreAwaited'
  BY DEF IInv, LongIsNeverWhole, TextsAreAwaited, StagePages, Goto, Fail,
        Worker, backend, store
<1>3. EachToItsPlatform'
  BY DEF IInv, TypeOK, EachToItsPlatform, StagePages, Goto, Fail, Worker,
        backend, store
<1>4. IdleHasNoJob'
  BY DEF IInv, TypeOK, IdleHasNoJob, StagePages, Goto, Fail, Worker, backend,
        store
<1>5. StagedIsInHand'
  BY DEF IInv, TypeOK, StagedIsInHand, StagePages, Goto, Fail, Worker, backend,
        store
<1>6. CancelledIsDead'
  BY DEF IInv, TypeOK, CancelledIsDead, StagePages, Goto, Fail, Worker,
        backend, store
<1>7. LiveBooksHaveTheirImages'
  BY DEF IInv, TypeOK, LiveBooksHaveTheirImages, StagePages, Goto, Fail,
        Worker, backend, store
<1>8. OrphansAreMarked'
  BY DEF IInv, TypeOK, OrphansAreMarked, StagePages, Goto, Fail, Worker,
        backend, store
<1> QED
  BY <1>1, <1>2, <1>3, <1>4, <1>5, <1>6, <1>7, <1>8 DEF IInv

LEMMA FinalizeKeeps ==
  ASSUME IInv, NEW i \in Imports, Finalize(i)
  PROVE  IInv'
<1>1. TypeOK'
  BY DEF IInv, TypeOK, Finalize, Fail, EnsureNew, Worker, Message, Busy, Ended,
        Active, Recognising, backend, store
<1>2. TextsAreAwaited'
  BY DEF IInv, TextsAreAwaited, Finalize, Fail, Worker, backend, store
<1>3. EachToItsPlatform'
  BY DEF IInv, TypeOK, EachToItsPlatform, Finalize, Fail, EnsureNew, Worker,
        backend, store
<1>4. IdleHasNoJob'
  BY DEF IInv, TypeOK, IdleHasNoJob, Finalize, Fail, EnsureNew, Worker,
        backend, store
<1>5. LongIsNeverWhole'
  BY DEF IInv, TypeOK, LongIsNeverWhole, EachToItsPlatform, Finalize, Fail,
        EnsureNew, Worker, backend, store
<1>6. StagedIsInHand'
  BY DEF IInv, TypeOK, StagedIsInHand, Finalize, Fail, EnsureNew, Worker,
        backend, store
<1>7. CancelledIsDead'
  BY DEF IInv, TypeOK, CancelledIsDead, Finalize, Fail, EnsureNew, Worker,
        backend, store
<1>8. LiveBooksHaveTheirImages'
  BY DEF IInv, TypeOK, LiveBooksHaveTheirImages, Finalize, Fail, EnsureNew,
        Worker, backend, store
<1>9. OrphansAreMarked'
  BY DEF IInv, TypeOK, OrphansAreMarked, Finalize, Fail, EnsureNew, Worker,
        backend, store
<1> QED
  BY <1>1, <1>2, <1>3, <1>4, <1>5, <1>6, <1>7, <1>8, <1>9 DEF IInv

LEMMA LeaveKeeps ==
  ASSUME IInv, NEW i \in Imports, Leave(i)
  PROVE  IInv'
<1>1. TypeOK'
  BY DEF IInv, TypeOK, Leave, Goto, Worker, Message, Busy, Ended, Active,
        Recognising, backend, store
<1>2. /\ LongIsNeverWhole' /\ TextsAreAwaited' /\ CancelledIsDead'
      /\ LiveBooksHaveTheirImages' /\ OrphansAreMarked'
  BY DEF IInv, LongIsNeverWhole, TextsAreAwaited, CancelledIsDead,
        LiveBooksHaveTheirImages, OrphansAreMarked, Leave, Goto, Worker,
        backend, store
<1>3. EachToItsPlatform'
  BY DEF IInv, TypeOK, EachToItsPlatform, Recognising, Leave, Goto, Worker,
        backend, store
<1>4. IdleHasNoJob'
  BY DEF IInv, TypeOK, IdleHasNoJob, Leave, Goto, Worker, backend, store
<1>5. StagedIsInHand'
  BY DEF IInv, TypeOK, StagedIsInHand, Leave, Goto, Worker, backend, store
<1> QED
  BY <1>1, <1>2, <1>3, <1>4, <1>5 DEF IInv

-------------------------------------------------------------------------------
(* The requests.  A late text finds no cancelled import, for that page has *)
(* never sent one, or has given it up.                                     *)
LEMMA HandleCancelKeeps ==
  ASSUME IInv, NEW i \in Imports, HandleCancel(i)
  PROVE  IInv'
<1>1. TypeOK'
  BY DEF IInv, TypeOK, HandleCancel, Message, Busy, Ended, Active, Recognising,
        backend, store
<1>2. /\ EachToItsPlatform' /\ IdleHasNoJob' /\ LongIsNeverWhole'
      /\ StagedIsInHand' /\ CancelledIsDead' /\ LiveBooksHaveTheirImages'
      /\ OrphansAreMarked'
  BY DEF IInv, EachToItsPlatform, IdleHasNoJob, LongIsNeverWhole,
        StagedIsInHand, CancelledIsDead, LiveBooksHaveTheirImages,
        OrphansAreMarked, HandleCancel, backend, store
<1>3. TextsAreAwaited'
  BY DEF IInv, TypeOK, TextsAreAwaited, HandleCancel, backend, store
<1> QED
  BY <1>1, <1>2, <1>3 DEF IInv

LEMMA HandleImageKeeps ==
  ASSUME IInv, NEW i \in Imports, HandleImage(i)
  PROVE  IInv'
<1>1. TypeOK'
  BY DEF IInv, TypeOK, HandleImage, Answered, AcceptsImage, Msg, Message, Busy,
        Ended, Active, Recognising, backend, store
<1>2. /\ EachToItsPlatform' /\ StagedIsInHand'
  BY DEF IInv, EachToItsPlatform, StagedIsInHand, HandleImage, Answered,
        backend, store
<1>3. IdleHasNoJob'
  BY DEF IInv, TypeOK, IdleHasNoJob, HandleImage, Answered, AcceptsImage, Msg,
        backend, store
<1>4. LongIsNeverWhole'
  BY DEF IInv, TypeOK, LongIsNeverWhole, HandleImage, Answered, AcceptsImage,
        Msg, backend, store
<1>5. TextsAreAwaited'
  BY DEF IInv, TypeOK, TextsAreAwaited, HandleImage, Answered, AcceptsImage,
        Msg, backend, store
<1>6. CancelledIsDead'
  BY DEF IInv, TypeOK, CancelledIsDead, HandleImage, Answered, AcceptsImage,
        Msg, backend, store
<1>7. LiveBooksHaveTheirImages'
  BY DEF IInv, TypeOK, LiveBooksHaveTheirImages, LongIsNeverWhole, HandleImage,
        Answered, AcceptsImage, Msg, backend, store
<1>8. OrphansAreMarked'
  BY DEF IInv, TypeOK, OrphansAreMarked, HandleImage, Answered, AcceptsImage,
        Msg, backend, store
<1> QED
  BY <1>1, <1>2, <1>3, <1>4, <1>5, <1>6, <1>7, <1>8 DEF IInv

LEMMA HandleTextKeeps ==
  ASSUME IInv, NEW i \in Imports, HandleText(i)
  PROVE  IInv'
<1>1. TypeOK'
  BY DEF IInv, TypeOK, HandleText, Answered, HasItsImages, Msg, Message, Busy,
        Ended, Active, Recognising, backend, store
<1>2. /\ EachToItsPlatform' /\ LongIsNeverWhole' /\ StagedIsInHand'
  BY DEF IInv, EachToItsPlatform, LongIsNeverWhole, StagedIsInHand, HandleText,
        Answered, backend, store
<1>3. IdleHasNoJob'
  BY DEF IInv, TypeOK, IdleHasNoJob, HandleText, Answered, HasItsImages, Msg,
        backend, store
<1>4. TextsAreAwaited'
  BY DEF IInv, TypeOK, TextsAreAwaited, HandleText, Answered, HasItsImages,
        Msg, backend, store
<1>5. CancelledIsDead'
  BY DEF IInv, TypeOK, CancelledIsDead, TextsAreAwaited, HandleText, Answered,
        HasItsImages, Msg, backend, store
<1>6. LiveBooksHaveTheirImages'
  BY DEF IInv, TypeOK, LiveBooksHaveTheirImages, HandleText, Answered,
        HasItsImages, Msg, backend, store
<1>7. OrphansAreMarked'
  BY DEF IInv, TypeOK, OrphansAreMarked, HandleText, Answered, HasItsImages,
        Msg, backend, store
<1> QED
  BY <1>1, <1>2, <1>3, <1>4, <1>5, <1>6, <1>7 DEF IInv

LEMMA HandleDeleteKeeps ==
  ASSUME IInv, NEW i \in Imports, HandleDelete(i)
  PROVE  IInv'
<1>1. TypeOK'
  BY DEF IInv, TypeOK, HandleDelete, Answered, Msg, Message, Busy, Ended,
        Active, Recognising, backend, store
<1>2. EachToItsPlatform'
  BY DEF IInv, EachToItsPlatform, HandleDelete, Answered, backend, store
<1>3. IdleHasNoJob'
  BY DEF IInv, TypeOK, IdleHasNoJob, HandleDelete, Answered, Msg, backend,
        store
<1>4. LongIsNeverWhole'
  BY DEF IInv, TypeOK, LongIsNeverWhole, HandleDelete, Answered, Msg, backend,
        store
<1>5. StagedIsInHand'
  BY DEF IInv, TypeOK, StagedIsInHand, HandleDelete, Answered, Msg, backend,
        store
<1>6. TextsAreAwaited'
  BY DEF IInv, TypeOK, TextsAreAwaited, HandleDelete, Answered, Msg, backend,
        store
<1>7. CancelledIsDead'
  BY DEF IInv, TypeOK, CancelledIsDead, HandleDelete, Answered, Msg, backend,
        store
<1>8. LiveBooksHaveTheirImages'
  BY DEF IInv, TypeOK, LiveBooksHaveTheirImages, HandleDelete, Answered, Msg,
        backend, store
<1>9. OrphansAreMarked'
  BY DEF IInv, TypeOK, OrphansAreMarked, HandleDelete, Answered, Msg, backend,
        store
<1> QED
  BY <1>1, <1>2, <1>3, <1>4, <1>5, <1>6, <1>7, <1>8, <1>9 DEF IInv

-------------------------------------------------------------------------------
(* Wiping, reloading, restarting.                                          *)
LEMMA WipeKeeps ==
  ASSUME IInv, Wipe
  PROVE  IInv'
<1>1. TypeOK'
  BY DEF IInv, TypeOK, Wipe, Message, Busy, Ended, Active, Recognising,
        backend, store
<1>2. /\ EachToItsPlatform' /\ IdleHasNoJob' /\ TextsAreAwaited'
  BY DEF IInv, EachToItsPlatform, IdleHasNoJob, TextsAreAwaited, Wipe, backend,
        store
<1>3. LongIsNeverWhole'
  BY DEF IInv, TypeOK, LongIsNeverWhole, Wipe, backend, store
<1>4. StagedIsInHand'
  BY DEF IInv, TypeOK, StagedIsInHand, Wipe, backend, store
<1>5. CancelledIsDead'
  BY DEF IInv, TypeOK, CancelledIsDead, Wipe, backend, store
<1>6. LiveBooksHaveTheirImages'
  BY DEF IInv, TypeOK, LiveBooksHaveTheirImages, Wipe, backend, store
<1>7. OrphansAreMarked'
  BY DEF IInv, TypeOK, OrphansAreMarked, Wipe, backend, store
<1> QED
  BY <1>1, <1>2, <1>3, <1>4, <1>5, <1>6, <1>7 DEF IInv

LEMMA ReloadKeeps ==
  ASSUME IInv, Reload
  PROVE  IInv'
<1>1. TypeOK'
  BY DEF IInv, TypeOK, Reload, Abandoned, Message, Busy, Ended, Active,
        Recognising, backend, store
<1>2. /\ EachToItsPlatform' /\ LongIsNeverWhole' /\ StagedIsInHand'
      /\ LiveBooksHaveTheirImages' /\ OrphansAreMarked'
  BY DEF IInv, EachToItsPlatform, LongIsNeverWhole, StagedIsInHand,
        LiveBooksHaveTheirImages, OrphansAreMarked, Reload, backend, store
<1>3. IdleHasNoJob'
  BY DEF IInv, TypeOK, IdleHasNoJob, Busy, Reload, Abandoned, backend, store
<1>4. TextsAreAwaited'
  BY DEF IInv, TypeOK, TextsAreAwaited, Reload, Abandoned, backend, store
<1>5. CancelledIsDead'
  BY DEF IInv, TypeOK, CancelledIsDead, Reload, Abandoned, backend, store
<1> QED
  BY <1>1, <1>2, <1>3, <1>4, <1>5 DEF IInv

LEMMA RestartKeeps ==
  ASSUME IInv, Restart
  PROVE  IInv'
<1>1. TypeOK'
  BY DEF IInv, TypeOK, Restart, Abandoned, ClearedAtStart, Message, Busy,
        Ended, Active, Recognising, backend, store
<1>2. EachToItsPlatform'
  BY DEF IInv, TypeOK, EachToItsPlatform, Recognising, Restart, Abandoned,
        ClearedAtStart, backend, store
<1>3. IdleHasNoJob'
  BY DEF IInv, TypeOK, IdleHasNoJob, Busy, Restart, Abandoned, ClearedAtStart,
        backend, store
<1>4. LongIsNeverWhole'
  BY DEF IInv, TypeOK, LongIsNeverWhole, Restart, Abandoned, ClearedAtStart,
        backend, store
<1>5. StagedIsInHand'
  BY DEF IInv, TypeOK, StagedIsInHand, Restart, Abandoned, ClearedAtStart,
        backend, store
<1>6. TextsAreAwaited'
  BY DEF IInv, TypeOK, TextsAreAwaited, Restart, Abandoned, ClearedAtStart,
        backend, store
<1>7. CancelledIsDead'
  BY DEF IInv, TypeOK, CancelledIsDead, Restart, Abandoned, ClearedAtStart,
        backend, store
<1>8. LiveBooksHaveTheirImages'
  BY DEF IInv, TypeOK, LiveBooksHaveTheirImages, Restart, Abandoned,
        ClearedAtStart, backend, store
<1>9. OrphansAreMarked'
  BY DEF IInv, TypeOK, OrphansAreMarked, Restart, Abandoned, ClearedAtStart,
        backend, store
<1> QED
  BY <1>1, <1>2, <1>3, <1>4, <1>5, <1>6, <1>7, <1>8, <1>9 DEF IInv

-------------------------------------------------------------------------------
(* The inductive invariant holds in every state an import can reach.       *)
THEOREM Invariance == Spec => []IInv
<1>1. Init => IInv
  BY DEF Init, IInv, TypeOK, EachToItsPlatform, IdleHasNoJob, LongIsNeverWhole,
        StagedIsInHand, TextsAreAwaited, CancelledIsDead, LiveBooksHaveTheirImages,
        OrphansAreMarked, Recognising
<1>2. IInv /\ [Next]_vars => IInv'
  <2> SUFFICES ASSUME IInv, [Next]_vars PROVE IInv'
    OBVIOUS
  <2>1. CASE UNCHANGED vars
    BY <2>1 DEF vars, backend, store, IInv, TypeOK, EachToItsPlatform, IdleHasNoJob,
          LongIsNeverWhole, StagedIsInHand, TextsAreAwaited, CancelledIsDead,
          LiveBooksHaveTheirImages, OrphansAreMarked
  <2>2. CASE \E i \in Imports : StartImport(i)
    BY <2>2, StartImportKeeps
  <2>3. CASE \E i \in Imports : PressCancel(i)
    BY <2>3, PressCancelKeeps
  <2>4. CASE \E i \in Imports : Receive(i)
    BY <2>4, ReceiveKeeps
  <2>5. CASE \E i \in Imports : Render(i)
    BY <2>5, RenderKeeps
  <2>6. CASE \E i \in Imports : GiveUp(i)
    BY <2>6, GiveUpKeeps
  <2>7. CASE \E i \in Imports : SaveProfile(i)
    BY <2>7, SaveProfileKeeps
  <2>8. CASE \E i \in Imports : BeginJob(i)
    BY <2>8, BeginJobKeeps
  <2>9. CASE \E i \in Imports : ReadBody(i)
    BY <2>9, ReadBodyKeeps
  <2>10. CASE \E i \in Imports : Recognise(i)
    BY <2>10, RecogniseKeeps
  <2>11. CASE \E i \in Imports : ReadLayer(i)
    BY <2>11, ReadLayerKeeps
  <2>12. CASE \E i \in Imports : StagePages(i)
    BY <2>12, StagePagesKeeps
  <2>13. CASE \E i \in Imports : Finalize(i)
    BY <2>13, FinalizeKeeps
  <2>14. CASE \E i \in Imports : Leave(i)
    BY <2>14, LeaveKeeps
  <2>15. CASE \E i \in Imports : HandleCancel(i)
    BY <2>15, HandleCancelKeeps
  <2>16. CASE \E i \in Imports : HandleImage(i)
    BY <2>16, HandleImageKeeps
  <2>17. CASE \E i \in Imports : HandleText(i)
    BY <2>17, HandleTextKeeps
  <2>18. CASE \E i \in Imports : HandleDelete(i)
    BY <2>18, HandleDeleteKeeps
  <2>19. CASE Wipe
    BY <2>19, WipeKeeps
  <2>20. CASE Reload
    BY <2>20, ReloadKeeps
  <2>21. CASE Restart
    BY <2>21, RestartKeeps
  <2> QED
    BY <2>1, <2>2, <2>3, <2>4, <2>5, <2>6, <2>7, <2>8, <2>9, <2>10, <2>11,
        <2>12, <2>13, <2>14, <2>15, <2>16, <2>17, <2>18, <2>19, <2>20, <2>21 DEF Next
<1> QED
  BY <1>1, <1>2, PTL DEF Spec

(* A book in the library has the page images its text refers to, whatever  *)
(* was cancelled, wiped, reloaded or restarted (books.rs: upsert_text,     *)
(* validate_pdf_page_assets).                                              *)
THEOREM LiveBooksAreWhole == Spec => []LiveBooksHaveTheirImages
<1>1. IInv => LiveBooksHaveTheirImages
  BY DEF IInv
<1> QED
  BY <1>1, Invariance, PTL

(* Images without a book are marked for removal, and a cancelled import    *)
(* that has come to rest has left nothing (books.rs, pdf_ocr/mod.rs).      *)
THEOREM NothingIsLeftUnmarked == Spec => []LeftoversAreMarked
<1>1. IInv => LeftoversAreMarked
  <2> SUFFICES ASSUME IInv PROVE CancelledImportsLeaveNothing
    BY DEF IInv, LeftoversAreMarked
  <2> SUFFICES ASSUME NEW i \in Imports \ (littered \cup late),
                      page[i] = "cancelled", AtRest(i)
               PROVE  record[i] # "live" /\ images[i] = "none" /\ i \notin marked \cup staged
    BY DEF CancelledImportsLeaveNothing
  <2>1. record[i] = "dead" /\ images[i] = "none" /\ i \notin marked
    BY DEF IInv, CancelledIsDead
  <2>2. i \notin staged
    BY DEF IInv, StagedIsInHand, AtRest
  <2> QED
    BY <2>1, <2>2
<1> QED
  BY <1>1, Invariance, PTL

-------------------------------------------------------------------------------
(* Books are kept and moved (Library).                                     *)

IsId(i) ==
  /\ i = [lang |-> i.lang, title |-> i.title, n |-> i.n] /\ i.n \in Seq(Nat)
  /\ i.title \notin Titles => i.n = <<>> /\ i.lang # "user"

IsLists(p) ==
  p = [texts |-> p.texts, books |-> p.books, archived |-> p.archived, hidden |-> p.hidden,
       marks |-> p.marks]
IsTask(k) ==
  k = [op |-> k.op, at |-> k.at, id |-> k.id, new |-> k.new, to |-> k.to, drop |-> k.drop,
       places |-> k.places, current |-> k.current]

\* What is stored of a text is of its title; of a book, it is the full text.
BodyFits(t) ==
  t.body # NoBody => /\ t.body[2] = t.id.title
                     /\ t.id.title \notin Titles => t.body = <<t.id.lang, t.id.title, 0>>

\* The lists of a page, and the texts of a store.
ListsFit(p) == IsLists(p) /\ IsFiniteSet(p.texts) /\ \A t \in p.texts : IsId(t.id)
TextsFit(p) ==
  /\ ListsFit(p)
  /\ \A t \in p.texts : BodyFits(t)
  /\ \A t, u \in p.texts : t.id = u.id => t = u

dialog == tasks["dialog"]
background == tasks["background"]

\* What an operation may be at.
BackgroundFits(k) ==
  \/ k = Idle
  \/ /\ k.op = "import" /\ k.at \in {"fetch", "upsert", "stored", "save", "reload"}
     /\ IsId(k.id) /\ k.id.title \notin Titles
DialogFits(k) ==
  \/ k = Idle
  \/ /\ k.op = "import" /\ k.at \in {"upsert", "stored", "save", "reload"}
     /\ IsId(k.id) /\ k.id.title \in Titles
  \/ /\ k.op = "move" /\ k.at \in {"load", "upsert", "stored", "save", "reload", "cleanup"}
     /\ IsId(k.id) /\ IsId(k.new) /\ k.id.title \in Titles /\ k.new.title = k.id.title
     /\ k.at \in {"load", "upsert", "stored"} => k.new # k.id
  \/ k.op \in {"remove", "removeBook", "moveBook"} /\ k.at \in {"save", "reload", "cleanup"}
TasksFit ==
  /\ tasks = [s \in Slots |-> tasks[s]] /\ IsTask(dialog) /\ IsTask(background)
  /\ DialogFits(dialog) /\ BackgroundFits(background)

Astray == "erased" \in overtaken \/ "strayed" \in overtaken

\* The id of an own text that is going to be stored.
Awaits(i) == dialog.at \in {"load", "upsert"} /\ i = Upserted(dialog)

\* Every text that was listed is in the store and still listed, by an id
\* nothing is about to be stored under.
HomeOf(c, t) == t.body = c /\ t.id \in Listed /\ ~Awaits(t.id)
HasHome(c) == \E t \in disk.texts : HomeOf(c, t)
AllHaveHomes == \A c \in known : c # NoBody /\ HasHome(c)

\* What a removal is going to delete is nothing that must be kept.
RemovedIsGivenUp ==
  dialog.op = "remove" => \A t \in disk.texts : t.id \in dialog.drop => t.body \notin known

\* A move has stored a copy of its text.
CopyIsStored ==
  dialog.op = "move" /\ dialog.at = "stored" =>
    \A t \in disk.texts : t.id = dialog.id /\ t.body \in known =>
      \E u \in disk.texts : u.id = dialog.new /\ u.body = t.body

ShelfIInv ==
  /\ lang \in Langs /\ ListsFit(lists) /\ TextsFit(disk) /\ TasksFit
  /\ Astray \/ (AllHaveHomes /\ RemovedIsGivenUp /\ CopyIsStored)

LEMMA UniqueIsNew ==
  ASSUME IsFiniteSet(lists.texts), NEW id, IsId(id), id.title \in Titles
  PROVE  Unique(id) \notin Listed /\ IsId(Unique(id)) /\ Unique(id).title = id.title
<1> DEFINE At(k) == IF k = 1 THEN id ELSE [id EXCEPT !.n = Append(@, k)]
           n == Cardinality(Listed)
           free == {k \in 1..n + 1 : At(k) \notin Listed}
<1>1. IsFiniteSet(Listed)
  <2> DEFINE f == [t \in lists.texts |-> t.id]
  <2>1. f \in Surjection(lists.texts, Listed)
    BY DEF Surjection, Listed
  <2> QED
    BY <2>1, FS_Surjection
<1>2. n \in Nat
  BY <1>1, FS_CardinalityType
<1> HIDE DEF n
<1>3. ASSUME NEW k \in Nat
      PROVE  /\ k # 1 => At(k) = [lang |-> id.lang, title |-> id.title, n |-> Append(id.n, k)]
             /\ At(k).title = id.title /\ IsId(At(k))
  <2>1. CASE k = 1
    BY <2>1
  <2>2. CASE k # 1
    <3>1. At(k) = [id EXCEPT !.n = Append(@, k)]
      BY <2>2
    <3>2. At(k) = [lang |-> id.lang, title |-> id.title, n |-> Append(id.n, k)]
      BY <3>1 DEF IsId
    <3>3. Append(id.n, k) \in Seq(Nat)
      BY DEF IsId
    <3> HIDE DEF At
    <3> QED
      BY <3>2, <3>3 DEF IsId
  <2> QED
    BY <2>1, <2>2
<1>4. ASSUME NEW j \in Nat, NEW k \in Nat, At(j) = At(k)
      PROVE  j = k
  <2>1. CASE j = 1 /\ k # 1
    <3>1. id.n = Append(id.n, k)
      BY <1>3, <1>4, <2>1
    <3>2. Len(Append(id.n, k)) = Len(id.n) + 1 /\ Len(id.n) \in Nat
      BY DEF IsId
    <3> QED
      BY <3>1, <3>2
  <2>2. CASE k = 1 /\ j # 1
    <3>1. id.n = Append(id.n, j)
      BY <1>3, <1>4, <2>2
    <3>2. Len(Append(id.n, j)) = Len(id.n) + 1 /\ Len(id.n) \in Nat
      BY DEF IsId
    <3> QED
      BY <3>1, <3>2
  <2>3. CASE j # 1 /\ k # 1
    <3>1. Append(id.n, j) = Append(id.n, k)
      BY <1>3, <1>4, <2>3
    <3>2. /\ Append(id.n, j)[Len(id.n) + 1] = j
          /\ Append(id.n, k)[Len(id.n) + 1] = k
      BY DEF IsId
    <3> QED
      BY <3>1, <3>2
  <2> QED
    BY <2>1, <2>2, <2>3
<1>5. free # {}
  <2> SUFFICES ASSUME free = {} PROVE FALSE
    OBVIOUS
  <2> DEFINE g == [k \in 1..n + 1 |-> At(k)]
  <2>1. g \in [1..n + 1 -> Listed]
    OBVIOUS
  <2>2. IsFiniteSet(1..n + 1) /\ Cardinality(1..n + 1) = n + 1
    BY <1>2, FS_Interval
  <2>3. n < n + 1
    BY <1>2
  <2>4. \E x, y \in 1..n + 1 : x # y /\ g[x] = g[y]
    <3>1. Cardinality(Listed) < Cardinality(1..n + 1)
      BY <2>2, <2>3 DEF n
    <3> DEFINE S == 1..n + 1
    <3>2. IsFiniteSet(S) /\ Cardinality(Listed) < Cardinality(S) /\ g \in [S -> Listed]
      BY <2>1, <2>2, <3>1
    <3>3. \E x, y \in S : x # y /\ g[x] = g[y]
      <4> HIDE DEF g, S
      <4> QED
        BY <1>1, <3>2, FS_PigeonHole
    <3> QED
      BY <3>3
  <2>5. PICK x \in 1..n + 1, y \in 1..n + 1 : x # y /\ g[x] = g[y]
    BY <2>4, Zenon
  <2>6. At(x) = At(y) /\ x \in Nat /\ y \in Nat
    BY <1>2, <2>5
  <2> HIDE DEF At
  <2> QED
    BY <1>4, <2>5, <2>6
<1>6. \E k \in free : \A j \in free : k <= j
  <2> DEFINE T == {1..k : k \in free}
  <2>1. T \subseteq FiniteSubsetsOf(Nat) /\ T # {}
    <3>1. ASSUME NEW k \in free PROVE 1..k \in SUBSET Nat /\ IsFiniteSet(1..k)
      BY <1>2, FS_Interval
    <3> QED
      BY <1>5, <3>1 DEF FiniteSubsetsOf
  <2>2. PICK X \in T : \A Y \in T : ~(<<Y, X>> \in StrictSubsetOrdering(Nat))
    <3> HIDE DEF T
    <3>1. IsWellFoundedOn(StrictSubsetOrdering(Nat), FiniteSubsetsOf(Nat))
      BY FS_StrictSubsetOrderingWellFounded
    <3> QED
      BY <2>1, <3>1, WFMin
  <2>3. PICK k \in free : X = 1..k
    OBVIOUS
  <2>4. ASSUME NEW j \in free, j < k PROVE FALSE
    <3>1. 1..j \in SUBSET Nat /\ 1..k \in SUBSET Nat /\ 1..j \subseteq 1..k /\ 1..j # 1..k
      BY <1>2, <2>4
    <3>2. <<1..j, 1..k>> \in StrictSubsetOrdering(Nat)
      BY <3>1 DEF StrictSubsetOrdering
    <3> QED
      BY <2>2, <2>3, <3>2
  <2>5. ASSUME NEW j \in free PROVE k <= j
    <3>1. j \in Nat /\ k \in Nat
      BY <1>2
    <3>2. ~(j < k)
      BY <2>4
    <3> QED
      BY <3>1, <3>2
  <2> HIDE DEF free
  <2> QED
    BY <2>5
<1> DEFINE m == CHOOSE k \in free : \A j \in free : k <= j
<1>7. m \in free
  <2> HIDE DEF free
  <2> QED
    BY <1>6
<1>8. Unique(id) = At(m)
  BY DEF Unique, n
<1>9. m \in Nat /\ At(m) \notin Listed
  <2> HIDE DEF m, At
  <2> QED
    BY <1>2, <1>7
<1> HIDE DEF m, At
<1> QED
  BY <1>3, <1>8, <1>9

-------------------------------------------------------------------------------
(* Saves and snapshots.                                                    *)

\* Of a set of texts, the ids are no more than the texts.
LEMMA IdsAreFinite ==
  ASSUME NEW S, IsFiniteSet(S)
  PROVE  IsFiniteSet({t.id : t \in S})
<1> DEFINE f == [t \in S |-> t.id]
<1>1. f \in Surjection(S, {t.id : t \in S})
  BY DEF Surjection
<1> QED
  BY <1>1, FS_Surjection

\* A save keeps what is listed, and what the page is not known to have; it
\* adds records without a body.
LEMMA SavedFits ==
  ASSUME ShelfIInv
  PROVE  /\ TextsFit(Saved)
         /\ \A t \in disk.texts : t.id \in Listed =>
              \E u \in Saved.texts : u.id = t.id /\ u.body = t.body
         /\ \A t \in disk.texts : t.id \notin base \cup Listed => t \in Saved.texts
         /\ \A u \in Saved.texts : u.body # NoBody =>
              \E t \in disk.texts : t.id = u.id /\ t.body = u.body
         /\ \A i \in Listed : \E u \in Saved.texts : u.id = i
<1> DEFINE Of(i) == [id |-> i, lang |-> (CHOOSE t \in lists.texts : t.id = i).lang,
                     body |-> IF Content(i) = {} THEN NoBody ELSE CHOOSE c \in Content(i) : TRUE]
           rest == {t \in disk.texts : t.id \notin base \cup Listed}
           kept == {Of(i) : i \in Listed}
<1>1. ListsFit(lists) /\ TextsFit(disk)
  BY DEF ShelfIInv
<1>2. Saved = [lists EXCEPT !.texts = rest \cup kept]
  BY DEF Saved
<1>3. Saved.texts = rest \cup kept /\ IsLists(Saved)
  BY <1>1, <1>2 DEF ListsFit, IsLists
<1>4. ASSUME NEW i \in Listed
      PROVE  /\ Of(i).id = i
             /\ Of(i).body # NoBody => \E t \in disk.texts : t.id = i /\ t.body = Of(i).body
             /\ \A t \in disk.texts : t.id = i => Of(i).body = t.body
  <2>1. Of(i).id = i
    OBVIOUS
  <2>2. CASE Content(i) = {}
    <3>1. Of(i).body = NoBody
      BY <2>2
    <3>2. \A t \in disk.texts : t.id # i
      BY <2>2 DEF Content
    <3> HIDE DEF Of
    <3> QED
      BY <2>1, <3>1, <3>2
  <2>3. CASE Content(i) # {}
    <3>1. Of(i).body = CHOOSE c \in Content(i) : TRUE
      BY <2>3
    <3>2. Of(i).body \in Content(i)
      BY <2>3, <3>1
    <3> HIDE DEF Of
    <3>3. PICK t \in disk.texts : t.id = i /\ t.body = Of(i).body
      BY <3>2 DEF Content
    <3> QED
      BY <1>1, <2>1, <3>3 DEF TextsFit
  <2> QED
    BY <2>2, <2>3
<1>5. IsFiniteSet(Saved.texts)
  <2>1. IsFiniteSet(rest)
    BY <1>1, FS_Subset DEF TextsFit, ListsFit
  <2>2. IsFiniteSet(Listed)
    BY <1>1, IdsAreFinite DEF ListsFit, Listed
  <2>3. IsFiniteSet(kept)
    <3> DEFINE f == [i \in Listed |-> Of(i)]
    <3>1. f \in Surjection(Listed, kept)
      <4> HIDE DEF Of
      <4> QED
        BY DEF Surjection
    <3> HIDE DEF f, kept
    <3> QED
      BY <2>2, <3>1, FS_Surjection
  <2>4. ASSUME NEW A, NEW B, IsFiniteSet(A), IsFiniteSet(B)
        PROVE  IsFiniteSet(A \cup B)
    BY <2>4, FS_Union
  <2> HIDE DEF rest, kept
  <2> QED
    BY <1>3, <2>1, <2>3, <2>4
<1> HIDE DEF Of
<1>6. ASSUME NEW u \in Saved.texts
      PROVE  \/ u \in disk.texts /\ u.id \notin base \cup Listed
             \/ u.id \in Listed /\ u = Of(u.id)
  BY <1>3, <1>4
<1>7. ASSUME NEW u \in Saved.texts
      PROVE  /\ IsId(u.id) /\ BodyFits(u)
             /\ u.body # NoBody => \E t \in disk.texts : t.id = u.id /\ t.body = u.body
  <2>1. CASE u \in disk.texts
    BY <1>1, <2>1 DEF TextsFit, ListsFit
  <2>2. CASE u.id \in Listed /\ u = Of(u.id)
    <3>1. IsId(u.id)
      BY <1>1, <2>2 DEF ListsFit, Listed
    <3>2. u.body # NoBody => \E t \in disk.texts : t.id = u.id /\ t.body = u.body
      BY <1>4, <2>2
    <3> QED
      BY <1>1, <3>1, <3>2 DEF TextsFit, BodyFits
  <2> QED
    BY <1>6, <2>1, <2>2
<1>8. \A t, u \in Saved.texts : t.id = u.id => t = u
  BY <1>1, <1>6 DEF TextsFit
<1>9. TextsFit(Saved)
  BY <1>3, <1>5, <1>7, <1>8 DEF TextsFit, ListsFit
<1>10. ASSUME NEW i \in Listed PROVE Of(i) \in Saved.texts /\ Of(i).id = i
  BY <1>3, <1>4
<1>11. \A t \in disk.texts : t.id \in Listed => \E u \in Saved.texts : u.id = t.id /\ u.body = t.body
  BY <1>4, <1>10
<1>12. \A t \in disk.texts : t.id \notin base \cup Listed => t \in Saved.texts
  BY <1>3
<1>13. \A i \in Listed : \E u \in Saved.texts : u.id = i
  BY <1>10
<1> QED
  BY <1>7, <1>9, <1>11, <1>12, <1>13

LEMMA SnapshotFits ==
  ASSUME NEW s, TextsFit(s), Snapshot(s)
  PROVE  ListsFit(lists)' /\ Listed' = {t.id : t \in s.texts}
<1> DEFINE Of(t) == [profile |-> t.lang, id |-> t.id, lang |-> t.lang]
           all == {Of(t) : t \in s.texts}
<1>1. lists' = [s EXCEPT !.texts = all] /\ IsLists(s)
  BY DEF Snapshot, TextsFit, ListsFit
<1>2. lists'.texts = all /\ IsLists(lists')
  BY <1>1 DEF IsLists
<1>3. IsFiniteSet(all)
  <2> DEFINE f == [t \in s.texts |-> Of(t)]
  <2>1. f \in Surjection(s.texts, all)
    <3> HIDE DEF Of
    <3> QED
      BY DEF Surjection
  <2>2. IsFiniteSet(s.texts)
    BY DEF TextsFit, ListsFit
  <2> HIDE DEF f, all
  <2> QED
    BY <2>1, <2>2, FS_Surjection
<1>4. \A x \in all : \E t \in s.texts : x.id = t.id
  OBVIOUS
<1>5. ASSUME NEW t \in s.texts PROVE \E x \in all : x.id = t.id
  <2>1. Of(t) \in all /\ Of(t).id = t.id
    OBVIOUS
  <2> HIDE DEF all, Of
  <2> QED
    BY <2>1
<1> HIDE DEF all
<1>6. \A x \in lists'.texts : IsId(x.id)
  BY <1>2, <1>4 DEF TextsFit, ListsFit
<1>7. ListsFit(lists')
  BY <1>2, <1>3, <1>6 DEF ListsFit
<1>8. Listed' = {x.id : x \in all}
  BY <1>2 DEF Listed
<1>9. {x.id : x \in all} = {t.id : t \in s.texts}
  BY <1>4, <1>5
<1> QED
  BY <1>7, <1>8, <1>9

-------------------------------------------------------------------------------
(* What steps have in common.                                              *)

\* One operation goes on, the other is left as it is.
LEMMA OneTaskChanges ==
  ASSUME TasksFit, NEW slot \in Slots, NEW k, IsTask(k), tasks' = [tasks EXCEPT ![slot] = k],
         slot = "dialog" => DialogFits(k), slot = "background" => BackgroundFits(k)
  PROVE  /\ TasksFit'
         /\ slot = "dialog" => dialog' = k /\ background' = background
         /\ slot = "background" => background' = k /\ dialog' = dialog
<1>1. tasks' = [s \in Slots |-> tasks'[s]]
  BY DEF TasksFit
<1>2. CASE slot = "dialog"
  <2>1. dialog' = k /\ background' = background
    BY <1>2 DEF TasksFit, dialog, background, Slots
  <2> QED
    BY <1>1, <1>2, <2>1 DEF TasksFit
<1>3. CASE slot = "background"
  <2>1. background' = k /\ dialog' = dialog
    BY <1>3 DEF TasksFit, dialog, background, Slots
  <2> QED
    BY <1>1, <1>3, <2>1 DEF TasksFit
<1> QED
  BY <1>2, <1>3 DEF Slots

LEMMA IdleFits ==
  IsTask(Idle) /\ DialogFits(Idle) /\ BackgroundFits(Idle) /\ Idle.op = "idle" /\ Idle.at = ""
BY DEF Idle, IsTask, DialogFits, BackgroundFits

LEMMA EndedTask ==
  ASSUME TasksFit, NEW slot \in Slots, Ends(slot)
  PROVE  /\ TasksFit'
         /\ slot = "dialog" => dialog' = Idle /\ background' = background
         /\ slot = "background" => dialog' = dialog /\ background' = Idle
<1>1. tasks' = [tasks EXCEPT ![slot] = Idle]
  BY DEF Ends
<1> HIDE DEF Idle
<1> QED
  BY <1>1, IdleFits, OneTaskChanges

\* Where an operation may go to from where it is.
LEMMA GoneOnTask ==
  ASSUME TasksFit, NEW slot \in Slots, NEW at, Goes(slot, at), tasks[slot] # Idle,
         IF slot = "dialog" THEN DialogFits([dialog EXCEPT !.at = at])
                            ELSE BackgroundFits([background EXCEPT !.at = at])
  PROVE  /\ TasksFit'
         /\ slot = "dialog" => dialog' = [dialog EXCEPT !.at = at] /\ background' = background
         /\ slot = "background" => dialog' = dialog /\ background' = [background EXCEPT !.at = at]
<1> DEFINE k == [tasks[slot] EXCEPT !.at = at]
<1>1. tasks' = [tasks EXCEPT ![slot] = k]
  BY DEF Goes
<1>2. IsTask(k)
  BY DEF TasksFit, IsTask, dialog, background, Slots
<1>3. /\ slot = "dialog" => k = [dialog EXCEPT !.at = at] /\ DialogFits(k)
      /\ slot = "background" => k = [background EXCEPT !.at = at] /\ BackgroundFits(k)
  BY DEF dialog, background
<1> HIDE DEF k
<1> QED
  BY <1>1, <1>2, <1>3, OneTaskChanges

\* An operation that goes on asks for nothing more of the texts.
Onward ==
  /\ \A i : Awaits(i)' => Awaits(i) \/ i \notin Listed
  /\ dialog'.op = "remove" => dialog.op = "remove" /\ dialog'.drop \subseteq dialog.drop
  /\ dialog'.op = "move" /\ dialog'.at = "stored" => dialog' = dialog

LEMMA IdleIsOnward ==
  ASSUME dialog' = Idle \/ dialog' = dialog
  PROVE  Onward
<1>1. CASE dialog' = Idle
  <2>1. dialog'.op = "idle" /\ dialog'.at = ""
    BY <1>1, IdleFits
  <2> QED
    BY <2>1 DEF Onward, Awaits
<1>2. CASE dialog' = dialog
  BY <1>2 DEF Onward, Awaits, Upserted
<1> QED
  BY <1>1, <1>2

\* A step that leaves the texts alone.
LEMMA TextsAlone ==
  ASSUME ShelfIInv, lang' \in Langs, TasksFit', Onward, IsLists(lists'), lists'.texts = lists.texts,
         UNCHANGED <<disk, known>>, overtaken \subseteq overtaken'
  PROVE  ShelfIInv'
<1>1. ListsFit(lists)' /\ TextsFit(disk)' /\ Listed' = Listed
  BY DEF ShelfIInv, Listed, ListsFit
<1>2. CASE Astray
  <2>1. Astray'
    BY <1>2 DEF Astray
  <2> QED
    BY <1>1, <2>1 DEF ShelfIInv
<1>3. CASE AllHaveHomes /\ RemovedIsGivenUp /\ CopyIsStored
  <2>1. AllHaveHomes'
    <3>1. ASSUME NEW c \in known', HasHome(c) PROVE HasHome(c)'
      <4>1. PICK t \in disk.texts : HomeOf(c, t)
        BY <3>1 DEF HasHome
      <4>2. HomeOf(c, t)'
        BY <1>1, <4>1 DEF HomeOf, Onward
      <4> QED
        BY <4>1, <4>2 DEF HasHome
    <3> QED
      BY <1>3, <3>1 DEF AllHaveHomes
  <2>2. RemovedIsGivenUp'
    BY <1>3 DEF RemovedIsGivenUp, Onward
  <2>3. CopyIsStored'
    BY <1>3 DEF CopyIsStored, Onward
  <2> QED
    BY <1>1, <2>1, <2>2, <2>3 DEF ShelfIInv
<1> QED
  BY <1>2, <1>3 DEF ShelfIInv

\* A step that changes none of the operations either.
LEMMA TasksAlone ==
  ASSUME ShelfIInv, lang' \in Langs, IsLists(lists'), lists'.texts = lists.texts,
         UNCHANGED <<disk, known, tasks, overtaken>>
  PROVE  ShelfIInv'
<1>1. TasksFit' /\ dialog' = dialog
  BY DEF ShelfIInv, TasksFit, dialog, background
<1> QED
  BY <1>1, IdleIsOnward, TextsAlone

\* A save erases nothing that is known, nor the copy of a move unless it says so.
LEMMA SavesKeep ==
  ASSUME ShelfIInv, lang' = lang, Store, known' = known, TasksFit', Onward, ListsFit(lists)', Listed \subseteq Listed'
  PROVE  ShelfIInv'
<1>1. disk' = Saved
  BY DEF Store
<1>2. overtaken \subseteq overtaken'
  BY DEF Store
<1>3. TextsFit(disk)'
  BY <1>1, SavedFits
<1>4. CASE Astray
  <2>1. Astray'
    BY <1>2, <1>4 DEF Astray
  <2> QED
    BY <1>3, <2>1 DEF ShelfIInv
<1>5. CASE AllHaveHomes /\ RemovedIsGivenUp /\ CopyIsStored
  <2>1. AllHaveHomes'
    <3>1. ASSUME NEW c \in known', HasHome(c) PROVE HasHome(c)'
      <4>1. PICK t \in disk.texts : HomeOf(c, t)
        BY <3>1 DEF HasHome
      <4>2. PICK u \in Saved.texts : u.id = t.id /\ u.body = t.body
        BY <4>1, SavedFits DEF HomeOf
      <4>3. HomeOf(c, u)'
        BY <4>1, <4>2 DEF HomeOf, Onward
      <4> QED
        BY <1>1, <4>2, <4>3 DEF HasHome
    <3> QED
      BY <1>5, <3>1 DEF AllHaveHomes
  <2>2. NoBody \notin known
    BY <1>5 DEF AllHaveHomes
  <2>3. RemovedIsGivenUp'
    <3> SUFFICES ASSUME dialog'.op = "remove", NEW u \in disk'.texts, u.id \in dialog'.drop,
                        u.body \in known
                 PROVE  FALSE
      BY DEF RemovedIsGivenUp
    <3>1. PICK t \in disk.texts : t.id = u.id /\ t.body = u.body
      BY <1>1, <2>2, SavedFits
    <3> QED
      BY <1>5, <3>1 DEF RemovedIsGivenUp, Onward
  <2>4. Astray' \/ CopyIsStored'
    <3> SUFFICES ASSUME ~Astray', dialog'.op = "move", dialog'.at = "stored",
                        NEW u \in disk'.texts, u.id = dialog'.id, u.body \in known
                 PROVE  \E v \in disk'.texts : v.id = dialog'.new /\ v.body = u.body
      BY DEF CopyIsStored
    <3>1. dialog' = dialog
      BY DEF Onward
    <3>2. PICK t \in disk.texts : t.id = u.id /\ t.body = u.body
      BY <1>1, <2>2, SavedFits
    <3>3. PICK w \in disk.texts : w.id = dialog.new /\ w.body = u.body
      BY <1>5, <3>1, <3>2 DEF CopyIsStored
    <3>4. ~(dialog.new \in base \ Listed)
      <4>1. SUFFICES ASSUME dialog.new \in base \ Listed PROVE "erased" \in overtaken'
        BY DEF Astray
      <4>2. "dialog" \in {x \in Slots : tasks[x].at = "stored" /\ Upserted(tasks[x]) \in base \ Listed}
        BY <3>1, <4>1 DEF Slots, Upserted, dialog
      <4> QED
        BY <4>2 DEF Store
    <3> QED
      BY <1>1, <3>1, <3>3, <3>4, SavedFits
  <2> QED
    BY <1>3, <2>1, <2>3, <2>4 DEF ShelfIInv
<1> QED
  BY <1>4, <1>5 DEF ShelfIInv

\* Books that leave a profile leave all others where they are.
LEMMA DroppedFits ==
  ASSUME NEW p, ListsFit(p), NEW l, NEW ids
  PROVE  /\ ListsFit(Dropped(p, l, ids))
         /\ Dropped(p, l, ids).texts = {t \in p.texts : ~(t.profile = l /\ t.id \in ids)}
<1> DEFINE q == Dropped(p, l, ids)
           rest == {t \in p.texts : ~(t.profile = l /\ t.id \in ids)}
<1>1. IsLists(p)
  BY DEF ListsFit
<1>2. IsLists(q) /\ q.texts = rest
  <2>1. ASSUME NEW A, NEW B, NEW C, NEW D,
               q = [p EXCEPT !.texts = A, !.books = B, !.archived = C, !.marks = D]
        PROVE  IsLists(q) /\ q.texts = A
    <3> HIDE DEF q
    <3> QED
      BY <1>1, <2>1 DEF IsLists
  <2> DEFINE books == {b \in p.books : ~(b.profile = l /\ b.id \in ids)}
             archived == {x \in p.archived : ~(x.profile = l /\ x.id \in ids)}
             left == {x.id : x \in rest} \cup {x.id : x \in books}
             bookmarks == p.marks \ (ids \ left)
  <2>2. q = [p EXCEPT !.texts = rest, !.books = books, !.archived = archived, !.marks = bookmarks]
    BY Zenon DEF Dropped
  <2> HIDE DEF q, rest, books, archived, bookmarks
  <2> QED
    BY <2>1, <2>2
<1>3. rest \subseteq p.texts
  OBVIOUS
<1> HIDE DEF q, rest
<1>4. IsFiniteSet(q.texts)
  BY <1>2, <1>3, FS_Subset DEF ListsFit
<1>5. ListsFit(q)
  BY <1>2, <1>3, <1>4 DEF ListsFit
<1> QED
  BY <1>2, <1>5 DEF q, rest

-------------------------------------------------------------------------------
(* What the learner does.                                                  *)

\* Books without a text, the archive and bookmarks are of no text.
LEMMA OtherBooksKeep ==
  ASSUME ShelfIInv,
         \/ \E b : AddBook(b) \/ Hide(b)
         \/ \E id : Read(id) \/ \E on : Archive(id, on)
         \/ \E l \in Langs : SwitchLanguage(l)
  PROVE  ShelfIInv'
<1>1. IsLists(lists)
  BY DEF ShelfIInv, ListsFit
<1>2. ASSUME NEW b, AddBook(b) PROVE ShelfIInv'
  BY <1>1, <1>2, TasksAlone DEF AddBook, IsLists, history, files, ShelfIInv
<1>3. ASSUME NEW b, Hide(b) PROVE ShelfIInv'
  BY <1>1, <1>3, TasksAlone DEF Hide, IsLists, history, files, ShelfIInv
<1>4. ASSUME NEW id, Read(id) PROVE ShelfIInv'
  BY <1>1, <1>4, TasksAlone DEF Read, IsLists, history, files, ShelfIInv
<1>5. ASSUME NEW id, NEW on, Archive(id, on) PROVE ShelfIInv'
  BY <1>1, <1>5, TasksAlone DEF Archive, IsLists, history, files, ShelfIInv
<1>6. ASSUME NEW l \in Langs, SwitchLanguage(l) PROVE ShelfIInv'
  BY <1>1, <1>6, TasksAlone DEF SwitchLanguage, history, files, ShelfIInv
<1> QED
  BY <1>2, <1>3, <1>4, <1>5, <1>6

\* Of books that leave a profile, what is not given up has another home.
LEMMA GivingUpKeeps ==
  ASSUME ShelfIInv, lang' = lang, NEW ids, NEW gone, ListsFit(lists)', TasksFit',
         {t \in lists.texts : ~(t.profile = lang /\ t.id \in ids)} \subseteq lists'.texts,
         \A t \in lists.texts : t.profile = lang /\ t.id \in ids => t.id \in gone,
         Relinquish(gone), UNCHANGED <<disk, overtaken>>,
         dialog'.op # "move", dialog'.at = "save",
         dialog'.op = "remove" => dialog'.drop \subseteq gone
  PROVE  ShelfIInv'
<1>1. TextsFit(disk)' /\ lang' \in Langs
  BY DEF ShelfIInv
<1>2. CASE Astray
  <2>1. Astray'
    BY <1>2 DEF Astray
  <2> QED
    BY <1>1, <2>1 DEF ShelfIInv
<1>3. CASE AllHaveHomes
  <2>1. ASSUME NEW t \in disk.texts, t.id \in gone PROVE t.body \notin known'
    BY <2>1 DEF Relinquish, Content
  <2>2. AllHaveHomes'
    <3>1. ASSUME NEW c \in known' PROVE c # NoBody /\ HasHome(c)'
      <4>1. c \in known
        BY DEF Relinquish
      <4>2. c # NoBody /\ HasHome(c)
        BY <1>3, <4>1 DEF AllHaveHomes
      <4>3. PICK t \in disk.texts : HomeOf(c, t)
        BY <4>2 DEF HasHome
      <4>4. PICK x \in lists.texts : x.id = t.id
        BY <4>3 DEF HomeOf, Listed
      <4>5. x \in lists'.texts
        BY <2>1, <4>3, <4>4 DEF HomeOf
      <4>6. HomeOf(c, t)'
        BY <4>3, <4>4, <4>5 DEF HomeOf, Listed, Awaits
      <4> QED
        BY <4>2, <4>3, <4>6 DEF HasHome
    <3> QED
      BY <3>1 DEF AllHaveHomes
  <2>3. RemovedIsGivenUp' /\ CopyIsStored'
    BY <2>1 DEF RemovedIsGivenUp, CopyIsStored
  <2> QED
    BY <1>1, <2>2, <2>3 DEF ShelfIInv
<1> QED
  BY <1>2, <1>3 DEF ShelfIInv

LEMMA BegunTask ==
  ASSUME TasksFit, NEW slot \in Slots, NEW k, IsTask(k), Begin(slot, k),
         slot = "dialog" => DialogFits(k), slot = "background" => BackgroundFits(k)
  PROVE  /\ TasksFit' /\ tasks[slot] = Idle
         /\ slot = "dialog" => dialog = Idle /\ dialog' = k /\ background' = background
         /\ slot = "background" => dialog' = dialog /\ background' = k
<1>1. tasks' = [tasks EXCEPT ![slot] = k] /\ tasks[slot] = Idle
  BY DEF Begin, Free
<1>2. slot = "dialog" => dialog = Idle
  BY <1>1 DEF dialog
<1> HIDE DEF Idle
<1> QED
  BY <1>1, <1>2, OneTaskChanges

LEMMA RemoveTextKeeps ==
  ASSUME ShelfIInv, NEW id, RemoveText(id)
  PROVE  ShelfIInv'
<1> DEFINE drop == IF \E t \in lists'.texts : t.id = id THEN {} ELSE {id}
           k == [Idle EXCEPT !.op = "remove", !.at = "save", !.drop = drop]
<1>1. lists' = Dropped(lists, lang, {id}) /\ Begin("dialog", k) /\ Relinquish({id})
  BY DEF RemoveText
<1>2. UNCHANGED <<lang, disk, overtaken>>
  BY DEF RemoveText, files
<1>3. k.op = "remove" /\ k.at = "save" /\ k.drop \subseteq {id} /\ IsTask(k)
  <2>1. k = [Idle EXCEPT !.op = "remove", !.at = "save", !.drop = drop]
    OBVIOUS
  <2>2. drop \subseteq {id}
    OBVIOUS
  <2> HIDE DEF Idle, k, drop
  <2> QED
    BY <2>1, <2>2, IdleFits DEF IsTask
<1>4. DialogFits(k) /\ "dialog" \in Slots
  BY <1>3 DEF DialogFits, Slots
<1>5. TasksFit' /\ dialog' = k
  BY <1>1, <1>3, <1>4, BegunTask DEF ShelfIInv
<1> HIDE DEF k
<1>6. /\ ListsFit(lists)'
      /\ lists'.texts = {t \in lists.texts : ~(t.profile = lang /\ t.id \in {id})}
  BY <1>1, DroppedFits DEF ShelfIInv
<1> QED
  BY <1>1, <1>2, <1>3, <1>5, <1>6, GivingUpKeeps

\* What a profile has under the id of a user book is no text.
LEMMA UserBooksAreNoTexts ==
  ASSUME ShelfIInv, NEW b \in UserBooks, NEW t \in lists.texts
  PROVE  t.id # Own("user", b)
<1>1. b \notin Titles
  BY LibraryAssumption
<1>2. Own("user", b).title = b /\ Own("user", b).lang = "user"
  BY DEF Own
<1>3. IsId(t.id)
  BY DEF ShelfIInv, ListsFit
<1> QED
  BY <1>1, <1>2, <1>3 DEF IsId

LEMMA RemoveBookKeeps ==
  ASSUME ShelfIInv, NEW b \in UserBooks, RemoveBook(b)
  PROVE  ShelfIInv'
<1> DEFINE fulls == FullIds(b, lang) \cap InProfile(lang)
           ids == {Own("user", b)} \cup fulls
           k == [Idle EXCEPT !.op = "removeBook", !.at = "save", !.drop = fulls]
<1>1. lists' = Dropped(lists, lang, ids) /\ Begin("dialog", k) /\ Relinquish(fulls)
  BY DEF RemoveBook
<1>2. UNCHANGED <<lang, disk, overtaken>>
  BY DEF RemoveBook, files
<1>3. k.op = "removeBook" /\ k.at = "save" /\ IsTask(k)
  <2>1. k = [Idle EXCEPT !.op = "removeBook", !.at = "save", !.drop = fulls]
    OBVIOUS
  <2> HIDE DEF Idle, k, fulls
  <2> QED
    BY <2>1, IdleFits DEF IsTask
<1>4. DialogFits(k) /\ "dialog" \in Slots
  BY <1>3 DEF DialogFits, Slots
<1>5. TasksFit' /\ dialog' = k
  BY <1>1, <1>3, <1>4, BegunTask DEF ShelfIInv
<1> HIDE DEF k
<1>6. /\ ListsFit(lists)'
      /\ lists'.texts = {t \in lists.texts : ~(t.profile = lang /\ t.id \in ids)}
  BY <1>1, DroppedFits DEF ShelfIInv
<1>7. \A t \in lists.texts : t.profile = lang /\ t.id \in ids => t.id \in fulls
  BY UserBooksAreNoTexts
<1> HIDE DEF fulls, ids
<1> QED
  BY <1>1, <1>2, <1>3, <1>5, <1>6, <1>7, GivingUpKeeps

LEMMA MoveBookKeeps ==
  ASSUME ShelfIInv, NEW b \in UserBooks, NEW to, MoveBook(b, to)
  PROVE  ShelfIInv'
<1> DEFINE id == Own("user", b)
           fulls == FullIds(b, lang)
           target == Own("full-" \o to, b)
           dropped == fulls \cap InProfile(lang)
           p == [Dropped(lists, lang, {id}) EXCEPT !.books = @ \cup {[profile |-> to, id |-> id]}]
           carried == IF fulls \cap lists.marks # {} THEN {target} ELSE {}
           r == [p EXCEPT !.marks = @ \cup carried]
           q == Dropped(r, lang, dropped)
           k == [Idle EXCEPT !.op = "moveBook", !.at = "save", !.drop = dropped,
                             !.places = places, !.current = current]
           ids == {id} \cup dropped
<1>1. lists' = q /\ Begin("dialog", k) /\ Relinquish(dropped)
  BY DEF MoveBook
<1>2. UNCHANGED <<lang, disk, overtaken>>
  BY DEF MoveBook, files
<1>3. k.op = "moveBook" /\ k.at = "save" /\ IsTask(k)
  <2>1. k = [Idle EXCEPT !.op = "moveBook", !.at = "save", !.drop = dropped,
                                    !.places = places, !.current = current]
    OBVIOUS
  <2> HIDE DEF Idle, k, dropped
  <2> QED
    BY <2>1, IdleFits DEF IsTask
<1>4. DialogFits(k) /\ "dialog" \in Slots
  BY <1>3 DEF DialogFits, Slots
<1>5. TasksFit' /\ dialog' = k
  BY <1>1, <1>3, <1>4, BegunTask DEF ShelfIInv
<1>6. ListsFit(lists)
  BY DEF ShelfIInv
<1>7. \A t \in lists.texts : t.profile = lang /\ t.id \in ids => t.id \in dropped
  BY UserBooksAreNoTexts
<1> HIDE DEF k, id, dropped, carried
<1>8. ListsFit(r) /\ r.texts = {t \in lists.texts : ~(t.profile = lang /\ t.id \in {id})}
  <2> DEFINE d == Dropped(lists, lang, {id})
  <2>1. ListsFit(d) /\ d.texts = {t \in lists.texts : ~(t.profile = lang /\ t.id \in {id})}
    BY <1>6, DroppedFits
  <2> HIDE DEF d
  <2>2. r = [[d EXCEPT !.books = d.books \cup {[profile |-> to, id |-> id]}] EXCEPT !.marks = p.marks \cup carried]
    BY DEF d
  <2> DEFINE B == d.books \cup {[profile |-> to, id |-> id]}
             M == p.marks \cup carried
  <2>3. r = [[d EXCEPT !.books = B] EXCEPT !.marks = M]
    BY <2>2
  <2> HIDE DEF r, p, B, M
  <2>4. IsLists(d)
    BY <2>1 DEF ListsFit
  <2>5. IsLists(r) /\ r.texts = d.texts
    BY <2>3, <2>4 DEF IsLists
  <2> QED
    BY <2>1, <2>5 DEF ListsFit
<1> HIDE DEF r
<1>9. ListsFit(q) /\ q.texts = {t \in r.texts : ~(t.profile = lang /\ t.id \in dropped)}
  BY <1>8, DroppedFits
<1> HIDE DEF q
<1>10. {t \in lists.texts : ~(t.profile = lang /\ t.id \in ids)} \subseteq lists'.texts
  BY <1>1, <1>8, <1>9
<1> HIDE DEF ids
<1> QED
  BY <1>1, <1>2, <1>3, <1>5, <1>7, <1>9, <1>10, GivingUpKeeps

-------------------------------------------------------------------------------
(* Operations begin and end.                                               *)

\* An id is planned that no text has.
LEMMA ImportKeeps ==
  ASSUME ShelfIInv, NEW title \in Titles, Import(title)
  PROVE  ShelfIInv'
<1> DEFINE id == Unique(Own(lang, title))
           k == [Idle EXCEPT !.op = "import", !.at = "upsert", !.to = lang, !.id = id]
<1>1. Begin("dialog", k) /\ UNCHANGED <<lang, lists, disk, known, overtaken>>
  BY DEF Import, shown, files, history
<1>2. Own(lang, title) = [lang |-> lang, title |-> title, n |-> <<>>] /\ <<>> \in Seq(Nat)
  BY DEF Own
<1>3. IsId(Own(lang, title)) /\ Own(lang, title).title = title
  BY <1>2 DEF IsId
<1>4. id \notin Listed /\ IsId(id) /\ id.title \in Titles
  BY <1>3, UniqueIsNew DEF ShelfIInv, ListsFit
<1>5. k = [Idle EXCEPT !.op = "import", !.at = "upsert", !.to = lang, !.id = id]
  OBVIOUS
<1> HIDE DEF k, id, Idle
<1>6. IsTask(k) /\ k.op = "import" /\ k.at = "upsert" /\ k.id = id
  BY <1>5, IdleFits DEF IsTask
<1>7. DialogFits(k) /\ "dialog" \in Slots
  BY <1>4, <1>6 DEF DialogFits, Slots
<1>8. TasksFit' /\ dialog' = k
  BY <1>1, <1>6, <1>7, BegunTask DEF ShelfIInv
<1>9. Onward
  BY <1>4, <1>6, <1>8 DEF Onward, Awaits, Upserted
<1> QED
  BY <1>1, <1>8, <1>9, TextsAlone DEF ShelfIInv, ListsFit

LEMMA MoveKeeps ==
  ASSUME ShelfIInv, NEW id, NEW to, Move(id, to)
  PROVE  ShelfIInv'
<1> DEFINE new == Planned(id, to)
           k == [Idle EXCEPT !.op = "move", !.at = "load", !.id = id, !.to = to, !.new = new,
                             !.places = places, !.current = current]
<1>1. Begin("dialog", k) /\ UNCHANGED <<lang, lists, disk, known, overtaken>>
  BY DEF Move, shown, files, history
<1>2. id.title \in Titles /\ id \in Listed
  BY DEF Move, InProfile, Listed
<1>3. IsId(id)
  BY <1>2 DEF ShelfIInv, ListsFit, Listed
<1>4. IsId([id EXCEPT !.lang = to]) /\ [id EXCEPT !.lang = to].title = id.title
  BY <1>2, <1>3 DEF IsId
<1>5. new \notin Listed /\ IsId(new) /\ new.title = id.title
  BY <1>2, <1>4, UniqueIsNew DEF ShelfIInv, ListsFit, Planned
<1>6. k = [Idle EXCEPT !.op = "move", !.at = "load", !.id = id, !.to = to, !.new = new,
                       !.places = places, !.current = current]
  OBVIOUS
<1> HIDE DEF k, new, Idle
<1>7. IsTask(k) /\ k.op = "move" /\ k.at = "load" /\ k.id = id /\ k.new = new
  BY <1>6, IdleFits DEF IsTask
<1>8. DialogFits(k) /\ "dialog" \in Slots
  BY <1>2, <1>3, <1>5, <1>7 DEF DialogFits, Slots
<1>9. TasksFit' /\ dialog' = k
  BY <1>1, <1>7, <1>8, BegunTask DEF ShelfIInv
<1>10. Onward
  BY <1>5, <1>7, <1>9 DEF Onward, Awaits, Upserted
<1> QED
  BY <1>1, <1>9, <1>10, TextsAlone DEF ShelfIInv, ListsFit

\* A full text is fetched under an id of its own.
LEMMA LoadFullKeeps ==
  ASSUME ShelfIInv, NEW b \in UserBooks, LoadFull(b)
  PROVE  ShelfIInv'
<1> DEFINE own == Own("full-" \o lang, b)
           k == [Idle EXCEPT !.op = "import", !.at = "fetch", !.id = own]
<1>1. UNCHANGED <<lang, lists, disk, known, overtaken>>
  BY DEF LoadFull, files, history
<1>2. UNCHANGED tasks \/ Begin("background", k)
  BY DEF LoadFull
<1>3. CASE UNCHANGED tasks
  BY <1>1, <1>3, TasksAlone DEF ShelfIInv, ListsFit
<1>4. CASE Begin("background", k)
  <2> DEFINE l == "full-" \o lang
  <2>1. own = [lang |-> l, title |-> b, n |-> <<>>] /\ <<>> \in Seq(Nat)
    BY DEF Own
  <2>2. b \notin Titles /\ l # "user"
    BY LibraryAssumption DEF ShelfIInv
  <2> HIDE DEF l, own
  <2>3. IsId(own) /\ own.title \notin Titles
    BY <2>1, <2>2 DEF IsId
  <2>4. k = [Idle EXCEPT !.op = "import", !.at = "fetch", !.id = own]
    OBVIOUS
  <2> HIDE DEF k, Idle
  <2>5. IsTask(k) /\ k.op = "import" /\ k.at = "fetch" /\ k.id = own
    BY <2>4, IdleFits DEF IsTask
  <2>6. BackgroundFits(k) /\ "background" \in Slots
    BY <2>3, <2>5 DEF BackgroundFits, Slots
  <2>7. TasksFit' /\ dialog' = dialog
    BY <1>4, <2>5, <2>6, BegunTask DEF ShelfIInv
  <2> QED
    BY <1>1, <2>7, IdleIsOnward, TextsAlone DEF ShelfIInv, ListsFit
<1> QED
  BY <1>2, <1>3, <1>4

\* A step at whose end an operation is over, or is still where it was.
LEMMA EndingKeeps ==
  ASSUME ShelfIInv, NEW slot \in Slots, Ends(slot), lang' = lang, UNCHANGED <<lists, disk, known>>,
         overtaken \subseteq overtaken'
  PROVE  ShelfIInv'
<1>1. TasksFit' /\ (dialog' = Idle \/ dialog' = dialog)
  <2> HIDE DEF Idle
  <2> QED
    BY EndedTask DEF ShelfIInv, Slots
<1> QED
  BY <1>1, IdleIsOnward, TextsAlone DEF ShelfIInv, ListsFit

LEMMA FetchedKeeps ==
  ASSUME ShelfIInv, NEW slot \in Slots, Fetched(slot)
  PROVE  ShelfIInv'
<1>1. tasks[slot].at = "fetch" /\ UNCHANGED <<lang, lists, disk, known, overtaken>>
  BY DEF Fetched, shown, files, history
<1>2. CASE Ends(slot)
  BY <1>1, <1>2, EndingKeeps
<1>3. CASE tasks' = [tasks EXCEPT ![slot].at = "upsert", ![slot].to = lang]
  <2>1. slot = "background" /\ tasks[slot] = background
    BY <1>1, IdleFits DEF ShelfIInv, TasksFit, DialogFits, dialog, background, Slots
  <2> DEFINE k == [background EXCEPT !.at = "upsert", !.to = lang]
  <2>2. tasks' = [tasks EXCEPT ![slot] = k]
    BY <1>3, <2>1
  <2>3. background # Idle
    BY <1>1, <2>1, IdleFits
  <2>4. k.op = background.op /\ k.at = "upsert" /\ k.id = background.id /\ IsTask(k)
    <3>1. IsTask(background) /\ k = [background EXCEPT !.at = "upsert", !.to = lang]
      BY DEF ShelfIInv, TasksFit
    <3> HIDE DEF k
    <3> QED
      BY <3>1 DEF IsTask
  <2> HIDE DEF k
  <2>5. BackgroundFits(k)
    BY <2>3, <2>4 DEF ShelfIInv, TasksFit, BackgroundFits
  <2>6. TasksFit' /\ dialog' = dialog
    BY <2>1, <2>2, <2>4, <2>5, OneTaskChanges DEF ShelfIInv
  <2> QED
    BY <1>1, <2>6, IdleIsOnward, TextsAlone DEF ShelfIInv, ListsFit
<1> QED
  BY <1>2, <1>3 DEF Fetched

LEMMA LoadedKeeps ==
  ASSUME ShelfIInv, Loaded
  PROVE  ShelfIInv'
<1>1. /\ dialog.op = "move" /\ dialog.at = "load" /\ "dialog" \in Slots
      /\ UNCHANGED <<lang, lists, disk, known, overtaken>>
  BY DEF Loaded, shown, files, history, dialog, Slots
<1>2. CASE Ends("dialog")
  BY <1>1, <1>2, EndingKeeps
<1>3. CASE Goes("dialog", "upsert")
  <2> DEFINE k == [dialog EXCEPT !.at = "upsert"]
  <2>1. /\ k.op = "move" /\ k.at = "upsert" /\ k.id = dialog.id /\ k.new = dialog.new
    BY <1>1 DEF ShelfIInv, TasksFit, IsTask
  <2>2. tasks["dialog"] # Idle
    BY <1>1, IdleFits DEF dialog
  <2>3. DialogFits(dialog) /\ dialog # Idle
    BY <2>2 DEF ShelfIInv, TasksFit, dialog
  <2> HIDE DEF k
  <2>4. DialogFits(k)
    BY <1>1, <2>1, <2>3 DEF DialogFits
  <2>5. TasksFit' /\ dialog' = k
    BY <1>1, <1>3, <2>2, <2>4, GoneOnTask DEF ShelfIInv, k
  <2>6. Onward
    BY <1>1, <2>1, <2>5 DEF Onward, Awaits, Upserted
  <2> QED
    BY <1>1, <2>5, <2>6, TextsAlone DEF ShelfIInv, ListsFit
<1> QED
  BY <1>2, <1>3 DEF Loaded

LEMMA FailuresKeep ==
  ASSUME ShelfIInv, NEW slot \in Slots, UpsertFails(slot) \/ ReloadFails(slot)
  PROVE  ShelfIInv'
BY EndingKeeps DEF UpsertFails, ReloadFails, shown, files, history

-------------------------------------------------------------------------------
(* Texts are stored and listed.                                            *)

\* A text takes the place of any of its id.
LEMMA UpsertedFits ==
  ASSUME TextsFit(disk), NEW id, NEW l, NEW c, IsId(id), UpsertText(id, l, c),
         c # NoBody => /\ c[2] = id.title
                       /\ id.title \notin Titles => c = <<id.lang, id.title, 0>>
  PROVE  /\ TextsFit(disk)'
         /\ \A t \in disk'.texts : (t \in disk.texts /\ t.id # id) \/ (t.id = id /\ t.body = c)
         /\ \A t \in disk.texts : t.id # id => t \in disk'.texts
         /\ \E t \in disk'.texts : t.id = id /\ t.body = c
<1> DEFINE new == [id |-> id, lang |-> l, body |-> c]
           texts == Without(disk.texts, id) \cup {new}
<1>1. disk' = [disk EXCEPT !.texts = texts]
  BY DEF UpsertText
<1>2. new.id = id /\ new.body = c
  OBVIOUS
<1>3. \A t \in Without(disk.texts, id) : t \in disk.texts /\ t.id # id
  BY DEF Without
<1>4. \A t \in disk.texts : t.id # id => t \in Without(disk.texts, id)
  BY DEF Without
<1>5. IsFiniteSet(texts)
  <2>1. IsFiniteSet(Without(disk.texts, id))
    BY <1>3, FS_Subset DEF TextsFit, ListsFit
  <2> QED
    BY <2>1, FS_AddElement
<1> HIDE DEF texts
<1>6. disk'.texts = texts /\ IsLists(disk')
  BY <1>1 DEF TextsFit, ListsFit, IsLists
<1> USE DEF texts
<1> HIDE DEF new
<1>7. \A t \in disk'.texts : (t \in disk.texts /\ t.id # id) \/ t = new
  BY <1>3, <1>6
<1>8. \A t \in disk'.texts : IsId(t.id) /\ BodyFits(t)
  <2>1. BodyFits(new)
    BY <1>2 DEF BodyFits
  <2> QED
    BY <1>2, <1>7, <2>1 DEF TextsFit, ListsFit
<1>9. \A t, u \in disk'.texts : t.id = u.id => t = u
  BY <1>2, <1>7 DEF TextsFit
<1>10. TextsFit(disk)'
  BY <1>5, <1>6, <1>8, <1>9 DEF TextsFit, ListsFit
<1>11. new \in disk'.texts
  BY <1>6
<1>12. \A t \in disk.texts : t.id # id => t \in disk'.texts
  BY <1>4, <1>6
<1>13. ASSUME NEW t \in disk'.texts
       PROVE  (t \in disk.texts /\ t.id # id) \/ (t.id = id /\ t.body = c)
  <2>1. CASE t = new
    BY <1>2, <2>1
  <2>2. CASE t \in disk.texts /\ t.id # id
    BY <2>2
  <2> QED
    BY <1>7, <2>1, <2>2
<1>14. \E t \in disk'.texts : t.id = id /\ t.body = c
  BY <1>2, <1>11
<1> HIDE DEF texts
<1> QED
  BY <1>10, <1>12, <1>13, <1>14

LEMMA ImportedFits ==
  ASSUME NEW id, IsId(id), NEW n
  PROVE  LET c == Imported(id, n)
         IN  /\ c # NoBody /\ c[2] = id.title
             /\ id.title \notin Titles => c = <<id.lang, id.title, 0>>
<1>1. Imported(id, n) = <<id.lang, id.title, IF id.title \in Titles THEN n ELSE 0>>
  BY DEF Imported
<1>2. Imported(id, n)[2] = id.title
  BY <1>1
<1>3. Imported(id, n) # NoBody
  BY <1>1 DEF NoBody
<1> QED
  BY <1>1, <1>2, <1>3

\* The full text of a book is the only one of its content.
LEMMA FullTextsDiffer ==
  ASSUME TextsFit(disk), NEW t \in disk.texts, NEW i, IsId(i), i.title \notin Titles,
         t.body = <<i.lang, i.title, 0>>
  PROVE  t.id = i
<1>1. t.body[2] = i.title /\ t.body # NoBody
  BY DEF NoBody
<1>2. t.id.title = i.title /\ t.body = <<t.id.lang, t.id.title, 0>>
  BY <1>1 DEF TextsFit, BodyFits
<1>3. t.id.lang = i.lang
  BY <1>2
<1>4. IsId(t.id)
  BY DEF TextsFit, ListsFit
<1> QED
  BY <1>2, <1>3, <1>4 DEF IsId

\* An own text is stored under an id that nothing known has.
LEMMA OwnStoredKeeps ==
  ASSUME ShelfIInv, tasks["dialog"].at = "upsert", Stored("dialog")
  PROVE  ShelfIInv'
<1> DEFINE id == Upserted(dialog)
           k == [dialog EXCEPT !.at = "stored"]
<1>1. /\ dialog.at = "upsert" /\ Goes("dialog", "stored") /\ "dialog" \in Slots
      /\ UNCHANGED <<lang, lists, known, overtaken>>
  BY DEF Stored, shown, history, dialog, Slots
<1>2. dialog # Idle /\ tasks["dialog"] # Idle /\ TextsFit(disk) /\ IsTask(dialog) /\ DialogFits(dialog)
  BY <1>1, IdleFits DEF ShelfIInv, TasksFit, dialog
<1>3. /\ IsId(id) /\ id.title \in Titles
      /\ dialog.op \in {"import", "move"}
      /\ dialog.op = "move" => id = dialog.new /\ id # dialog.id /\ id.title = dialog.id.title
  BY <1>1, <1>2 DEF DialogFits, Upserted
<1>4. k.op = dialog.op /\ k.at = "stored" /\ k.id = dialog.id /\ k.new = dialog.new
  BY <1>2 DEF IsTask
<1> HIDE DEF k
<1>5. DialogFits(k)
  BY <1>1, <1>2, <1>4 DEF DialogFits
<1>6. TasksFit' /\ dialog' = k
  BY <1>1, <1>2, <1>5, GoneOnTask DEF ShelfIInv, k
<1>7. PICK c, l : /\ UpsertText(id, l, c)
                  /\ c # NoBody => c[2] = id.title
                  /\ dialog.op = "move" => c \in Content(dialog.id)
  <2>1. CASE dialog.op = "import"
    <3>1. id = dialog.id /\ UpsertText(id, dialog.to, Imported(id, bodies'))
      BY <2>1 DEF Stored, dialog, Upserted
    <3>2. Imported(id, bodies')[2] = id.title
      BY <1>3, ImportedFits
    <3> QED
      BY <2>1, <3>1, <3>2
  <2>2. CASE dialog.op = "move"
    <3>1. PICK c \in Content(dialog.id) : UpsertText(id, dialog.to, c)
      BY <2>2 DEF Stored, dialog, Upserted
    <3>2. PICK t \in disk.texts : t.id = dialog.id /\ t.body = c
      BY DEF Content
    <3>3. c # NoBody => c[2] = id.title
      BY <1>2, <1>3, <2>2, <3>2 DEF TextsFit, BodyFits
    <3> QED
      BY <3>1, <3>3
  <2> QED
    BY <1>3, <2>1, <2>2
<1>8. /\ TextsFit(disk)'
      /\ \A t \in disk'.texts : (t \in disk.texts /\ t.id # id) \/ (t.id = id /\ t.body = c)
      /\ \A t \in disk.texts : t.id # id => t \in disk'.texts
      /\ \E t \in disk'.texts : t.id = id /\ t.body = c
  BY <1>2, <1>3, <1>7, UpsertedFits
<1>9. ListsFit(lists)' /\ Listed' = Listed /\ lang' \in Langs
  BY <1>1 DEF ShelfIInv, Listed
<1>10. CASE Astray
  <2>1. Astray'
    BY <1>1, <1>10 DEF Astray
  <2> QED
    BY <1>6, <1>8, <1>9, <2>1 DEF ShelfIInv
<1>11. CASE AllHaveHomes
  <2>1. AllHaveHomes'
    <3>1. ASSUME NEW x \in known', HasHome(x) PROVE HasHome(x)'
      <4>1. PICK t \in disk.texts : HomeOf(x, t)
        BY <3>1 DEF HasHome
      <4>2. t.id # id
        BY <1>1, <4>1 DEF HomeOf, Awaits
      <4>3. t \in disk'.texts
        BY <1>8, <4>2
      <4>4. HomeOf(x, t)'
        BY <1>4, <1>6, <1>9, <4>1 DEF HomeOf, Awaits
      <4> QED
        BY <4>3, <4>4 DEF HasHome
    <3> QED
      BY <1>1, <1>11, <3>1 DEF AllHaveHomes
  <2>2. RemovedIsGivenUp'
    BY <1>3, <1>4, <1>6 DEF RemovedIsGivenUp
  <2>3. CopyIsStored'
    <3> SUFFICES ASSUME dialog.op = "move", NEW t \in disk'.texts, t.id = dialog.id
                 PROVE  \E u \in disk'.texts : u.id = dialog.new /\ u.body = t.body
      BY <1>4, <1>6 DEF CopyIsStored
    <3>1. t \in disk.texts
      BY <1>3, <1>8
    <3>2. PICK s \in disk.texts : s.id = dialog.id /\ s.body = c
      BY <1>7 DEF Content
    <3>3. t.body = c
      BY <1>2, <3>1, <3>2 DEF TextsFit
    <3> QED
      BY <1>3, <1>8, <3>3
  <2> QED
    BY <1>6, <1>8, <1>9, <2>1, <2>2, <2>3 DEF ShelfIInv
<1> QED
  BY <1>10, <1>11 DEF ShelfIInv

\* A full text is stored again under the id it had.
LEMMA FullStoredKeeps ==
  ASSUME ShelfIInv, tasks["background"].at = "upsert", Stored("background")
  PROVE  ShelfIInv'
<1> DEFINE id == background.id
           k == [background EXCEPT !.at = "stored"]
           c == Imported(id, bodies')
<1>1. /\ background.at = "upsert" /\ Goes("background", "stored") /\ "background" \in Slots
      /\ UNCHANGED <<lang, lists, known, overtaken>>
  BY DEF Stored, shown, history, background, Slots
<1>2. /\ background # Idle /\ tasks["background"] # Idle
      /\ TextsFit(disk) /\ IsTask(background) /\ BackgroundFits(background)
  BY <1>1, IdleFits DEF ShelfIInv, TasksFit, background
<1>3. background.op = "import" /\ IsId(id) /\ id.title \notin Titles
  BY <1>2 DEF BackgroundFits
<1>4. k.op = "import" /\ k.at = "stored" /\ k.id = id
  BY <1>2, <1>3 DEF IsTask
<1>5. k = [background EXCEPT !.at = "stored"]
  OBVIOUS
<1> HIDE DEF k
<1>6. BackgroundFits(k)
  BY <1>3, <1>4 DEF BackgroundFits
<1>7. TasksFit' /\ dialog' = dialog
  BY <1>1, <1>2, <1>5, <1>6, GoneOnTask DEF ShelfIInv
<1>8. UpsertText(id, background.to, c)
  BY <1>3 DEF Stored, background
<1>9. c # NoBody /\ c[2] = id.title /\ c = <<id.lang, id.title, 0>>
  BY <1>3, ImportedFits
<1> HIDE DEF c
<1>10. /\ TextsFit(disk)'
       /\ \A t \in disk'.texts : (t \in disk.texts /\ t.id # id) \/ (t.id = id /\ t.body = c)
       /\ \A t \in disk.texts : t.id # id => t \in disk'.texts
       /\ \E t \in disk'.texts : t.id = id /\ t.body = c
  BY <1>2, <1>3, <1>8, <1>9, UpsertedFits
<1>11. ListsFit(lists)' /\ Listed' = Listed /\ lang' \in Langs
  BY <1>1 DEF ShelfIInv, Listed
<1>12. CASE Astray
  <2>1. Astray'
    BY <1>1, <1>12 DEF Astray
  <2> QED
    BY <1>7, <1>10, <1>11, <2>1 DEF ShelfIInv
<1>13. CASE AllHaveHomes /\ RemovedIsGivenUp /\ CopyIsStored
  <2>1. AllHaveHomes'
    <3>1. ASSUME NEW x \in known' PROVE x # NoBody /\ HasHome(x)'
      <4>1. x # NoBody /\ HasHome(x)
        BY <1>1, <1>13 DEF AllHaveHomes
      <4>2. PICK t \in disk.texts : HomeOf(x, t)
        BY <4>1 DEF HasHome
      <4>3. PICK u \in disk'.texts : u.id = t.id /\ u.body = t.body
        <5>1. CASE t.id = id
          <6>1. t.body = c
            BY <1>3, <1>9, <4>1, <4>2, <5>1, <1>2 DEF TextsFit, BodyFits, HomeOf
          <6> QED
            BY <1>10, <5>1, <6>1
        <5>2. CASE t.id # id
          BY <1>10, <5>2
        <5> QED
          BY <5>1, <5>2
      <4>4. HomeOf(x, u)'
        BY <1>7, <1>11, <4>2, <4>3 DEF HomeOf, Awaits, Upserted
      <4> QED
        BY <4>1, <4>3, <4>4 DEF HasHome
    <3> QED
      BY <3>1 DEF AllHaveHomes
  <2>2. RemovedIsGivenUp'
    <3> SUFFICES ASSUME dialog.op = "remove", NEW u \in disk'.texts, u.id \in dialog.drop, u.body \in known
                 PROVE  FALSE
      BY <1>1, <1>7 DEF RemovedIsGivenUp
    <3>1. CASE u \in disk.texts
      BY <1>13, <3>1 DEF RemovedIsGivenUp
    <3>2. CASE u.id = id /\ u.body = c
      <4>1. HasHome(c)
        BY <1>13, <3>2 DEF AllHaveHomes
      <4>2. PICK t \in disk.texts : HomeOf(c, t)
        BY <4>1 DEF HasHome
      <4>3. t.body = c
        BY <4>2 DEF HomeOf
      <4>4. t.id = id
        BY <1>2, <1>3, <1>9, <4>3, FullTextsDiffer
      <4> QED
        BY <1>13, <3>2, <4>3, <4>4 DEF RemovedIsGivenUp
    <3> QED
      BY <1>10, <3>1, <3>2
  <2>3. CopyIsStored'
    <3> SUFFICES ASSUME dialog.op = "move", dialog.at = "stored", NEW t \in disk'.texts,
                        t.id = dialog.id, t.body \in known
                 PROVE  \E u \in disk'.texts : u.id = dialog.new /\ u.body = t.body
      BY <1>1, <1>7 DEF CopyIsStored
    <3>1. dialog.id # id /\ dialog.new # id
      BY <1>3, IdleFits DEF ShelfIInv, TasksFit, DialogFits
    <3>2. t \in disk.texts
      BY <1>10, <3>1
    <3>3. PICK u \in disk.texts : u.id = dialog.new /\ u.body = t.body
      BY <1>13, <3>2 DEF CopyIsStored
    <3> QED
      BY <1>10, <3>1, <3>3
  <2> QED
    BY <1>7, <1>10, <1>11, <2>1, <2>2, <2>3 DEF ShelfIInv
<1> QED
  BY <1>12, <1>13 DEF ShelfIInv

\* An imported text is listed, and known if it is there.
LEMMA ImportListedKeeps ==
  ASSUME ShelfIInv, NEW slot \in Slots, ImportListed(slot)
  PROVE  ShelfIInv'
<1> DEFINE task == tasks[slot]
           id == task.id
           new == [profile |-> lang, id |-> id, lang |-> task.to]
           rest == {t \in lists.texts : ~(t.profile = lang /\ t.id = id)}
           learnt == IF Removing(id) THEN {} ELSE Content(id) \ {NoBody}
<1>1. /\ task.op = "import" /\ task.at = "stored" /\ Goes(slot, "save")
      /\ lists' = [lists EXCEPT !.texts = rest \cup {new}]
      /\ known' = known \cup learnt
      /\ UNCHANGED <<lang, disk, overtaken>>
  BY DEF ImportListed, files
<1>2. TextsFit(disk) /\ ListsFit(lists) /\ TasksFit
  BY DEF ShelfIInv
<1>3. task # Idle
  BY <1>1, IdleFits
<1>4. /\ IsId(id)
      /\ slot = "background" <=> id.title \notin Titles
      /\ slot = "dialog" => task = dialog
      /\ slot = "background" => task = background
  BY <1>1, <1>2, <1>3 DEF TasksFit, DialogFits, BackgroundFits, dialog, background, Slots
<1>5. /\ TasksFit'
      /\ slot = "dialog" => dialog'.op = "import" /\ dialog'.at = "save"
      /\ slot = "background" => dialog' = dialog
  <2>1. CASE slot = "dialog"
    <3> DEFINE k == [dialog EXCEPT !.at = "save"]
    <3>1. k.op = "import" /\ k.at = "save" /\ k.id = id
      BY <1>1, <1>2, <1>4, <2>1 DEF TasksFit, IsTask
    <3>2. k = [dialog EXCEPT !.at = "save"]
      OBVIOUS
    <3> HIDE DEF k
    <3>3. DialogFits(k)
      BY <1>4, <2>1, <3>1 DEF DialogFits
    <3> QED
      BY <1>1, <1>2, <1>3, <2>1, <3>1, <3>2, <3>3, GoneOnTask
  <2>2. CASE slot = "background"
    <3> DEFINE k == [background EXCEPT !.at = "save"]
    <3>1. k.op = "import" /\ k.at = "save" /\ k.id = id
      BY <1>1, <1>2, <1>4, <2>2 DEF TasksFit, IsTask
    <3>2. k = [background EXCEPT !.at = "save"]
      OBVIOUS
    <3> HIDE DEF k
    <3>3. BackgroundFits(k)
      BY <1>4, <2>2, <3>1 DEF BackgroundFits
    <3> QED
      BY <1>1, <1>2, <1>3, <2>2, <3>2, <3>3, GoneOnTask
  <2> QED
    BY <2>1, <2>2 DEF Slots
<1>6. new.id = id /\ \A t \in rest : t \in lists.texts
  OBVIOUS
<1>7. \A t \in lists.texts : t.id # id => t \in rest
  OBVIOUS
<1>8. IsFiniteSet(rest \cup {new})
  <2>1. IsFiniteSet(rest)
    BY <1>2, <1>6, FS_Subset DEF ListsFit
  <2> HIDE DEF rest, new
  <2> QED
    BY <2>1, FS_AddElement
<1> HIDE DEF rest, new, task, id, learnt
<1>9. lists'.texts = rest \cup {new} /\ IsLists(lists')
  BY <1>1, <1>2 DEF ListsFit, IsLists
<1>10. ListsFit(lists)' /\ Listed \subseteq Listed' /\ id \in Listed'
  <2>1. ListsFit(lists')
    BY <1>2, <1>4, <1>6, <1>8, <1>9 DEF ListsFit
  <2>2. id \in Listed'
    BY <1>6, <1>9 DEF Listed
  <2>3. \A t \in lists.texts : t.id \in Listed'
    BY <1>7, <1>9, <2>2 DEF Listed
  <2> QED
    BY <2>1, <2>2, <2>3 DEF Listed
<1>11. CASE Astray
  <2>1. Astray'
    BY <1>1, <1>11 DEF Astray
  <2> QED
    BY <1>1, <1>5, <1>10, <2>1 DEF ShelfIInv
<1>12. CASE AllHaveHomes /\ RemovedIsGivenUp /\ CopyIsStored
  <2>1. \A c \in learnt : c # NoBody /\ \E t \in disk.texts : t.id = id /\ t.body = c
    BY DEF learnt, Content
  <2>2. \A i : Awaits(i)' => Awaits(i) /\ i # id
    <3> SUFFICES ASSUME NEW i, Awaits(i)' PROVE Awaits(i) /\ i # id
      OBVIOUS
    <3>1. slot = "background" /\ dialog' = dialog
      BY <1>5 DEF Awaits, Slots
    <3>2. Awaits(i)
      BY <3>1 DEF Awaits, Upserted
    <3>3. i.title \in Titles
      BY <1>2, <3>2, IdleFits DEF Awaits, Upserted, TasksFit, DialogFits
    <3> QED
      BY <1>4, <3>1, <3>2, <3>3
  <2>3. AllHaveHomes'
    <3>1. ASSUME NEW c \in known PROVE c # NoBody /\ HasHome(c)'
      <4>1. c # NoBody /\ HasHome(c)
        BY <1>12 DEF AllHaveHomes
      <4>2. PICK t \in disk.texts : HomeOf(c, t)
        BY <4>1 DEF HasHome
      <4>3. HomeOf(c, t)'
        BY <1>10, <2>2, <4>2 DEF HomeOf
      <4> QED
        BY <1>1, <4>1, <4>2, <4>3 DEF HasHome
    <3>2. ASSUME NEW c \in learnt PROVE c # NoBody /\ HasHome(c)'
      <4>1. PICK t \in disk.texts : t.id = id /\ t.body = c
        BY <2>1
      <4>2. HomeOf(c, t)'
        BY <1>10, <2>2, <4>1 DEF HomeOf
      <4> QED
        BY <1>1, <2>1, <4>2 DEF HasHome
    <3> QED
      BY <1>1, <3>1, <3>2 DEF AllHaveHomes
  <2>4. ASSUME NEW t \in disk.texts, t.body \in learnt, slot = "background"
        PROVE  t.id = id /\ ~Removing(id)
    <3>1. PICK s \in disk.texts : s.id = id /\ s.body = t.body
      BY <2>1, <2>4
    <3>2. t.body # NoBody /\ ~Removing(id)
      BY <2>1, <2>4 DEF learnt
    <3>3. t.body = <<id.lang, id.title, 0>>
      BY <1>2, <1>4, <2>4, <3>1, <3>2 DEF TextsFit, BodyFits
    <3>4. t.id = id
      BY <1>2, <1>4, <2>4, <3>3, FullTextsDiffer
    <3> QED
      BY <3>2, <3>4
  <2>5. RemovedIsGivenUp'
    <3> SUFFICES ASSUME dialog'.op = "remove", NEW t \in disk.texts, t.id \in dialog'.drop,
                        t.body \in known'
                 PROVE  FALSE
      BY <1>1 DEF RemovedIsGivenUp
    <3>1. slot = "background" /\ dialog' = dialog
      BY <1>5 DEF Slots
    <3>2. t.body \notin known
      BY <1>12, <3>1 DEF RemovedIsGivenUp
    <3>3. t.id = id /\ ~Removing(id)
      BY <1>1, <2>4, <3>1, <3>2
    <3> QED
      BY <3>1, <3>3 DEF Removing, dialog
  <2>6. CopyIsStored'
    <3> SUFFICES ASSUME dialog'.op = "move", dialog'.at = "stored", NEW t \in disk.texts,
                        t.id = dialog'.id, t.body \in known'
                 PROVE  \E u \in disk.texts : u.id = dialog'.new /\ u.body = t.body
      BY <1>1 DEF CopyIsStored
    <3>1. slot = "background" /\ dialog' = dialog
      BY <1>5 DEF Slots
    <3>2. t.id.title \in Titles
      BY <1>2, <3>1, IdleFits DEF TasksFit, DialogFits
    <3>3. t.body \in known
      BY <1>1, <1>4, <2>4, <3>1, <3>2
    <3> QED
      BY <1>12, <3>1, <3>3 DEF CopyIsStored
  <2> QED
    BY <1>1, <1>2, <1>5, <1>10, <2>3, <2>5, <2>6 DEF ShelfIInv
<1> QED
  BY <1>11, <1>12 DEF ShelfIInv

\* A moved text is listed by the id its copy has, or the copy has gone astray.
LEMMA MoveListedKeeps ==
  ASSUME ShelfIInv, MoveListed
  PROVE  ShelfIInv'
<1> DEFINE id == dialog.id
           new == Planned(id, dialog.to)
           entry == [profile |-> dialog.to, id |-> new, lang |-> dialog.to]
           p == Dropped(lists, lang, {id})
           k == [dialog EXCEPT !.at = "save", !.new = new, !.drop = {id}]
<1>1. dialog.op = "move" /\ dialog.at = "stored" /\ UNCHANGED <<lang, disk, known>>
  BY DEF MoveListed, files, history, dialog
<1>2. TextsFit(disk) /\ ListsFit(lists) /\ TasksFit /\ "dialog" \in Slots
  BY DEF ShelfIInv, Slots
<1>3. dialog # Idle /\ IsTask(dialog)
  BY <1>1, <1>2, IdleFits DEF TasksFit
<1>4. IsId(id) /\ id.title \in Titles /\ dialog.new # id
  BY <1>1, <1>2, <1>3 DEF TasksFit, DialogFits
<1>5. CASE ~(id \in InProfile(lang))
  <2>1. Ends("dialog") /\ UNCHANGED <<lists, overtaken>>
    BY <1>5 DEF MoveListed, shown, dialog
  <2> QED
    BY <1>1, <1>2, <2>1, EndingKeeps
<1>6. CASE id \in InProfile(lang)
  <2>1. /\ MovedTo(dialog, new)
        /\ tasks' = [tasks EXCEPT !["dialog"] = k]
        /\ overtaken' = overtaken
             \cup (IF new = dialog.new THEN {} ELSE {"replanned"})
             \cup (IF new = dialog.new \/ dialog.new \in Listed THEN {} ELSE {"strayed"})
    BY <1>6 DEF MoveListed, dialog
  <2>2. IsId(new) /\ new.title = id.title
    <3>1. IsId([id EXCEPT !.lang = dialog.to]) /\ [id EXCEPT !.lang = dialog.to].title = id.title
      BY <1>4 DEF IsId
    <3> QED
      BY <1>2, <1>4, <3>1, UniqueIsNew DEF ListsFit, Planned
  <2>3. k = [dialog EXCEPT !.at = "save", !.new = new, !.drop = {id}] /\ entry.id = new
    OBVIOUS
  <2>4. ListsFit(p) /\ p.texts = {t \in lists.texts : ~(t.profile = lang /\ t.id \in {id})}
    BY <1>2, DroppedFits
  <2> DEFINE bookmarks == IF id \in lists.marks THEN p.marks \cup {new} ELSE p.marks
  <2>5. lists' = [p EXCEPT !.texts = p.texts \cup {entry}, !.marks = bookmarks]
    BY <2>1 DEF MovedTo
  <2> HIDE DEF k, p, entry, new, bookmarks
  <2>6. IsTask(k) /\ k.op = "move" /\ k.at = "save" /\ k.id = id /\ k.new = new
    BY <1>1, <1>3, <2>3 DEF IsTask
  <2>7. DialogFits(k)
    BY <1>4, <2>2, <2>6 DEF DialogFits
  <2>8. TasksFit' /\ dialog' = k
    BY <1>2, <2>1, <2>6, <2>7, OneTaskChanges
  <2>9. lists'.texts = p.texts \cup {entry} /\ IsLists(lists')
    BY <2>4, <2>5 DEF ListsFit, IsLists
  <2>10. ListsFit(lists)'
    <3>1. IsFiniteSet(p.texts \cup {entry})
      BY <2>4, FS_AddElement DEF ListsFit
    <3> QED
      BY <2>2, <2>3, <2>4, <2>9, <3>1 DEF ListsFit
  <2>11. new \in Listed' /\ \A i \in Listed : i # id => i \in Listed'
    BY <2>3, <2>4, <2>9 DEF Listed
  <2>12. \A i : ~Awaits(i)'
    BY <2>6, <2>8 DEF Awaits
  <2>13. CASE Astray'
    BY <1>1, <1>2, <2>8, <2>10, <2>13 DEF ShelfIInv
  <2>14. CASE ~Astray'
    <3>1. ~Astray /\ (new = dialog.new \/ dialog.new \in Listed)
      BY <2>1, <2>14 DEF Astray
    <3>2. dialog.new \in Listed'
      BY <1>4, <2>11, <3>1
    <3>3. AllHaveHomes'
      <4>1. ASSUME NEW c \in known PROVE c # NoBody /\ HasHome(c)'
        <5>1. c # NoBody /\ HasHome(c)
          BY <3>1 DEF ShelfIInv, AllHaveHomes
        <5>2. PICK t \in disk.texts : HomeOf(c, t)
          BY <5>1 DEF HasHome
        <5>3. PICK u \in disk.texts : u.id \in Listed' /\ u.body = c
          <6>1. CASE t.id = id
            BY <1>1, <3>1, <3>2, <5>2, <6>1 DEF ShelfIInv, CopyIsStored, HomeOf
          <6>2. CASE t.id # id
            BY <2>11, <5>2, <6>2 DEF HomeOf
          <6> QED
            BY <6>1, <6>2
        <5>4. HomeOf(c, u)'
          BY <2>12, <5>3 DEF HomeOf
        <5> QED
          BY <1>1, <5>1, <5>4 DEF HasHome
      <4> QED
        BY <1>1, <4>1 DEF AllHaveHomes
    <3>4. RemovedIsGivenUp' /\ CopyIsStored'
      BY <2>6, <2>8 DEF RemovedIsGivenUp, CopyIsStored
    <3> QED
      BY <1>1, <1>2, <2>8, <2>10, <3>3, <3>4 DEF ShelfIInv
  <2> QED
    BY <2>13, <2>14
<1> QED
  BY <1>5, <1>6

-------------------------------------------------------------------------------
(* Operations go on.                                                       *)

LEMMA AutosaveKeeps ==
  ASSUME ShelfIInv, Autosave
  PROVE  ShelfIInv'
<1>1. UNCHANGED <<lang, lists, tasks, known>> /\ Store
  BY DEF Autosave
<1>2. TasksFit' /\ dialog' = dialog /\ ListsFit(lists)' /\ Listed' = Listed
  BY <1>1 DEF ShelfIInv, TasksFit, dialog, background, Listed
<1> QED
  BY <1>1, <1>2, IdleIsOnward, SavesKeep

\* After its save an operation is over, or has only to look again or to delete.
LEMMA AfterSave ==
  ASSUME ShelfIInv, NEW slot \in Slots, tasks[slot].at = "save",
         \/ Ends(slot)
         \/ Goes(slot, "reload")
         \/ Goes(slot, "cleanup") /\ tasks[slot].op # "import"
  PROVE  TasksFit' /\ Onward
<1>1. TasksFit
  BY DEF ShelfIInv
<1>2. CASE Ends(slot)
  <2> HIDE DEF Idle
  <2>1. TasksFit' /\ (dialog' = Idle \/ dialog' = dialog)
    BY <1>1, <1>2, EndedTask DEF Slots
  <2> QED
    BY <2>1, IdleIsOnward
<1>3. ASSUME NEW at \in {"reload", "cleanup"}, Goes(slot, at), at = "cleanup" => tasks[slot].op # "import"
      PROVE  TasksFit' /\ Onward
  <2>1. tasks[slot] # Idle
    BY IdleFits
  <2>2. CASE slot = "dialog"
    <3> DEFINE k == [dialog EXCEPT !.at = at]
    <3>1. /\ k.op = dialog.op /\ k.at = at /\ k.id = dialog.id /\ k.new = dialog.new
          /\ k.drop = dialog.drop
      BY <1>1 DEF TasksFit, IsTask
    <3>2. k = [dialog EXCEPT !.at = at] /\ dialog = tasks[slot]
      BY <2>2 DEF dialog
    <3> HIDE DEF k
    <3>3. DialogFits(k)
      BY <1>1, <1>3, <2>1, <3>1, <3>2 DEF TasksFit, DialogFits
    <3>4. TasksFit' /\ dialog' = k
      BY <1>1, <1>3, <2>1, <2>2, <3>2, <3>3, GoneOnTask
    <3>5. Onward
      BY <1>3, <3>1, <3>4 DEF Onward, Awaits
    <3> QED
      BY <3>4, <3>5
  <2>3. CASE slot = "background"
    <3> DEFINE k == [background EXCEPT !.at = at]
    <3>1. k.op = background.op /\ k.at = at /\ k.id = background.id
      BY <1>1 DEF TasksFit, IsTask
    <3>2. k = [background EXCEPT !.at = at] /\ background = tasks[slot]
      BY <2>3 DEF background
    <3> HIDE DEF k
    <3>3. BackgroundFits(k)
      BY <1>1, <1>3, <2>1, <3>1, <3>2 DEF TasksFit, BackgroundFits
    <3>4. TasksFit' /\ dialog' = dialog
      BY <1>1, <1>3, <2>1, <2>3, <3>2, <3>3, GoneOnTask
    <3> QED
      BY <3>4, IdleIsOnward
  <2> QED
    BY <2>2, <2>3 DEF Slots
<1> QED
  BY <1>2, <1>3

LEMMA SaveSucceedsKeeps ==
  ASSUME ShelfIInv, NEW slot \in Slots, SaveSucceeds(slot)
  PROVE  ShelfIInv'
<1>1. Store /\ UNCHANGED <<lang, known>> /\ tasks[slot].at = "save"
  BY DEF SaveSucceeds
<1>2. TasksFit' /\ Onward
  BY AfterSave DEF SaveSucceeds
<1>3. ListsFit(lists)' /\ Listed \subseteq Listed'
  <2>1. CASE lists' = lists
    BY <2>1 DEF ShelfIInv, Listed
  <2>2. CASE Snapshot(Saved)
    <3>1. TextsFit(Saved) /\ \A i \in Listed : \E u \in Saved.texts : u.id = i
      BY SavedFits
    <3>2. ListsFit(lists)' /\ Listed' = {t.id : t \in Saved.texts}
      BY <2>2, <3>1, SnapshotFits
    <3> QED
      BY <3>1, <3>2
  <2> QED
    BY <2>1, <2>2 DEF SaveSucceeds
<1> QED
  BY <1>1, <1>2, <1>3, SavesKeep

LEMMA SaveFailsKeeps ==
  ASSUME ShelfIInv, NEW slot \in Slots, SaveFails(slot)
  PROVE  ShelfIInv'
<1>1. tasks[slot].at = "save" /\ UNCHANGED <<lang, lists, known>>
  BY DEF SaveFails, shown
<1>2. TasksFit' /\ Onward
  BY AfterSave DEF SaveFails
<1>3. CASE Store
  BY <1>1, <1>2, <1>3, SavesKeep DEF ShelfIInv, Listed
<1>4. CASE UNCHANGED <<files, overtaken>>
  BY <1>1, <1>2, <1>4, TextsAlone DEF ShelfIInv, ListsFit, files
<1> QED
  BY <1>3, <1>4 DEF SaveFails

\* A snapshot lists whatever is in the store.
LEMMA ReloadedKeeps ==
  ASSUME ShelfIInv, NEW slot \in Slots, Reloaded(slot)
  PROVE  ShelfIInv'
<1>1. /\ tasks[slot].at = "reload" /\ Snapshot(disk) /\ UNCHANGED <<lang, disk, known>>
      /\ overtaken \subseteq overtaken'
  BY DEF Reloaded, history
<1>2. TextsFit(disk) /\ TasksFit
  BY DEF ShelfIInv
<1>3. tasks[slot] # Idle
  BY <1>1, IdleFits
<1>4. TasksFit' /\ Onward
  <2>1. CASE Ends(slot)
    <3> HIDE DEF Idle
    <3>1. TasksFit' /\ (dialog' = Idle \/ dialog' = dialog)
      BY <1>2, <2>1, EndedTask DEF Slots
    <3> QED
      BY <3>1, IdleIsOnward
  <2>2. CASE ~Ends(slot)
    <3>1. /\ tasks[slot].op = "move"
          /\ tasks' = [tasks EXCEPT ![slot] =
                         [tasks[slot] EXCEPT !.at = "cleanup", !.drop = {tasks[slot].new}]]
      BY <2>2 DEF Reloaded
    <3>2. slot = "dialog" /\ tasks[slot] = dialog
      BY <1>2, <1>3, <3>1 DEF TasksFit, BackgroundFits, Slots, background, dialog
    <3> DEFINE k == [dialog EXCEPT !.at = "cleanup", !.drop = {dialog.new}]
    <3>3. IsTask(k) /\ k.op = "move" /\ k.at = "cleanup" /\ k.id = dialog.id /\ k.new = dialog.new
      <4> DEFINE drop == {dialog.new}
      <4>1. IsTask(dialog) /\ dialog.op = "move"
        BY <1>2, <3>1, <3>2 DEF TasksFit
      <4>2. k = [dialog EXCEPT !.at = "cleanup", !.drop = drop]
        OBVIOUS
      <4> HIDE DEF k, drop
      <4> QED
        BY <4>1, <4>2 DEF IsTask
    <3>4. tasks' = [tasks EXCEPT ![slot] = k]
      BY <3>1, <3>2
    <3> HIDE DEF k
    <3>5. DialogFits(k)
      BY <1>2, <1>3, <3>1, <3>2, <3>3 DEF TasksFit, DialogFits
    <3>6. TasksFit' /\ dialog' = k
      BY <1>2, <3>2, <3>3, <3>4, <3>5, OneTaskChanges
    <3> QED
      BY <3>3, <3>6 DEF Onward, Awaits
  <2> QED
    BY <2>1, <2>2
<1>5. ListsFit(lists)' /\ Listed' = {t.id : t \in disk.texts}
  BY <1>1, <1>2, SnapshotFits
<1>6. CASE Astray
  <2>1. Astray'
    BY <1>1, <1>6 DEF Astray
  <2> QED
    BY <1>1, <1>4, <1>5, <2>1 DEF ShelfIInv
<1>7. CASE AllHaveHomes /\ RemovedIsGivenUp /\ CopyIsStored
  <2>1. AllHaveHomes'
    <3>1. ASSUME NEW c \in known PROVE c # NoBody /\ HasHome(c)'
      <4>1. c # NoBody /\ HasHome(c)
        BY <1>7 DEF AllHaveHomes
      <4>2. PICK t \in disk.texts : HomeOf(c, t)
        BY <4>1 DEF HasHome
      <4>3. HomeOf(c, t)'
        BY <1>4, <1>5, <4>2 DEF HomeOf, Onward
      <4> QED
        BY <1>1, <4>1, <4>3 DEF HasHome
    <3> QED
      BY <1>1, <3>1 DEF AllHaveHomes
  <2>2. RemovedIsGivenUp' /\ CopyIsStored'
    BY <1>1, <1>4, <1>7 DEF RemovedIsGivenUp, CopyIsStored, Onward
  <2> QED
    BY <1>1, <1>4, <1>5, <2>1, <2>2 DEF ShelfIInv
<1> QED
  BY <1>6, <1>7 DEF ShelfIInv

\* What is deleted in the end is nobody's home.
LEMMA DeleteLeftKeeps ==
  ASSUME ShelfIInv, NEW slot \in Slots, DeleteLeft(slot)
  PROVE  ShelfIInv'
<1>1. tasks[slot].at = "cleanup" /\ UNCHANGED <<lang, lists, known, overtaken>>
  BY DEF DeleteLeft, shown, history
<1>2. TextsFit(disk) /\ TasksFit /\ tasks[slot] # Idle
  BY <1>1, IdleFits DEF ShelfIInv
<1>3. slot = "dialog" /\ tasks[slot] = dialog /\ dialog # Idle
  BY <1>1, <1>2 DEF TasksFit, BackgroundFits, Slots, background, dialog
<1>4. CASE dialog.drop = {}
  BY <1>1, <1>3, <1>4, EndingKeeps DEF DeleteLeft
<1>5. CASE dialog.drop # {}
  <2>1. PICK id \in dialog.drop :
          /\ tasks' = [tasks EXCEPT ![slot] = [tasks[slot] EXCEPT !.drop = tasks[slot].drop \ {id}]]
          /\ \/ /\ dialog.op = "remove" \/ ~\E t \in lists.texts : t.id = id
                /\ DeleteText(id)
             \/ UNCHANGED disk
    BY <1>3, <1>5 DEF DeleteLeft
  <2> DEFINE k == [dialog EXCEPT !.drop = dialog.drop \ {id}]
  <2>2. /\ IsTask(k) /\ k.op = dialog.op /\ k.at = "cleanup" /\ k.id = dialog.id /\ k.new = dialog.new
        /\ k.drop \subseteq dialog.drop
    <3>1. IsTask(dialog) /\ dialog.at = "cleanup"
      BY <1>1, <1>2, <1>3 DEF TasksFit
    <3> QED
      BY <3>1 DEF IsTask
  <2>3. tasks' = [tasks EXCEPT ![slot] = k]
    BY <1>3, <2>1
  <2> HIDE DEF k
  <2>4. DialogFits(k)
    BY <1>1, <1>2, <1>3, <2>2 DEF TasksFit, DialogFits
  <2>5. TasksFit' /\ dialog' = k
    BY <1>2, <1>3, <2>2, <2>3, <2>4, OneTaskChanges
  <2>6. /\ TextsFit(disk)' /\ disk'.texts \subseteq disk.texts
        /\ \/ dialog.op = "remove" \/ id \notin Listed
           \/ disk'.texts = disk.texts
        /\ \A t \in disk.texts : t.id # id => t \in disk'.texts
    <3>1. CASE UNCHANGED disk
      BY <1>2, <3>1
    <3>2. CASE /\ dialog.op = "remove" \/ ~\E t \in lists.texts : t.id = id
               /\ DeleteText(id)
      <4> DEFINE rest == Without(disk.texts, id)
      <4>1. disk' = [disk EXCEPT !.texts = rest]
        BY <3>2 DEF DeleteText
      <4>2. rest \subseteq disk.texts /\ \A t \in disk.texts : t.id # id => t \in rest
        BY DEF Without
      <4> HIDE DEF rest
      <4>3. disk'.texts = rest /\ IsLists(disk')
        BY <1>2, <4>1 DEF TextsFit, ListsFit, IsLists
      <4>4. IsFiniteSet(rest)
        BY <1>2, <4>2, FS_Subset DEF TextsFit, ListsFit
      <4>5. TextsFit(disk')
        BY <1>2, <4>2, <4>3, <4>4 DEF TextsFit, ListsFit
      <4>6. dialog.op = "remove" \/ id \notin Listed
        BY <3>2 DEF Listed
      <4> QED
        BY <4>2, <4>3, <4>5, <4>6
    <3> QED
      BY <2>1, <3>1, <3>2
  <2>7. ListsFit(lists)' /\ Listed' = Listed /\ lang' \in Langs
    BY <1>1 DEF ShelfIInv, Listed
  <2>8. CASE Astray
    <3>1. Astray'
      BY <1>1, <2>8 DEF Astray
    <3> QED
      BY <2>5, <2>6, <2>7, <3>1 DEF ShelfIInv
  <2>9. CASE AllHaveHomes /\ RemovedIsGivenUp
    <3>1. AllHaveHomes'
      <4>1. ASSUME NEW c \in known PROVE c # NoBody /\ HasHome(c)'
        <5>1. c # NoBody /\ HasHome(c)
          BY <2>9 DEF AllHaveHomes
        <5>2. PICK t \in disk.texts : HomeOf(c, t)
          BY <5>1 DEF HasHome
        <5>3. t \in disk'.texts
          BY <2>1, <2>6, <2>9, <5>2 DEF HomeOf, RemovedIsGivenUp
        <5>4. HomeOf(c, t)'
          BY <2>2, <2>5, <2>7, <5>2 DEF HomeOf, Awaits
        <5> QED
          BY <5>1, <5>3, <5>4 DEF HasHome
      <4> QED
        BY <1>1, <4>1 DEF AllHaveHomes
    <3>2. RemovedIsGivenUp'
      BY <1>1, <2>2, <2>5, <2>6, <2>9 DEF RemovedIsGivenUp
    <3>3. CopyIsStored'
      BY <2>2, <2>5 DEF CopyIsStored
    <3> QED
      BY <2>5, <2>6, <2>7, <3>1, <3>2, <3>3 DEF ShelfIInv
  <2> QED
    BY <2>8, <2>9 DEF ShelfIInv
<1> QED
  BY <1>4, <1>5

-------------------------------------------------------------------------------
(* The theorem.                                                            *)

LEMMA LibraryInitKeeps ==
  ASSUME LibraryInit
  PROVE  ShelfIInv
<1> DEFINE title == CHOOSE x \in Titles : TRUE
           l == CHOOSE x \in Langs : TRUE
           id == Own(l, title)
           c == Imported(id, 1)
<1>1. title \in Titles /\ l \in Langs
  BY LibraryAssumption
<1> HIDE DEF title, l
<1>2. id = [lang |-> l, title |-> title, n |-> <<>>] /\ <<>> \in Seq(Nat)
  BY DEF Own
<1> HIDE DEF id
<1>3. IsId(id) /\ id.title \in Titles
  BY <1>1, <1>2 DEF IsId
<1>4. c # NoBody /\ c[2] = id.title
  BY <1>3, ImportedFits
<1> HIDE DEF c
<1> DEFINE entry == [profile |-> l, id |-> id, lang |-> l]
           text == [id |-> id, lang |-> l, body |-> c]
           books == {[profile |-> l, id |-> Own("user", b)] : b \in UserBooks}
           p == [texts |-> {entry}, books |-> books, archived |-> {}, hidden |-> {}, marks |-> {id}]
<1>5. /\ lists = p /\ disk = [p EXCEPT !.texts = {text}] /\ lang = l
      /\ tasks = [s \in Slots |-> Idle] /\ known = {c}
  BY DEF LibraryInit, title, l, id, c
<1>6. entry.id = id /\ text.id = id /\ text.body = c
  OBVIOUS
<1>7. p.texts = {entry} /\ IsLists(p)
  <2> HIDE DEF entry, books
  <2> QED
    BY DEF IsLists
<1> HIDE DEF entry, text, p
<1>8. disk.texts = {text} /\ IsLists(disk) /\ lists.texts = {entry} /\ IsLists(lists)
  BY <1>5, <1>7 DEF IsLists
<1>9. ListsFit(lists) /\ id \in Listed
  <2>1. IsFiniteSet({entry})
    BY FS_Singleton
  <2>2. ListsFit(lists)
    BY <1>3, <1>6, <1>8, <2>1 DEF ListsFit
  <2> QED
    BY <1>6, <1>8, <2>2 DEF Listed
<1>10. TextsFit(disk)
  <2>1. IsFiniteSet({text})
    BY FS_Singleton
  <2>2. BodyFits(text)
    BY <1>3, <1>4, <1>6 DEF BodyFits
  <2> QED
    BY <1>3, <1>6, <1>8, <2>1, <2>2 DEF TextsFit, ListsFit
<1> HIDE DEF Idle
<1>11. dialog = Idle /\ background = Idle /\ tasks = [s \in Slots |-> tasks[s]]
  BY <1>5 DEF dialog, background, Slots
<1>12. TasksFit
  BY <1>11, IdleFits DEF TasksFit
<1>13. AllHaveHomes
  <2>1. HomeOf(c, text)
    BY <1>6, <1>9, <1>11, IdleFits DEF HomeOf, Awaits
  <2> QED
    BY <1>4, <1>5, <1>8, <2>1 DEF AllHaveHomes, HasHome
<1>14. RemovedIsGivenUp /\ CopyIsStored
  BY <1>11, IdleFits DEF RemovedIsGivenUp, CopyIsStored
<1> QED
  BY <1>1, <1>5, <1>9, <1>10, <1>12, <1>13, <1>14 DEF ShelfIInv

LEMMA LibraryStepKeeps ==
  ASSUME ShelfIInv, [LibraryNext]_libraryVars
  PROVE  ShelfIInv'
<1>1. ASSUME NEW id \in Listed, RemoveText(id) \/ Read(id) \/ \E to \in Langs : Move(id, to)
      PROVE  ShelfIInv'
  BY <1>1, RemoveTextKeeps, OtherBooksKeep, MoveKeeps
<1>2. ASSUME NEW id, NEW on, Archive(id, on)
      PROVE  ShelfIInv'
  BY <1>2, OtherBooksKeep
<1>3. ASSUME NEW b \in UserBooks,
             AddBook(b) \/ RemoveBook(b) \/ LoadFull(b) \/ \E to \in Langs : MoveBook(b, to)
      PROVE  ShelfIInv'
  BY <1>3, OtherBooksKeep, RemoveBookKeeps, LoadFullKeeps, MoveBookKeeps
<1>4. ASSUME NEW b \in Catalog, Hide(b)
      PROVE  ShelfIInv'
  BY <1>4, OtherBooksKeep
<1>5. ASSUME NEW l \in Langs, SwitchLanguage(l)
      PROVE  ShelfIInv'
  BY <1>5, OtherBooksKeep
<1>6. ASSUME NEW title \in Titles, Import(title)
      PROVE  ShelfIInv'
  BY <1>6, ImportKeeps
<1>7. CASE Loaded \/ MoveListed \/ Autosave
  BY <1>7, LoadedKeeps, MoveListedKeeps, AutosaveKeeps
<1>8. ASSUME NEW slot \in Slots, Stored(slot)
      PROVE  ShelfIInv'
  BY <1>8, OwnStoredKeeps, FullStoredKeeps DEF Stored, Slots
<1>9. ASSUME NEW slot \in Slots, Fetched(slot) \/ ImportListed(slot) \/ UpsertFails(slot) \/ ReloadFails(slot)
      PROVE  ShelfIInv'
  BY <1>9, FetchedKeeps, ImportListedKeeps, FailuresKeep
<1>10. ASSUME NEW slot \in Slots,
              SaveSucceeds(slot) \/ SaveFails(slot) \/ Reloaded(slot) \/ DeleteLeft(slot)
       PROVE  ShelfIInv'
  BY <1>10, SaveSucceedsKeeps, SaveFailsKeeps, ReloadedKeeps, DeleteLeftKeeps
<1>11. CASE UNCHANGED libraryVars
  BY <1>11, TasksAlone DEF libraryVars, shown, files, history, ShelfIInv, ListsFit
<1> QED
  BY <1>1, <1>2, <1>3, <1>4, <1>5, <1>6, <1>7, <1>8, <1>9, <1>10, <1>11 DEF LibraryNext

\* The texts of the library, whatever the learner does and whichever request
\* fails: each that was listed has a home in the store no operation is about
\* to overwrite, a removal deletes nothing that must be kept, and a move has
\* its copy (custom-text.ts, library-ops.ts).
THEOREM LibraryInvariance == LibrarySpec => []ShelfIInv
<1>1. LibraryInit => ShelfIInv
  BY LibraryInitKeeps
<1>2. ShelfIInv /\ [LibraryNext]_libraryVars => ShelfIInv'
  BY LibraryStepKeeps
<1> QED
  BY <1>1, <1>2, PTL DEF LibrarySpec

\* A text that was stored and listed stays in the store whole until the
\* learner removes it (importCustomText, moveBookToProfile, removeCustomText).
THEOREM BooksStayWhole == LibrarySpec => []TextsAreKept
<1>1. ShelfIInv => TextsAreKept
  <2>1. CASE Astray
    BY <2>1 DEF Astray, TextsAreKept
  <2>2. CASE AllHaveHomes
    BY <2>2 DEF AllHaveHomes, HasHome, HomeOf, TextsAreKept
  <2> QED
    BY <2>1, <2>2 DEF ShelfIInv
<1> QED
  BY <1>1, LibraryInvariance, PTL

-------------------------------------------------------------------------------
(* Bookmarks and places.  As long as no move is overtaken, what was saved  *)
(* with a bookmark and a place has both in the lists, and would have them  *)
(* if the lists were those of the store again.                             *)

\* A move whose lists may have to go back to what they were.
Moving == dialog.op = "move" /\ dialog.at \in {"save", "reload"}
Back == IF Moving THEN places \cup dialog.places ELSE places

ShownAt(c, t) == HomeOf(c, t) /\ t.id \in lists.marks \cap places
SavedAt(c, t) ==
  /\ t.body = c /\ t.id \in disk.marks \cap Back /\ ~Awaits(t.id)
  /\ t.id \in Listed \/ Moving
Placed(c) == (\E t \in disk.texts : ShownAt(c, t)) /\ (\E t \in disk.texts : SavedAt(c, t))
AllArePlaced == \A c \in bookmarked : Placed(c)

\* A move remembers the places of before, and that of a book no less of own texts.
PlacesAreRemembered ==
  /\ dialog.op = "move" /\ dialog.at \in {"load", "upsert", "stored"} => dialog.places = places
  /\ dialog.op = "moveBook" => \A i \in dialog.places : i.title \in Titles => i \in places

\* A text with a place and a bookmark is listed, or at least stored.
AwaitedIsNew == \A i \in places \cap (lists.marks \cup disk.marks) : ~Awaits(i)
MarkedIsListed ==
  /\ \A i \in Back \cap lists.marks : i.title \in Titles => i \in Listed
  /\ \A i \in places \cap disk.marks : i.title \in Titles => i \in Listed \/ Moving
MarkedIsStored ==
  \A i \in Back \cap disk.marks : i.title \in Titles => \E t \in disk.texts : t.id = i
CopyIsThere ==
  dialog.op = "move" /\ dialog.at = "stored" => \E t \in disk.texts : t.id = dialog.new
RemovedHasNoPlace == dialog.op = "remove" => dialog.drop \cap places = {}

\* The books without a text are no texts.
NoText(x) == x.id.title \notin Titles /\ x.id.lang = "user"
BooksFit == (\A x \in lists.books : NoText(x)) /\ (\A x \in disk.books : NoText(x))

PlacesHold ==
  /\ AllArePlaced /\ PlacesAreRemembered /\ AwaitedIsNew /\ MarkedIsListed /\ MarkedIsStored
  /\ CopyIsThere /\ RemovedHasNoPlace

MarksIInv ==
  /\ BooksFit /\ bookmarked \subseteq known
  /\ overtaken = {} => PlacesHold

\* Nothing is overtaken: what is known of the texts holds.
LEMMA NothingIsAstray ==
  ASSUME ShelfIInv, overtaken = {}
  PROVE  AllHaveHomes /\ RemovedIsGivenUp /\ CopyIsStored
BY DEF ShelfIInv, Astray

\* An operation that goes on asks for nothing more of bookmarks and places.
OnwardPlaces ==
  /\ \A i : Awaits(i)' => Awaits(i) \/ (i \notin Listed /\ i.title \in Titles /\ ~Moving)
  /\ Moving' <=> Moving
  /\ Moving => dialog'.places = dialog.places
  /\ dialog'.op = "remove" => dialog.op = "remove" /\ dialog'.drop \subseteq dialog.drop
  /\ dialog'.op = "move" /\ dialog'.at = "stored" => dialog' = dialog
  /\ PlacesAreRemembered => PlacesAreRemembered'

LEMMA IdleIsOnwardPlaces ==
  ASSUME dialog' = dialog \/ (dialog' = Idle /\ ~Moving), places' = places
  PROVE  OnwardPlaces
<1>1. CASE dialog' = Idle /\ ~Moving
  <2>1. dialog'.op = "idle" /\ dialog'.at = ""
    BY <1>1, IdleFits
  <2>2. ~Moving'
    BY <2>1 DEF Moving
  <2>3. PlacesAreRemembered'
    BY <2>1 DEF PlacesAreRemembered
  <2>4. \A i : ~Awaits(i)'
    BY <2>1 DEF Awaits
  <2> QED
    BY <1>1, <2>1, <2>2, <2>3, <2>4 DEF OnwardPlaces
<1>2. CASE dialog' = dialog
  <2>1. Moving' <=> Moving
    BY <1>2 DEF Moving
  <2>2. \A i : Awaits(i)' <=> Awaits(i)
    BY <1>2 DEF Awaits, Upserted
  <2>3. PlacesAreRemembered => PlacesAreRemembered'
    BY <1>2 DEF PlacesAreRemembered
  <2> QED
    BY <1>2, <2>1, <2>2, <2>3 DEF OnwardPlaces
<1> QED
  BY <1>1, <1>2

\* A step that leaves the store and bookmarks and places alone.
LEMMA PlacesStayKept ==
  ASSUME MarksIInv, OnwardPlaces, UNCHANGED <<disk, places, bookmarked>>, known \subseteq known',
         Listed \subseteq Listed', lists'.marks = lists.marks, \A x \in lists'.books : NoText(x),
         overtaken \subseteq overtaken'
  PROVE  MarksIInv'
<1>1. BooksFit' /\ bookmarked' \subseteq known'
  BY DEF MarksIInv, BooksFit, NoText
<1>2. Listed \subseteq Listed'
  OBVIOUS
<1>3. ASSUME PlacesHold PROVE PlacesHold'
  <2>1. Back' = Back
    <3>1. CASE Moving
      BY <3>1 DEF OnwardPlaces, Back
    <3>2. CASE ~Moving
      BY <3>2 DEF OnwardPlaces, Back
    <3> QED
      BY <3>1, <3>2
  <2>2. AllArePlaced'
    <3>1. ASSUME NEW c \in bookmarked PROVE Placed(c)'
      <4>1. PICK t \in disk.texts : ShownAt(c, t)
        BY <1>3 DEF PlacesHold, AllArePlaced, Placed
      <4>2. PICK u \in disk.texts : SavedAt(c, u)
        BY <1>3 DEF PlacesHold, AllArePlaced, Placed
      <4>3. ShownAt(c, t)'
        BY <1>2, <4>1 DEF ShownAt, HomeOf, OnwardPlaces
      <4>4. ~Awaits(u.id)' /\ (u.id \in Listed \/ Moving')
        BY <4>2 DEF SavedAt, OnwardPlaces
      <4>5. SavedAt(c, u)'
        BY <1>2, <2>1, <4>2, <4>4 DEF SavedAt
      <4> QED
        BY <4>3, <4>5 DEF Placed
    <3> QED
      BY <3>1 DEF AllArePlaced
  <2>3. AwaitedIsNew'
    <3> SUFFICES ASSUME NEW i \in places, i \in lists.marks \cup disk.marks, Awaits(i)'
                 PROVE  FALSE
      BY DEF AwaitedIsNew
    <3>1. ~Awaits(i)
      BY <1>3 DEF PlacesHold, AwaitedIsNew
    <3>2. i \notin Listed /\ i.title \in Titles /\ ~Moving
      BY <3>1 DEF OnwardPlaces
    <3> QED
      BY <1>3, <3>2 DEF PlacesHold, MarkedIsListed, Back
  <2>4. MarkedIsListed' /\ MarkedIsStored'
    <3>1. Moving' <=> Moving
      BY DEF OnwardPlaces
    <3>2. MarkedIsListed'
      <4>1. CASE Moving
        BY <1>2, <1>3, <2>1, <3>1, <4>1 DEF PlacesHold, MarkedIsListed
      <4>2. CASE ~Moving
        BY <1>2, <1>3, <2>1, <3>1, <4>2 DEF PlacesHold, MarkedIsListed
      <4> QED
        BY <4>1, <4>2
    <3> QED
      BY <1>3, <2>1, <3>2 DEF PlacesHold, MarkedIsStored
  <2>5. CopyIsThere' /\ RemovedHasNoPlace' /\ PlacesAreRemembered'
    BY <1>3 DEF PlacesHold, CopyIsThere, RemovedHasNoPlace, OnwardPlaces
  <2> QED
    BY <2>2, <2>3, <2>4, <2>5 DEF PlacesHold
<1> QED
  BY <1>1, <1>3 DEF MarksIInv

LEMMA PlacesAlone ==
  ASSUME MarksIInv, OnwardPlaces, UNCHANGED <<disk, places, bookmarked, known>>,
         lists'.texts = lists.texts, lists'.marks = lists.marks, \A x \in lists'.books : NoText(x),
         overtaken \subseteq overtaken'
  PROVE  MarksIInv'
BY PlacesStayKept DEF Listed

\* A save keeps bookmarks and places, and then the store has them.
LEMMA SavesKeepPlaces ==
  ASSUME ShelfIInv, MarksIInv, Store, UNCHANGED <<known, places>>,
         lists'.marks = lists.marks, \A x \in lists'.books : NoText(x), Listed \subseteq Listed',
         \A i : Awaits(i)' => Awaits(i),
         Moving' => Moving /\ dialog'.places = dialog.places,
         dialog'.op = "remove" => dialog.op = "remove" /\ dialog'.drop \subseteq dialog.drop,
         dialog'.op = "move" /\ dialog'.at = "stored" => dialog' = dialog,
         PlacesAreRemembered => PlacesAreRemembered'
  PROVE  MarksIInv'
<1>1. disk' = Saved /\ overtaken \subseteq overtaken' /\ IsLists(lists)
  BY DEF Store, ShelfIInv, ListsFit
<1>2. disk'.marks = lists.marks /\ disk'.books = lists.books
  BY <1>1 DEF Saved, IsLists
<1>3. BooksFit'
  BY <1>2 DEF MarksIInv, BooksFit, NoText
<1> DEFINE saved == {c \in known : \E t \in Saved.texts :
                        t.body = c /\ t.id \in Listed \cap lists.marks \cap places}
<1>4. bookmarked' = bookmarked \cup saved
  BY DEF Store
<1>5. bookmarked' \subseteq known'
  BY <1>4 DEF MarksIInv
<1>6. ASSUME overtaken' = {}, PlacesHold PROVE PlacesHold'
  <2>1. Back' \subseteq Back /\ places \subseteq Back'
    BY DEF Back
  <2>2. ASSUME NEW c, NEW u \in disk'.texts, u.body = c, u.id \in Listed, ~Awaits(u.id),
               u.id \in lists.marks \cap places
        PROVE  Placed(c)'
    <3>1. ShownAt(c, u)'
      BY <2>2 DEF ShownAt, HomeOf
    <3>2. SavedAt(c, u)'
      BY <1>2, <2>1, <2>2 DEF SavedAt
    <3> QED
      BY <2>2, <3>1, <3>2 DEF Placed
  <2>3. AllArePlaced'
    <3>1. ASSUME NEW c \in bookmarked PROVE Placed(c)'
      <4>1. PICK t \in disk.texts : ShownAt(c, t)
        BY <1>6 DEF PlacesHold, AllArePlaced, Placed
      <4>2. PICK u \in Saved.texts : u.id = t.id /\ u.body = t.body
        BY <4>1, SavedFits DEF ShownAt, HomeOf
      <4> QED
        BY <1>1, <2>2, <4>1, <4>2 DEF ShownAt, HomeOf
    <3>2. ASSUME NEW c \in saved PROVE Placed(c)'
      <4>1. PICK u \in Saved.texts : u.body = c /\ u.id \in Listed \cap lists.marks \cap places
        OBVIOUS
      <4>2. ~Awaits(u.id)
        BY <1>6, <4>1 DEF PlacesHold, AwaitedIsNew
      <4> QED
        BY <1>1, <2>2, <4>1, <4>2
    <3> QED
      BY <1>4, <3>1, <3>2 DEF AllArePlaced
  <2>4. AwaitedIsNew'
    BY <1>2, <1>6 DEF PlacesHold, AwaitedIsNew
  <2>5. MarkedIsListed'
    BY <1>2, <1>6, <2>1 DEF PlacesHold, MarkedIsListed
  <2>6. MarkedIsStored'
    <3> SUFFICES ASSUME NEW i \in Back', i \in lists.marks, i.title \in Titles
                 PROVE  \E t \in disk'.texts : t.id = i
      BY <1>2 DEF MarkedIsStored
    <3>1. i \in Listed
      BY <1>6, <2>1 DEF PlacesHold, MarkedIsListed
    <3> QED
      BY <1>1, <3>1, SavedFits
  <2>7. CopyIsThere'
    <3> SUFFICES ASSUME dialog'.op = "move", dialog'.at = "stored"
                 PROVE  \E u \in disk'.texts : u.id = dialog'.new
      BY DEF CopyIsThere
    <3>1. dialog' = dialog
      OBVIOUS
    <3>2. PICK w \in disk.texts : w.id = dialog.new
      BY <1>6, <3>1 DEF PlacesHold, CopyIsThere
    <3>3. ~(dialog.new \in base \ Listed)
      <4>1. SUFFICES ASSUME dialog.new \in base \ Listed PROVE "erased" \in overtaken'
        BY <1>6
      <4>2. "dialog" \in {x \in Slots : tasks[x].at = "stored" /\ Upserted(tasks[x]) \in base \ Listed}
        BY <3>1, <4>1 DEF Slots, Upserted, dialog
      <4> QED
        BY <4>2 DEF Store
    <3> QED
      BY <1>1, <3>1, <3>2, <3>3, SavedFits
  <2>8. RemovedHasNoPlace' /\ PlacesAreRemembered'
    BY <1>6 DEF PlacesHold, RemovedHasNoPlace
  <2> QED
    BY <2>3, <2>4, <2>5, <2>6, <2>7, <2>8 DEF PlacesHold
<1>7. overtaken' = {} => overtaken = {}
  BY <1>1
<1> QED
  BY <1>3, <1>5, <1>6, <1>7 DEF MarksIInv

\* What is dropped takes its bookmarks along, unless it is still there.
LEMMA DroppedMarks ==
  ASSUME NEW p, ListsFit(p), \A x \in p.books : NoText(x), NEW l, NEW ids
  PROVE  LET q == Dropped(p, l, ids)
         IN  /\ \A x \in q.books : NoText(x)
             /\ q.marks \subseteq p.marks
             /\ \A i \in p.marks : i \notin ids => i \in q.marks
             /\ \A i \in q.marks : i \in ids /\ IsId(i) => \E t \in q.texts : t.id = i
             /\ \A i : Referenced(q, i) /\ IsId(i) => \E t \in q.texts : t.id = i
<1> DEFINE q == Dropped(p, l, ids)
           texts == {t \in p.texts : ~(t.profile = l /\ t.id \in ids)}
           books == {b \in p.books : ~(b.profile = l /\ b.id \in ids)}
           archived == {x \in p.archived : ~(x.profile = l /\ x.id \in ids)}
           left == {x.id : x \in texts} \cup {x.id : x \in books}
           bookmarks == p.marks \ (ids \ left)
<1>1. q = [p EXCEPT !.texts = texts, !.books = books, !.archived = archived, !.marks = bookmarks]
  BY Zenon DEF Dropped
<1>2. IsLists(p)
  BY DEF ListsFit
<1>3. \A x \in books : NoText(x)
  OBVIOUS
<1>4. \A i \in left : (\E t \in texts : t.id = i) \/ (\E b \in books : b.id = i)
  OBVIOUS
<1>5. bookmarks \subseteq p.marks /\ \A i \in p.marks : i \notin ids => i \in bookmarks
  OBVIOUS
<1>6. \A i \in bookmarks : i \in ids => i \in left
  OBVIOUS
<1> HIDE DEF texts, books, archived, left, bookmarks, q
<1>7. q.texts = texts /\ q.books = books /\ q.marks = bookmarks
  BY <1>1, <1>2 DEF IsLists
<1>8. \A x \in books : ~IsId(x.id)
  BY <1>3 DEF NoText, IsId
<1>9. \A i \in q.marks : i \in ids /\ IsId(i) => \E t \in q.texts : t.id = i
  BY <1>4, <1>6, <1>7, <1>8
<1>10. \A i : Referenced(q, i) /\ IsId(i) => \E t \in q.texts : t.id = i
  BY <1>7, <1>8 DEF Referenced
<1> QED
  BY <1>3, <1>5, <1>7, <1>9, <1>10 DEF q

\* A step that changes no operation, or ends one that is not a move to be undone.
LEMMA EndingKeepsPlaces ==
  ASSUME ShelfIInv, MarksIInv, UNCHANGED <<lists, disk, places, bookmarked, known>>,
         overtaken \subseteq overtaken',
         UNCHANGED tasks \/ \E slot \in Slots : Ends(slot) /\ (slot = "dialog" => ~Moving)
  PROVE  MarksIInv'
<1>1. dialog' = dialog \/ (dialog' = Idle /\ ~Moving)
  <2> HIDE DEF Idle
  <2>1. CASE UNCHANGED tasks
    BY <2>1 DEF dialog
  <2>2. ASSUME NEW slot \in Slots, Ends(slot), slot = "dialog" => ~Moving
        PROVE  dialog' = dialog \/ (dialog' = Idle /\ ~Moving)
    BY <2>2, EndedTask DEF ShelfIInv, Slots
  <2> QED
    BY <2>1, <2>2
<1> QED
  BY <1>1, IdleIsOnwardPlaces, PlacesAlone DEF MarksIInv, BooksFit

LEMMA OtherBooksKeepPlaces ==
  ASSUME ShelfIInv, MarksIInv,
         \/ \E b \in UserBooks : AddBook(b)
         \/ \E b : Hide(b)
         \/ \E id, on : Archive(id, on)
         \/ \E l : SwitchLanguage(l)
  PROVE  MarksIInv'
<1>1. IsLists(lists)
  BY DEF ShelfIInv, ListsFit
<1>2. UNCHANGED <<disk, places, bookmarked, known, tasks, overtaken>>
  BY DEF AddBook, Hide, Archive, SwitchLanguage, files, history
<1>3. OnwardPlaces
  BY <1>2, IdleIsOnwardPlaces DEF dialog
<1>4. lists'.texts = lists.texts /\ lists'.marks = lists.marks /\ \A x \in lists'.books : NoText(x)
  <2>1. ASSUME NEW b \in UserBooks, AddBook(b)
        PROVE  lists'.texts = lists.texts /\ lists'.marks = lists.marks /\ \A x \in lists'.books : NoText(x)
    <3> DEFINE new == [profile |-> lang, id |-> Own("user", b)]
               books == lists.books \cup {new}
    <3>1. lists' = [lists EXCEPT !.books = books]
      BY <2>1 DEF AddBook
    <3>2. NoText(new)
      BY LibraryAssumption DEF NoText, Own
    <3>3. \A x \in books : NoText(x)
      BY <3>2 DEF MarksIInv, BooksFit
    <3> HIDE DEF books
    <3> QED
      BY <1>1, <3>1, <3>3 DEF IsLists
  <2>2. ASSUME NEW b, Hide(b)
        PROVE  lists'.texts = lists.texts /\ lists'.marks = lists.marks /\ \A x \in lists'.books : NoText(x)
    BY <1>1, <2>2 DEF Hide, IsLists, MarksIInv, BooksFit
  <2>3. ASSUME NEW id, NEW on, Archive(id, on)
        PROVE  lists'.texts = lists.texts /\ lists'.marks = lists.marks /\ \A x \in lists'.books : NoText(x)
    BY <1>1, <2>3 DEF Archive, IsLists, MarksIInv, BooksFit
  <2>4. ASSUME NEW l, SwitchLanguage(l)
        PROVE  lists'.texts = lists.texts /\ lists'.marks = lists.marks /\ \A x \in lists'.books : NoText(x)
    BY <2>4 DEF SwitchLanguage, MarksIInv, BooksFit
  <2> QED
    BY <2>1, <2>2, <2>3, <2>4
<1> QED
  BY <1>2, <1>3, <1>4, PlacesAlone

LEMMA FailuresKeepPlaces ==
  ASSUME ShelfIInv, MarksIInv, NEW slot \in Slots, UpsertFails(slot) \/ ReloadFails(slot)
  PROVE  MarksIInv'
<1>1. UNCHANGED <<lists, disk, places, bookmarked, known>> /\ overtaken \subseteq overtaken' /\ Ends(slot)
  BY DEF UpsertFails, ReloadFails, shown, files, history
<1>2. CASE slot = "dialog" => ~Moving
  BY <1>1, <1>2, EndingKeepsPlaces
<1>3. CASE slot = "dialog" /\ Moving
  <2>1. overtaken' # {}
    BY <1>3 DEF Moving, UpsertFails, ReloadFails, dialog
  <2> QED
    BY <1>1, <2>1 DEF MarksIInv, BooksFit, NoText
<1> QED
  BY <1>2, <1>3

LEMMA FetchedKeepsPlaces ==
  ASSUME ShelfIInv, MarksIInv, NEW slot \in Slots, Fetched(slot)
  PROVE  MarksIInv'
<1>1. /\ tasks[slot].at = "fetch" /\ UNCHANGED <<lists, disk, places, bookmarked, known, overtaken>>
      /\ TasksFit
  BY DEF Fetched, shown, files, history, ShelfIInv
<1>2. slot = "background"
  BY <1>1, IdleFits DEF TasksFit, DialogFits, dialog, background, Slots
<1>3. CASE Ends(slot)
  BY <1>1, <1>2, <1>3, EndingKeepsPlaces
<1>4. CASE tasks' = [tasks EXCEPT ![slot].at = "upsert", ![slot].to = lang]
  <2>1. dialog' = dialog
    BY <1>1, <1>2, <1>4 DEF TasksFit, dialog, Slots
  <2> QED
    BY <1>1, <2>1, IdleIsOnwardPlaces, PlacesAlone DEF MarksIInv, BooksFit
<1> QED
  BY <1>3, <1>4 DEF Fetched

\* An own text is going to be stored under an id that is not listed.
LEMMA ImportKeepsPlaces ==
  ASSUME ShelfIInv, MarksIInv, NEW title \in Titles, Import(title)
  PROVE  MarksIInv'
<1> DEFINE id == Unique(Own(lang, title))
           k == [Idle EXCEPT !.op = "import", !.at = "upsert", !.to = lang, !.id = id]
<1>1. /\ Begin("dialog", k)
      /\ UNCHANGED <<lists, disk, places, bookmarked, known, overtaken>>
  BY DEF Import, shown, files, history
<1>2. Own(lang, title) = [lang |-> lang, title |-> title, n |-> <<>>] /\ <<>> \in Seq(Nat)
  BY DEF Own
<1>3. IsId(Own(lang, title)) /\ Own(lang, title).title = title
  BY <1>2 DEF IsId
<1>4. id \notin Listed /\ id.title \in Titles
  BY <1>3, UniqueIsNew DEF ShelfIInv, ListsFit
<1>5. k = [Idle EXCEPT !.op = "import", !.at = "upsert", !.to = lang, !.id = id]
  OBVIOUS
<1>6. tasks' = [tasks EXCEPT !["dialog"] = k] /\ dialog = Idle
  BY <1>1 DEF Begin, Free, dialog
<1> HIDE DEF k, id, Idle
<1>7. k.op = "import" /\ k.at = "upsert" /\ k.id = id
  BY <1>5, IdleFits DEF IsTask
<1>8. dialog' = k
  BY <1>6 DEF dialog, ShelfIInv, TasksFit, Slots
<1>9. ~Moving /\ ~Moving'
  BY <1>6, <1>7, <1>8, IdleFits DEF Moving
<1>10. OnwardPlaces
  BY <1>4, <1>7, <1>8, <1>9 DEF OnwardPlaces, Awaits, Upserted, PlacesAreRemembered
<1> QED
  BY <1>1, <1>10, PlacesAlone DEF MarksIInv, BooksFit

LEMMA MoveKeepsPlaces ==
  ASSUME ShelfIInv, MarksIInv, NEW id, NEW to, Move(id, to)
  PROVE  MarksIInv'
<1> DEFINE new == Planned(id, to)
           k == [Idle EXCEPT !.op = "move", !.at = "load", !.id = id, !.to = to, !.new = new,
                             !.places = places, !.current = current]
<1>1. /\ Begin("dialog", k)
      /\ UNCHANGED <<lists, disk, places, bookmarked, known, overtaken>>
  BY DEF Move, shown, files, history
<1>2. id.title \in Titles /\ id \in Listed
  BY DEF Move, InProfile, Listed
<1>3. IsId(id)
  BY <1>2 DEF ShelfIInv, ListsFit, Listed
<1>4. IsId([id EXCEPT !.lang = to]) /\ [id EXCEPT !.lang = to].title = id.title
  BY <1>2, <1>3 DEF IsId
<1>5. new \notin Listed /\ new.title \in Titles
  BY <1>2, <1>4, UniqueIsNew DEF ShelfIInv, ListsFit, Planned
<1>6. k = [Idle EXCEPT !.op = "move", !.at = "load", !.id = id, !.to = to, !.new = new,
                       !.places = places, !.current = current]
  OBVIOUS
<1>7. tasks' = [tasks EXCEPT !["dialog"] = k] /\ dialog = Idle
  BY <1>1 DEF Begin, Free, dialog
<1> HIDE DEF k, new, Idle
<1>8. k.op = "move" /\ k.at = "load" /\ k.new = new /\ k.places = places
  BY <1>6, IdleFits DEF IsTask
<1>9. dialog' = k
  BY <1>7 DEF dialog, ShelfIInv, TasksFit, Slots
<1>10. ~Moving /\ ~Moving'
  BY <1>7, <1>8, <1>9, IdleFits DEF Moving
<1>11. OnwardPlaces
  BY <1>1, <1>5, <1>8, <1>9, <1>10 DEF OnwardPlaces, Awaits, Upserted, PlacesAreRemembered
<1> QED
  BY <1>1, <1>11, PlacesAlone DEF MarksIInv, BooksFit

LEMMA LoadFullKeepsPlaces ==
  ASSUME ShelfIInv, MarksIInv, NEW b, LoadFull(b)
  PROVE  MarksIInv'
<1>1. UNCHANGED <<lists, disk, places, bookmarked, known, overtaken>> /\ TasksFit
  BY DEF LoadFull, files, history, ShelfIInv
<1>2. dialog' = dialog
  <2>1. ASSUME NEW k, Begin("background", k) PROVE dialog' = dialog
    BY <1>1, <2>1 DEF Begin, dialog, TasksFit, Slots
  <2>2. CASE UNCHANGED tasks
    BY <2>2 DEF dialog
  <2> QED
    BY <2>1, <2>2 DEF LoadFull
<1> QED
  BY <1>1, <1>2, IdleIsOnwardPlaces, PlacesAlone DEF MarksIInv, BooksFit

LEMMA LoadedKeepsPlaces ==
  ASSUME ShelfIInv, MarksIInv, Loaded
  PROVE  MarksIInv'
<1>1. /\ dialog.op = "move" /\ dialog.at = "load" /\ "dialog" \in Slots
      /\ UNCHANGED <<lists, disk, places, bookmarked, known, overtaken>> /\ TasksFit
  BY DEF Loaded, shown, files, history, dialog, Slots, ShelfIInv
<1>2. ~Moving
  BY <1>1 DEF Moving
<1>3. CASE Ends("dialog")
  BY <1>1, <1>2, <1>3, EndingKeepsPlaces
<1>4. CASE Goes("dialog", "upsert")
  <2> DEFINE k == [dialog EXCEPT !.at = "upsert"]
  <2>1. /\ k.op = "move" /\ k.at = "upsert" /\ k.id = dialog.id /\ k.new = dialog.new
        /\ k.places = dialog.places
    BY <1>1 DEF TasksFit, IsTask
  <2>2. dialog' = k
    BY <1>1, <1>4 DEF Goes, TasksFit, dialog
  <2> HIDE DEF k
  <2>3. ~Moving'
    BY <2>1, <2>2 DEF Moving
  <2>4. \A i : Awaits(i)' <=> Awaits(i)
    BY <1>1, <2>1, <2>2 DEF Awaits, Upserted
  <2>5. OnwardPlaces
    BY <1>1, <1>2, <2>1, <2>2, <2>3, <2>4 DEF OnwardPlaces, PlacesAreRemembered
  <2> QED
    BY <1>1, <2>5, PlacesAlone DEF MarksIInv, BooksFit
<1> QED
  BY <1>3, <1>4 DEF Loaded

\* What is read is listed, and stored.
LEMMA ReadKeepsPlaces ==
  ASSUME ShelfIInv, MarksIInv, NEW id, Read(id)
  PROVE  MarksIInv'
<1>1. /\ UNCHANGED <<disk, bookmarked, known, tasks, overtaken>> /\ places' = places \cup {id}
      /\ lists' = [lists EXCEPT !.marks = @ \cup {id}] /\ id \in Listed
      /\ \E t \in disk.texts : t.id = id
  BY DEF Read, files, history, InProfile, Listed, Content
<1> HIDE DEF Idle
<1>2. dialog = Idle /\ dialog' = dialog
  BY <1>1 DEF Read, Free, dialog
<1>3. dialog.op = "idle" /\ dialog.at = ""
  BY <1>2, IdleFits
<1>4. ~Moving /\ ~Moving' /\ Back = places /\ Back' = places'
  BY <1>2, <1>3 DEF Moving, Back
<1>5. \A i : ~Awaits(i) /\ ~Awaits(i)'
  BY <1>2, <1>3 DEF Awaits
<1>6. /\ lists'.texts = lists.texts /\ lists'.marks = lists.marks \cup {id}
      /\ lists'.books = lists.books /\ Listed' = Listed
  <2>1. IsLists(lists)
    BY DEF ShelfIInv, ListsFit
  <2>2. lists'.texts = lists.texts /\ lists'.marks = lists.marks \cup {id} /\ lists'.books = lists.books
    BY <1>1, <2>1 DEF IsLists
  <2> QED
    BY <2>2 DEF Listed
<1>7. ASSUME PlacesHold PROVE PlacesHold'
  <2>1. AllArePlaced'
    <3>1. ASSUME NEW c \in bookmarked PROVE Placed(c)'
      <4>1. PICK t \in disk.texts : ShownAt(c, t)
        BY <1>7 DEF PlacesHold, AllArePlaced, Placed
      <4>2. PICK u \in disk.texts : SavedAt(c, u)
        BY <1>7 DEF PlacesHold, AllArePlaced, Placed
      <4>3. ShownAt(c, t)'
        BY <1>1, <1>5, <1>6, <4>1 DEF ShownAt, HomeOf
      <4>4. SavedAt(c, u)'
        BY <1>1, <1>4, <1>5, <1>6, <4>2 DEF SavedAt
      <4> QED
        BY <1>1, <4>3, <4>4 DEF Placed
    <3> QED
      BY <1>1, <3>1 DEF AllArePlaced
  <2>2. PlacesAreRemembered' /\ CopyIsThere' /\ RemovedHasNoPlace'
    BY <1>2, <1>3 DEF PlacesAreRemembered, CopyIsThere, RemovedHasNoPlace
  <2>3. AwaitedIsNew'
    BY <1>5 DEF AwaitedIsNew
  <2>4. MarkedIsListed' /\ MarkedIsStored'
    BY <1>1, <1>4, <1>6, <1>7 DEF PlacesHold, MarkedIsListed, MarkedIsStored
  <2> QED
    BY <2>1, <2>2, <2>3, <2>4 DEF PlacesHold
<1> QED
  BY <1>1, <1>6, <1>7 DEF MarksIInv, BooksFit, NoText

\* Books leave a profile: what is not given up keeps bookmarks and places.
LEMMA GivingUpKeepsPlaces ==
  ASSUME ShelfIInv, MarksIInv, NEW ids, NEW gone, dialog = Idle,
         {t \in lists.texts : t.id \notin ids} \subseteq lists'.texts,
         \A t \in lists.texts : t.id \in ids => t.id \in gone,
         Relinquish(gone), UNCHANGED <<disk, overtaken>>, \A x \in lists'.books : NoText(x),
         \A i \in lists.marks : i \notin ids => i \in lists'.marks,
         \A i \in places : i \notin ids => i \in places',
         \A i \in lists'.marks : i.title \in Titles => i \in lists.marks /\ (i \in ids => i \in Listed'),
         \A i \in places' : i.title \in Titles => i \in places /\ (i \in ids => i \in Listed'),
         dialog'.op # "move", dialog'.at = "save",
         dialog'.op = "remove" => dialog'.drop \cap places' = {},
         dialog'.op = "moveBook" => \A i \in dialog'.places : i.title \in Titles => i \in places'
  PROVE  MarksIInv'
<1>1. dialog.op = "idle" /\ dialog.at = ""
  <2> HIDE DEF Idle
  <2> QED
    BY IdleFits
<1>2. ~Moving /\ ~Moving' /\ Back = places /\ Back' = places'
  BY <1>1 DEF Moving, Back
<1>3. \A i : ~Awaits(i) /\ ~Awaits(i)'
  BY <1>1 DEF Awaits
<1>4. \A i \in Listed : i \notin ids => i \in Listed'
  BY DEF Listed
<1>5. BooksFit' /\ bookmarked' \subseteq bookmarked /\ bookmarked' \subseteq known'
  BY DEF MarksIInv, BooksFit, NoText, Relinquish
<1>6. ASSUME PlacesHold PROVE PlacesHold'
  <2>1. ASSUME NEW c \in bookmarked', NEW t \in disk.texts, t.body = c, t.id \in Listed
        PROVE  t.id \notin ids /\ t.id \in Listed'
    <3>1. t.id \notin gone
      BY <2>1 DEF Relinquish, Content
    <3>2. t.id \notin ids
      BY <2>1, <3>1 DEF Listed
    <3> QED
      BY <1>4, <2>1, <3>2
  <2>2. AllArePlaced'
    <3>1. ASSUME NEW c \in bookmarked' PROVE Placed(c)'
      <4>1. PICK t \in disk.texts : ShownAt(c, t)
        BY <1>5, <1>6 DEF PlacesHold, AllArePlaced, Placed
      <4>2. PICK u \in disk.texts : SavedAt(c, u)
        BY <1>5, <1>6 DEF PlacesHold, AllArePlaced, Placed
      <4>3. ShownAt(c, t)'
        BY <1>3, <2>1, <4>1 DEF ShownAt, HomeOf
      <4>4. SavedAt(c, u)'
        BY <1>2, <1>3, <2>1, <4>2 DEF SavedAt
      <4> QED
        BY <4>3, <4>4 DEF Placed
    <3> QED
      BY <3>1 DEF AllArePlaced
  <2>3. PlacesAreRemembered' /\ CopyIsThere' /\ RemovedHasNoPlace'
    BY DEF PlacesAreRemembered, CopyIsThere, RemovedHasNoPlace
  <2>4. AwaitedIsNew'
    BY <1>3 DEF AwaitedIsNew
  <2>5. MarkedIsListed'
    <3>1. ASSUME NEW i \in places', i \in lists'.marks, i.title \in Titles PROVE i \in Listed'
      BY <1>2, <1>4, <1>6, <3>1 DEF PlacesHold, MarkedIsListed
    <3>2. ASSUME NEW i \in places', i \in disk.marks, i.title \in Titles PROVE i \in Listed'
      BY <1>2, <1>4, <1>6, <3>2 DEF PlacesHold, MarkedIsListed
    <3> QED
      BY <1>2, <3>1, <3>2 DEF MarkedIsListed
  <2>6. MarkedIsStored'
    BY <1>2, <1>6 DEF PlacesHold, MarkedIsStored
  <2> QED
    BY <2>2, <2>3, <2>4, <2>5, <2>6 DEF PlacesHold
<1> QED
  BY <1>5, <1>6 DEF MarksIInv

LEMMA RemoveTextKeepsPlaces ==
  ASSUME ShelfIInv, MarksIInv, NEW id, RemoveText(id)
  PROVE  MarksIInv'
<1> DEFINE drop == IF \E t \in lists'.texts : t.id = id THEN {} ELSE {id}
           k == [Idle EXCEPT !.op = "remove", !.at = "save", !.drop = drop]
<1>1. /\ lists' = Dropped(lists, lang, {id}) /\ Begin("dialog", k) /\ Relinquish({id})
      /\ places' = Forgotten(lists', {id}) /\ UNCHANGED <<disk, overtaken>>
  BY DEF RemoveText, files
<1>2. id \in Listed
  BY DEF RemoveText, HasCard, InProfile, Listed
<1>3. IsId(id)
  BY <1>2 DEF ShelfIInv, ListsFit, Listed
<1>4. tasks' = [tasks EXCEPT !["dialog"] = k] /\ dialog = Idle
  BY <1>1 DEF Begin, Free, dialog
<1>5. k.op = "remove" /\ k.at = "save" /\ k.drop = drop
  <2>1. k = [Idle EXCEPT !.op = "remove", !.at = "save", !.drop = drop]
    OBVIOUS
  <2> HIDE DEF Idle, k, drop
  <2> QED
    BY <2>1, IdleFits DEF IsTask
<1> HIDE DEF k
<1>6. dialog' = k
  BY <1>4 DEF dialog, ShelfIInv, TasksFit, Slots
<1> DEFINE q == Dropped(lists, lang, {id})
<1>7. /\ \A x \in q.books : NoText(x)
      /\ \A i \in lists.marks : i \notin {id} => i \in q.marks
      /\ q.marks \subseteq lists.marks
      /\ \A i \in q.marks : i \in {id} /\ IsId(i) => \E t \in q.texts : t.id = i
      /\ \A i : Referenced(q, i) /\ IsId(i) => \E t \in q.texts : t.id = i
  <2>1. ListsFit(lists) /\ \A x \in lists.books : NoText(x)
    BY DEF ShelfIInv, MarksIInv, BooksFit
  <2> DEFINE ids == {id}
  <2>2. /\ \A x \in q.books : NoText(x)
        /\ \A i \in lists.marks : i \notin ids => i \in q.marks
        /\ q.marks \subseteq lists.marks
        /\ \A i \in q.marks : i \in ids /\ IsId(i) => \E t \in q.texts : t.id = i
        /\ \A i : Referenced(q, i) /\ IsId(i) => \E t \in q.texts : t.id = i
    <3>1. q = Dropped(lists, lang, ids)
      OBVIOUS
    <3> HIDE DEF q, ids
    <3> QED
      BY <2>1, <3>1, DroppedMarks
  <2> HIDE DEF q
  <2> QED
    BY <2>2
<1>8. q.texts = {t \in lists.texts : ~(t.profile = lang /\ t.id \in {id})}
  BY DroppedFits DEF ShelfIInv
<1>9. lists' = q
  BY <1>1
<1> HIDE DEF q
<1>10. \A i \in places' : i \in places /\ (i = id => \E t \in q.texts : t.id = i)
  BY <1>1, <1>3, <1>7, <1>9 DEF Forgotten
<1>11. \A i \in lists'.marks : i \in lists.marks /\ (i \in {id} => i \in Listed')
  BY <1>3, <1>7, <1>9 DEF Listed
<1>12. \A i \in places : i \notin {id} => i \in places'
  BY <1>1 DEF Forgotten
<1>13. drop \cap places' = {}
  BY <1>9, <1>10
<1>14. {t \in lists.texts : t.id \notin {id}} \subseteq lists'.texts
  BY <1>8, <1>9
<1>15. \A i \in places' : i \in places /\ (i \in {id} => i \in Listed')
  BY <1>9, <1>10 DEF Listed
<1> HIDE DEF drop, Idle
<1> QED
  BY <1>1, <1>4, <1>5, <1>6, <1>7, <1>9, <1>11, <1>12, <1>13, <1>14, <1>15, GivingUpKeepsPlaces

LEMMA FullIdsAreOfBooks ==
  ASSUME NEW b \in UserBooks, NEW l
  PROVE  Own("user", b).title \notin Titles /\ \A i \in FullIds(b, l) : i.title \notin Titles
BY LibraryAssumption DEF FullIds, Own

LEMMA RemoveBookKeepsPlaces ==
  ASSUME ShelfIInv, MarksIInv, NEW b \in UserBooks, RemoveBook(b)
  PROVE  MarksIInv'
<1> DEFINE fulls == FullIds(b, lang) \cap InProfile(lang)
           ids == {Own("user", b)} \cup fulls
           k == [Idle EXCEPT !.op = "removeBook", !.at = "save", !.drop = fulls]
<1>1. /\ lists' = Dropped(lists, lang, ids) /\ Begin("dialog", k) /\ Relinquish(fulls)
      /\ places' = Forgotten(lists', ids) /\ UNCHANGED <<disk, overtaken>>
  BY DEF RemoveBook, files
<1>2. \A i \in ids : i.title \notin Titles
  BY FullIdsAreOfBooks
<1>3. tasks' = [tasks EXCEPT !["dialog"] = k] /\ dialog = Idle
  BY <1>1 DEF Begin, Free, dialog
<1>4. k.op = "removeBook" /\ k.at = "save"
  <2>1. k = [Idle EXCEPT !.op = "removeBook", !.at = "save", !.drop = fulls]
    OBVIOUS
  <2> HIDE DEF Idle, k, fulls
  <2> QED
    BY <2>1, IdleFits DEF IsTask
<1> HIDE DEF k
<1>5. dialog' = k
  BY <1>3 DEF dialog, ShelfIInv, TasksFit, Slots
<1>6. \A t \in lists.texts : t.id \in ids => t.id \in fulls
  BY UserBooksAreNoTexts
<1> DEFINE q == Dropped(lists, lang, ids)
<1> HIDE DEF ids, fulls
<1>7. /\ \A x \in q.books : NoText(x)
      /\ \A i \in lists.marks : i \notin ids => i \in q.marks
      /\ q.marks \subseteq lists.marks
  <2>1. ListsFit(lists) /\ \A x \in lists.books : NoText(x)
    BY DEF ShelfIInv, MarksIInv, BooksFit
  <2> HIDE DEF q
  <2> QED
    BY <2>1, DroppedMarks DEF q
<1>8. q.texts = {t \in lists.texts : ~(t.profile = lang /\ t.id \in ids)}
  BY DroppedFits DEF ShelfIInv
<1>9. lists' = q
  BY <1>1
<1> HIDE DEF q
<1>10. places' \subseteq places /\ \A i \in places : i \notin ids => i \in places'
  BY <1>1 DEF Forgotten
<1>11. {t \in lists.texts : t.id \notin ids} \subseteq lists'.texts
  BY <1>8, <1>9
<1>12. \A i \in lists'.marks : i.title \in Titles => i \in lists.marks /\ i \notin ids
  BY <1>2, <1>7, <1>9
<1> HIDE DEF Idle
<1> QED
  BY <1>1, <1>2, <1>3, <1>4, <1>5, <1>6, <1>7, <1>9, <1>10, <1>11, <1>12, GivingUpKeepsPlaces

\* A book moves: the bookmarks and places carried along are those of no own text.
LEMMA MoveBookKeepsPlaces ==
  ASSUME ShelfIInv, MarksIInv, NEW b \in UserBooks, NEW to, MoveBook(b, to)
  PROVE  MarksIInv'
<1> DEFINE id == Own("user", b)
           fulls == FullIds(b, lang)
           target == Own("full-" \o to, b)
           dropped == fulls \cap InProfile(lang)
           entry == [profile |-> to, id |-> id]
           p == [Dropped(lists, lang, {id}) EXCEPT !.books = @ \cup {entry}]
           carried == IF fulls \cap lists.marks # {} THEN {target} ELSE {}
           r == [p EXCEPT !.marks = @ \cup carried]
           q == Dropped(r, lang, dropped)
           where == places \cup (IF fulls \cap places # {} THEN {target} ELSE {})
           k == [Idle EXCEPT !.op = "moveBook", !.at = "save", !.drop = dropped,
                             !.places = places, !.current = current]
           ids == {id} \cup dropped
<1>1. /\ lists' = q /\ Begin("dialog", k) /\ Relinquish(dropped)
      /\ places' = {i \in where : i \in dropped \cup {id} => Referenced(q, i)}
      /\ UNCHANGED <<disk, overtaken>>
  BY DEF MoveBook, files
<1>2. (\A i \in ids : i.title \notin Titles) /\ target.title \notin Titles
  BY FullIdsAreOfBooks, LibraryAssumption DEF Own
<1>3. tasks' = [tasks EXCEPT !["dialog"] = k] /\ dialog = Idle
  BY <1>1 DEF Begin, Free, dialog
<1>4. k.op = "moveBook" /\ k.at = "save" /\ k.places = places
  <2>1. k = [Idle EXCEPT !.op = "moveBook", !.at = "save", !.drop = dropped,
                         !.places = places, !.current = current]
    OBVIOUS
  <2> HIDE DEF Idle, k, dropped
  <2> QED
    BY <2>1, IdleFits DEF IsTask
<1> HIDE DEF k
<1>5. dialog' = k
  BY <1>3 DEF dialog, ShelfIInv, TasksFit, Slots
<1>6. \A t \in lists.texts : t.id \in ids => t.id \in dropped
  BY UserBooksAreNoTexts
<1>7. \A i \in places : i \notin ids => i \in places'
  BY <1>1
<1>8. \A i \in places' : i.title \in Titles => i \in places /\ i \notin ids
  BY <1>1, <1>2
<1>9. NoText(entry) /\ carried \subseteq {target}
  BY <1>2 DEF NoText, Own
<1> HIDE DEF dropped, carried, target
<1> DEFINE d == Dropped(lists, lang, {id})
<1>10. /\ ListsFit(d) /\ d.texts = {t \in lists.texts : ~(t.profile = lang /\ t.id \in {id})}
       /\ \A x \in d.books : NoText(x)
       /\ \A i \in lists.marks : i \notin {id} => i \in d.marks
       /\ d.marks \subseteq lists.marks
  <2>1. ListsFit(lists) /\ \A x \in lists.books : NoText(x)
    BY DEF ShelfIInv, MarksIInv, BooksFit
  <2> DEFINE S == {id}
  <2>2. d = Dropped(lists, lang, S)
    OBVIOUS
  <2> HIDE DEF S, d
  <2>3. ListsFit(d) /\ d.texts = {t \in lists.texts : ~(t.profile = lang /\ t.id \in S)}
    BY <2>1, <2>2, DroppedFits
  <2>4. /\ \A x \in d.books : NoText(x)
        /\ \A i \in lists.marks : i \notin S => i \in d.marks
        /\ d.marks \subseteq lists.marks
    BY <2>1, <2>2, DroppedMarks
  <2> QED
    BY <2>3, <2>4 DEF S
<1> HIDE DEF d
<1>11. r = [[d EXCEPT !.books = d.books \cup {entry}] EXCEPT !.marks = p.marks \cup carried] /\ p = [d EXCEPT !.books = d.books \cup {entry}]
  BY DEF d
<1> HIDE DEF r, p, entry
<1>12. ListsFit(r) /\ r.texts = d.texts /\ r.books = d.books \cup {entry} /\ r.marks = d.marks \cup carried
  <2>1. IsLists(d)
    BY <1>10 DEF ListsFit
  <2> DEFINE B == d.books \cup {entry}
             M == p.marks \cup carried
  <2>2. r = [[d EXCEPT !.books = B] EXCEPT !.marks = M] /\ p = [d EXCEPT !.books = B]
    BY <1>11
  <2> HIDE DEF B, M
  <2>3. IsLists(r) /\ r.texts = d.texts /\ r.books = B /\ r.marks = M /\ p.marks = d.marks
    BY <2>1, <2>2 DEF IsLists
  <2> QED
    BY <1>10, <2>3 DEF ListsFit, B, M
<1>13. \A x \in r.books : NoText(x)
  BY <1>9, <1>10, <1>12
<1>14. /\ q.texts = {t \in r.texts : ~(t.profile = lang /\ t.id \in dropped)}
       /\ \A x \in q.books : NoText(x)
       /\ \A i \in r.marks : i \notin dropped => i \in q.marks
       /\ q.marks \subseteq r.marks
  <2>1. q = Dropped(r, lang, dropped)
    OBVIOUS
  <2> HIDE DEF q
  <2>2. q.texts = {t \in r.texts : ~(t.profile = lang /\ t.id \in dropped)}
    BY <1>12, <2>1, DroppedFits
  <2> QED
    BY <1>12, <1>13, <2>1, <2>2, DroppedMarks
<1> HIDE DEF q
<1>15. {t \in lists.texts : t.id \notin ids} \subseteq lists'.texts
  BY <1>1, <1>10, <1>12, <1>14
<1>16. \A i \in lists.marks : i \notin ids => i \in lists'.marks
  BY <1>1, <1>10, <1>12, <1>14
<1>17. \A i \in lists'.marks : i.title \in Titles => i \in lists.marks /\ i \notin ids
  <2>1. \A i \in lists'.marks : i.title \in Titles => i \in lists.marks
    BY <1>1, <1>2, <1>9, <1>10, <1>12, <1>14
  <2> QED
    BY <1>2, <2>1
<1>18. \A i \in dialog'.places : i.title \in Titles => i \in places'
  BY <1>2, <1>4, <1>5, <1>7
<1> HIDE DEF Idle, ids
<1> QED
  BY <1>1, <1>3, <1>4, <1>5, <1>6, <1>7, <1>8, <1>14, <1>15, <1>16, <1>17, <1>18, GivingUpKeepsPlaces

\* After its save an operation has no more to ask of bookmarks and places.
LEMMA AfterSavePlaces ==
  ASSUME ShelfIInv, NEW slot \in Slots, tasks[slot].at = "save", places' = places,
         Ends(slot) \/ Goes(slot, "reload") \/ Goes(slot, "cleanup")
  PROVE  /\ \A i : Awaits(i)' => Awaits(i)
         /\ Moving' => Moving /\ dialog'.places = dialog.places
         /\ dialog'.op = "remove" => dialog.op = "remove" /\ dialog'.drop \subseteq dialog.drop
         /\ dialog'.op = "move" /\ dialog'.at = "stored" => dialog' = dialog
         /\ PlacesAreRemembered => PlacesAreRemembered'
         /\ Goes(slot, "reload") \/ (Ends(slot) /\ tasks[slot].op # "move") => OnwardPlaces
<1>1. TasksFit
  BY DEF ShelfIInv
<1> DEFINE Asks == /\ \A i : Awaits(i)' => Awaits(i)
                   /\ Moving' => Moving /\ dialog'.places = dialog.places
                   /\ dialog'.op = "remove" => dialog.op = "remove" /\ dialog'.drop \subseteq dialog.drop
                   /\ dialog'.op = "move" /\ dialog'.at = "stored" => dialog' = dialog
                   /\ PlacesAreRemembered => PlacesAreRemembered'
<1>2. CASE dialog' = dialog
  <2>1. OnwardPlaces
    BY <1>2, IdleIsOnwardPlaces
  <2>2. (Moving' <=> Moving) /\ \A i : Awaits(i)' <=> Awaits(i)
    BY <1>2 DEF Moving, Awaits, Upserted
  <2> QED
    BY <1>2, <2>1, <2>2 DEF OnwardPlaces
<1>3. CASE slot = "dialog" /\ Ends(slot)
  <2> HIDE DEF Idle
  <2>1. dialog' = Idle /\ dialog = tasks[slot]
    BY <1>1, <1>3, EndedTask DEF dialog
  <2>2. dialog'.op = "idle" /\ dialog'.at = ""
    BY <2>1, IdleFits
  <2>3. Asks
    BY <2>2 DEF Moving, Awaits, PlacesAreRemembered
  <2>4. tasks[slot].op # "move" => OnwardPlaces
    BY <2>1, IdleIsOnwardPlaces DEF Moving
  <2>5. ~Goes(slot, "reload")
    <3>1. ASSUME Goes(slot, "reload") PROVE dialog'.at = "reload"
      BY <1>1, <1>3, <3>1 DEF Goes, dialog, TasksFit, IsTask
    <3> QED
      BY <2>2, <3>1
  <2> HIDE DEF Asks
  <2>6. Goes(slot, "reload") \/ (Ends(slot) /\ tasks[slot].op # "move") => OnwardPlaces
    BY <2>4, <2>5
  <2> QED
    BY <2>3, <2>6 DEF Asks
<1>4. ASSUME NEW at \in {"reload", "cleanup"}, slot = "dialog", Goes(slot, at)
      PROVE  Asks /\ dialog'.at = at /\ (at = "reload" => OnwardPlaces)
  <2> DEFINE k == [dialog EXCEPT !.at = at]
  <2>1. /\ k.op = dialog.op /\ k.at = at /\ k.drop = dialog.drop /\ k.places = dialog.places
        /\ dialog.at = "save"
    BY <1>1, <1>4 DEF TasksFit, IsTask, dialog
  <2>2. dialog' = k
    BY <1>1, <1>4 DEF Goes, TasksFit, dialog
  <2> HIDE DEF k
  <2>3. \A i : ~Awaits(i)'
    BY <1>4, <2>1, <2>2 DEF Awaits
  <2>4. Moving' => Moving
    BY <2>1, <2>2 DEF Moving
  <2>5. at = "reload" => (Moving' <=> Moving)
    BY <2>1, <2>2 DEF Moving
  <2>6. PlacesAreRemembered => PlacesAreRemembered'
    BY <1>4, <2>1, <2>2 DEF PlacesAreRemembered
  <2> QED
    BY <1>4, <2>1, <2>2, <2>3, <2>4, <2>5, <2>6 DEF OnwardPlaces
<1>5. CASE slot = "dialog" /\ ~Ends(slot)
  <2>1. PICK at \in {"reload", "cleanup"} : Goes(slot, at)
    BY <1>5
  <2>2. Goes(slot, "reload") => OnwardPlaces
    BY <1>4, <1>5
  <2> HIDE DEF Asks
  <2>3. Asks
    BY <1>4, <1>5, <2>1
  <2>4. Goes(slot, "reload") \/ (Ends(slot) /\ tasks[slot].op # "move") => OnwardPlaces
    BY <1>5, <2>2
  <2> QED
    BY <2>3, <2>4 DEF Asks
<1>6. slot # "dialog" => dialog' = dialog
  BY <1>1 DEF Ends, Goes, TasksFit, dialog, Slots
<1> QED
  BY <1>2, <1>3, <1>5, <1>6

LEMMA AutosaveKeepsPlaces ==
  ASSUME ShelfIInv, MarksIInv, Autosave
  PROVE  MarksIInv'
<1>1. UNCHANGED <<lists, places, tasks, known>> /\ Store
  BY DEF Autosave
<1>2. dialog' = dialog /\ Listed' = Listed
  BY <1>1 DEF dialog, Listed
<1>3. (\A i : Awaits(i)' => Awaits(i)) /\ (Moving' => Moving)
  BY <1>2 DEF Awaits, Upserted, Moving
<1>4. PlacesAreRemembered => PlacesAreRemembered'
  BY <1>1, <1>2 DEF PlacesAreRemembered
<1> QED
  BY <1>1, <1>2, <1>3, <1>4, SavesKeepPlaces DEF MarksIInv, BooksFit

LEMMA SaveSucceedsKeepsPlaces ==
  ASSUME ShelfIInv, MarksIInv, NEW slot \in Slots, SaveSucceeds(slot)
  PROVE  MarksIInv'
<1>1. /\ Store /\ UNCHANGED <<places, known>> /\ tasks[slot].at = "save"
      /\ Ends(slot) \/ Goes(slot, "cleanup")
  BY DEF SaveSucceeds
<1>2. /\ lists'.marks = lists.marks /\ (\A x \in lists'.books : NoText(x))
      /\ Listed \subseteq Listed'
  <2>1. CASE lists' = lists
    BY <2>1 DEF MarksIInv, BooksFit, Listed
  <2>2. CASE Snapshot(Saved)
    <3>1. TextsFit(Saved) /\ \A i \in Listed : \E u \in Saved.texts : u.id = i
      BY SavedFits
    <3>2. Listed' = {t.id : t \in Saved.texts}
      BY <2>2, <3>1, SnapshotFits
    <3>3. Saved.marks = lists.marks /\ Saved.books = lists.books
      BY DEF Saved, ShelfIInv, ListsFit, IsLists
    <3>4. lists'.marks = Saved.marks /\ lists'.books = Saved.books
      <4> HIDE DEF Saved
      <4> QED
        BY <2>2, <3>1 DEF Snapshot, TextsFit, ListsFit, IsLists
    <3> QED
      BY <3>1, <3>2, <3>3, <3>4 DEF MarksIInv, BooksFit
  <2> QED
    BY <2>1, <2>2 DEF SaveSucceeds
<1> QED
  BY <1>1, <1>2, AfterSavePlaces, SavesKeepPlaces

LEMMA SaveFailsKeepsPlaces ==
  ASSUME ShelfIInv, MarksIInv, NEW slot \in Slots, SaveFails(slot)
  PROVE  MarksIInv'
<1>1. /\ tasks[slot].at = "save" /\ UNCHANGED <<lists, places, known>>
      /\ Goes(slot, "reload") \/ (Ends(slot) /\ tasks[slot].op # "move")
  BY DEF SaveFails, shown
<1>2. CASE Store
  BY <1>1, <1>2, AfterSavePlaces, SavesKeepPlaces DEF Listed, MarksIInv, BooksFit
<1>3. CASE UNCHANGED <<files, bookmarked, overtaken>>
  BY <1>1, <1>3, AfterSavePlaces, PlacesAlone DEF files, MarksIInv, BooksFit
<1> QED
  BY <1>2, <1>3 DEF SaveFails

\* A text is stored: what has a bookmark and a place is not overwritten.
LEMMA StoringKeepsPlaces ==
  ASSUME ShelfIInv, MarksIInv, UNCHANGED <<lists, places, bookmarked, known, overtaken>>,
         disk'.marks = disk.marks, disk'.books = disk.books,
         \A t \in disk.texts : \E u \in disk'.texts : u.id = t.id,
         \A t \in disk.texts : ~Awaits(t.id) /\ t.body # NoBody =>
           \E u \in disk'.texts : u.id = t.id /\ u.body = t.body,
         \A i : Awaits(i)' => Awaits(i),
         Moving' <=> Moving, Moving => dialog'.places = dialog.places,
         dialog'.op = "remove" => dialog.op = "remove" /\ dialog'.drop \subseteq dialog.drop,
         PlacesAreRemembered => PlacesAreRemembered', CopyIsThere => CopyIsThere'
  PROVE  MarksIInv'
<1>1. Listed' = Listed /\ BooksFit' /\ bookmarked' \subseteq known'
  BY DEF Listed, MarksIInv, BooksFit, NoText
<1>2. Back' = Back
  <2>1. CASE Moving
    BY <2>1 DEF Back
  <2>2. CASE ~Moving
    BY <2>2 DEF Back
  <2> QED
    BY <2>1, <2>2
<1>3. ASSUME PlacesHold, overtaken = {} PROVE PlacesHold'
  <2>1. AllArePlaced'
    <3>1. ASSUME NEW c \in bookmarked PROVE Placed(c)'
      <4>1. PICK t \in disk.texts : ShownAt(c, t)
        BY <1>3, <3>1 DEF PlacesHold, AllArePlaced, Placed
      <4>2. PICK u \in disk.texts : SavedAt(c, u)
        BY <1>3, <3>1 DEF PlacesHold, AllArePlaced, Placed
      <4>3. c # NoBody
        BY <1>3, <3>1, NothingIsAstray DEF AllHaveHomes, MarksIInv
      <4>4. PICK s \in disk'.texts : s.id = t.id /\ s.body = t.body
        BY <4>1, <4>3 DEF ShownAt, HomeOf
      <4>5. PICK v \in disk'.texts : v.id = u.id /\ v.body = u.body
        BY <4>2, <4>3 DEF SavedAt
      <4>6. ShownAt(c, s)'
        BY <1>1, <4>1, <4>4 DEF ShownAt, HomeOf
      <4>7. SavedAt(c, v)'
        BY <1>1, <1>2, <4>2, <4>5 DEF SavedAt
      <4> QED
        BY <4>6, <4>7 DEF Placed
    <3> QED
      BY <3>1 DEF AllArePlaced
  <2>2. AwaitedIsNew' /\ RemovedHasNoPlace'
    BY <1>3 DEF PlacesHold, AwaitedIsNew, RemovedHasNoPlace
  <2>3. MarkedIsListed'
    <3>1. CASE Moving
      BY <1>1, <1>2, <1>3, <3>1 DEF PlacesHold, MarkedIsListed
    <3>2. CASE ~Moving
      BY <1>1, <1>2, <1>3, <3>2 DEF PlacesHold, MarkedIsListed
    <3> QED
      BY <3>1, <3>2
  <2>4. MarkedIsStored'
    <3> SUFFICES ASSUME NEW i \in Back, i \in disk.marks, i.title \in Titles
                 PROVE  \E u \in disk'.texts : u.id = i
      BY <1>2 DEF MarkedIsStored
    <3>1. PICK t \in disk.texts : t.id = i
      BY <1>3 DEF PlacesHold, MarkedIsStored
    <3> QED
      BY <3>1
  <2> QED
    BY <1>3, <2>1, <2>2, <2>3, <2>4 DEF PlacesHold
<1> QED
  BY <1>1, <1>3 DEF MarksIInv

\* What a text is stored in is otherwise as it was.
LEMMA UpsertedAlone ==
  ASSUME TextsFit(disk), NEW id, NEW l, NEW c, UpsertText(id, l, c)
  PROVE  disk'.marks = disk.marks /\ disk'.books = disk.books
<1> DEFINE texts == Without(disk.texts, id) \cup {[id |-> id, lang |-> l, body |-> c]}
<1>1. disk' = [disk EXCEPT !.texts = texts] /\ IsLists(disk)
  BY DEF UpsertText, TextsFit, ListsFit
<1> HIDE DEF texts
<1> QED
  BY <1>1 DEF IsLists

LEMMA OwnStoredKeepsPlaces ==
  ASSUME ShelfIInv, MarksIInv, tasks["dialog"].at = "upsert", Stored("dialog")
  PROVE  MarksIInv'
<1> DEFINE id == Upserted(dialog)
           k == [dialog EXCEPT !.at = "stored"]
<1>1. /\ dialog.at = "upsert" /\ Goes("dialog", "stored")
      /\ UNCHANGED <<lists, places, bookmarked, known, overtaken>>
  BY DEF Stored, shown, history, dialog
<1>2. TextsFit(disk) /\ TasksFit /\ IsTask(dialog) /\ DialogFits(dialog) /\ dialog # Idle
  BY <1>1, IdleFits DEF ShelfIInv, TasksFit
<1>3. /\ IsId(id) /\ id.title \in Titles
      /\ dialog.op \in {"import", "move"}
      /\ dialog.op = "move" => id = dialog.new /\ id.title = dialog.id.title
  BY <1>1, <1>2 DEF DialogFits, Upserted
<1>4. /\ k.op = dialog.op /\ k.at = "stored" /\ k.new = dialog.new /\ k.places = dialog.places
  BY <1>2 DEF IsTask
<1>5. dialog' = k
  BY <1>1, <1>2 DEF Goes, TasksFit, dialog, Slots
<1> HIDE DEF k
<1>6. PICK c, l : UpsertText(id, l, c) /\ (c # NoBody => c[2] = id.title)
  <2>1. CASE dialog.op = "import"
    <3>1. id = dialog.id /\ UpsertText(id, dialog.to, Imported(id, bodies'))
      BY <2>1 DEF Stored, dialog, Upserted
    <3>2. Imported(id, bodies')[2] = id.title
      BY <1>3, ImportedFits
    <3> QED
      BY <3>1, <3>2
  <2>2. CASE dialog.op = "move"
    <3>1. PICK c \in Content(dialog.id) : UpsertText(id, dialog.to, c)
      BY <2>2 DEF Stored, dialog, Upserted
    <3>2. PICK t \in disk.texts : t.id = dialog.id /\ t.body = c
      BY DEF Content
    <3>3. c # NoBody => c[2] = id.title
      BY <1>2, <1>3, <2>2, <3>2 DEF TextsFit, BodyFits
    <3> QED
      BY <3>1, <3>3
  <2> QED
    BY <1>3, <2>1, <2>2
<1>7. /\ \A t \in disk.texts : t.id # id => t \in disk'.texts
      /\ \E t \in disk'.texts : t.id = id
  BY <1>2, <1>3, <1>6, UpsertedFits
<1>8. \A t \in disk.texts : \E u \in disk'.texts : u.id = t.id
  BY <1>7
<1>9. \A t \in disk.texts : ~Awaits(t.id) => t.id # id
  BY <1>1 DEF Awaits
<1>10. disk'.marks = disk.marks /\ disk'.books = disk.books
  BY <1>2, <1>6, UpsertedAlone
<1>11. (\A i : ~Awaits(i)') /\ ~Moving /\ ~Moving'
  BY <1>1, <1>4, <1>5 DEF Awaits, Moving
<1>12. PlacesAreRemembered => PlacesAreRemembered'
  BY <1>1, <1>3, <1>4, <1>5 DEF PlacesAreRemembered
<1>13. CopyIsThere'
  BY <1>3, <1>4, <1>5, <1>7 DEF CopyIsThere
<1>14. dialog'.op # "remove"
  BY <1>3, <1>4, <1>5
<1> HIDE DEF id
<1> QED
  BY <1>1, <1>7, <1>8, <1>9, <1>10, <1>11, <1>12, <1>13, <1>14, StoringKeepsPlaces

LEMMA FullStoredKeepsPlaces ==
  ASSUME ShelfIInv, MarksIInv, tasks["background"].at = "upsert", Stored("background")
  PROVE  MarksIInv'
<1> DEFINE id == background.id
           c == Imported(id, bodies')
<1>1. /\ background.at = "upsert" /\ Goes("background", "stored")
      /\ UNCHANGED <<lists, places, bookmarked, known, overtaken>>
  BY DEF Stored, shown, history, background
<1>2. TextsFit(disk) /\ TasksFit /\ BackgroundFits(background) /\ background # Idle
  BY <1>1, IdleFits DEF ShelfIInv, TasksFit
<1>3. background.op = "import" /\ IsId(id) /\ id.title \notin Titles
  BY <1>2 DEF BackgroundFits
<1>4. dialog' = dialog
  BY <1>1, <1>2 DEF Goes, TasksFit, dialog, Slots
<1>5. UpsertText(id, background.to, c)
  BY <1>3 DEF Stored, background
<1>6. c # NoBody /\ c[2] = id.title /\ c = <<id.lang, id.title, 0>>
  BY <1>3, ImportedFits
<1> HIDE DEF c
<1>7. /\ \A t \in disk.texts : t.id # id => t \in disk'.texts
      /\ \E t \in disk'.texts : t.id = id /\ t.body = c
  BY <1>2, <1>3, <1>5, <1>6, UpsertedFits
<1>8. \A t \in disk.texts : \E u \in disk'.texts : u.id = t.id
  BY <1>7
<1>9. \A t \in disk.texts : t.id = id /\ t.body # NoBody => t.body = c
  BY <1>2, <1>3, <1>6 DEF TextsFit, BodyFits
<1>10. \A t \in disk.texts : t.body # NoBody => \E u \in disk'.texts : u.id = t.id /\ u.body = t.body
  BY <1>7, <1>9
<1>11. disk'.marks = disk.marks /\ disk'.books = disk.books
  BY <1>2, <1>5, UpsertedAlone
<1>12. (\A i : Awaits(i)' <=> Awaits(i)) /\ (Moving' <=> Moving)
  BY <1>4 DEF Awaits, Upserted, Moving
<1>13. PlacesAreRemembered => PlacesAreRemembered'
  BY <1>1, <1>4 DEF PlacesAreRemembered
<1>14. CopyIsThere => CopyIsThere'
  BY <1>4, <1>8 DEF CopyIsThere
<1> HIDE DEF id
<1> QED
  BY <1>1, <1>4, <1>8, <1>10, <1>11, <1>12, <1>13, <1>14, StoringKeepsPlaces

LEMMA ImportListedKeepsPlaces ==
  ASSUME ShelfIInv, MarksIInv, NEW slot \in Slots, ImportListed(slot)
  PROVE  MarksIInv'
<1> DEFINE task == tasks[slot]
           new == [profile |-> lang, id |-> task.id, lang |-> task.to]
           texts == {t \in lists.texts : ~(t.profile = lang /\ t.id = task.id)} \cup {new}
<1>1. /\ task.op = "import" /\ task.at = "stored" /\ Goes(slot, "save")
      /\ lists' = [lists EXCEPT !.texts = texts] /\ known \subseteq known'
      /\ UNCHANGED <<disk, places, bookmarked, overtaken>>
  BY DEF ImportListed, files
<1>2. TasksFit /\ IsLists(lists)
  BY DEF ShelfIInv, ListsFit
<1>3. ASSUME NEW t \in lists.texts PROVE \E x \in texts : x.id = t.id
  <2>1. new \in texts /\ new.id = task.id
    OBVIOUS
  <2>2. t.id # task.id => t \in texts
    OBVIOUS
  <2> HIDE DEF texts, new, task
  <2> QED
    BY <2>1, <2>2
<1> HIDE DEF texts
<1>4. lists'.texts = texts /\ lists'.marks = lists.marks /\ lists'.books = lists.books
  BY <1>1, <1>2 DEF IsLists
<1>5. Listed \subseteq Listed'
  BY <1>3, <1>4 DEF Listed
<1>6. OnwardPlaces
  <2>1. CASE slot = "background"
    <3>1. dialog' = dialog
      BY <1>1, <1>2, <2>1 DEF Goes, TasksFit, dialog
    <3> QED
      BY <1>1, <3>1, IdleIsOnwardPlaces
  <2>2. CASE slot = "dialog"
    <3> DEFINE k == [dialog EXCEPT !.at = "save"]
    <3>1. k.op = "import" /\ k.at = "save"
      BY <1>1, <1>2, <2>2 DEF TasksFit, IsTask, dialog
    <3>2. dialog' = k
      BY <1>1, <1>2, <2>2 DEF Goes, TasksFit, dialog
    <3> HIDE DEF k
    <3>3. ~Moving /\ ~Moving'
      BY <1>1, <2>2, <3>1, <3>2 DEF Moving, dialog
    <3> QED
      BY <3>1, <3>2, <3>3 DEF OnwardPlaces, Awaits, PlacesAreRemembered
  <2> QED
    BY <2>1, <2>2 DEF Slots
<1> QED
  BY <1>1, <1>4, <1>5, <1>6, PlacesStayKept DEF MarksIInv, BooksFit

\* A moved text is listed by the id of its copy, with the bookmarks and the place it had.
LEMMA MoveListedKeepsPlaces ==
  ASSUME ShelfIInv, MarksIInv, MoveListed
  PROVE  MarksIInv'
<1> DEFINE id == dialog.id
           new == Planned(id, dialog.to)
           entry == [profile |-> dialog.to, id |-> new, lang |-> dialog.to]
           p == Dropped(lists, lang, {id})
           k == [dialog EXCEPT !.at = "save", !.new = new, !.drop = {id}]
<1>1. /\ dialog.op = "move" /\ dialog.at = "stored"
      /\ UNCHANGED <<disk, known, bookmarked>> /\ overtaken \subseteq overtaken'
  BY DEF MoveListed, files, history, dialog
<1>2. TextsFit(disk) /\ ListsFit(lists) /\ TasksFit /\ IsTask(dialog) /\ dialog # Idle
  BY <1>1, IdleFits DEF ShelfIInv, TasksFit
<1>3. IsId(id) /\ id.title \in Titles /\ dialog.new # id
  BY <1>1, <1>2 DEF TasksFit, DialogFits
<1>4. CASE ~(id \in InProfile(lang))
  <2>1. Ends("dialog") /\ UNCHANGED <<lists, places>>
    BY <1>4 DEF MoveListed, shown, dialog
  <2> QED
    BY <1>1, <2>1, EndingKeepsPlaces DEF Moving, Slots
<1>5. CASE id \in InProfile(lang)
  <2>1. /\ MovedTo(dialog, new)
        /\ tasks' = [tasks EXCEPT !["dialog"] = k]
        /\ overtaken' = {} => new = dialog.new
    BY <1>5 DEF MoveListed, dialog
  <2> DEFINE bookmarks == IF id \in lists.marks THEN p.marks \cup {new} ELSE p.marks
  <2>2. /\ lists' = [p EXCEPT !.texts = p.texts \cup {entry}, !.marks = bookmarks]
        /\ places' = IF id \in places
                     THEN (IF Referenced(p, id) THEN places ELSE places \ {id}) \cup {new} ELSE places
    BY <2>1 DEF MovedTo
  <2>3. k = [dialog EXCEPT !.at = "save", !.new = new, !.drop = {id}] /\ entry.id = new
    OBVIOUS
  <2>4. /\ ListsFit(p) /\ p.texts = {t \in lists.texts : ~(t.profile = lang /\ t.id \in {id})}
        /\ \A x \in p.books : NoText(x)
        /\ p.marks \subseteq lists.marks
        /\ \A i \in lists.marks : i # id => i \in p.marks
        /\ id \in p.marks => \E t \in p.texts : t.id = id
    <3> DEFINE ids == {id}
    <3>1. p = Dropped(lists, lang, ids) /\ \A x \in lists.books : NoText(x)
      BY DEF MarksIInv, BooksFit
    <3> HIDE DEF p, ids
    <3>2. ListsFit(p) /\ p.texts = {t \in lists.texts : ~(t.profile = lang /\ t.id \in ids)}
      BY <1>2, <3>1, DroppedFits
    <3>3. /\ \A x \in p.books : NoText(x)
          /\ p.marks \subseteq lists.marks
          /\ \A i \in lists.marks : i \notin ids => i \in p.marks
          /\ \A i \in p.marks : i \in ids /\ IsId(i) => \E t \in p.texts : t.id = i
      BY <1>2, <3>1, DroppedMarks
    <3> QED
      BY <1>3, <3>2, <3>3 DEF ids
  <2> HIDE DEF k, p, entry, new
  <2>5. lists'.texts = p.texts \cup {entry} /\ lists'.books = p.books /\ lists'.marks = bookmarks
    <3> HIDE DEF bookmarks
    <3> QED
      BY <2>2, <2>4 DEF ListsFit, IsLists
  <2>6. BooksFit'
    BY <1>1, <2>4, <2>5 DEF MarksIInv, BooksFit, NoText
  <2>7. k.op = "move" /\ k.at = "save" /\ k.places = dialog.places /\ k.new = new
    BY <1>1, <1>2, <2>3 DEF IsTask
  <2>8. dialog' = k
    BY <1>2, <2>1 DEF TasksFit, dialog, Slots
  <2>9. /\ new \in Listed' /\ \A i \in Listed : i # id => i \in Listed'
        /\ id \in p.marks => id \in Listed'
    BY <2>3, <2>4, <2>5 DEF Listed
  <2>10. ASSUME overtaken' = {}, PlacesHold PROVE PlacesHold'
    <3>1. new = dialog.new /\ overtaken = {}
      BY <1>1, <2>1, <2>10
    <3>2. ~Moving /\ Moving' /\ Back = places /\ dialog'.places = places
      BY <1>1, <2>7, <2>8, <2>10 DEF Moving, Back, PlacesHold, PlacesAreRemembered
    <3>3. Back' = places' \cup places
      BY <3>2 DEF Back
    <3>4. \A i : ~Awaits(i)'
      BY <2>7, <2>8 DEF Awaits
    <3>5. /\ places' \subseteq places \cup {new}
          /\ \A i \in places : i # id => i \in places'
          /\ id \in places => new \in places'
      BY <2>2
    <3>6. AllArePlaced'
      <4>1. ASSUME NEW c \in bookmarked PROVE Placed(c)'
        <5>1. PICK t \in disk.texts : ShownAt(c, t)
          BY <2>10 DEF PlacesHold, AllArePlaced, Placed
        <5>2. PICK u \in disk.texts : SavedAt(c, u)
          BY <2>10 DEF PlacesHold, AllArePlaced, Placed
        <5>3. SavedAt(c, u)'
          BY <1>1, <3>2, <3>3, <3>4, <5>2 DEF SavedAt
        <5>4. PICK s \in disk.texts : s.body = c /\ s.id \in Listed' \cap bookmarks \cap places'
          <6>1. CASE t.id # id
            BY <2>4, <2>9, <3>5, <5>1, <6>1 DEF ShownAt, HomeOf
          <6>2. CASE t.id = id
            <7>1. c \in known /\ CopyIsStored
              BY <3>1, NothingIsAstray DEF MarksIInv
            <7>2. PICK s \in disk.texts : s.id = new /\ s.body = c
              BY <1>1, <3>1, <5>1, <6>2, <7>1 DEF CopyIsStored, ShownAt, HomeOf
            <7>3. id \in lists.marks /\ id \in places
              BY <5>1, <6>2 DEF ShownAt
            <7> QED
              BY <2>9, <3>5, <7>2, <7>3
          <6> QED
            BY <6>1, <6>2
        <5>5. ShownAt(c, s)'
          BY <2>5, <3>4, <5>4 DEF ShownAt, HomeOf
        <5> QED
          BY <1>1, <5>3, <5>5 DEF Placed
      <4> QED
        BY <1>1, <4>1 DEF AllArePlaced
    <3>7. PlacesAreRemembered' /\ CopyIsThere' /\ RemovedHasNoPlace'
      BY <2>7, <2>8 DEF PlacesAreRemembered, CopyIsThere, RemovedHasNoPlace
    <3>8. AwaitedIsNew'
      BY <3>4 DEF AwaitedIsNew
    <3>9. MarkedIsListed'
      <4> SUFFICES ASSUME NEW i \in Back', i \in lists'.marks, i.title \in Titles PROVE i \in Listed'
        BY <3>2 DEF MarkedIsListed
      <4>1. CASE i = new
        BY <2>9, <4>1
      <4>2. CASE i # new
        <5>1. i \in places /\ i \in p.marks
          BY <2>5, <3>3, <3>5, <4>2
        <5>2. i \in Listed
          BY <2>4, <2>10, <3>2, <5>1 DEF PlacesHold, MarkedIsListed
        <5> QED
          BY <2>9, <5>1, <5>2
      <4> QED
        BY <4>1, <4>2
    <3>10. MarkedIsStored'
      <4> SUFFICES ASSUME NEW i \in Back', i \in disk.marks, i.title \in Titles
                   PROVE  \E t \in disk.texts : t.id = i
        BY <1>1 DEF MarkedIsStored
      <4>1. CASE i = new
        BY <1>1, <2>10, <3>1, <4>1 DEF PlacesHold, CopyIsThere
      <4>2. CASE i # new
        BY <2>10, <3>2, <3>3, <3>5, <4>2 DEF PlacesHold, MarkedIsStored
      <4> QED
        BY <4>1, <4>2
    <3> QED
      BY <3>6, <3>7, <3>8, <3>9, <3>10 DEF PlacesHold
  <2>11. overtaken' = {} => PlacesHold
    BY <1>1 DEF MarksIInv
  <2> QED
    BY <1>1, <2>6, <2>10, <2>11 DEF MarksIInv
<1> QED
  BY <1>4, <1>5

\* The lists of the store show each text where its save had left it.
LEMMA SnapshotKeepsPlaces ==
  ASSUME ShelfIInv, MarksIInv, Snapshot(disk), UNCHANGED <<disk, known, bookmarked>>,
         overtaken \subseteq overtaken',
         overtaken' = {} =>
           /\ \A u \in disk.texts : u.id \in disk.marks \cap Back => u.id \in places'
           /\ PlacesHold => \A i \in places' : i.title \in Titles => i \in Back
           /\ ~Moving' /\ (\A i : Awaits(i)' => Awaits(i))
           /\ places' = places \/ \A i : ~Awaits(i)'
           /\ PlacesHold => PlacesAreRemembered' /\ CopyIsThere' /\ RemovedHasNoPlace'
  PROVE  MarksIInv'
<1>1. TextsFit(disk)
  BY DEF ShelfIInv
<1>2. Listed' = {t.id : t \in disk.texts} /\ lists'.marks = disk.marks /\ lists'.books = disk.books
  BY <1>1, SnapshotFits DEF Snapshot, TextsFit, ListsFit, IsLists
<1>3. BooksFit' /\ bookmarked' \subseteq known'
  BY <1>2 DEF MarksIInv, BooksFit, NoText
<1>4. ASSUME overtaken' = {}, PlacesHold PROVE PlacesHold'
  <2>1. Back' = places'
    BY <1>4 DEF Back
  <2>2. \A t \in disk.texts : t.id \in Listed'
    BY <1>2
  <2>3. AllArePlaced'
    <3>1. ASSUME NEW c \in bookmarked PROVE Placed(c)'
      <4>1. PICK u \in disk.texts : SavedAt(c, u)
        BY <1>4, <3>1 DEF PlacesHold, AllArePlaced, Placed
      <4>2. ShownAt(c, u)'
        BY <1>2, <1>4, <2>2, <4>1 DEF ShownAt, SavedAt, HomeOf
      <4>3. SavedAt(c, u)'
        BY <1>4, <2>1, <2>2, <4>1 DEF SavedAt
      <4> QED
        BY <4>2, <4>3 DEF Placed
    <3> QED
      BY <3>1 DEF AllArePlaced
  <2>4. AwaitedIsNew'
    BY <1>2, <1>4 DEF PlacesHold, AwaitedIsNew
  <2>5. ASSUME NEW i \in places', i \in disk.marks, i.title \in Titles
        PROVE  i \in Listed' /\ \E t \in disk.texts : t.id = i
    <3>1. \E t \in disk.texts : t.id = i
      BY <1>4, <2>5 DEF PlacesHold, MarkedIsStored
    <3> QED
      BY <2>2, <3>1
  <2>6. MarkedIsListed' /\ MarkedIsStored'
    BY <1>2, <2>1, <2>5 DEF MarkedIsListed, MarkedIsStored
  <2> QED
    BY <1>4, <2>3, <2>4, <2>6 DEF PlacesHold
<1> QED
  BY <1>3, <1>4 DEF MarksIInv

LEMMA ReloadedKeepsPlaces ==
  ASSUME ShelfIInv, MarksIInv, NEW slot \in Slots, Reloaded(slot)
  PROVE  MarksIInv'
<1> DEFINE task == tasks[slot]
<1>1. /\ task.at = "reload" /\ Snapshot(disk) /\ UNCHANGED <<disk, known, bookmarked>>
      /\ overtaken \subseteq overtaken'
  BY DEF Reloaded, history
<1>2. TasksFit /\ task # Idle
  BY <1>1, IdleFits DEF ShelfIInv
<1>3. CASE slot = "background"
  <2>1. task = background /\ background.op = "import"
    BY <1>2, <1>3 DEF TasksFit, BackgroundFits, background
  <2>2. Ends(slot) /\ places' = places /\ (overtaken' = {} => dialog.op # "move")
    BY <1>3, <2>1 DEF Reloaded, dialog
  <2>3. dialog' = dialog
    BY <1>2, <1>3, <2>2, EndedTask
  <2>4. \A i : Awaits(i)' <=> Awaits(i)
    BY <2>3 DEF Awaits, Upserted
  <2>5. overtaken' = {} => ~Moving /\ ~Moving' /\ Back = places
    BY <2>2, <2>3 DEF Moving, Back
  <2>6. PlacesHold => PlacesAreRemembered' /\ CopyIsThere' /\ RemovedHasNoPlace'
    BY <1>1, <2>2, <2>3 DEF PlacesHold, PlacesAreRemembered, CopyIsThere, RemovedHasNoPlace
  <2> QED
    BY <1>1, <2>2, <2>4, <2>5, <2>6, SnapshotKeepsPlaces
<1>4. CASE slot = "dialog"
  <2>1. task = dialog /\ DialogFits(dialog) /\ dialog.op \in {"import", "remove", "removeBook", "move", "moveBook"}
    BY <1>2, <1>4 DEF TasksFit, DialogFits, dialog
  <2>2. /\ dialog'.op \notin {"moveBook", "remove"} /\ ~Moving' /\ \A i : ~Awaits(i)'
        /\ PlacesAreRemembered' /\ CopyIsThere'
    <3>1. /\ dialog'.at \in {"", "cleanup"} /\ dialog'.op \in {"idle", "move"}
      <4>1. CASE dialog.op # "move"
        <5>1. Ends(slot)
          BY <2>1, <4>1 DEF Reloaded
        <5> HIDE DEF Idle
        <5>2. dialog' = Idle
          BY <1>2, <1>4, <5>1, EndedTask
        <5> QED
          BY <5>2, IdleFits
      <4>2. CASE dialog.op = "move"
        <5> DEFINE drop == {dialog.new}
                   k == [dialog EXCEPT !.at = "cleanup", !.drop = drop]
        <5>1. tasks' = [tasks EXCEPT ![slot] = k]
          BY <2>1, <4>2 DEF Reloaded
        <5>2. k = [dialog EXCEPT !.at = "cleanup", !.drop = drop] /\ IsTask(dialog)
          BY <1>2 DEF TasksFit
        <5> HIDE DEF k, drop
        <5>3. k.at = "cleanup" /\ k.op = "move"
          BY <4>2, <5>2 DEF IsTask
        <5>4. dialog' = k
          BY <1>2, <1>4, <5>1 DEF TasksFit, dialog
        <5> QED
          BY <5>3, <5>4
      <4> QED
        BY <4>1, <4>2
    <3> QED
      BY <3>1 DEF Moving, Awaits, PlacesAreRemembered, CopyIsThere
  <2>3. RemovedHasNoPlace'
    BY <2>2 DEF RemovedHasNoPlace
  <2>4. CASE dialog.op \notin {"move", "moveBook"}
    <3>1. places' = places
      BY <2>1, <2>4 DEF Reloaded
    <3>2. Back = places
      BY <2>4 DEF Back, Moving
    <3> QED
      BY <1>1, <2>2, <2>3, <3>1, <3>2, SnapshotKeepsPlaces
  <2>5. CASE dialog.op \in {"move", "moveBook"}
    <3>1. /\ places' = dialog.places
          /\ overtaken' = {} => ~\E t \in disk.texts : t.id \in (disk.marks \cap places) \ dialog.places
      BY <2>1, <2>5 DEF Reloaded
    <3>2. dialog.op = "move" => Back = places \cup dialog.places
      BY <1>1, <2>1 DEF Back, Moving
    <3>3. dialog.op = "moveBook" => Back = places
      BY DEF Back, Moving
    <3>4. overtaken' = {} => \A u \in disk.texts : u.id \in disk.marks \cap Back => u.id \in places'
      BY <2>5, <3>1, <3>2, <3>3
    <3>5. PlacesHold => \A i \in places' : i.title \in Titles => i \in Back
      BY <2>5, <3>1, <3>2, <3>3 DEF PlacesHold, PlacesAreRemembered
    <3> QED
      BY <1>1, <2>2, <2>3, <3>4, <3>5, SnapshotKeepsPlaces
  <2> QED
    BY <2>4, <2>5
<1> QED
  BY <1>3, <1>4 DEF Slots

\* What is deleted in the end has no place, or is not listed.
LEMMA DeleteLeftKeepsPlaces ==
  ASSUME ShelfIInv, MarksIInv, NEW slot \in Slots, DeleteLeft(slot)
  PROVE  MarksIInv'
<1>1. tasks[slot].at = "cleanup" /\ UNCHANGED <<lists, places, known, bookmarked, overtaken>>
  BY DEF DeleteLeft, shown, history
<1>2. TextsFit(disk) /\ TasksFit /\ tasks[slot] # Idle
  BY <1>1, IdleFits DEF ShelfIInv
<1>3. slot = "dialog" /\ tasks[slot] = dialog
  BY <1>1, <1>2 DEF TasksFit, BackgroundFits, Slots, background, dialog
<1>4. ~Moving
  BY <1>1, <1>3 DEF Moving
<1>5. CASE dialog.drop = {}
  BY <1>1, <1>3, <1>4, <1>5, EndingKeepsPlaces DEF DeleteLeft
<1>6. CASE dialog.drop # {}
  <2>1. PICK id \in dialog.drop :
          /\ tasks' = [tasks EXCEPT ![slot] = [tasks[slot] EXCEPT !.drop = tasks[slot].drop \ {id}]]
          /\ \/ /\ dialog.op = "remove" \/ ~\E t \in lists.texts : t.id = id
                /\ DeleteText(id)
             \/ UNCHANGED disk
    BY <1>3, <1>6 DEF DeleteLeft
  <2> DEFINE k == [dialog EXCEPT !.drop = dialog.drop \ {id}]
  <2>2. /\ k.op = dialog.op /\ k.at = "cleanup" /\ k.places = dialog.places
        /\ k.drop \subseteq dialog.drop
    <3>1. IsTask(dialog) /\ dialog.at = "cleanup"
      BY <1>1, <1>2, <1>3 DEF TasksFit
    <3> QED
      BY <3>1 DEF IsTask
  <2>3. dialog' = k
    BY <1>2, <1>3, <2>1 DEF TasksFit, dialog
  <2> HIDE DEF k
  <2>4. ~Moving' /\ \A i : ~Awaits(i)'
    BY <2>2, <2>3 DEF Moving, Awaits
  <2>5. PlacesAreRemembered => PlacesAreRemembered'
    BY <1>1, <2>2, <2>3 DEF PlacesAreRemembered
  <2>6. CASE UNCHANGED disk
    <3>1. OnwardPlaces
      BY <1>4, <2>2, <2>3, <2>4, <2>5 DEF OnwardPlaces
    <3> QED
      BY <1>1, <2>6, <3>1, PlacesAlone DEF MarksIInv, BooksFit
  <2>7. CASE /\ dialog.op = "remove" \/ ~\E t \in lists.texts : t.id = id
             /\ DeleteText(id)
    <3> DEFINE rest == Without(disk.texts, id)
    <3>1. disk' = [disk EXCEPT !.texts = rest] /\ IsLists(disk)
      BY <1>2, <2>7 DEF DeleteText, TextsFit, ListsFit
    <3>2. \A t \in disk.texts : t.id # id => t \in rest
      BY DEF Without
    <3> HIDE DEF rest
    <3>3. disk'.texts = rest /\ disk'.marks = disk.marks /\ disk'.books = disk.books
      BY <3>1 DEF IsLists
    <3>4. BooksFit' /\ bookmarked' \subseteq known'
      BY <1>1, <3>3 DEF MarksIInv, BooksFit, NoText
    <3>5. dialog.op = "remove" \/ id \notin Listed
      BY <2>7 DEF Listed
    <3>6. Listed' = Listed /\ Back = places /\ Back' = places
      BY <1>1, <1>4, <2>4 DEF Listed, Back
    <3>7. ASSUME overtaken = {}, PlacesHold PROVE PlacesHold'
      <4>1. ASSUME NEW c \in bookmarked, NEW t \in disk.texts, t.body = c, t.id \in Listed
            PROVE  t \in disk'.texts
        <5>1. RemovedIsGivenUp /\ c \in known
          BY <3>7, NothingIsAstray DEF MarksIInv
        <5>2. t.id # id
          BY <2>1, <3>5, <4>1, <5>1 DEF RemovedIsGivenUp
        <5> QED
          BY <3>2, <3>3, <5>2
      <4>2. AllArePlaced'
        <5>1. ASSUME NEW c \in bookmarked PROVE Placed(c)'
          <6>1. PICK t \in disk.texts : ShownAt(c, t)
            BY <3>7 DEF PlacesHold, AllArePlaced, Placed
          <6>2. PICK u \in disk.texts : SavedAt(c, u)
            BY <3>7 DEF PlacesHold, AllArePlaced, Placed
          <6>3. t \in disk'.texts /\ u \in disk'.texts
            BY <1>4, <4>1, <6>1, <6>2 DEF ShownAt, SavedAt, HomeOf
          <6>4. ShownAt(c, t)'
            BY <1>1, <2>4, <3>6, <6>1 DEF ShownAt, HomeOf
          <6>5. SavedAt(c, u)'
            BY <1>1, <1>4, <2>4, <3>3, <3>6, <6>2 DEF SavedAt
          <6> QED
            BY <6>3, <6>4, <6>5 DEF Placed
        <5> QED
          BY <1>1, <5>1 DEF AllArePlaced
      <4>3. PlacesAreRemembered' /\ CopyIsThere' /\ RemovedHasNoPlace'
        BY <1>1, <2>2, <2>3, <2>5, <3>7 DEF PlacesHold, CopyIsThere, RemovedHasNoPlace
      <4>4. AwaitedIsNew'
        BY <2>4 DEF AwaitedIsNew
      <4>5. MarkedIsListed'
        BY <1>1, <1>4, <3>3, <3>6, <3>7 DEF PlacesHold, MarkedIsListed
      <4>6. MarkedIsStored'
        <5> SUFFICES ASSUME NEW i \in places, i \in disk.marks, i.title \in Titles
                     PROVE  \E t \in disk'.texts : t.id = i
          BY <3>3, <3>6 DEF MarkedIsStored
        <5>1. PICK t \in disk.texts : t.id = i
          BY <3>6, <3>7 DEF PlacesHold, MarkedIsStored
        <5>2. i # id
          BY <1>4, <2>1, <3>5, <3>7 DEF PlacesHold, MarkedIsListed, RemovedHasNoPlace
        <5> QED
          BY <3>2, <3>3, <5>1, <5>2
      <4> QED
        BY <4>2, <4>3, <4>4, <4>5, <4>6 DEF PlacesHold
    <3> QED
      BY <1>1, <3>4, <3>7 DEF MarksIInv
  <2> QED
    BY <2>1, <2>6, <2>7
<1> QED
  BY <1>5, <1>6

LEMMA LibraryInitPlaces ==
  ASSUME LibraryInit
  PROVE  MarksIInv
<1> DEFINE title == CHOOSE x \in Titles : TRUE
           l == CHOOSE x \in Langs : TRUE
           id == Own(l, title)
           c == Imported(id, 1)
           entry == [profile |-> l, id |-> id, lang |-> l]
           text == [id |-> id, lang |-> l, body |-> c]
           books == {[profile |-> l, id |-> Own("user", b)] : b \in UserBooks}
           p == [texts |-> {entry}, books |-> books, archived |-> {}, hidden |-> {}, marks |-> {id}]
<1>1. /\ lists = p /\ disk = [p EXCEPT !.texts = {text}]
      /\ tasks = [s \in Slots |-> Idle] /\ known = {c} /\ bookmarked = {c} /\ places = {id}
  BY DEF LibraryInit
<1>2. \A x \in books : NoText(x)
  BY LibraryAssumption DEF NoText, Own
<1>3. entry.id = id /\ text.id = id /\ text.body = c
  OBVIOUS
<1> HIDE DEF c, id, title, l, books
<1>4. /\ lists.texts = {entry} /\ lists.books = books /\ lists.marks = {id}
      /\ disk.texts = {text} /\ disk.books = books /\ disk.marks = {id}
  <2> HIDE DEF entry, text
  <2> QED
    BY <1>1
<1> HIDE DEF entry, text, p, Idle
<1>5. dialog = Idle
  BY <1>1 DEF dialog, Slots
<1>6. dialog.op = "idle" /\ dialog.at = ""
  BY <1>5, IdleFits
<1>7. ~Moving /\ Back = places /\ \A i : ~Awaits(i)
  BY <1>6 DEF Moving, Back, Awaits
<1>8. id \in Listed
  BY <1>3, <1>4 DEF Listed
<1>9. AllArePlaced
  <2>1. ShownAt(c, text) /\ SavedAt(c, text)
    BY <1>1, <1>3, <1>4, <1>7, <1>8 DEF ShownAt, SavedAt, HomeOf
  <2> QED
    BY <1>1, <1>4, <2>1 DEF AllArePlaced, Placed
<1>10. PlacesAreRemembered /\ AwaitedIsNew /\ CopyIsThere /\ RemovedHasNoPlace
  BY <1>6, <1>7 DEF PlacesAreRemembered, AwaitedIsNew, CopyIsThere, RemovedHasNoPlace
<1>11. MarkedIsListed /\ MarkedIsStored
  BY <1>1, <1>3, <1>4, <1>7, <1>8 DEF MarkedIsListed, MarkedIsStored
<1> QED
  BY <1>1, <1>2, <1>4, <1>9, <1>10, <1>11 DEF MarksIInv, BooksFit, PlacesHold

LEMMA LibraryStepKeepsPlaces ==
  ASSUME ShelfIInv, MarksIInv, [LibraryNext]_libraryVars
  PROVE  MarksIInv'
<1>1. ASSUME NEW id \in Listed, RemoveText(id) \/ Read(id) \/ \E to \in Langs : Move(id, to)
      PROVE  MarksIInv'
  BY <1>1, RemoveTextKeepsPlaces, ReadKeepsPlaces, MoveKeepsPlaces
<1>2. ASSUME NEW id, NEW on, Archive(id, on)
      PROVE  MarksIInv'
  BY <1>2, OtherBooksKeepPlaces
<1>3. ASSUME NEW b \in UserBooks,
             AddBook(b) \/ RemoveBook(b) \/ LoadFull(b) \/ \E to \in Langs : MoveBook(b, to)
      PROVE  MarksIInv'
  BY <1>3, OtherBooksKeepPlaces, RemoveBookKeepsPlaces, LoadFullKeepsPlaces, MoveBookKeepsPlaces
<1>4. ASSUME NEW b \in Catalog, Hide(b)
      PROVE  MarksIInv'
  BY <1>4, OtherBooksKeepPlaces
<1>5. ASSUME NEW l \in Langs, SwitchLanguage(l)
      PROVE  MarksIInv'
  BY <1>5, OtherBooksKeepPlaces
<1>6. ASSUME NEW title \in Titles, Import(title)
      PROVE  MarksIInv'
  BY <1>6, ImportKeepsPlaces
<1>7. CASE Loaded \/ MoveListed \/ Autosave
  BY <1>7, LoadedKeepsPlaces, MoveListedKeepsPlaces, AutosaveKeepsPlaces
<1>8. ASSUME NEW slot \in Slots, Stored(slot)
      PROVE  MarksIInv'
  BY <1>8, OwnStoredKeepsPlaces, FullStoredKeepsPlaces DEF Stored, Slots
<1>9. ASSUME NEW slot \in Slots, Fetched(slot) \/ ImportListed(slot) \/ UpsertFails(slot) \/ ReloadFails(slot)
      PROVE  MarksIInv'
  BY <1>9, FetchedKeepsPlaces, ImportListedKeepsPlaces, FailuresKeepPlaces
<1>10. ASSUME NEW slot \in Slots,
              SaveSucceeds(slot) \/ SaveFails(slot) \/ Reloaded(slot) \/ DeleteLeft(slot)
       PROVE  MarksIInv'
  BY <1>10, SaveSucceedsKeepsPlaces, SaveFailsKeepsPlaces, ReloadedKeepsPlaces, DeleteLeftKeepsPlaces
<1>11. CASE UNCHANGED libraryVars
  BY <1>11, EndingKeepsPlaces DEF libraryVars, shown, files, history
<1> QED
  BY <1>1, <1>2, <1>3, <1>4, <1>5, <1>6, <1>7, <1>8, <1>9, <1>10, <1>11 DEF LibraryNext

\* With it, what was saved with a bookmark and a place has both in the lists
\* and in the store, or a move under way remembers them.
THEOREM MarksInvariance == LibrarySpec => [](ShelfIInv /\ MarksIInv)
<1>1. LibraryInit => ShelfIInv /\ MarksIInv
  BY LibraryInitKeeps, LibraryInitPlaces
<1>2. ShelfIInv /\ MarksIInv /\ [LibraryNext]_libraryVars => (ShelfIInv /\ MarksIInv)'
  BY LibraryStepKeeps, LibraryStepKeepsPlaces
<1> QED
  BY <1>1, <1>2, PTL DEF LibrarySpec

\* A text is kept whole, and one that is moved is found with its bookmarks and
\* its place, unless the move was overtaken (moveCustomTextToProfile).
THEOREM BooksKeepTheirPlaces == LibrarySpec => []BooksAreKept
<1>1. MarksIInv => MovesCarryWhatIsKnown
  BY DEF MarksIInv, PlacesHold, AllArePlaced, Placed, ShownAt, HomeOf, MovesCarryWhatIsKnown
<1>2. TextsAreKept /\ MovesCarryWhatIsKnown => BooksAreKept
  BY DEF BooksAreKept
<1> QED
  BY <1>1, <1>2, BooksStayWhole, MarksInvariance, PTL

-------------------------------------------------------------------------------
(* What is counted in them (TextStats).                                    *)

AnyCount == [book : Books, version : Nat, round : Nat]
AnyActive == [book : Books, version : Nat, round : Nat, words : Vocabularies]

StatsTypes ==
  /\ words \in Vocabularies /\ prepared \in Vocabularies
  /\ version \in Nat /\ round \in Nat
  /\ asking \in Seq(AnyCount)
  /\ active = NoJob \/ active \in AnyActive
  /\ told \in [version : Nat, words : Vocabularies]
  /\ counts \in [Books -> Vocabularies \cup {Nothing}]
  /\ crossed \in BOOLEAN
  /\ marks \in [Books -> Nat \X Nat]
  /\ index \in [Books -> (Nat \X Nat) \cup {NoMark}]
  /\ \A r \in indexing : r.book \in Books

\* What waits is of now; nothing is ahead of the page.
JobsAreOfNow ==
  /\ \A i \in DOMAIN asking : asking[i].version = version /\ asking[i].round = round
  /\ told.version <= version
  /\ active # NoJob => active.version <= version /\ active.round <= round

\* Unless a job met another vocabulary, what the worker has is the vocabulary
\* its version stands for.
WorkerIsToldTheTruth ==
  crossed \/ /\ told.version = version => told.words = prepared
             /\ active # NoJob /\ active.version = version => active.words = prepared

StatsInv == StatsTypes /\ JobsAreOfNow /\ WorkerIsToldTheTruth /\ CountsAreCurrent

LEMMA StatsStart == StatsInit => StatsInv
<1> SUFFICES ASSUME StatsInit PROVE StatsInv
  OBVIOUS
<1> USE DEF StatsInit
<1>1. StatsTypes
  <2>1. /\ words \in Vocabularies /\ prepared \in Vocabularies
        /\ version \in Nat /\ round \in Nat
        /\ asking \in Seq(AnyCount) /\ active = NoJob
    OBVIOUS
  <2>2. told \in [version : Nat, words : Vocabularies]
    OBVIOUS
  <2>3. crossed \in BOOLEAN
    OBVIOUS
  <2>4. counts \in [Books -> Vocabularies \cup {Nothing}]
    OBVIOUS
  <2>5. marks \in [Books -> Nat \X Nat] /\ index \in [Books -> (Nat \X Nat) \cup {NoMark}]
    OBVIOUS
  <2>6. \A r \in indexing : r.book \in Books
    OBVIOUS
  <2> QED
    BY <2>1, <2>2, <2>3, <2>4, <2>5, <2>6 DEF StatsTypes
<1>2. JobsAreOfNow /\ WorkerIsToldTheTruth
  BY DEF JobsAreOfNow, WorkerIsToldTheTruth
<1>3. CountsAreCurrent
  BY DEF CountsAreCurrent
<1> QED
  BY <1>1, <1>2, <1>3 DEF StatsInv

LEMMA RunKeeps ==
  ASSUME StatsTypes, JobsAreOfNow, WorkerIsToldTheTruth,
         NEW jobs \in Seq(AnyCount),
         \A i \in DOMAIN jobs : jobs[i].version = version /\ jobs[i].round = round,
         Run(jobs)
  PROVE  /\ asking' \in Seq(AnyCount)
         /\ active' = NoJob \/ active' \in AnyActive
         /\ told' \in [version : Nat, words : Vocabularies]
         /\ crossed' \in BOOLEAN
         /\ crossed => crossed'
         /\ \A i \in DOMAIN asking' : asking'[i].version = version /\ asking'[i].round = round
         /\ told'.version <= version
         /\ active' # NoJob => active'.version <= version /\ active'.round <= round
         /\ crossed' \/ /\ told'.version = version => told'.words = prepared
                        /\ active' # NoJob /\ active'.version = version => active'.words = prepared
<1>1. CASE jobs = <<>>
  <2>1. active' = NoJob /\ asking' = jobs /\ told' = told /\ crossed' = crossed
    BY <1>1 DEF Run
  <2> QED
    BY <2>1 DEF StatsTypes, JobsAreOfNow, WorkerIsToldTheTruth
<1>2. CASE jobs # <<>>
  <2> DEFINE wanted == Head(jobs)
  <2>1. wanted \in AnyCount /\ wanted = jobs[1] /\ 1 \in DOMAIN jobs
    BY <1>2
  <2>2. wanted.version = version /\ wanted.round = round /\ wanted.book \in Books
    BY <2>1 DEF AnyCount
  <2>3. /\ told' = Sent(wanted)
        /\ active' = [book |-> wanted.book, version |-> wanted.version, round |-> wanted.round,
                      words |-> told'.words]
        /\ asking' = Tail(jobs)
        /\ crossed' = (crossed \/ (wanted.version = version /\ told'.words # prepared))
    BY <1>2 DEF Run
  <2>4. /\ told' \in [version : Nat, words : Vocabularies]
        /\ told'.version = version
    BY <2>2, <2>3 DEF Sent, StatsTypes
  <2>5. /\ asking' \in Seq(AnyCount)
        /\ \A i \in DOMAIN asking' : i + 1 \in DOMAIN jobs /\ asking'[i] = jobs[i + 1]
    BY <1>2, <2>3
  <2>6. active' \in AnyActive /\ active'.version = version /\ active'.round = round /\ active'.words = told'.words
    BY <2>2, <2>3, <2>4 DEF AnyActive, StatsTypes
  <2>7. crossed' = (crossed \/ told'.words # prepared)
    BY <2>2, <2>3
  <2>8. crossed' \in BOOLEAN /\ (crossed => crossed')
    BY <2>7
  <2>9. \A i \in DOMAIN asking' : asking'[i].version = version /\ asking'[i].round = round
    BY <2>5
  <2>10. told'.version <= version /\ active'.version <= version /\ active'.round <= round
    BY <2>4, <2>6 DEF StatsTypes
  <2>11. crossed' \/ told'.words = prepared
    BY <2>7
  <2> QED
    BY <2>4, <2>5, <2>6, <2>8, <2>9, <2>10, <2>11
<1> QED
  BY <1>1, <1>2

LEMMA StatsStep == StatsInv /\ [StatsNext]_statsVars => StatsInv'
<1> SUFFICES ASSUME StatsInv, [StatsNext]_statsVars PROVE StatsInv'
  OBVIOUS
<1> USE DEF StatsInv
<1>1. ASSUME EditWord PROVE StatsInv'
  BY <1>1 DEF EditWord, indexVars, StatsTypes, JobsAreOfNow, WorkerIsToldTheTruth, CountsAreCurrent
<1>2. ASSUME Prepare PROVE StatsInv'
  <2> USE <1>2 DEF Prepare, Cancelled, indexVars
  <2>1. StatsTypes'
    BY DEF StatsTypes
  <2>2. JobsAreOfNow' /\ WorkerIsToldTheTruth'
    BY DEF StatsTypes, JobsAreOfNow, WorkerIsToldTheTruth, AnyActive, NoJob
  <2>3. CountsAreCurrent'
    BY DEF CountsAreCurrent
  <2> QED
    BY <2>1, <2>2, <2>3
<1>3. ASSUME Counted PROVE StatsInv'
  <2> USE <1>3
  <2>1. Run(asking)
    BY DEF Counted
  <2>2. /\ asking' \in Seq(AnyCount)
        /\ active' = NoJob \/ active' \in AnyActive
        /\ told' \in [version : Nat, words : Vocabularies]
        /\ crossed' \in BOOLEAN
        /\ crossed => crossed'
        /\ \A i \in DOMAIN asking' : asking'[i].version = version /\ asking'[i].round = round
        /\ told'.version <= version
        /\ active' # NoJob => active'.version <= version /\ active'.round <= round
        /\ crossed' \/ /\ told'.version = version => told'.words = prepared
                       /\ active' # NoJob /\ active'.version = version => active'.words = prepared
    BY <2>1, RunKeeps DEF StatsTypes, JobsAreOfNow
  <2>3. /\ UNCHANGED <<words, prepared, version, round, marks, index, indexing>>
        /\ active # NoJob
        /\ counts' = IF Keeps(active) THEN [counts EXCEPT ![active.book] = active.words] ELSE counts
    BY DEF Counted, indexVars
  <2>4. active \in AnyActive /\ active.book \in Books /\ active.words \in Vocabularies
    BY <2>3 DEF StatsTypes, AnyActive
  <2>5. counts' \in [Books -> Vocabularies \cup {Nothing}]
    BY <2>3, <2>4 DEF StatsTypes
  <2>6. \A b \in Books : counts'[b] \in {Nothing, prepared} \/ crossed
    BY <2>3, <2>4 DEF StatsTypes, CountsAreCurrent, Keeps, WorkerIsToldTheTruth
  <2>7. StatsTypes'
    BY <2>2, <2>3, <2>5 DEF StatsTypes
  <2>8. JobsAreOfNow' /\ WorkerIsToldTheTruth'
    BY <2>2, <2>3 DEF JobsAreOfNow, WorkerIsToldTheTruth
  <2>9. CountsAreCurrent'
    BY <2>2, <2>3, <2>6 DEF CountsAreCurrent
  <2> QED
    BY <2>7, <2>8, <2>9
<1>4. ASSUME WorkerFails PROVE StatsInv'
  <2> USE <1>4
  <2>1. /\ active # NoJob /\ active' = NoJob /\ asking' = <<>>
        /\ UNCHANGED <<words, prepared, version, round, told, marks, index, indexing>>
        /\ \/ counts' = [counts EXCEPT ![active.book] = words] /\ crossed' = (crossed \/ words # prepared)
           \/ counts' = counts /\ crossed' = crossed
    BY DEF WorkerFails, indexVars
  <2>2. active.book \in Books
    BY <2>1 DEF StatsTypes, AnyActive
  <2>3. counts' \in [Books -> Vocabularies \cup {Nothing}]
    <3>1. counts' = counts \/ counts' = [counts EXCEPT ![active.book] = words]
      BY <2>1
    <3> QED
      BY <2>2, <3>1 DEF StatsTypes
  <2>3a. crossed' \in BOOLEAN /\ (crossed => crossed')
    <3>1. crossed \in BOOLEAN
      BY DEF StatsTypes
    <3>2. CASE crossed' = crossed
      BY <3>1, <3>2
    <3>3. CASE crossed' = (crossed \/ words # prepared)
      BY <3>3
    <3> QED
      BY <2>1, <3>2, <3>3
  <2>4. ASSUME NEW b \in Books PROVE counts'[b] \in {Nothing, prepared} \/ crossed'
    <3>1. counts[b] \in {Nothing, prepared} \/ crossed
      BY DEF CountsAreCurrent
    <3>2. CASE counts' = counts /\ crossed' = crossed
      BY <3>1, <3>2
    <3>3. CASE counts' = [counts EXCEPT ![active.book] = words] /\ crossed' = (crossed \/ words # prepared)
      <4>1. counts'[b] = counts[b] \/ counts'[b] = words
        BY <3>3, <2>2 DEF StatsTypes
      <4>2. crossed \/ words # prepared => crossed'
        BY <3>3
      <4> QED
        BY <3>1, <4>1, <4>2
    <3> QED
      BY <2>1, <3>2, <3>3
  <2>5. StatsTypes'
    BY <2>1, <2>3, <2>3a DEF StatsTypes
  <2>6. JobsAreOfNow' /\ WorkerIsToldTheTruth'
    BY <2>1, <2>3a DEF JobsAreOfNow, WorkerIsToldTheTruth
  <2>7. CountsAreCurrent'
    BY <2>1, <2>4 DEF CountsAreCurrent
  <2> QED
    BY <2>5, <2>6, <2>7
<1>5. ASSUME InvalidateAll PROVE StatsInv'
  <2> USE <1>5 DEF InvalidateAll, Cancelled, Unmarked
  <2>1. StatsTypes'
    BY DEF StatsTypes
  <2>2. JobsAreOfNow' /\ WorkerIsToldTheTruth'
    BY DEF StatsTypes, JobsAreOfNow, WorkerIsToldTheTruth, AnyActive, NoJob
  <2>3. CountsAreCurrent'
    BY DEF CountsAreCurrent, StatsTypes
  <2> QED
    BY <2>1, <2>2, <2>3
<1>6. ASSUME NEW b \in Books, Ask(b) PROVE StatsInv'
  <2> DEFINE wanted == [book |-> b, version |-> version, round |-> round]
  <2>1. /\ UNCHANGED <<words, prepared, version, round, marks, index, indexing>>
        /\ \/ /\ counts' = [counts EXCEPT ![b] = words]
              /\ crossed' = (crossed \/ words # prepared)
              /\ UNCHANGED <<asking, active, told>>
           \/ counts' = counts /\ Run(Append(asking, wanted))
           \/ /\ counts' = counts /\ asking' = Append(asking, wanted)
              /\ UNCHANGED <<active, told, crossed>>
    BY <1>6 DEF Ask, indexVars
  <2>2. /\ Append(asking, wanted) \in Seq(AnyCount)
        /\ \A i \in DOMAIN Append(asking, wanted) :
             Append(asking, wanted)[i].version = version /\ Append(asking, wanted)[i].round = round
    <3>1. wanted \in AnyCount /\ asking \in Seq(AnyCount)
      BY DEF StatsTypes, AnyCount
    <3>2. /\ Append(asking, wanted) \in Seq(AnyCount)
          /\ \A i \in DOMAIN Append(asking, wanted) :
               Append(asking, wanted)[i] = wanted \/ (i \in DOMAIN asking /\ Append(asking, wanted)[i] = asking[i])
      BY <3>1
    <3> QED
      BY <3>2 DEF JobsAreOfNow
  <2>3. CASE /\ counts' = [counts EXCEPT ![b] = words]
             /\ crossed' = (crossed \/ words # prepared)
             /\ UNCHANGED <<asking, active, told>>
    <3>1. /\ counts' \in [Books -> Vocabularies \cup {Nothing}]
          /\ crossed' \in BOOLEAN /\ (crossed => crossed')
      BY <2>3 DEF StatsTypes
    <3>2. \A c \in Books : counts'[c] \in {Nothing, prepared} \/ crossed'
      BY <2>3 DEF StatsTypes, CountsAreCurrent
    <3>3. StatsTypes'
      BY <2>1, <2>3, <3>1 DEF StatsTypes
    <3>4. JobsAreOfNow' /\ WorkerIsToldTheTruth'
      BY <2>1, <2>3, <3>1 DEF JobsAreOfNow, WorkerIsToldTheTruth
    <3>5. CountsAreCurrent'
      BY <2>1, <3>2 DEF CountsAreCurrent
    <3> QED
      BY <3>3, <3>4, <3>5
  <2>4. CASE counts' = counts /\ Run(Append(asking, wanted))
    <3>1. /\ asking' \in Seq(AnyCount)
          /\ active' = NoJob \/ active' \in AnyActive
          /\ told' \in [version : Nat, words : Vocabularies]
          /\ crossed' \in BOOLEAN
          /\ crossed => crossed'
          /\ \A i \in DOMAIN asking' : asking'[i].version = version /\ asking'[i].round = round
          /\ told'.version <= version
          /\ active' # NoJob => active'.version <= version /\ active'.round <= round
          /\ crossed' \/ /\ told'.version = version => told'.words = prepared
                         /\ active' # NoJob /\ active'.version = version => active'.words = prepared
      BY <2>2, <2>4, RunKeeps
    <3>2. StatsTypes'
      BY <2>1, <2>4, <3>1 DEF StatsTypes
    <3>3. JobsAreOfNow' /\ WorkerIsToldTheTruth'
      BY <2>1, <3>1 DEF JobsAreOfNow, WorkerIsToldTheTruth
    <3>4. CountsAreCurrent'
      BY <2>1, <2>4, <3>1 DEF CountsAreCurrent
    <3> QED
      BY <3>2, <3>3, <3>4
  <2>5. CASE /\ counts' = counts /\ asking' = Append(asking, wanted)
             /\ UNCHANGED <<active, told, crossed>>
    <3>1. StatsTypes'
      BY <2>1, <2>2, <2>5 DEF StatsTypes
    <3>2. JobsAreOfNow' /\ WorkerIsToldTheTruth'
      BY <2>1, <2>2, <2>5 DEF JobsAreOfNow, WorkerIsToldTheTruth
    <3>3. CountsAreCurrent'
      BY <2>1, <2>5 DEF CountsAreCurrent
    <3> QED
      BY <3>1, <3>2, <3>3
  <2> QED
    BY <2>1, <2>3, <2>4, <2>5
<1>7. ASSUME NEW b \in Books, Seek(b) PROVE StatsInv'
  BY <1>7 DEF Seek, countVars, StatsTypes, JobsAreOfNow, WorkerIsToldTheTruth, CountsAreCurrent
<1>8. ASSUME NEW b \in Books, Invalidate(b) PROVE StatsInv'
  <2> USE <1>8 DEF Invalidate, Cancelled, Unmarked
  <2>1. StatsTypes'
    BY DEF StatsTypes
  <2>2. JobsAreOfNow' /\ WorkerIsToldTheTruth'
    BY DEF StatsTypes, JobsAreOfNow, WorkerIsToldTheTruth, AnyActive, NoJob
  <2>3. CountsAreCurrent'
    BY DEF CountsAreCurrent, StatsTypes
  <2> QED
    BY <2>1, <2>2, <2>3
<1>9. ASSUME NEW r \in indexing, Found(r) PROVE StatsInv'
  <2> USE <1>9 DEF Found, countVars
  <2>1. StatsTypes'
    BY DEF StatsTypes
  <2>2. JobsAreOfNow' /\ WorkerIsToldTheTruth'
    BY DEF JobsAreOfNow, WorkerIsToldTheTruth
  <2>3. CountsAreCurrent'
    BY DEF CountsAreCurrent, StatsTypes
  <2> QED
    BY <2>1, <2>2, <2>3
<1>10. ASSUME NEW r \in indexing, NotFound(r) PROVE StatsInv'
  BY <1>10 DEF NotFound, countVars, StatsTypes, JobsAreOfNow, WorkerIsToldTheTruth, CountsAreCurrent
<1>11. ASSUME UNCHANGED statsVars PROVE StatsInv'
  BY <1>11 DEF statsVars, countVars, indexVars, StatsTypes, JobsAreOfNow, WorkerIsToldTheTruth, CountsAreCurrent
<1> QED
  BY <1>1, <1>2, <1>3, <1>4, <1>5, <1>6, <1>7, <1>8, <1>9, <1>10, <1>11 DEF StatsNext

\* What waits for the worker is of the vocabulary and the caches of now, and
\* the worker has the vocabulary its version stands for (stats-cache.ts).
THEOREM StatsInvariance == StatsSpec => []StatsInv
<1> QED
  BY StatsStart, StatsStep, PTL DEF StatsSpec

\* No number is kept that was counted by another vocabulary, and no index that
\* was asked for before its book was voided (stats-cache.ts, vocab-index-client.ts).
THEOREM NumbersAreOfNow == StatsSpec => []CountsAreCurrent
<1>1. StatsInv => CountsAreCurrent
  BY DEF StatsInv
<1> QED
  BY <1>1, StatsInvariance, PTL

================================================================================
