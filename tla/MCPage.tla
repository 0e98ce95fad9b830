-------------------------------- MODULE MCPage --------------------------------
(* Two parts of a page that share no state, each on a small instance: the  *)
(* autosave, and the cache of book texts.  Which of them moves is chosen at *)
(* the start.                                                              *)
EXTENDS Autosave, TLC

CONSTANTS a, b, prefs          \* the words of two languages, and the preferences

VARIABLES
  part,
  body, versions, listed, cached, bytes, stale, gen, requests, loading, current, editing,
  deletions, floor, overtaken, acts

MCKeys == {a, b, prefs}

MCSize == "own" :> 2 @@ "builtin" :> 2
Texts == INSTANCE TextCache WITH
  Customs <- {"own"}, Catalog <- {"builtin"}, Size <- MCSize, MaxBytes <- 3,
  MaxWrites <- 3, MaxActs <- 3

textVars == <<body, versions, listed, cached, bytes, stale, gen, requests, loading, current,
              editing, deletions, floor, overtaken, acts>>

MCInit ==
  /\ part \in {"saves", "texts"}
  /\ Init /\ Texts!CacheInit
  /\ part # "saves" => dirty = {} /\ replay = FALSE      \* the part at rest starts one way

MCNext ==
  /\ UNCHANGED part
  /\ \/ part = "saves" /\ Next /\ UNCHANGED textVars
     \/ part = "texts" /\ Texts!CacheNext /\ UNCHANGED vars

\* Only timers, saves and exclusive writes are relied on to come to an end.
MCSpec == MCInit /\ [][MCNext]_<<part, vars, textVars>> /\ Fairness

-------------------------------------------------------------------------------
(* The properties of the cache, as its module states them.                 *)

\* The texts kept fit, the open one is kept whatever else is loaded, and a
\* text that does not count as stale is the last the page knows of.
OpenTextStays == [](Texts!FreshIsCurrent /\ Texts!CacheFits) /\ Texts!OpenTextStays

===============================================================================
