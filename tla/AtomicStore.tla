----------------------------- MODULE AtomicStore ------------------------------
(***************************************************************************)
(* What the save and wipe journals promise: a save happens as a whole or   *)
(* not at all, and so does a wipe, wherever the process stops on the way.  *)
(* Only whether a save that was never confirmed has happened is left open. *)
(* The promise is about what the records hold, not about their stamps: a   *)
(* tombstone on a tombstone may get a new one at any time.                 *)
(***************************************************************************)
EXTENDS SaveRequest

VARIABLES
  tree,   \* the records
  asked   \* the save that has been asked for and not yet happened, or None

\* What the records hold.
Held(records) ==
  LET r == records IN [k \in Keys |-> IF r[k] = None THEN None ELSE r[k].data]

Init == tree \in Tree /\ asked = None

Ask == asked = None /\ asked' \in Request /\ Held(tree') = Held(tree)

\* The save is given up, or nothing but stamps changes.
Refuse == asked' \in {None, asked} /\ Held(tree') = Held(tree)

Save == asked # None /\ asked' = None /\ Held(tree') = Held(After(asked, tree, tree))

Wipe ==
  /\ \A k \in Keys : IF tree[k] = None THEN tree'[k] = None ELSE IsTombstone(tree'[k])
  /\ UNCHANGED asked

Next == Ask \/ Refuse \/ Save \/ Wipe

Spec == Init /\ [][Next]_<<tree, asked>>
===============================================================================
