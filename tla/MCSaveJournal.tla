---------------------------- MODULE MCSaveJournal -----------------------------
(* SaveJournal on a small instance: see the .cfg files for the bounds.     *)
EXTENDS SaveJournal, TLC

CONSTANTS w1, w2   \* two records

MCKeys == {w1, w2}
MCData == {1}
MCDevices == {1}

\* Records of the same kind are interchangeable.
KeySymmetry == Permutations(MCKeys)
===============================================================================
