----------------------------- MODULE MCStoreSync ------------------------------
(* StoreSync on a small instance: see the .cfg files for the bounds.       *)
EXTENDS StoreSync, TLC

CONSTANTS w, t          \* a record only the pages write, and a text
CONSTANTS p1, p2        \* pages, one after the other

MCKeys == {w, t}
MCText == {t}
MCOnePage == {p1}
MCPages == {p1, p2}
MCData == {-1, 1}
MCOneDatum == {1}
MCDevices == {1}

\* Pages are interchangeable: a page is known by its history alone.
PageSymmetry == Permutations(MCPages)
===============================================================================
