--------------------------- MODULE MCStorageOutbox ---------------------------
(* Model values and symmetry for the instances of StorageOutbox. *)
EXTENDS StorageOutbox, TLC

CONSTANTS o1, o2, w1, w2, c1, c2

TwoObjects == {o1, o2}
OneObject == {o1}
OneWorker == {w1}
TwoWorkers == {w1, w2}
OneCopy == {c1}
TwoCopies == {c1, c2}

Symmetry == Permutations(Objects) \cup Permutations(Workers) \cup Permutations(Copies)
=============================================================================
