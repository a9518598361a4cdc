---------------------------- MODULE MCStorageTree ----------------------------
(* Model values and symmetry for the instances of StorageTree. *)
EXTENDS StorageTree, TLC

CONSTANTS e1, e2, e3, e4, n1, n2, r1, r2

ThreeEntries == {Root, e1, e2}
FourEntries == {Root, e1, e2, e3}
FiveEntries == {Root, e1, e2, e3, e4}
OneName == {n1}
TwoNames == {n1, n2}
OneRequest == {r1}
TwoRequests == {r1, r2}

AllOps == {"create", "rename", "move", "copy", "trash", "restore", "purge"}
MoveOps == {"create", "move"}
TrashOps == {"create", "trash", "restore", "purge"}

Symmetry == Permutations(Entries \ {Root}) \cup Permutations(Names)
            \cup Permutations(Requests)
=============================================================================
