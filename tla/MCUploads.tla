------------------------------ MODULE MCUploads ------------------------------
(* Model values and symmetry for the instances of Uploads. *)
EXTENDS Uploads, TLC

CONSTANTS r1, r2, r3

TwoRequests == {r1, r2}
ThreeRequests == {r1, r2, r3}

Symmetry == Permutations(Requests)
=============================================================================
