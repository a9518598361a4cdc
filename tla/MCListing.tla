------------------------------ MODULE MCListing ------------------------------
EXTENDS Listing, TLC

Symmetry == Permutations(Requests)
==============================================================================
