-------------------------- MODULE MCPackageListing --------------------------
(* Small instances of PackageListing.                                      *)
EXTENDS PackageListing, TLC

ShortOrLong == {1, 3}

ClientSymmetry == Permutations(Clients)
=============================================================================
