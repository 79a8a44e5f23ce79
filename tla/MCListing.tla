----------------------------- MODULE MCListing -----------------------------
(***************************************************************************)
(* Small instances of Listing.                                             *)
(***************************************************************************)
EXTENDS Listing, TLC

CONSTANTS j1, j2

ListingSymmetry == Permutations(Jobs)

=============================================================================
