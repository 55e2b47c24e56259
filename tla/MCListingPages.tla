--------------------------- MODULE MCListingPages ---------------------------
(* A small instance of ListingPages for TLC. *)
EXTENDS ListingPages, TLC

Symmetry == Permutations(Rows)
=============================================================================
