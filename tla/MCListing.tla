----------------------------- MODULE MCListing -------------------------------
(***************************************************************************)
(* Listing for TLC: pages of two rows over up to three, whose dates sort   *)
(* as texts against the calendar.                                          *)
(***************************************************************************)
EXTENDS Listing, TLC

CONSTANTS r1, r2, r3, shown, hidden, all

ThreeRows == {r1, r2, r3}
Alike == Permutations(ThreeRows)
TwoNames == {1, 2}
TwoClasses == {shown, hidden}
Pairs == {2}
SaturdayToMonday == <<2, 3, 1>>
=============================================================================
