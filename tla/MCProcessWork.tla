--------------------------- MODULE MCProcessWork ---------------------------
(* Two workers, and thresholds that fall before they admit everything. *)
EXTENDS ProcessWork

FallAndRise == <<2, 1, 3>>
=============================================================================
