----------------------------- MODULE MCScanCity -----------------------------
(* ScanCity for TLC: pages of one row, in the proportions of the default    *)
(* environment (a scan of three pages, a retroactive window from the fourth *)
(* page on), a listing one page longer than a scan, and one row to insert.  *)
EXTENDS ScanCity
CONSTANTS r1, r2, r3, r4, r5

MCListing0 == <<r1, r2, r3, r4>>
=============================================================================
