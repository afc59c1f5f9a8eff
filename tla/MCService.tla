----------------------------- MODULE MCService -----------------------------
(* Two requests of any kinds, two scans.                                    *)
EXTENDS ServiceClient

CONSTANTS r1, r2

TwoRequests == {r1, r2}
=============================================================================
