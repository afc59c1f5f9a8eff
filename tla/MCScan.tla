------------------------------- MODULE MCScan -------------------------------
(* Two request threads and up to two scans.                                 *)
EXTENDS Scan

CONSTANTS r1, r2

TwoRequests == {r1, r2}
=============================================================================
