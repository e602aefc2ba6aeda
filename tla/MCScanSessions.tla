--------------------------- MODULE MCScanSessions ---------------------------
(* Instances of ScanSessions for TLC. *)
EXTENDS ScanSessions, TLC

CONSTANTS s1, s2
=============================================================================
