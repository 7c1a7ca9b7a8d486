--------------------------- MODULE MCComputeGating ---------------------------
(* Two banks, two bank groups, latencies 0 (not run), 1 and 3.             *)
EXTENDS ComputeGating

MCBanks == {0, 1}
MCGroups == {0, 1}
MCLatencies == {0, 1, 3}
=============================================================================
