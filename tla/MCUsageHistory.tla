---------------------------- MODULE MCUsageHistory ----------------------------
\* UsageHistory for TLC.
EXTENDS UsageHistory, TLC

CONSTANTS p1, p2, w1, w2

SlotSymmetry == Permutations(Procs) \cup Permutations(Writers)
================================================================================
