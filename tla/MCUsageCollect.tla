---------------------------- MODULE MCUsageCollect ----------------------------
\* UsageCollect for TLC: what the sources hold.
EXTENDS UsageCollect

CONSTANTS p1, p2

\* In each source but Claude's, two lines cannot be told apart by their times.
MCShape == [claude |-> <<"named", "bare", "bare">>,
            codex |-> <<"total", "bare", "total", "bare">>,
            opencode |-> <<"named", "limit", "named", "named">>]
MCTime == [claude |-> <<1, 1, 2>>, codex |-> <<1, 0, 1, 0>>, opencode |-> <<1, 2, 3, 3>>]

ProcSymmetry == Permutations(Slots)
================================================================================
