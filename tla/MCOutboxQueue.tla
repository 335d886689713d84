---------------------------- MODULE MCOutboxQueue ----------------------------
(* Model-checking instances of OutboxQueue.                                *)
EXTENDS OutboxQueue

CONSTANTS d1, d2, w1, w2

MCEvents == 1 .. 2
MCOneMapped == {1}     \* the other event has no entry in EVENT_TO_JOB
MCJobIds == 1 .. 3     \* a rolled-back insert uses up an id
MCOneEvent == {1}
MCOneJob == {1}
MCTwoJobs == 1 .. 2
=============================================================================
