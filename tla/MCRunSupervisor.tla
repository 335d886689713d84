------------------------ MODULE MCRunSupervisor ------------------------
(* RunSupervisor for TLC.  Two workers: a run and one restart of it.  The *)
(* first may execute in a container.                                      *)
EXTENDS RunSupervisor
========================================================================
