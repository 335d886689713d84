---------------------------- MODULE MCControlPlane ----------------------------
\* ControlPlane for TLC: four processes over three pids, so that the last one born
\* takes a pid used before.
EXTENDS ControlPlane
================================================================================
