-------------------------- MODULE MCBillingLifecycle --------------------------
(* Model-checking instances of BillingLifecycle.                           *)
EXTENDS BillingLifecycle, TLC

CONSTANTS s1, s2, e1, free, team

SessionSymmetry == Permutations(Sessions)
=============================================================================
