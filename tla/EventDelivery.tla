---------------------------- MODULE EventDelivery ----------------------------
(***************************************************************************)
(* What the outbox and the durable queue promise together: a committed     *)
(* event is accepted (taken over by the queue), then delivered at least    *)
(* once or abandoned.  A handler that fails late may do both at once.      *)
(***************************************************************************)
CONSTANT Events

VARIABLES requested, accepted, delivered, abandoned

vars == <<requested, accepted, delivered, abandoned>>

Init == /\ requested = {}
        /\ accepted = {}
        /\ delivered = {}
        /\ abandoned = {}

Request(e) == /\ e \notin requested
              /\ requested' = requested \cup {e}
              /\ UNCHANGED <<accepted, delivered, abandoned>>

\* One transaction takes over a batch.
Accept(batch) == /\ batch \subseteq requested
                 /\ accepted' = accepted \cup batch
                 /\ UNCHANGED <<requested, delivered, abandoned>>

Deliver(e) == /\ e \in accepted
              /\ delivered' = delivered \cup {e}
              /\ UNCHANGED <<requested, accepted, abandoned>>

Abandon(e) == /\ e \in accepted
              /\ abandoned' = abandoned \cup {e}
              /\ delivered' \in {delivered, delivered \cup {e}}
              /\ UNCHANGED <<requested, accepted>>

Next == \/ \E e \in Events : Request(e) \/ Deliver(e) \/ Abandon(e)
        \/ \E batch \in SUBSET Events : Accept(batch)

Spec == Init /\ [][Next]_vars
=============================================================================
