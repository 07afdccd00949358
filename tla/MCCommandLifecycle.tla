------------------------- MODULE MCCommandLifecycle -------------------------
(* Instances of CommandLifecycle for TLC. *)
EXTENDS CommandLifecycle, TLC

(* Requests and bridges are interchangeable.  Used by the run that checks  *)
(* no liveness.                                                            *)
Symmetric == Permutations(Monitors) \cup Permutations(Bridges)

(* Bound of the instance with two requests.  As long as there is one       *)
(* command: one POST in flight and one coroutine past its commit.  With    *)
(* the second one, which is not retried: one of the two, and one request   *)
(* that is open besides the one that has just created it.                  *)
FewInFlight ==
    IF tries[2] = 0 THEN Cardinality(requests) <= 1 /\ Cardinality(todo) <= 1
    ELSE /\ tries[1] <= 2 /\ tries[2] <= 1
         /\ Cardinality(requests) + Cardinality(todo) <= 1
         /\ Cardinality({m \in Monitors : monitor[m] # Idle}) <= 1
=============================================================================
