-------------------------- MODULE ScenarioContract --------------------------
(***************************************************************************)
(* What the scenario workflow promises to its users (docs/api.md,          *)
(* "Scenarios"): a designer runs and submits a candidate, somebody else    *)
(* decides on it, once, and an approved candidate is applied, once, by     *)
(* somebody other than its creator.  No versions, no transactions, no      *)
(* factory: each step reads and writes the scenario at one instant.        *)
(***************************************************************************)
CONSTANTS Scenarios, Users

VARIABLES
    status,         \* where the scenario is in the workflow
    creator,        \* {} or {the user who ran it}
    reviewer,       \* {} or {the user who decided on it}
    applier,        \* {} or {the user who applied it}
    source          \* {} or {the scenario it is a revision of}

vars == <<status, creator, reviewer, applier, source>>

Decisions == {"APPROVED", "REJECTED", "REVISION_REQUESTED"}

Init ==
    /\ status = [s \in Scenarios |-> "NONE"]
    /\ creator = [s \in Scenarios |-> {}]
    /\ reviewer = [s \in Scenarios |-> {}]
    /\ applier = [s \in Scenarios |-> {}]
    /\ source = [s \in Scenarios |-> {}]

(* Only the creator of a candidate may answer a request to revise it.      *)
Run(s, u, of) ==
    /\ status[s] = "NONE"
    /\ \A p \in of : status[p] = "REVISION_REQUESTED" /\ creator[p] = {u}
    /\ status' = [status EXCEPT ![s] = "SIMULATED"]
    /\ creator' = [creator EXCEPT ![s] = {u}]
    /\ source' = [source EXCEPT ![s] = of]
    /\ UNCHANGED <<reviewer, applier>>

Submit(s) ==
    /\ status[s] = "SIMULATED"
    /\ status' = [status EXCEPT ![s] = "SUBMITTED"]
    /\ UNCHANGED <<creator, reviewer, applier, source>>

Review(s, u, decision) ==
    /\ status[s] = "SUBMITTED"
    /\ creator[s] # {u}
    /\ status' = [status EXCEPT ![s] = decision]
    /\ reviewer' = [reviewer EXCEPT ![s] = {u}]
    /\ UNCHANGED <<creator, applier, source>>

Apply(s, u) ==
    /\ status[s] = "APPROVED"
    /\ creator[s] # {u}
    /\ status' = [status EXCEPT ![s] = "APPLIED"]
    /\ applier' = [applier EXCEPT ![s] = {u}]
    /\ UNCHANGED <<creator, reviewer, source>>

Next ==
    \E s \in Scenarios :
        \/ \E u \in Users, of \in {{}} \cup {{p} : p \in Scenarios} : Run(s, u, of)
        \/ Submit(s)
        \/ \E u \in Users, decision \in Decisions : Review(s, u, decision)
        \/ \E u \in Users : Apply(s, u)

Spec == Init /\ [][Next]_vars
=============================================================================
