-------------------------- MODULE MCScenariosPage --------------------------
(* Two scenarios: one under review; one returned for revision, or approved,*)
(* beside a simulated one.                                                 *)
EXTENDS ScenariosPage

Submitted == <<"SIMULATED", "SUBMITTED">>
Simulated == <<"SIMULATED">>
SomeHistories ==
    {<<Submitted, <<>>>>,
     <<Append(Submitted, "REVISION_REQUESTED"), Simulated>>,
     <<Append(Submitted, "APPROVED"), Simulated>>}
(* A link to the first scenario, or to one queue and a layout.             *)
SomeLinks ==
    {[candidate |-> 1, queue |-> "", layout |-> 0],
     [candidate |-> 0, queue |-> "mine", layout |-> 2]}
SomeBudgets ==
    {[clicks |-> 2, choices |-> 0, outside |-> 0, failures |-> 0],
     [clicks |-> 1, choices |-> 2, outside |-> 0, failures |-> 0],
     [clicks |-> 1, choices |-> 0, outside |-> 1, failures |-> 1]}
=============================================================================
