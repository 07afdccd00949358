-------------------------- MODULE CommandContract --------------------------
(***************************************************************************)
(* What the apply-command subsystem promises to the rest of the system,    *)
(* with no attempt rows, leases, bridges or HTTP requests: a command is    *)
(* created, acknowledged, finished or timed out, and perhaps retried; a    *)
(* scenario is applied only on the strength of an executed command.  Once  *)
(* two retries of a command overtook each other, its attempts may end one  *)
(* after the other and only the bounds are promised: one command of a      *)
(* scenario in progress, the budget, and the execution behind an apply.    *)
(* CommandLifecycle implements it.                                         *)
(***************************************************************************)
EXTENDS Naturals

CONSTANTS
    Scenarios,      \* scenario identifiers
    MaxOps,         \* commands are numbered 1..MaxOps in creation order
    MaxRetries      \* Command.max_retries

VARIABLES
    scenario,       \* scenario[s]: the part of ScenarioStatus commands can see
    status,         \* status[o]: CommandStatus, or "NONE" before creation
    target,         \* target[o]: {} or {the scenario the command applies}
    tries,          \* tries[o]: number of attempts made
    executed,       \* commands one of whose attempts is COMPLETED
    overtaken       \* commands retried although an attempt had not ended

vars == <<scenario, status, target, tries, executed, overtaken>>

Ops == 1..MaxOps
Active == {"PENDING", "ACKNOWLEDGED"}
Retryable == {"FAILED", "TIMED_OUT"}
CommandStatus == Active \cup Retryable \cup {"COMPLETED"}
ScenarioStatus == {"SUBMITTED", "APPROVED", "APPLIED"}

Init ==
    /\ scenario = [s \in Scenarios |-> "SUBMITTED"]
    /\ status = [o \in Ops |-> "NONE"]
    /\ target = [o \in Ops |-> {}]
    /\ tries = [o \in Ops |-> 0]
    /\ executed = {}
    /\ overtaken = {}

SomeActive(s) == \E o \in Ops : target[o] = {s} /\ status[o] \in Active

(* The command is in one of these states, or was overtaken. *)
May(o, from) == status[o] \in from \/ (o \in overtaken /\ status[o] # "NONE")

Approve(s) ==
    /\ scenario[s] = "SUBMITTED"
    /\ scenario' = [scenario EXCEPT ![s] = "APPROVED"]
    /\ UNCHANGED <<status, target, tries, executed, overtaken>>

(* A scenario has at most one command in progress. *)
Create(o, s) ==
    /\ status[o] = "NONE"
    /\ scenario[s] # "SUBMITTED"
    /\ ~SomeActive(s)
    /\ status' = [status EXCEPT ![o] = "PENDING"]
    /\ target' = [target EXCEPT ![o] = {s}]
    /\ tries' = [tries EXCEPT ![o] = 1]
    /\ UNCHANGED <<scenario, executed, overtaken>>

Acknowledge(o) ==
    /\ May(o, {"PENDING"})
    /\ \A p \in Ops \ {o} : target[p] = target[o] => status[p] \notin Active
    /\ status' = [status EXCEPT ![o] = "ACKNOWLEDGED"]
    /\ UNCHANGED <<scenario, target, tries, executed, overtaken>>

Complete(o) ==
    /\ May(o, {"ACKNOWLEDGED"})
    /\ status' = [status EXCEPT ![o] = "COMPLETED"]
    /\ executed' = executed \cup {o}
    /\ UNCHANGED <<scenario, target, tries, overtaken>>

Fail(o) ==
    /\ May(o, {"ACKNOWLEDGED"})
    /\ status' = [status EXCEPT ![o] = "FAILED"]
    /\ UNCHANGED <<scenario, target, tries, executed, overtaken>>

TimedOut(due) == [o \in Ops |-> IF o \in due THEN "TIMED_OUT" ELSE status[o]]

(* Any set of commands in progress may time out together. *)
TimeOut(due) ==
    /\ \A o \in due : May(o, Active)
    /\ status' = TimedOut(due)
    /\ UNCHANGED <<scenario, target, tries, executed, overtaken>>

(* Retrying keeps the command and spends one more attempt of its budget;   *)
(* commands found overdue at that moment time out with it.  Only a budget  *)
(* of more than one retry lets a retry overtake another one.               *)
Retry(o, due) ==
    /\ status[o] # "NONE"
    /\ \A p \in due : May(p, Active)
    /\ TimedOut(due)[o] \in Retryable \/ (MaxRetries > 1 /\ tries[o] > 1)
    /\ tries[o] <= MaxRetries
    /\ \A p \in Ops \ {o} :
           target[p] = target[o] => TimedOut(due)[p] \notin Active
    /\ status' = [TimedOut(due) EXCEPT ![o] = "PENDING"]
    /\ tries' = [tries EXCEPT ![o] = @ + 1]
    /\ overtaken' = IF TimedOut(due)[o] \in Retryable
                    THEN overtaken ELSE overtaken \cup {o}
    /\ UNCHANGED <<scenario, target, executed>>

Apply(s) ==
    /\ scenario[s] = "APPROVED"
    /\ \E o \in executed : target[o] = {s}
    /\ scenario' = [scenario EXCEPT ![s] = "APPLIED"]
    /\ UNCHANGED <<status, target, tries, executed, overtaken>>

Next ==
    \/ \E s \in Scenarios : Approve(s) \/ Apply(s)
    \/ \E o \in Ops, s \in Scenarios : Create(o, s)
    \/ \E o \in Ops : Acknowledge(o) \/ Complete(o) \/ Fail(o)
    \/ \E due \in SUBSET Ops : TimeOut(due)
    \/ \E o \in Ops, due \in SUBSET Ops : Retry(o, due)

Spec == Init /\ [][Next]_vars
=============================================================================
