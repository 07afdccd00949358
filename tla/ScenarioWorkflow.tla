-------------------------- MODULE ScenarioWorkflow --------------------------
(***************************************************************************)
(* The scenario workflow over PostgreSQL and what applying a scenario does *)
(* to the mock factory (apps/backend .../services/scenario_service.py and  *)
(* scenario_repository.py).                                                *)
(*                                                                         *)
(* A request reads the scenario in one transaction and changes it in       *)
(* another, guarded by status and version.  An apply changes the factory,  *)
(* which is memory of the process, while its transaction is open, and puts *)
(* it back if anything fails before the commit is confirmed.  One action   *)
(* is one transaction, or what an apply does between two awaits.           *)
(***************************************************************************)
EXTENDS Naturals

CONSTANTS
    Scenarios,      \* scenario identifiers
    Users,          \* profiles; an administrator may change their role
    Requests,       \* HTTP requests that may be open at once
    MockEnabled     \* settings.mock_factory_enabled

ASSUME MockAssumption == MockEnabled \in BOOLEAN

VARIABLES
    status,         \* scenarios.status, "NONE" before the row exists
    version,        \* scenarios.version
    creator,        \* scenarios.created_by: {} or {user}, as are the next two
    reviewer,       \* scenarios.reviewed_by
    applier,        \* scenarios.applied_by
    source,         \* scenarios.revision_of: {} or {scenario}
    appliedAt,      \* scenarios.applied_at, 0 for null
    clock,          \* time of the latest apply
    request,        \* what each open request has read and is doing
    layout,         \* FactoryState._layout: {} the default, or a scenario's
    config,         \* MockFactory.config: {} an operator's, or a scenario's
    saved,          \* previous_layout and previous_config of the apply
    health,         \* RuntimeHealthService's applied layout
    inDoubt         \* the latest apply saw its commit fail, but it had not

row == <<status, version, creator, reviewer, applier, source, appliedAt, clock>>
factory == <<layout, config>>
vars == <<status, version, creator, reviewer, applier, source, appliedAt, clock,
          request, layout, config, saved, health, inDoubt>>

Decisions == {"APPROVED", "REJECTED", "REVISION_REQUESTED"}
Status == {"NONE", "SIMULATED", "SUBMITTED", "APPLIED"} \cup Decisions

(* The status an UPDATE to a given one starts from.                        *)
From(to) == IF to = "SUBMITTED" THEN "SIMULATED"
            ELSE IF to = "APPLIED" THEN "APPROVED" ELSE "SUBMITTED"

(* The apply has updated the row and not committed: it holds the row lock. *)
Uncommitted == {"updated", "resetting", "reset"}
(* It holds the control lock of the factory.                               *)
Exclusive == {"locked", "committed", "failed", "restoring"} \cup Uncommitted

(* A request with the row it read: user acts on scenario of.               *)
Transition == [phase : {"deciding", "applying"} \cup Exclusive,
               of : Scenarios, user : Users, to : Status, version : Nat]
Revision == [phase : {"revising"}, of : Scenarios, user : Users]
Idle == [phase |-> "idle"]

Types ==
    /\ status \in [Scenarios -> Status]
    /\ version \in [Scenarios -> Nat]
    /\ creator \in [Scenarios -> SUBSET Users]
    /\ reviewer \in [Scenarios -> SUBSET Users]
    /\ applier \in [Scenarios -> SUBSET Users]
    /\ source \in [Scenarios -> SUBSET Scenarios]
    /\ appliedAt \in [Scenarios -> Nat]
    /\ clock \in Nat
    /\ request \in [Requests -> Transition \cup Revision \cup {Idle}]
    /\ layout \in SUBSET Scenarios
    /\ config \in SUBSET Scenarios
    /\ saved \in [layout : SUBSET Scenarios, config : SUBSET Scenarios]
    /\ health \in SUBSET Scenarios
    /\ inDoubt \in BOOLEAN
TypeOK == Types /\ version \in [Scenarios -> 0..4]

Init ==
    /\ status = [s \in Scenarios |-> "NONE"]
    /\ version = [s \in Scenarios |-> 0]
    /\ creator = [s \in Scenarios |-> {}]
    /\ reviewer = [s \in Scenarios |-> {}]
    /\ applier = [s \in Scenarios |-> {}]
    /\ source = [s \in Scenarios |-> {}]
    /\ appliedAt = [s \in Scenarios |-> 0]
    /\ clock = 0
    /\ request = [r \in Requests |-> Idle]
    /\ layout = {}
    /\ config = {}
    /\ saved = [layout |-> {}, config |-> {}]
    /\ health = {}
    /\ inDoubt = FALSE

Phase(r) == request[r].phase
Become(r, state) == request' = [request EXCEPT ![r] = state]
At(q, phase) == [q EXCEPT !.phase = phase]
Enter(r, phase) == Become(r, At(request[r], phase))

(* MockFactory.exclusive_control, and the row lock of PostgreSQL.          *)
ControlFree_NotWhileCommitting ==
    \A r \in Requests : Phase(r) \notin Exclusive \ {"committed"}
ControlFree == \A r \in Requests : Phase(r) \notin Exclusive
RowFree(s) ==
    \A r \in Requests : Phase(r) \in Uncommitted => request[r].of # s

-----------------------------------------------------------------------------
(* run, submit, approve, reject, request_revision                          *)

Insert(s, u, of) ==
    /\ status[s] = "NONE"
    /\ status' = [status EXCEPT ![s] = "SIMULATED"]
    /\ version' = [version EXCEPT ![s] = 1]
    /\ creator' = [creator EXCEPT ![s] = {u}]
    /\ source' = [source EXCEPT ![s] = of]
    /\ UNCHANGED <<reviewer, applier, appliedAt, clock, factory, saved, health, inDoubt>>

Run(s, u) == Insert(s, u, {}) /\ UNCHANGED request

(* A run with revision_of reads the scenario that it revises first.        *)
MayRevise_AnyDecided(s, u) == creator[s] = {u} /\ status[s] \in Decisions
MayRevise(s, u) == creator[s] = {u} /\ status[s] = "REVISION_REQUESTED"

ReadSource(r, u, s) ==
    /\ request[r] = Idle
    /\ MayRevise(s, u)
    /\ Become(r, [phase |-> "revising", of |-> s, user |-> u])
    /\ UNCHANGED <<row, factory, saved, health, inDoubt>>

RunRevision(r, s) ==
    /\ Phase(r) = "revising"
    /\ Insert(s, request[r].user, {request[r].of})
    /\ Become(r, Idle)

(* submit, _review and complete_apply read the scenario and refuse what    *)
(* the row they see does not allow.                                        *)
Read(r, u, s, to) ==
    /\ request[r] = Idle
    /\ status[s] = From(to)
    /\ Become(r, [phase |-> IF to = "APPLIED" THEN "applying" ELSE "deciding",
                  of |-> s, user |-> u, to |-> to, version |-> version[s]])
    /\ UNCHANGED <<row, factory, saved, health, inDoubt>>

SubmitRead(r, u, s) == Read(r, u, s, "SUBMITTED")

(* _ensure_independent_actor                                               *)
Independent(s, u) == creator[s] # {u}
ReviewRead(r, u, s, decision) == Independent(s, u) /\ Read(r, u, s, decision)
ApplyRead(r, u, s) == Independent(s, u) /\ Read(r, u, s, "APPLIED")

(* The row that the UPDATE of a transition matches.                        *)
Matches_AnyRow(q) == TRUE
Matches(q) ==
    /\ status[q.of] = From(q.to)
    /\ version[q.of] = q.version
    /\ IF q.to = "SUBMITTED" THEN creator[q.of] = {q.user}
                             ELSE Independent(q.of, q.user)

Advance_SameVersion(q) ==
    /\ status' = [status EXCEPT ![q.of] = q.to]
    /\ UNCHANGED <<version, creator, source>>
Advance(q) ==
    /\ status' = [status EXCEPT ![q.of] = q.to]
    /\ version' = [version EXCEPT ![q.of] = @ + 1]
    /\ UNCHANGED <<creator, source>>

(* The UPDATE of a submit or a review, its audit event and the commit.     *)
Decide(r) ==
    LET q == request[r]
    IN  /\ q.phase = "deciding"
        /\ RowFree(q.of)
        /\ Matches(q)
        /\ Advance(q)
        /\ reviewer' = IF q.to = "SUBMITTED" THEN reviewer
                       ELSE [reviewer EXCEPT ![q.of] = {q.user}]
        /\ Become(r, Idle)
        /\ UNCHANGED <<applier, appliedAt, clock, factory, saved, health, inDoubt>>

(* The UPDATE matches no row, or the database fails.                       *)
Refuse(r) ==
    /\ Phase(r) \in {"revising", "deciding", "applying", "locked"}
    /\ Become(r, Idle)
    /\ UNCHANGED <<row, factory, saved, health, inDoubt>>

-----------------------------------------------------------------------------
(* complete_apply, once it has read the scenario                           *)

(* _apply_exclusively begins by noting what it will have to put back.      *)
TakeControl(r) ==
    /\ Phase(r) = "applying"
    /\ ControlFree
    /\ Enter(r, "locked")
    /\ saved' = [layout |-> layout, config |-> config]
    /\ UNCHANGED <<row, factory, health, inDoubt>>

(* The UPDATE takes the row lock; nobody sees its effect yet.  Without a   *)
(* mock factory the hook returns at once.                                  *)
UpdateRow(r) ==
    /\ Phase(r) = "locked"
    /\ RowFree(request[r].of)
    /\ Matches(request[r])
    /\ Enter(r, IF MockEnabled THEN "updated" ELSE "reset")
    /\ UNCHANGED <<row, factory, saved, health, inDoubt>>

(* apply_before_database_commit, up to the first await that may raise:     *)
(* apply_layout, apply_config, and the first half of reset.                *)
(* apply_layout raises on a route the factory cannot use.                  *)
ChangeFactory(r) ==
    /\ Phase(r) = "updated"
    /\ \/ /\ layout' = {request[r].of}
          /\ config' = {request[r].of}
          /\ Enter(r, "resetting")
       \/ Enter(r, "failed") /\ UNCHANGED factory
    /\ UNCHANGED <<row, saved, health, inDoubt>>

(* reset clears the factory's alerts in the database and starts it again.  *)
EndReset(r) ==
    /\ Phase(r) = "resetting"
    /\ Enter(r, "reset") \/ Enter(r, "failed")
    /\ UNCHANGED <<row, factory, saved, health, inDoubt>>

(* The two audit events and the commit.                                    *)
Commit(r) ==
    /\ Phase(r) = "reset"
    /\ Advance(request[r])
    /\ applier' = [applier EXCEPT ![request[r].of] = {request[r].user}]
    /\ appliedAt' = [appliedAt EXCEPT ![request[r].of] = clock + 1]
    /\ clock' = clock + 1
    /\ Enter(r, "committed")
    /\ UNCHANGED <<reviewer, factory, saved, health, inDoubt>>

(* What an exception leads to: compensation, if the factory was touched.   *)
Fail_Uncompensated(r) == Become(r, Idle)
Fail(r) == IF MockEnabled THEN Enter(r, "failed") ELSE Become(r, Idle)

(* An audit event or the commit fails, and the transaction is rolled back. *)
RollBack(r) ==
    /\ Phase(r) = "reset"
    /\ Fail(r)
    /\ UNCHANGED <<row, factory, saved, health, inDoubt>>

(* The commit succeeds, but the backend loses the answer.                  *)
LoseAnswer(r) ==
    /\ Phase(r) = "committed"
    /\ Fail(r)
    /\ inDoubt' = TRUE
    /\ UNCHANGED <<row, factory, saved, health>>

(* The commit is confirmed: _applied_layout_sink, and the lock is free.    *)
Confirm(r) ==
    /\ Phase(r) = "committed"
    /\ health' = {request[r].of}
    /\ inDoubt' = FALSE
    /\ Become(r, Idle)
    /\ UNCHANGED <<row, factory, saved>>

(* Compensation, up to the first await of its reset ...                    *)
Compensate(r) ==
    /\ Phase(r) = "failed"
    /\ layout' = saved.layout
    /\ config' = saved.config
    /\ Enter(r, "restoring")
    /\ UNCHANGED <<row, saved, health, inDoubt>>

(* ... and the rest: should it raise, that is only logged.                 *)
EndCompensation(r) ==
    /\ Phase(r) = "restoring"
    /\ Become(r, Idle)
    /\ UNCHANGED <<row, factory, saved, health, inDoubt>>

-----------------------------------------------------------------------------
(* api/mock.py, update_mock_config: an operator, under the control lock.   *)
SetConfig ==
    /\ ControlFree
    /\ config' = {}
    /\ UNCHANGED <<row, request, layout, saved, health, inDoubt>>

(* get_applied_scenario: the one with the latest applied_at.               *)
Applied ==
    {s \in Scenarios :
        /\ status[s] = "APPLIED"
        /\ \A p \in Scenarios :
               status[p] = "APPLIED" => appliedAt[p] <= appliedAt[s]}

(* The process dies, open transactions are rolled back, and main.lifespan  *)
(* sets the new factory up from the scenario applied last.                 *)
Restart ==
    /\ request' = [r \in Requests |-> Idle]
    /\ layout' = IF MockEnabled THEN Applied ELSE {}
    /\ config' = IF MockEnabled THEN Applied ELSE {}
    /\ health' = Applied
    /\ inDoubt' = FALSE
    /\ UNCHANGED <<row, saved>>

Next ==
    \/ \E s \in Scenarios, u \in Users : Run(s, u)
    \/ \E r \in Requests, s \in Scenarios :
           RunRevision(r, s) \/ \E u \in Users :
               ReadSource(r, u, s) \/ SubmitRead(r, u, s) \/ ApplyRead(r, u, s)
    \/ \E r \in Requests, s \in Scenarios, u \in Users, decision \in Decisions :
           ReviewRead(r, u, s, decision)
    \/ \E r \in Requests :
           \/ Decide(r) \/ Refuse(r) \/ TakeControl(r) \/ UpdateRow(r)
           \/ ChangeFactory(r) \/ EndReset(r) \/ Commit(r) \/ RollBack(r)
           \/ LoseAnswer(r) \/ Confirm(r) \/ Compensate(r) \/ EndCompensation(r)
    \/ SetConfig
    \/ Restart

Spec == Init /\ [][Next]_vars
-----------------------------------------------------------------------------
(* Properties                                                              *)

(* Whenever no apply is at work, and the database has not applied behind   *)
(* the backend's back, the mock factory runs the layout of the scenario    *)
(* applied last, and its configuration or an operator's: failed, refused   *)
(* and crashed applies leave no trace (scenario_service.py, "restore the   *)
(* old factory config").                                                   *)
FactoryFollowsApplied ==
    MockEnabled /\ ControlFree /\ ~inDoubt
        => layout = Applied /\ config \in {{}, Applied}

(* Congestion is judged by the layout of the scenario applied last, from   *)
(* the moment its apply has succeeded and after every start                *)
(* (docs/architecture.md:1944), so all but between a commit and its        *)
(* confirmation.                                                           *)
HealthFollowsApplied ==
    ~inDoubt /\ (\A r \in Requests : Phase(r) # "committed") => health = Applied

(* The version counts the transitions, so that a request whose version is  *)
(* the row's has seen the row's status: no update is lost between a read   *)
(* and a write, whoever else decides at the same time.                     *)
Steps(st) == CASE st = "NONE" -> 0 [] st = "SIMULATED" -> 1
               [] st = "SUBMITTED" -> 2 [] st = "APPLIED" -> 4 [] OTHER -> 3
VersionTracksStatus ==
    /\ \A s \in Scenarios : version[s] = Steps(status[s])
    /\ \A r \in Requests : Phase(r) \in {"deciding", "applying"} \cup Exclusive =>
           /\ request[r].version = Steps(From(request[r].to))
           /\ request[r].version <= version[request[r].of]

(* A transaction that has updated the row and not yet committed is alone,  *)
(* and the row is still the one that it matched.                           *)
UpdatedRowMatches ==
    \A r \in Requests : Phase(r) \in Uncommitted =>
        /\ request[r].to = "APPLIED"
        /\ status[request[r].of] = "APPROVED"
        /\ version[request[r].of] = request[r].version
        /\ creator[request[r].of] # {request[r].user}
        /\ \A p \in Requests : Phase(p) \in Exclusive => p = r

(* A decision stands: whatever requests race, what a reviewer or an        *)
(* applier did is never overwritten (docs/api.md: rejected and applied are *)
(* final, of two transitions sent at once only one succeeds).              *)
Stands(s) ==
    /\ reviewer[s] # {} => reviewer'[s] = reviewer[s]
    /\ applier[s] # {} => applier'[s] = applier[s]
    /\ status[s] \in {"REJECTED", "REVISION_REQUESTED", "APPLIED"} =>
           status'[s] = status[s]
DecisionsStand ==
    [][\A s \in Scenarios : Stands(s)]_<<status, reviewer, applier>>

(* The workflow implements its contract, where every transition reads and  *)
(* writes at one instant and whoever decides or applies is not the creator.*)
Contract == INSTANCE ScenarioContract
ImplementsContract == Contract!Spec
=============================================================================
