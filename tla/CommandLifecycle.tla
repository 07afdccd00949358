-------------------------- MODULE CommandLifecycle --------------------------
(***************************************************************************)
(* The durable apply-command path: a monitor asks the backend to apply an  *)
(* approved scenario; the command waits in PostgreSQL; the edge bridge     *)
(* leases it over HTTP, acknowledges it, has the Fleet Manager execute it  *)
(* and posts the result; the backend then marks the scenario APPLIED.      *)
(*                                                                         *)
(* One action is one database transaction (or one in-memory step) of       *)
(* apps/backend .../services/command_service.py, or one callback of the    *)
(* ROS bridge; whatever a coroutine still has to do after its commit waits *)
(* in todo, so that every interleaving and a crash in between are          *)
(* possible.                                                               *)
(*                                                                         *)
(* Time is relative: a timer holds the ticks left until its deadline and   *)
(* 0 means that the deadline is not after now.                             *)
(***************************************************************************)
EXTENDS Naturals, FiniteSets

CONSTANTS
    Scenarios,      \* scenario identifiers
    Bridges,        \* edge bridge identifiers
    Monitors,       \* HTTP requests of monitors that may be open at once
    MaxOps,         \* bound: commands created in a behaviour
    MaxRetries,     \* Command.max_retries
    Timeout         \* Command.timeout_seconds, in ticks

ASSUME BoundsAssumption ==
    /\ MaxOps \in Nat
    /\ MaxRetries \in Nat
    /\ Timeout \in Nat \ {0}

VARIABLES
    scenario,       \* scenarios.status, as far as commands can see it
    status,         \* commands.status, "NONE" before the row exists
    target,         \* commands.scenario_id: {} or {scenario}
    tries,          \* number of command_attempts rows of the command
    attempt,        \* the command_attempts rows
    alert,          \* commands with an ACTIVE COMMAND_TIMEOUT alert
    todo,           \* what backend coroutines still do after a commit
    monitor,        \* open apply and retry requests
    bridge,         \* what each bridge is doing
    requests,       \* ack and result POSTs in flight
    fleet,          \* FleetManager._apply_results
    overtaken       \* history, read by no guard: commands that a retry gave
                    \* another attempt although the last one had not ended

rows == <<status, target, tries, attempt>>
vars == <<scenario, status, target, tries, attempt, alert, todo, monitor,
          bridge, requests, fleet, overtaken>>

(* created_at order is the order of the numbers: the UUID is abstracted.   *)
Ops == 1..MaxOps
Attempts == 1..(MaxRetries + 1)

Active == {"PENDING", "ACKNOWLEDGED"}
Retryable == {"FAILED", "TIMED_OUT"}
Outcomes == {"COMPLETED", "FAILED"}
CommandStatus == Active \cup Retryable \cup {"COMPLETED"}
ScenarioStatus == {"SUBMITTED", "APPROVED", "APPLIED"}

(* leasedBy is {} or the bridge; acked: acknowledged_at is not null; ttl:  *)
(* ticks left until lease_expires_at, or, while nobody leased the attempt, *)
(* until commands.updated_at + timeout_seconds.                            *)
Attempt == [status : CommandStatus \cup {"NONE"}, leasedBy : SUBSET Bridges,
            ttl : 0..Timeout, acked : BOOLEAN]
NoAttempt == [status |-> "NONE", leasedBy |-> {}, ttl |-> 0, acked |-> FALSE]
NewAttempt ==
    [status |-> "PENDING", leasedBy |-> {}, ttl |-> Timeout, acked |-> FALSE]

Request == [bridge : Bridges, op : Ops, number : Attempts,
            status : Outcomes \cup {"ACKNOWLEDGED"}]
(* by: the request, {} for the sweep task, whose coroutine it is; kept     *)
(* only where that request still has something to do afterwards.           *)
Owners == {{}} \cup {{m} : m \in Monitors} \cup {{b} : b \in Bridges}
Todo == [kind : {"TIMED_OUT", "RETRIED", "COMPLETED"}, op : Ops, by : Owners]

(* phase of a monitor's request; of is the scenario or command it is about *)
MonitorState ==
    [phase : {"idle"}] \cup [phase : {"applying"}, of : Scenarios]
        \cup [phase : {"retrying", "loaded"}, of : Ops]
BridgeState ==
    [phase : {"idle", "polling"}]
        \cup [phase : {"acking", "acked", "executing"}, op : Ops, number : Attempts]

Idle == [phase |-> "idle"]
Handling(phase, o, n) == [phase |-> phase, op |-> o, number |-> n]

TypeOK ==
    /\ scenario \in [Scenarios -> ScenarioStatus]
    /\ status \in [Ops -> CommandStatus \cup {"NONE"}]
    /\ target \in [Ops -> SUBSET Scenarios]
    /\ tries \in [Ops -> 0..(MaxRetries + 1)]
    /\ attempt \in [Ops -> [Attempts -> Attempt]]
    /\ alert \subseteq Ops
    /\ todo \subseteq Todo
    /\ monitor \in [Monitors -> MonitorState]
    /\ bridge \in [Bridges -> BridgeState]
    /\ requests \subseteq Request
    /\ fleet \in [Ops -> [Attempts -> Outcomes \cup {"NONE"}]]
    /\ overtaken \subseteq Ops

Init ==
    /\ scenario = [s \in Scenarios |-> "SUBMITTED"]
    /\ status = [o \in Ops |-> "NONE"]
    /\ target = [o \in Ops |-> {}]
    /\ tries = [o \in Ops |-> 0]
    /\ attempt = [o \in Ops |-> [n \in Attempts |-> NoAttempt]]
    /\ alert = {}
    /\ todo = {}
    /\ monitor = [m \in Monitors |-> Idle]
    /\ bridge = [b \in Bridges |-> Idle]
    /\ requests = {}
    /\ fleet = [o \in Ops |-> [n \in Attempts |-> "NONE"]]
    /\ overtaken = {}

-----------------------------------------------------------------------------
(* SqlAlchemyCommandRepository._expire: the rows as they are once every    *)
(* overdue attempt, and the command it belongs to, has timed out.          *)

Live_EvenCompleted(o, n) == attempt[o][n].status \notin Retryable \cup {"NONE"}
Live(o, n) == attempt[o][n].status \in Active

Due_LeasedOnly(o, n) ==
    Live(o, n) /\ attempt[o][n].leasedBy # {} /\ attempt[o][n].ttl = 0
Due(o, n) == Live(o, n) /\ attempt[o][n].ttl = 0

Overdue == {o \in Ops : \E n \in Attempts : Due(o, n)}

(* An UPDATE of the commands row sets updated_at, and so the deadline of   *)
(* those of its attempts, given as f, that nobody leased yet.              *)
Touched(f) ==
    [n \in Attempts |->
        IF f[n].status = "PENDING" /\ f[n].leasedBy = {}
        THEN [f[n] EXCEPT !.ttl = Timeout] ELSE f[n]]

(* What the UPDATEs do to an attempt row, and time to its deadline.        *)
Ended(a, outcome) == [a EXCEPT !.status = outcome]
Leased(a, b) == [a EXCEPT !.leasedBy = {b}, !.ttl = Timeout]
Acknowledged(a) == [a EXCEPT !.status = "ACKNOWLEDGED", !.acked = TRUE]
Aged(a) == [a EXCEPT !.ttl = IF @ = 0 THEN 0 ELSE @ - 1]

ExpiredStatus ==
    [o \in Ops |-> IF o \in Overdue THEN "TIMED_OUT" ELSE status[o]]
ExpiredAttempt ==
    [o \in Ops |->
        LET f == [n \in Attempts |->
                     IF Due(o, n) THEN Ended(attempt[o][n], "TIMED_OUT") ELSE attempt[o][n]]
        IN  IF o \in Overdue THEN Touched(f) ELSE f]

(* _expire_commands: the timed-out commands are returned, and the caller   *)
(* alerts, audits and broadcasts each before it goes on.                   *)
ExpireAndNotify(by) ==
    /\ status' = ExpiredStatus
    /\ attempt' = ExpiredAttempt
    /\ todo' = todo \cup [kind : {"TIMED_OUT"}, op : Overdue, by : {by}]
    /\ UNCHANGED <<target, tries>>

(* The coroutine of this request has told everybody what it expired.       *)
Notified(by) == \A t \in todo : t.kind = "TIMED_OUT" => t.by # by

(* commands_one_active_per_scenario_idx would let o be active.             *)
IndexAllows_PendingOnly(o, scenarioIds, st) ==
    \A p \in Ops \ {o} : target[p] = scenarioIds => st[p] # "PENDING"
IndexAllows(o, scenarioIds, st) ==
    \A p \in Ops \ {o} : target[p] = scenarioIds => st[p] \notin Active

-----------------------------------------------------------------------------
(* The scenario workflow approves a scenario; see api/scenarios.py.        *)
Approve(s) ==
    /\ scenario[s] = "SUBMITTED"
    /\ scenario' = [scenario EXCEPT ![s] = "APPROVED"]
    /\ UNCHANGED <<rows, alert, todo, monitor, bridge, requests, fleet, overtaken>>

(* CommandService.apply reads the scenario ...                             *)
ApplyRead(m, s) ==
    /\ monitor[m] = Idle
    /\ scenario[s] = "APPROVED"
    /\ \E o \in Ops : status[o] = "NONE"
    /\ monitor' = [monitor EXCEPT ![m] = [phase |-> "applying", of |-> s]]
    /\ UNCHANGED <<scenario, rows, alert, todo, bridge, requests, fleet, overtaken>>

(* ... and creates the command in a later transaction, or is refused: by   *)
(* the unique index, a failing database, or the bound MaxOps.              *)
ApplyCreate(m) ==
    /\ monitor[m].phase = "applying"
    /\ monitor' = [monitor EXCEPT ![m] = Idle]
    /\ LET ids == {monitor[m].of}
           allowed(o) == /\ status[o] = "NONE"
                         /\ \A p \in 1..(o - 1) : status[p] # "NONE"
                         /\ IndexAllows(o, ids, status)
       IN  \/ \E o \in Ops :
                /\ allowed(o)
                /\ status' = [status EXCEPT ![o] = "PENDING"]
                /\ target' = [target EXCEPT ![o] = ids]
                /\ tries' = [tries EXCEPT ![o] = 1]
                /\ attempt' = [attempt EXCEPT ![o][1] = NewAttempt]
           \/ UNCHANGED rows
    /\ UNCHANGED <<scenario, alert, todo, bridge, requests, fleet, overtaken>>

(* CommandService.retry first expires commands in a transaction of its own *)
RetryExpire(m, o) ==
    /\ monitor[m] = Idle
    /\ status[o] # "NONE"
    /\ monitor' = [monitor EXCEPT ![m] = [phase |-> "retrying", of |-> o]]
    /\ ExpireAndNotify({m})
    /\ UNCHANGED <<scenario, alert, bridge, requests, fleet, overtaken>>

(* SqlAlchemyCommandRepository.retry: the status check and the budget.     *)
MayRetry_AnyButPending(o) == ExpiredStatus[o] # "PENDING"
MayRetry(o) == ExpiredStatus[o] \in Retryable
BudgetLeft_OffByOne(o) == tries[o] <= MaxRetries + 1
BudgetLeft(o) == tries[o] <= MaxRetries

(* Inserts the next attempt, given the rows as the transaction sees them.  *)
(* An exhausted budget, the unique index, the primary key (a retry that    *)
(* committed in between) or a failing database rolls it back.              *)
InsertAttempt(m, o, st, rowsOf) ==
    /\ monitor' = [monitor EXCEPT ![m] = Idle]
    /\ LET n == tries[o] + 1
           allowed == BudgetLeft(o) /\ IndexAllows(o, target[o], st)
       IN  \/ /\ allowed
              /\ status' = [st EXCEPT ![o] = "PENDING"]
              /\ tries' = [tries EXCEPT ![o] = n]
              /\ attempt' = [rowsOf EXCEPT
                     ![o] = [Touched(@) EXCEPT ![n] = NewAttempt]]
              /\ todo' = todo \cup {[kind |-> "RETRIED", op |-> o, by |-> {}]}
              /\ overtaken' = overtaken \cup ({o} \ {p \in Ops : st[p] \in Retryable})
              /\ UNCHANGED target
           \/ UNCHANGED <<rows, todo, overtaken>>
    /\ UNCHANGED <<scenario, alert, bridge, requests, fleet>>

(* The transaction's own _expire leaves this command alone: no row of it   *)
(* is locked, and a SELECT reads commands.status ...                       *)
RetryLoad(m) ==
    /\ monitor[m].phase = "retrying"
    /\ Notified({m})
    /\ monitor[m].of \notin Overdue \/ ~MayRetry(monitor[m].of)
    /\ monitor' = [monitor EXCEPT ![m] =
           IF MayRetry(@.of) THEN [phase |-> "loaded", of |-> @.of] ELSE Idle]
    /\ UNCHANGED <<scenario, rows, alert, todo, bridge, requests, fleet, overtaken>>

(* ... while a second SELECT counts the command_attempts rows committed by *)
(* then (READ COMMITTED).  Other commands' overdue rows may time out in    *)
(* the same transaction; nobody is told.                                   *)
RetryCommit(m) ==
    /\ monitor[m].phase = "loaded"
    /\ \/ InsertAttempt(m, monitor[m].of, status, attempt)
       \/ /\ Overdue # {} /\ monitor[m].of \notin Overdue
          /\ InsertAttempt(m, monitor[m].of, ExpiredStatus, ExpiredAttempt)

(* Its _expire does time this command out: the locks of its rows keep      *)
(* every other retry of it waiting until this one commits.                 *)
RetryAtOnce(m) ==
    /\ monitor[m].phase = "retrying"
    /\ Notified({m})
    /\ monitor[m].of \in Overdue
    /\ InsertAttempt(m, monitor[m].of, ExpiredStatus, ExpiredAttempt)

(* CommandService._run, and every GET of a command.                        *)
Sweep ==
    /\ Overdue # {}
    /\ ExpireAndNotify({})
    /\ UNCHANGED <<scenario, alert, monitor, bridge, requests, fleet, overtaken>>

-----------------------------------------------------------------------------
(* What a coroutine does after its commit.                                 *)

(* _expire_commands: alert on, audit, broadcast.                           *)
NotifyTimeout(t) ==
    /\ t.kind = "TIMED_OUT"
    /\ todo' = todo \ {t}
    /\ alert' = alert \cup {t.op}
    /\ UNCHANGED <<scenario, rows, monitor, bridge, requests, fleet, overtaken>>

(* retry: alert off, audit, broadcast.                                     *)
NotifyRetry(t) ==
    /\ t.kind = "RETRIED"
    /\ todo' = todo \ {t}
    /\ alert' = alert \ {t.op}
    /\ UNCHANGED <<scenario, rows, monitor, bridge, requests, fleet, overtaken>>

(* result: complete_apply unless already APPLIED; if that raises, nothing  *)
(* tries again.                                                            *)
FinishApply(t) ==
    /\ t.kind = "COMPLETED"
    /\ todo' = todo \ {t}
    /\ \/ /\ \A s \in target[t.op] : scenario[s] \in {"APPROVED", "APPLIED"}
          /\ scenario' = [s \in Scenarios |->
                 IF s \in target[t.op] THEN "APPLIED" ELSE scenario[s]]
       \/ UNCHANGED scenario
    /\ UNCHANGED <<rows, alert, monitor, bridge, requests, fleet, overtaken>>

(* The backend process dies and restarts: coroutines are gone, the rows,   *)
(* the alerts (reloaded by RuntimeHealthService.start) and POSTs that have *)
(* not been read yet are not.  A bridge's open GET fails.                  *)
BackendRestart ==
    /\ todo' = {}
    /\ monitor' = [m \in Monitors |-> Idle]
    /\ bridge' = [b \in Bridges |->
           IF bridge[b].phase = "polling" THEN Idle ELSE bridge[b]]
    /\ UNCHANGED <<scenario, rows, alert, requests, fleet, overtaken>>

-----------------------------------------------------------------------------
(* CommandService.lease: a bridge's GET first expires commands ...         *)
Poll(b) ==
    /\ bridge[b] = Idle
    /\ bridge' = [bridge EXCEPT ![b] = [phase |-> "polling"]]
    /\ ExpireAndNotify({b})
    /\ UNCHANGED <<scenario, alert, monitor, requests, fleet, overtaken>>

Leasable(o, n) ==
    /\ ExpiredStatus[o] = "PENDING"
    /\ ExpiredAttempt[o][n].status = "PENDING"
    /\ attempt[o][n].leasedBy = {}

(* ... and then leases, in a transaction that expires commands once more,  *)
(* telling nobody: it leases the oldest command's first free attempt and   *)
(* hands out the command's last one (command.attempts[-1]).                *)
Lease(b) ==
    /\ bridge[b].phase = "polling"
    /\ Notified({b})
    /\ status' = ExpiredStatus
    /\ \/ \E o \in Ops, n, last \in Attempts :
             /\ Leasable(o, n)
             /\ last = tries[o]
             /\ \A p \in Ops, k \in Attempts :
                    Leasable(p, k) => o < p \/ (o = p /\ n <= k)
             /\ attempt' = [ExpiredAttempt EXCEPT ![o][n] = Leased(@, b)]
             /\ bridge' = [bridge EXCEPT ![b] = Handling("acking", o, last)]
             /\ requests' = requests \cup
                    {[bridge |-> b, op |-> o, number |-> last, status |-> "ACKNOWLEDGED"]}
       \/ /\ \A o \in Ops, n \in Attempts : ~Leasable(o, n)
          /\ attempt' = ExpiredAttempt
          /\ bridge' = [bridge EXCEPT ![b] = Idle]
          /\ UNCHANGED requests
    /\ UNCHANGED <<scenario, target, tries, alert, todo, monitor, fleet, overtaken>>

(* A delivered POST may be delivered again.                                *)
Consume(r) == requests' \in {requests, requests \ {r}}

(* The bridge, if it still waits for the answer to r, gets it.             *)
Answer_AnyReply(r, accepted) ==
    bridge' = [bridge EXCEPT ![r.bridge] =
        IF @ # Handling("acking", r.op, r.number) THEN @
        ELSE Handling("acked", r.op, r.number)]
Answer(r, accepted) ==
    bridge' = [bridge EXCEPT ![r.bridge] =
        IF @ # Handling("acking", r.op, r.number) THEN @
        ELSE IF accepted THEN Handling("acked", r.op, r.number) ELSE Idle]

(* The attempt row the UPDATE of an ack or a result matches.               *)
Matches_AnyStatus(r, expected) ==
    LET a == attempt[r.op][r.number]
    IN  a.leasedBy = {r.bridge} /\ a.ttl > 0
Matches(r, expected) ==
    LET a == attempt[r.op][r.number]
    IN  a.leasedBy = {r.bridge} /\ a.status = expected /\ a.ttl > 0

(* The attempt rows once that row is a.                                    *)
Recorded(r, a) ==
    [attempt EXCEPT ![r.op] = Touched([attempt[r.op] EXCEPT ![r.number] = a])]

(* SqlAlchemyCommandRepository.acknowledge                                 *)
HandleAck(r) ==
    /\ r \in requests
    /\ r.status = "ACKNOWLEDGED"
    /\ Consume(r)
    /\ \/ /\ Matches(r, "PENDING")
          /\ IndexAllows(r.op, target[r.op], status)
          /\ status' = [status EXCEPT ![r.op] = "ACKNOWLEDGED"]
          /\ attempt' = Recorded(r, Acknowledged(attempt[r.op][r.number]))
          /\ Answer(r, TRUE)
       \/ /\ Matches(r, "PENDING")
          /\ ~IndexAllows(r.op, target[r.op], status)
          /\ Answer(r, FALSE)
          /\ UNCHANGED <<status, attempt>>
       \/ /\ ~Matches(r, "PENDING")
          /\ Answer(r, status[r.op] = "ACKNOWLEDGED")
          /\ UNCHANGED <<status, attempt>>
    /\ UNCHANGED <<scenario, target, tries, alert, todo, monitor, fleet, overtaken>>

(* A result is accepted from the acknowledged attempt, or when it repeats  *)
(* what the command already is.                                            *)
Accepted_Always(r) == TRUE
Accepted(r) == Matches(r, "ACKNOWLEDGED") \/ status[r.op] = r.status

(* SqlAlchemyCommandRepository.result; CommandService.result then sees to  *)
(* the scenario if the accepted result is COMPLETED.                       *)
HandleResult(r) ==
    /\ r \in requests
    /\ r.status \in Outcomes
    /\ Consume(r)
    /\ \/ /\ Matches(r, "ACKNOWLEDGED")
          /\ status' = [status EXCEPT ![r.op] = r.status]
          /\ attempt' = Recorded(r, Ended(attempt[r.op][r.number], r.status))
       \/ ~Matches(r, "ACKNOWLEDGED") /\ UNCHANGED <<status, attempt>>
    /\ todo' = IF r.status = "COMPLETED" /\ Accepted(r)
               THEN todo \cup {[kind |-> "COMPLETED", op |-> r.op, by |-> {}]}
               ELSE todo
    /\ UNCHANGED <<scenario, target, tries, alert, monitor, bridge, fleet, overtaken>>

(* The network drops a POST.                                               *)
Lose(r) ==
    /\ r \in requests
    /\ requests' = requests \ {r}
    /\ UNCHANGED <<scenario, rows, alert, todo, monitor, bridge, fleet, overtaken>>

-----------------------------------------------------------------------------
(* TelemetryBridge, on the edge; one single-threaded executor.             *)

(* No usable answer to the poll or the ack within HTTP_TIMEOUT_SECONDS, or *)
(* the bridge restarts: the command is dropped.                            *)
GiveUp(b) ==
    /\ bridge[b] # Idle
    /\ bridge' = [bridge EXCEPT ![b] = Idle]
    /\ UNCHANGED <<scenario, rows, alert, todo, monitor, requests, fleet, overtaken>>

(* The bridge posts a result once and goes on, whatever becomes of it.     *)
PostResult(b, outcome) ==
    /\ requests' = requests \cup
           {[bridge |-> b, op |-> bridge[b].op, number |-> bridge[b].number,
             status |-> outcome]}
    /\ bridge' = [bridge EXCEPT ![b] = Idle]
    /\ UNCHANGED <<scenario, rows, alert, todo, monitor, fleet, overtaken>>

(* _poll_command after the ack: call the fleet service, if it is there.    *)
CallFleet(b) ==
    /\ bridge[b].phase = "acked"
    /\ bridge' = [bridge EXCEPT ![b] = Handling("executing", @.op, @.number)]
    /\ UNCHANGED <<scenario, rows, alert, todo, monitor, requests, fleet, overtaken>>

FleetUnavailable(b) ==
    /\ bridge[b].phase = "acked"
    /\ PostResult(b, "FAILED")

(* FleetManager._apply_scenario: once per operation and attempt.           *)
FleetApply(b) ==
    /\ bridge[b].phase = "executing"
    /\ fleet[bridge[b].op][bridge[b].number] = "NONE"
    /\ \E outcome \in Outcomes :
           fleet' = [fleet EXCEPT ![bridge[b].op][bridge[b].number] = outcome]
    /\ UNCHANGED <<scenario, rows, alert, todo, monitor, bridge, requests, overtaken>>

(* _on_apply_result: the fleet's answer ...                                *)
ReportResult(b) ==
    /\ bridge[b].phase = "executing"
    /\ fleet[bridge[b].op][bridge[b].number] # "NONE"
    /\ PostResult(b, fleet[bridge[b].op][bridge[b].number])

(* ... or the service call raised.                                         *)
ReportException(b) ==
    /\ bridge[b].phase = "executing"
    /\ PostResult(b, "FAILED")

-----------------------------------------------------------------------------
Tick ==
    /\ \E o \in Ops, n \in Attempts : attempt[o][n].ttl > 0
    /\ attempt' = [o \in Ops |-> [n \in Attempts |-> Aged(attempt[o][n])]]
    /\ UNCHANGED <<scenario, status, target, tries, alert, todo,
                   monitor, bridge, requests, fleet, overtaken>>

Next ==
    \/ \E s \in Scenarios : Approve(s)
    \/ \E m \in Monitors, s \in Scenarios : ApplyRead(m, s)
    \/ \E m \in Monitors : ApplyCreate(m)
    \/ \E m \in Monitors, o \in Ops : RetryExpire(m, o)
    \/ \E m \in Monitors : RetryLoad(m)
    \/ \E m \in Monitors : RetryCommit(m) \/ RetryAtOnce(m)
    \/ Sweep
    \/ \E t \in todo : NotifyTimeout(t) \/ NotifyRetry(t) \/ FinishApply(t)
    \/ BackendRestart
    \/ \E b \in Bridges : Poll(b) \/ Lease(b) \/ GiveUp(b)
    \/ \E b \in Bridges : CallFleet(b) \/ FleetUnavailable(b) \/ FleetApply(b)
    \/ \E b \in Bridges : ReportResult(b) \/ ReportException(b)
    \/ \E r \in requests : HandleAck(r) \/ HandleResult(r) \/ Lose(r)
    \/ Tick

Spec == Init /\ [][Next]_vars
-----------------------------------------------------------------------------
(* Properties                                                              *)

(* A scenario never has two commands in progress, whatever applies and     *)
(* retries of old commands interleave (command_service.py create, retry).  *)
OneActivePerScenario ==
    \A o, p \in Ops :
        target[o] = target[p] /\ status[o] \in Active /\ status[p] \in Active
            => o = p

(* A retry reads the status and the attempts with two SELECTs, so two      *)
(* retries of one command may both go through: the second one overtakes    *)
(* the attempt of the first.  It does so only with at least the third      *)
(* attempt: a retry that finds its command in progress inserts nothing     *)
(* unless another one came between its two SELECTs, so that the one retry  *)
(* that every command of the console has is never spent twice.             *)
RaceNeedsBudget == \A o \in overtaken : tries[o] > 2

(* The command row and its attempt rows, updated by separate statements,   *)
(* agree unless one retry overtook another: the command has the status of  *)
(* its latest attempt and every earlier attempt is FAILED or TIMED_OUT.    *)
(* The attempts are numbered without a gap even then.                      *)
AttemptsAgree ==
    \A o \in Ops :
        /\ tries[o] = 0 <=> status[o] = "NONE"
        /\ \A n \in Attempts : n > tries[o] <=> attempt[o][n].status = "NONE"
        /\ o \notin overtaken =>
               /\ tries[o] > 0 => attempt[o][tries[o]].status = status[o]
               /\ \A n \in Attempts :
                      n < tries[o] => attempt[o][n].status \in Retryable

(* An attempt is COMPLETED only if the Fleet Manager executed that very    *)
(* attempt, a command only if one of its attempts is, and a scenario is    *)
(* APPLIED only after that: no late, repeated or reordered POST turns a    *)
(* failed or timed-out command into an applied scenario.                   *)
Finished(o) == \E n \in Attempts : attempt[o][n].status = "COMPLETED"
AppliedIsBacked ==
    /\ \A o \in Ops, n \in Attempts :
           attempt[o][n].status = "COMPLETED" => fleet[o][n] = "COMPLETED"
    /\ \A o \in Ops : status[o] = "COMPLETED" => Finished(o)
    /\ \A s \in Scenarios :
           scenario[s] = "APPLIED" => \E o \in Ops : target[o] = {s} /\ Finished(o)

(* A bridge has a command executed only on an attempt it leased, and only  *)
(* once the backend recorded that attempt as acknowledged, or a later one  *)
(* by another bridge, whose ACKNOWLEDGED command then answers this one's   *)
(* late ack too.  A command whose retries overtook each other is left out. *)
ExecutesOnlyAcknowledged ==
    \A b \in Bridges :
        bridge[b].phase \in {"acked", "executing"} /\ bridge[b].op \notin overtaken =>
            LET a == attempt[bridge[b].op]
                n == bridge[b].number
            IN  /\ a[n].leasedBy = {b}
                /\ \/ a[n].acked
                   \/ \E k \in Attempts : k > n /\ a[k].acked /\ a[k].leasedBy # {b}

(* A finished attempt never changes again and a lease is never handed to   *)
(* another bridge, however late a POST arrives (architecture.md: "multiple *)
(* immutable attempts").                                                   *)
Keeps(old, new) ==
    /\ old.status \notin Active \cup {"NONE"} =>
           new.status = old.status /\ new.acked = old.acked
    /\ old.leasedBy # {} => new.leasedBy = old.leasedBy
AttemptsImmutable ==
    [][\A o \in Ops, n \in Attempts : Keeps(attempt[o][n], attempt'[o][n])]_attempt

(* COMPLETED is final: no sweep, retry or late POST moves a completed      *)
(* command, except a retry, of a command with a budget of two or more,     *)
(* that had read its status before another retry of it.                    *)
CompletedIsFinal ==
    [][\A o \in Ops : status[o] = "COMPLETED" =>
           \/ status'[o] = "COMPLETED"
           \/ MaxRetries > 1 /\ o \in overtaken']_<<status, overtaken>>

(* Only a command that is FAILED or TIMED_OUT, or times out at that very   *)
(* moment, gets another attempt (command_service.py: "only failed or       *)
(* timed-out commands can retry").                                         *)
RetriesOnlyEnded ==
    [][\A o \in Ops : tries[o] > 0 /\ tries'[o] > tries[o] => MayRetry(o)]_tries

(* Whoever times a command out, the timeout is handed on to be alerted,    *)
(* audited and broadcast (docs/api.md, "Apply command").                   *)
TimeoutsReported ==
    [][\A o \in Ops : status[o] \in Active /\ o \in Overdue /\ status'[o] # status[o]
           => \E t \in todo' : t.kind = "TIMED_OUT" /\ t.op = o]_status

(* A retry clears the timeout alert for good: the alert is never raised    *)
(* for a command that has been retried since and whose retry has already   *)
(* done its clearing.                                                      *)
AlertsAreCurrent ==
    [][\A o \in alert' \ alert :
           \/ status[o] = "TIMED_OUT"
           \/ \E t \in todo : t.kind = "RETRIED" /\ t.op = o]_alert

(* A command is created only for a scenario that is APPROVED.              *)
CreatesOnlyForApproved ==
    [][\A o \in Ops, s \in Scenarios :
           target'[o] = {s} /\ target[o] # {s} => scenario[s] = "APPROVED"]_target

(* What is left of the command path once attempts, leases, bridges and     *)
(* POSTs are hidden: it implements its contract with the scenarios.        *)
Contract == INSTANCE CommandContract
    WITH executed <- {o \in Ops : Finished(o)}
ImplementsContract == Contract!Spec

(* Fairness: time passes, and the sweep task, which the backend restarts   *)
(* after every failure, runs again and again.                              *)
FairSpec == Spec /\ WF_vars(Tick) /\ WF_vars(Sweep)

(* A disconnected edge cannot leave a command in progress for ever.        *)
CommandsEnd ==
    \A o \in Ops : status[o] \in Active ~> status[o] \notin Active
=============================================================================
