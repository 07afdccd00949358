----------------------- MODULE CommandLifecycle_proofs -----------------------
(***************************************************************************)
(* Proofs about CommandLifecycle, for every number of scenarios, bridges,  *)
(* requests, commands and retries.                                         *)
(***************************************************************************)
EXTENDS CommandLifecycle, TLAPS

-----------------------------------------------------------------------------
(* Lemmas about the rows.                                                  *)

(* A fresh attempt is an attempt, pending and not leased.                  *)
LEMMA NewAttemptType ==
    /\ NoAttempt \in Attempt /\ NewAttempt \in Attempt
    /\ NewAttempt.status = "PENDING" /\ NewAttempt.leasedBy = {}
  <1>1. 0 \in 0..Timeout /\ Timeout \in 0..Timeout
    BY BoundsAssumption DEF BoundsAssumption
  <1>2. {"PENDING", "NONE"} \subseteq CommandStatus \cup {"NONE"}
    BY DEF CommandStatus, Active
  <1> QED
    BY <1>1, <1>2 DEF NewAttempt, NoAttempt, Attempt

(* Ending, leasing, acknowledging and aging keep an attempt an attempt,    *)
(* and change nothing but what their names say.                            *)
LEMMA UpdateTypes ==
    ASSUME NEW a \in Attempt
    PROVE  /\ \A st \in CommandStatus :
                  /\ Ended(a, st) \in Attempt
                  /\ Ended(a, st).status = st
                  /\ Ended(a, st).leasedBy = a.leasedBy
                  /\ Ended(a, st).acked = a.acked
           /\ \A b \in Bridges :
                  /\ Leased(a, b) \in Attempt
                  /\ Leased(a, b).status = a.status
                  /\ Leased(a, b).leasedBy = {b}
                  /\ Leased(a, b).acked = a.acked
           /\ /\ Acknowledged(a) \in Attempt
              /\ Acknowledged(a).status = "ACKNOWLEDGED"
              /\ Acknowledged(a).leasedBy = a.leasedBy
              /\ Acknowledged(a).acked = TRUE
           /\ /\ Aged(a) \in Attempt
              /\ Aged(a).status = a.status
              /\ Aged(a).leasedBy = a.leasedBy
              /\ Aged(a).acked = a.acked
  <1>1. ASSUME NEW st \in CommandStatus
        PROVE  /\ Ended(a, st) \in Attempt
               /\ Ended(a, st).status = st
               /\ Ended(a, st).leasedBy = a.leasedBy
               /\ Ended(a, st).acked = a.acked
    BY DEF Ended, Attempt
  <1>2. ASSUME NEW b \in Bridges
        PROVE  /\ Leased(a, b) \in Attempt
               /\ Leased(a, b).status = a.status
               /\ Leased(a, b).leasedBy = {b}
               /\ Leased(a, b).acked = a.acked
    <2>1. Timeout \in 0..Timeout
      BY BoundsAssumption DEF BoundsAssumption
    <2>2. [a EXCEPT !.leasedBy = {b}] \in Attempt
      BY DEF Attempt
    <2> QED
      BY <2>1, <2>2 DEF Leased, Attempt
  <1>3. /\ Acknowledged(a) \in Attempt
        /\ Acknowledged(a).status = "ACKNOWLEDGED"
        /\ Acknowledged(a).leasedBy = a.leasedBy
        /\ Acknowledged(a).acked = TRUE
    BY DEF Acknowledged, Attempt, CommandStatus, Active
  <1>4. /\ Aged(a) \in Attempt
        /\ Aged(a).status = a.status
        /\ Aged(a).leasedBy = a.leasedBy
        /\ Aged(a).acked = a.acked
    BY BoundsAssumption DEF BoundsAssumption, Aged, Attempt
  <1> QED
    BY <1>1, <1>2, <1>3, <1>4

(* Touching a command moves deadlines and nothing else.                    *)
LEMMA TouchedMovesDeadlines ==
    ASSUME NEW f \in [Attempts -> Attempt]
    PROVE  /\ Touched(f) \in [Attempts -> Attempt]
           /\ \A n \in Attempts : /\ Touched(f)[n].status = f[n].status
                                  /\ Touched(f)[n].leasedBy = f[n].leasedBy
                                  /\ Touched(f)[n].acked = f[n].acked
  BY BoundsAssumption
     DEF BoundsAssumption, Touched, Attempt, CommandStatus, Active, Retryable

(* Expiring commands keeps the rows well typed.                            *)
LEMMA ExpiredType ==
    ASSUME status \in [Ops -> CommandStatus \cup {"NONE"}],
           attempt \in [Ops -> [Attempts -> Attempt]]
    PROVE  /\ ExpiredStatus \in [Ops -> CommandStatus \cup {"NONE"}]
           /\ ExpiredAttempt \in [Ops -> [Attempts -> Attempt]]
  <1>1. ExpiredStatus \in [Ops -> CommandStatus \cup {"NONE"}]
    BY DEF ExpiredStatus, CommandStatus, Retryable
  <1>2. ASSUME NEW o \in Ops
        PROVE  ExpiredAttempt[o] \in [Attempts -> Attempt]
    <2> DEFINE f == [n \in Attempts |->
                        IF Due(o, n) THEN Ended(attempt[o][n], "TIMED_OUT")
                        ELSE attempt[o][n]]
    <2>1. f \in [Attempts -> Attempt]
      BY UpdateTypes DEF CommandStatus, Retryable
    <2>2. Touched(f) \in [Attempts -> Attempt]
      BY <2>1, TouchedMovesDeadlines
    <2>3. ExpiredAttempt[o] = IF o \in Overdue THEN Touched(f) ELSE f
      BY DEF ExpiredAttempt
    <2> QED
      BY <2>1, <2>2, <2>3
  <1> QED
    BY <1>1, <1>2 DEF ExpiredAttempt

-----------------------------------------------------------------------------
(* The type invariant.                                                     *)

LEMMA TypeInit == Init => TypeOK
  BY NewAttemptType, BoundsAssumption
     DEF BoundsAssumption, Init, TypeOK, Idle, MonitorState, BridgeState,
         ScenarioStatus, Ops, Attempts, Outcomes

(* A busy request names its scenario or its command.                       *)
LEMMA RequestNames ==
    ASSUME NEW x \in MonitorState
    PROVE  /\ x.phase = "applying" => x.of \in Scenarios
           /\ x.phase \in {"retrying", "loaded"} => x.of \in Ops
  BY DEF MonitorState

(* A bridge that handles a command names the attempt.                      *)
LEMMA BridgeNames ==
    ASSUME NEW x \in BridgeState,
           x.phase \in {"acking", "acked", "executing"}
    PROVE  x.op \in Ops /\ x.number \in Attempts
  BY DEF BridgeState

(* A retry inserts into the rows as they are, or as they are once overdue  *)
(* commands have timed out.                                                *)
LEMMA RetryCases ==
    ASSUME TypeOK, NEW m \in Monitors, RetryCommit(m) \/ RetryAtOnce(m)
    PROVE  /\ monitor[m].of \in Ops
           /\ \/ /\ monitor[m].phase = "loaded"
                 /\ InsertAttempt(m, monitor[m].of, status, attempt)
              \/ /\ \/ /\ monitor[m].phase = "loaded"
                       /\ ExpiredStatus[monitor[m].of] = status[monitor[m].of]
                    \/ ExpiredStatus[monitor[m].of] = "TIMED_OUT"
                 /\ InsertAttempt(m, monitor[m].of, ExpiredStatus, ExpiredAttempt)
  <1>1. monitor[m].of \in Ops
    BY RequestNames DEF RetryCommit, RetryAtOnce, TypeOK
  <1>2. /\ monitor[m].of \in Overdue => ExpiredStatus[monitor[m].of] = "TIMED_OUT"
        /\ monitor[m].of \notin Overdue =>
               ExpiredStatus[monitor[m].of] = status[monitor[m].of]
    BY <1>1 DEF ExpiredStatus
  <1> QED
    BY <1>1, <1>2 DEF RetryCommit, RetryAtOnce

(* Inserting an attempt into well-typed rows keeps the types.              *)
LEMMA InsertType ==
    ASSUME TypeOK, NEW m \in Monitors, NEW o \in Ops,
           NEW st \in [Ops -> CommandStatus \cup {"NONE"}],
           NEW rowsOf \in [Ops -> [Attempts -> Attempt]],
           InsertAttempt(m, o, st, rowsOf)
    PROVE  TypeOK'
  <1>1. monitor' \in [Monitors -> MonitorState]
    BY DEF InsertAttempt, TypeOK, MonitorState, Idle
  <1>2. CASE UNCHANGED <<rows, todo, overtaken>>
    BY <1>1, <1>2 DEF InsertAttempt, rows, TypeOK
  <1>3. CASE ~UNCHANGED <<rows, todo, overtaken>>
    <2> DEFINE n == tries[o] + 1
    <2>1. /\ BudgetLeft(o)
          /\ status' = [st EXCEPT ![o] = "PENDING"]
          /\ tries' = [tries EXCEPT ![o] = n]
          /\ attempt' = [rowsOf EXCEPT
                 ![o] = [Touched(rowsOf[o]) EXCEPT ![n] = NewAttempt]]
          /\ todo' = todo \cup {[kind |-> "RETRIED", op |-> o, by |-> {}]}
          /\ overtaken' \subseteq overtaken \cup {o}
          /\ UNCHANGED target
      BY <1>3 DEF InsertAttempt
    <2>2. n \in 0..(MaxRetries + 1)
      BY <2>1, BoundsAssumption DEF BoundsAssumption, BudgetLeft, TypeOK
    <2>3. status' \in [Ops -> CommandStatus \cup {"NONE"}]
      BY <2>1 DEF CommandStatus, Active
    <2>4. tries' \in [Ops -> 0..(MaxRetries + 1)]
      BY <2>1, <2>2 DEF TypeOK
    <2>5. attempt' \in [Ops -> [Attempts -> Attempt]]
      <3>1. Touched(rowsOf[o]) \in [Attempts -> Attempt]
        BY TouchedMovesDeadlines
      <3>2. [Touched(rowsOf[o]) EXCEPT ![n] = NewAttempt] \in [Attempts -> Attempt]
        BY <3>1, NewAttemptType
      <3> QED
        BY <2>1, <3>2
    <2>6. todo' \subseteq Todo
      <3>1. {} \in Owners
        BY DEF Owners
      <3>2. [kind |-> "RETRIED", op |-> o, by |-> {}] \in Todo
        BY <3>1 DEF Todo
      <3> QED
        BY <2>1, <3>2 DEF TypeOK
    <2> QED
      BY <1>1, <2>1, <2>3, <2>4, <2>5, <2>6 DEF InsertAttempt, TypeOK
  <1> QED
    BY <1>2, <1>3

(* So does recording what became of one attempt.                           *)
LEMMA RecordedType ==
    ASSUME attempt \in [Ops -> [Attempts -> Attempt]],
           NEW r \in Request, NEW a \in Attempt
    PROVE  Recorded(r, a) \in [Ops -> [Attempts -> Attempt]]
  <1>1. r.op \in Ops /\ r.number \in Attempts
    BY DEF Request
  <1>2. [attempt[r.op] EXCEPT ![r.number] = a] \in [Attempts -> Attempt]
    BY <1>1
  <1> QED
    BY <1>1, <1>2, TouchedMovesDeadlines DEF Recorded

LEMMA TypeStep == TypeOK /\ [Next]_vars => TypeOK'
  <1> SUFFICES ASSUME TypeOK, [Next]_vars PROVE TypeOK'
    OBVIOUS
  <1>1. ASSUME NEW s \in Scenarios, Approve(s) PROVE TypeOK'
    BY <1>1 DEF Approve, rows, TypeOK, ScenarioStatus
  <1>2. ASSUME NEW m \in Monitors, NEW s \in Scenarios, ApplyRead(m, s) PROVE TypeOK'
    BY <1>2 DEF ApplyRead, rows, TypeOK, MonitorState
  <1>3. ASSUME NEW m \in Monitors, ApplyCreate(m) PROVE TypeOK'
    <2>1. monitor[m].of \in Scenarios
      BY <1>3, RequestNames DEF ApplyCreate, TypeOK
    <2>2. Idle \in MonitorState
      BY DEF MonitorState, Idle
    <2>3. monitor' \in [Monitors -> MonitorState]
      BY <1>3, <2>2 DEF ApplyCreate, TypeOK
    <2>4. ASSUME NEW o \in Ops,
                 status' = [status EXCEPT ![o] = "PENDING"],
                 target' = [target EXCEPT ![o] = {monitor[m].of}],
                 tries' = [tries EXCEPT ![o] = 1],
                 attempt' = [attempt EXCEPT ![o][1] = NewAttempt]
          PROVE  /\ status' \in [Ops -> CommandStatus \cup {"NONE"}]
                 /\ target' \in [Ops -> SUBSET Scenarios]
                 /\ tries' \in [Ops -> 0..(MaxRetries + 1)]
                 /\ attempt' \in [Ops -> [Attempts -> Attempt]]
      <3>1. status' \in [Ops -> CommandStatus \cup {"NONE"}]
        BY <2>4 DEF TypeOK, CommandStatus, Active
      <3>2. target' \in [Ops -> SUBSET Scenarios]
        BY <2>1, <2>4 DEF TypeOK
      <3>3. tries' \in [Ops -> 0..(MaxRetries + 1)]
        BY <2>4, BoundsAssumption DEF BoundsAssumption, TypeOK
      <3>4. attempt' \in [Ops -> [Attempts -> Attempt]]
        BY <2>4, NewAttemptType DEF TypeOK
      <3> QED
        BY <3>1, <3>2, <3>3, <3>4
    <2> QED
      BY <1>3, <2>3, <2>4 DEF ApplyCreate, rows, TypeOK
  <1>4. ASSUME NEW m \in Monitors, NEW o \in Ops, RetryExpire(m, o) PROVE TypeOK'
    BY <1>4, ExpiredType DEF RetryExpire, ExpireAndNotify, rows, TypeOK, MonitorState, Todo, Owners, Overdue
  <1>5. ASSUME NEW m \in Monitors, RetryLoad(m) PROVE TypeOK'
    <2>1. monitor[m].of \in Ops
      BY <1>5, RequestNames DEF RetryLoad, TypeOK
    <2>2. [phase |-> "loaded", of |-> monitor[m].of] \in MonitorState
      BY <2>1 DEF MonitorState
    <2>3. Idle \in MonitorState
      BY DEF MonitorState, Idle
    <2>4. monitor' \in [Monitors -> MonitorState]
      BY <1>5, <2>2, <2>3 DEF RetryLoad, MayRetry, TypeOK
    <2> QED
      BY <1>5, <2>4 DEF RetryLoad, rows, TypeOK
  <1>6. ASSUME NEW m \in Monitors, RetryCommit(m) \/ RetryAtOnce(m) PROVE TypeOK'
    <2>1. /\ ExpiredStatus \in [Ops -> CommandStatus \cup {"NONE"}]
          /\ ExpiredAttempt \in [Ops -> [Attempts -> Attempt]]
      BY ExpiredType DEF TypeOK
    <2>2. /\ status \in [Ops -> CommandStatus \cup {"NONE"}]
          /\ attempt \in [Ops -> [Attempts -> Attempt]]
      BY DEF TypeOK
    <2> QED
      BY <1>6, <2>1, <2>2, InsertType, RetryCases
  <1>8. ASSUME Sweep PROVE TypeOK'
    BY <1>8, ExpiredType DEF Sweep, ExpireAndNotify, rows, TypeOK, Todo, Owners, Overdue
  <1>9. ASSUME NEW t \in todo, NotifyTimeout(t) \/ NotifyRetry(t) PROVE TypeOK'
    BY <1>9 DEF NotifyTimeout, NotifyRetry, rows, TypeOK, Todo
  <1>10. ASSUME NEW t \in todo, FinishApply(t) PROVE TypeOK'
    BY <1>10 DEF FinishApply, rows, TypeOK, Todo, ScenarioStatus
  <1>11. CASE BackendRestart
    BY <1>11 DEF BackendRestart, rows, TypeOK, Idle, MonitorState, BridgeState
  <1>12. ASSUME NEW b \in Bridges, Poll(b) PROVE TypeOK'
    BY <1>12, ExpiredType DEF Poll, ExpireAndNotify, rows, TypeOK, BridgeState, Todo, Owners, Overdue
  <1>13. ASSUME NEW b \in Bridges, GiveUp(b) PROVE TypeOK'
    BY <1>13 DEF GiveUp, rows, TypeOK, BridgeState, Idle
  <1>14. ASSUME NEW b \in Bridges, CallFleet(b) PROVE TypeOK'
    <2>1. bridge[b].op \in Ops /\ bridge[b].number \in Attempts
      BY <1>14, BridgeNames DEF CallFleet, TypeOK
    <2>2. Handling("executing", bridge[b].op, bridge[b].number) \in BridgeState
      BY <2>1 DEF Handling, BridgeState
    <2> QED
      BY <1>14, <2>2 DEF CallFleet, rows, TypeOK
  <1>15. ASSUME NEW b \in Bridges,
                FleetUnavailable(b) \/ ReportResult(b) \/ ReportException(b)
         PROVE TypeOK'
    <2>1. bridge[b].op \in Ops /\ bridge[b].number \in Attempts
      BY <1>15, BridgeNames DEF FleetUnavailable, ReportResult, ReportException,
                                TypeOK
    <2>2. PICK outcome \in Outcomes : PostResult(b, outcome)
      BY <1>15, <2>1 DEF FleetUnavailable, ReportResult, ReportException,
                         TypeOK, Outcomes
    <2>3. requests' \subseteq Request
      BY <2>1, <2>2 DEF PostResult, TypeOK, Request
    <2> QED
      BY <2>2, <2>3 DEF PostResult, rows, TypeOK, BridgeState, Idle
  <1>16. ASSUME NEW b \in Bridges, FleetApply(b) PROVE TypeOK'
    BY <1>16 DEF FleetApply, rows, TypeOK, BridgeState
  <1>17. ASSUME NEW b \in Bridges, Lease(b) PROVE TypeOK'
    <2>1. /\ ExpiredStatus \in [Ops -> CommandStatus \cup {"NONE"}]
          /\ ExpiredAttempt \in [Ops -> [Attempts -> Attempt]]
      BY ExpiredType DEF TypeOK
    <2>2. Timeout \in 0..Timeout
      BY BoundsAssumption DEF BoundsAssumption
    <2>3. ASSUME NEW o \in Ops, NEW n \in Attempts, NEW last \in Attempts
          PROVE  /\ [ExpiredAttempt EXCEPT ![o][n] = Leased(ExpiredAttempt[o][n], b)]
                        \in [Ops -> [Attempts -> Attempt]]
                 /\ Handling("acking", o, last) \in BridgeState
                 /\ [bridge |-> b, op |-> o, number |-> last, status |-> "ACKNOWLEDGED"]
                        \in Request
      <3>1. ExpiredAttempt[o][n] \in Attempt
        BY <2>1
      <3>2. Leased(ExpiredAttempt[o][n], b) \in Attempt
        BY <3>1, UpdateTypes
      <3>3. [ExpiredAttempt EXCEPT ![o][n] = Leased(ExpiredAttempt[o][n], b)]
                \in [Ops -> [Attempts -> Attempt]]
        BY <2>1, <3>2
      <3>4. Handling("acking", o, last) \in BridgeState
        BY DEF Handling, BridgeState
      <3>5. [bridge |-> b, op |-> o, number |-> last, status |-> "ACKNOWLEDGED"] \in Request
        BY DEF Request
      <3> QED
        BY <3>3, <3>4, <3>5
    <2>4. /\ attempt' \in [Ops -> [Attempts -> Attempt]]
          /\ bridge' \in [Bridges -> BridgeState]
          /\ requests' \subseteq Request
      <3>1. CASE \A o \in Ops, n \in Attempts : ~Leasable(o, n)
        <4>1. /\ attempt' = ExpiredAttempt
              /\ bridge' = [bridge EXCEPT ![b] = Idle]
              /\ requests' = requests
          BY <1>17, <3>1 DEF Lease
        <4> QED
          BY <2>1, <4>1 DEF TypeOK, BridgeState, Idle
      <3>2. CASE ~\A o \in Ops, n \in Attempts : ~Leasable(o, n)
        <4>1. PICK o \in Ops, n, last \in Attempts :
                  /\ attempt' = [ExpiredAttempt EXCEPT ![o][n] = Leased(@, b)]
                  /\ bridge' = [bridge EXCEPT ![b] = Handling("acking", o, last)]
                  /\ requests' = requests \cup
                         {[bridge |-> b, op |-> o, number |-> last,
                           status |-> "ACKNOWLEDGED"]}
          BY <1>17, <3>2 DEF Lease
        <4> QED
          BY <2>3, <4>1 DEF TypeOK
      <3> QED
        BY <3>1, <3>2
    <2> QED
      BY <1>17, <2>1, <2>4 DEF Lease, TypeOK
  <1>18. ASSUME NEW r \in requests, HandleAck(r) PROVE TypeOK'
    <2>1. r.op \in Ops /\ r.number \in Attempts /\ r.bridge \in Bridges
      BY DEF TypeOK, Request
    <2>2. bridge' \in [Bridges -> BridgeState]
      <3>1. /\ Handling("acked", r.op, r.number) \in BridgeState
            /\ Idle \in BridgeState
        BY <2>1 DEF Handling, BridgeState, Idle
      <3>2. PICK accepted \in BOOLEAN : Answer(r, accepted)
        BY <1>18 DEF HandleAck
      <3> QED
        BY <3>1, <3>2, <2>1 DEF Answer, TypeOK
    <2>3. status' \in [Ops -> CommandStatus \cup {"NONE"}]
      BY <1>18, <2>1 DEF HandleAck, TypeOK, CommandStatus, Active
    <2>4. attempt' \in [Ops -> [Attempts -> Attempt]]
      <3>1. attempt[r.op][r.number] \in Attempt
        BY <2>1 DEF TypeOK
      <3>2. Acknowledged(attempt[r.op][r.number]) \in Attempt
        BY <2>1, <3>1, UpdateTypes
      <3>3. Recorded(r, Acknowledged(attempt[r.op][r.number]))
                \in [Ops -> [Attempts -> Attempt]]
        BY <3>2, RecordedType DEF TypeOK
      <3> QED
        BY <1>18, <3>3 DEF HandleAck, TypeOK
    <2> QED
      BY <1>18, <2>2, <2>3, <2>4 DEF HandleAck, Consume, TypeOK
  <1>19. ASSUME NEW r \in requests, HandleResult(r) PROVE TypeOK'
    <2>1. /\ r.op \in Ops /\ r.number \in Attempts
          /\ r.status \in CommandStatus
      BY <1>19 DEF HandleResult, TypeOK, Request, Outcomes, CommandStatus, Retryable
    <2>2. status' \in [Ops -> CommandStatus \cup {"NONE"}]
      BY <1>19, <2>1 DEF HandleResult, TypeOK
    <2>3. attempt' \in [Ops -> [Attempts -> Attempt]]
      <3>1. attempt[r.op][r.number] \in Attempt
        BY <2>1 DEF TypeOK
      <3>2. Ended(attempt[r.op][r.number], r.status) \in Attempt
        BY <2>1, <3>1, UpdateTypes
      <3>3. Recorded(r, Ended(attempt[r.op][r.number], r.status))
                \in [Ops -> [Attempts -> Attempt]]
        BY <3>2, RecordedType DEF TypeOK
      <3> QED
        BY <1>19, <3>3 DEF HandleResult, TypeOK
    <2>4. todo' \subseteq Todo
      <3>1. {} \in Owners
        BY DEF Owners
      <3>2. [kind |-> "COMPLETED", op |-> r.op, by |-> {}] \in Todo
        BY <2>1, <3>1 DEF Todo
      <3> QED
        BY <1>19, <3>2 DEF HandleResult, TypeOK
    <2> QED
      BY <1>19, <2>2, <2>3, <2>4 DEF HandleResult, Consume, TypeOK
  <1>20. ASSUME NEW r \in requests, Lose(r) PROVE TypeOK'
    BY <1>20 DEF Lose, rows, TypeOK
  <1>21. ASSUME Tick PROVE TypeOK'
    <2>1. attempt' \in [Ops -> [Attempts -> Attempt]]
      <3>1. \A o \in Ops, n \in Attempts : Aged(attempt[o][n]) \in Attempt
        <4>1. \A o \in Ops, n \in Attempts : attempt[o][n] \in Attempt
          BY DEF TypeOK
        <4> QED
          BY <4>1, UpdateTypes
      <3> QED
        BY <1>21, <3>1 DEF Tick
    <2> QED
      BY <1>21, <2>1 DEF Tick, TypeOK
  <1>22. CASE UNCHANGED vars
    BY <1>22 DEF vars, rows, TypeOK
  <1> QED
    BY <1>1, <1>2, <1>3, <1>4, <1>5, <1>6, <1>8, <1>9, <1>10, <1>11,
       <1>12, <1>13, <1>14, <1>15, <1>16, <1>17, <1>18, <1>19, <1>20, <1>21,
       <1>22 DEF Next

(* Every variable keeps its type, for any number of requests, bridges,     *)
(* commands and retries: in particular no retry of command_service.py ever *)
(* exceeds the budget of max_retries + 1 attempts.                         *)
THEOREM TypeCorrect == Spec => []TypeOK
  BY TypeInit, TypeStep, PTL DEF Spec

-----------------------------------------------------------------------------
(* The command row and its attempt rows.                                   *)

(* What AttemptsAgree says of one command, as a relation of the rows alone: *)
(* a transaction that expires commands and then inserts goes through rows  *)
(* that are no state's.                                                    *)
AgreeOn(o, st, tr, at) ==
    /\ tr[o] = 0 <=> st[o] = "NONE"
    /\ \A n \in Attempts : n > tr[o] <=> at[o][n].status = "NONE"
    /\ o \notin overtaken =>
           /\ tr[o] > 0 => at[o][tr[o]].status = st[o]
           /\ \A n \in Attempts : n < tr[o] => at[o][n].status \in Retryable

(* A retry that has read a retryable status and does not find it any more  *)
(* has been overtaken by another one, which spent an attempt.              *)
LoadedInv ==
    \A m \in Monitors : monitor[m].phase = "loaded" =>
        \/ status[monitor[m].of] \in Retryable
        \/ tries[monitor[m].of] > 1
OvertakenInv == \A o \in overtaken : tries[o] > 2

RowsInv == TypeOK /\ AttemptsAgree /\ LoadedInv /\ OvertakenInv

(* Only the latest attempt can be live, and the command then has its       *)
(* status.                                                                 *)
LEMMA LiveIsLatest ==
    ASSUME TypeOK, AttemptsAgree, NEW o \in Ops \ overtaken, NEW n \in Attempts,
           Live(o, n)
    PROVE  n = tries[o] /\ status[o] = attempt[o][n].status /\ status[o] \in Active
  <1>1. n \in Nat /\ tries[o] \in Nat
    BY BoundsAssumption DEF BoundsAssumption, Attempts, TypeOK
  <1>2. ~(n < tries[o]) /\ ~(n > tries[o])
    BY DEF AttemptsAgree, Live, Active, Retryable
  <1>3. n = tries[o] /\ n > 0
    BY <1>1, <1>2 DEF Attempts
  <1> QED
    BY <1>1, <1>3 DEF AttemptsAgree, Live

(* Whether overtaken or not, a command with a live attempt is one of its   *)
(* status, or has been tried before.                                       *)
LEMMA LiveExists ==
    ASSUME RowsInv, NEW o \in Ops, NEW n \in Attempts, Live(o, n)
    PROVE  /\ status[o] # "NONE" /\ tries[o] > 0
           /\ status[o] \in Active \/ (o \in overtaken /\ tries[o] > 1)
  <1>1. n \in Nat /\ n > 0 /\ tries[o] \in Nat
    BY BoundsAssumption DEF BoundsAssumption, Attempts, RowsInv, TypeOK
  <1>2. ~(n > tries[o])
    BY DEF RowsInv, AttemptsAgree, Live, Active
  <1>3. tries[o] # 0
    BY <1>1, <1>2
  <1>4. status[o] # "NONE" /\ tries[o] > 0
    BY <1>1, <1>3 DEF RowsInv, AttemptsAgree
  <1>5. CASE o \in overtaken
    BY <1>1, <1>4, <1>5 DEF RowsInv, OvertakenInv
  <1>6. CASE o \notin overtaken
    BY <1>4, <1>6, LiveIsLatest DEF RowsInv
  <1> QED
    BY <1>4, <1>5, <1>6

(* Expiring gives exactly the due attempts the status TIMED_OUT.           *)
LEMMA ExpiredStatuses ==
    ASSUME TypeOK, NEW o \in Ops, NEW n \in Attempts
    PROVE  /\ ExpiredAttempt[o][n].status =
                  IF Due(o, n) THEN "TIMED_OUT" ELSE attempt[o][n].status
           /\ ExpiredAttempt[o][n].leasedBy = attempt[o][n].leasedBy
           /\ ExpiredAttempt[o][n].acked = attempt[o][n].acked
  <1> DEFINE f == [k \in Attempts |->
                      IF Due(o, k) THEN Ended(attempt[o][k], "TIMED_OUT")
                      ELSE attempt[o][k]]
  <1>1. \A k \in Attempts : attempt[o][k] \in Attempt
    BY DEF TypeOK
  <1>2. /\ f[n].status = IF Due(o, n) THEN "TIMED_OUT" ELSE attempt[o][n].status
        /\ f[n].leasedBy = attempt[o][n].leasedBy
        /\ f[n].acked = attempt[o][n].acked
    <2>1. /\ Ended(attempt[o][n], "TIMED_OUT").status = "TIMED_OUT"
          /\ Ended(attempt[o][n], "TIMED_OUT").leasedBy = attempt[o][n].leasedBy
          /\ Ended(attempt[o][n], "TIMED_OUT").acked = attempt[o][n].acked
      <3>1. attempt[o][n] \in Attempt
        BY <1>1
      <3>2. "TIMED_OUT" \in CommandStatus
        BY DEF CommandStatus, Retryable
      <3>3. ASSUME NEW a \in Attempt, NEW st \in CommandStatus
            PROVE  /\ Ended(a, st).status = st
                   /\ Ended(a, st).leasedBy = a.leasedBy
                   /\ Ended(a, st).acked = a.acked
        BY <3>3, UpdateTypes
      <3> QED
        BY <3>1, <3>2, <3>3
    <2>2. CASE Due(o, n)
      <3>1. f[n] = Ended(attempt[o][n], "TIMED_OUT")
        BY <2>2
      <3> QED
        BY <2>1, <2>2, <3>1
    <2>3. CASE ~Due(o, n)
      <3>1. f[n] = attempt[o][n]
        BY <2>3
      <3> QED
        BY <2>3, <3>1
    <2> QED
      BY <2>2, <2>3
  <1>3. f \in [Attempts -> Attempt]
    BY <1>1, UpdateTypes DEF CommandStatus, Retryable
  <1>4. ExpiredAttempt[o] = IF o \in Overdue THEN Touched(f) ELSE f
    BY DEF ExpiredAttempt
  <1> HIDE DEF f
  <1> QED
    BY <1>2, <1>3, <1>4, TouchedMovesDeadlines

(* Recording changes the status of one attempt only.                       *)
LEMMA RecordedStatuses ==
    ASSUME TypeOK, NEW r \in Request, NEW a \in Attempt,
           NEW o \in Ops, NEW n \in Attempts
    PROVE  LET b == IF o = r.op /\ n = r.number THEN a ELSE attempt[o][n]
           IN  /\ Recorded(r, a)[o][n].status = b.status
               /\ Recorded(r, a)[o][n].leasedBy = b.leasedBy
               /\ Recorded(r, a)[o][n].acked = b.acked
  <1> DEFINE f == [attempt[r.op] EXCEPT ![r.number] = a]
  <1>1. /\ r.op \in Ops /\ r.number \in Attempts
        /\ attempt \in [Ops -> [Attempts -> Attempt]]
    BY DEF Request, TypeOK
  <1>2. f \in [Attempts -> Attempt]
    BY <1>1
  <1>3. Recorded(r, a)[o] = IF o = r.op THEN Touched(f) ELSE attempt[o]
    BY <1>1 DEF Recorded
  <1>4. f[n] = IF n = r.number THEN a ELSE attempt[r.op][n]
    BY <1>1
  <1> HIDE DEF f
  <1> QED
    BY <1>2, <1>3, <1>4, TouchedMovesDeadlines

(* The rows still agree once the overdue commands have timed out.          *)
LEMMA ExpiredAgree ==
    ASSUME RowsInv, NEW o \in Ops
    PROVE  AgreeOn(o, ExpiredStatus, tries, ExpiredAttempt)
  <1>0. TypeOK /\ AttemptsAgree
    BY DEF RowsInv
  <1>1. tries[o] \in Nat /\ (tries[o] > 0 => tries[o] \in Attempts)
    BY <1>0, BoundsAssumption DEF BoundsAssumption, TypeOK, Attempts
  <1>2. \A n \in Attempts : Due(o, n) =>
            tries[o] > 0 /\ (o \notin overtaken => n = tries[o])
    BY <1>0, LiveExists, LiveIsLatest DEF Due
  <1>3. \A n \in Attempts : n \in Nat
    BY BoundsAssumption DEF BoundsAssumption, Attempts
  <1>4. \A n \in Attempts : ExpiredAttempt[o][n].status =
            IF Due(o, n) THEN "TIMED_OUT" ELSE attempt[o][n].status
    BY <1>0, ExpiredStatuses
  <1>5. \A n \in Attempts : n > tries[o] <=> ExpiredAttempt[o][n].status = "NONE"
    BY <1>0, <1>4 DEF AttemptsAgree, Due, Live, Active
  <1>6. tries[o] = 0 <=> ExpiredStatus[o] = "NONE"
    <2>1. CASE o \in Overdue
      BY <1>1, <1>2, <2>1 DEF Overdue, ExpiredStatus
    <2>2. CASE o \notin Overdue
      BY <1>0, <2>2 DEF ExpiredStatus, AttemptsAgree
    <2> QED
      BY <2>1, <2>2
  <1>7. ASSUME o \notin overtaken
        PROVE  /\ tries[o] > 0 => ExpiredAttempt[o][tries[o]].status = ExpiredStatus[o]
               /\ \A n \in Attempts :
                      n < tries[o] => ExpiredAttempt[o][n].status \in Retryable
    <2>1. \A n \in Attempts : Due(o, n) => n = tries[o]
      BY <1>2, <1>7
    <2>2. \A n \in Attempts : n < tries[o] => ExpiredAttempt[o][n].status \in Retryable
      <3> SUFFICES ASSUME NEW n \in Attempts, n < tries[o]
                   PROVE  ExpiredAttempt[o][n].status \in Retryable
        OBVIOUS
      <3>1. attempt[o][n].status \in Retryable
        BY <1>0, <1>7 DEF AttemptsAgree
      <3>2. ~Due(o, n)
        BY <3>1 DEF Due, Live, Active, Retryable
      <3> QED
        BY <1>4, <3>1, <3>2
    <2>3. ASSUME tries[o] > 0
          PROVE  ExpiredAttempt[o][tries[o]].status = ExpiredStatus[o]
      <3>1. tries[o] \in Attempts /\ attempt[o][tries[o]].status = status[o]
        BY <1>0, <1>1, <1>7, <2>3 DEF AttemptsAgree
      <3>2. Due(o, tries[o]) <=> o \in Overdue
        BY <2>1, <3>1 DEF Overdue
      <3> QED
        BY <1>4, <3>1, <3>2 DEF ExpiredStatus
    <2> QED
      BY <2>2, <2>3
  <1> QED
    BY <1>5, <1>6, <1>7 DEF AgreeOn

(* They agree after the next attempt of a command, which is overtaken if   *)
(* its last one had not ended.                                             *)
LEMMA InsertAgree ==
    ASSUME RowsInv, NEW m \in Monitors, NEW o \in Ops,
           NEW st \in [Ops -> CommandStatus \cup {"NONE"}],
           NEW rowsOf \in [Ops -> [Attempts -> Attempt]],
           \A p \in Ops : AgreeOn(p, st, tries, rowsOf),
           tries[o] > 0,
           InsertAttempt(m, o, st, rowsOf)
    PROVE  AttemptsAgree'
  <1>0. TypeOK
    BY DEF RowsInv
  <1>1. CASE UNCHANGED <<rows, todo, overtaken>>
    BY <1>1 DEF rows, RowsInv, AttemptsAgree
  <1>2. CASE ~UNCHANGED <<rows, todo, overtaken>>
    <2> DEFINE n == tries[o] + 1
               f == [Touched(rowsOf[o]) EXCEPT ![n] = NewAttempt]
    <2>1. /\ BudgetLeft(o)
          /\ status' = [st EXCEPT ![o] = "PENDING"]
          /\ tries' = [tries EXCEPT ![o] = n]
          /\ attempt' = [rowsOf EXCEPT ![o] = f]
          /\ overtaken' = overtaken \cup ({o} \ {p \in Ops : st[p] \in Retryable})
      BY <1>2 DEF InsertAttempt
    <2>2. tries \in [Ops -> Nat] /\ n \in Attempts /\ n > 0 /\ Attempts \subseteq Nat
      BY <1>0, <2>1, BoundsAssumption DEF BoundsAssumption, BudgetLeft, Attempts, TypeOK
    <2>3. Touched(rowsOf[o]) \in [Attempts -> Attempt]
      BY TouchedMovesDeadlines
    <2>4. /\ f[n].status = "PENDING"
          /\ \A k \in Attempts : k # n => f[k].status = rowsOf[o][k].status
      BY <2>2, <2>3, NewAttemptType, TouchedMovesDeadlines
    <2>5. tries[o] \in Attempts
      BY <1>0, <2>2, BoundsAssumption DEF BoundsAssumption, Attempts, TypeOK
    <2> HIDE DEF f
    <2>6. ASSUME NEW p \in Ops \ {o}
          PROVE  /\ tries'[p] = tries[p] /\ status'[p] = st[p]
                 /\ attempt'[p] = rowsOf[p]
                 /\ p \in overtaken' <=> p \in overtaken
      BY <2>1
    <2>7. tries'[o] = n /\ status'[o] = "PENDING" /\ attempt'[o] = f
      BY <2>1, <2>2
    <2>8. ASSUME NEW k \in Attempts
          PROVE  k > n <=> f[k].status = "NONE"
      <3>1. k \in Nat /\ tries[o] \in Nat
        BY <2>2
      <3>2. k # n => f[k].status = rowsOf[o][k].status
        BY <2>4
      <3>3. k > tries[o] <=> rowsOf[o][k].status = "NONE"
        BY DEF AgreeOn
      <3>4. CASE k = n
        BY <2>4, <3>1, <3>4
      <3>5. CASE k # n
        <4>1. k > n <=> k > tries[o]
          BY <3>1, <3>5
        <4> QED
          BY <3>2, <3>3, <3>5, <4>1
      <3> QED
        BY <3>4, <3>5
    <2>9. ASSUME o \notin overtaken', NEW k \in Attempts, k < n
          PROVE  f[k].status \in Retryable
      <3>1. k \in Nat /\ tries[o] \in Nat
        BY <2>2
      <3>2. o \notin overtaken /\ st[o] \in Retryable
        BY <2>1, <2>9
      <3>3. k # n /\ (k < tries[o] \/ k = tries[o])
        BY <2>9, <3>1
      <3>4. rowsOf[o][k].status \in Retryable
        BY <2>5, <3>2, <3>3 DEF AgreeOn
      <3> QED
        BY <2>4, <3>3, <3>4
    <2>10. /\ tries'[o] = 0 <=> status'[o] = "NONE"
           /\ \A k \in Attempts : k > tries'[o] <=> attempt'[o][k].status = "NONE"
           /\ o \notin overtaken' =>
                  /\ tries'[o] > 0 => attempt'[o][tries'[o]].status = status'[o]
                  /\ \A k \in Attempts :
                         k < tries'[o] => attempt'[o][k].status \in Retryable
      BY <2>2, <2>4, <2>7, <2>8, <2>9
    <2>11. ASSUME NEW p \in Ops \ {o}
           PROVE  /\ tries'[p] = 0 <=> status'[p] = "NONE"
                  /\ \A k \in Attempts : k > tries'[p] <=> attempt'[p][k].status = "NONE"
                  /\ p \notin overtaken' =>
                         /\ tries'[p] > 0 => attempt'[p][tries'[p]].status = status'[p]
                         /\ \A k \in Attempts :
                                k < tries'[p] => attempt'[p][k].status \in Retryable
      <3>1. AgreeOn(p, st, tries, rowsOf)
        OBVIOUS
      <3> QED
        BY <2>6, <3>1 DEF AgreeOn
    <2> QED
      BY <2>10, <2>11 DEF AttemptsAgree
  <1> QED
    BY <1>1, <1>2

(* What the proof shows of every step: the invariants, and that no         *)
(* COMPLETED command leaves that status unless it is overtaken.            *)
KeepsFinal ==
    \A o \in Ops : status[o] = "COMPLETED" =>
        status'[o] = "COMPLETED" \/ o \in overtaken'
RowsStep == AttemptsAgree' /\ LoadedInv' /\ OvertakenInv' /\ KeepsFinal

(* No request enters its second read.                                      *)
NoneLoads == \A m \in Monitors : monitor'[m].phase = "loaded" => monitor'[m] = monitor[m]

LEMMA RowsUnchanged ==
    ASSUME RowsInv, UNCHANGED <<status, tries, attempt, overtaken>>, NoneLoads
    PROVE  RowsStep
  BY DEF RowsInv, RowsStep, AttemptsAgree, LoadedInv, OvertakenInv, KeepsFinal, NoneLoads

(* A command a request has loaded stays as LoadedInv says while it is      *)
(* neither inserted into nor leaves the retryable statuses.                *)
LEMMA LoadedKept ==
    ASSUME RowsInv, NoneLoads,
           \A o \in Ops : /\ tries'[o] >= tries[o] /\ tries'[o] \in Nat
                          /\ status[o] \in Retryable =>
                                 status'[o] \in Retryable \/ tries'[o] > 1
    PROVE  LoadedInv'
  <1> SUFFICES ASSUME NEW m \in Monitors, monitor'[m].phase = "loaded"
               PROVE  \/ status'[monitor'[m].of] \in Retryable
                      \/ tries'[monitor'[m].of] > 1
    BY DEF LoadedInv
  <1>1. monitor'[m] = monitor[m] /\ monitor[m].of \in Ops
    BY RequestNames DEF NoneLoads, RowsInv, TypeOK
  <1>2. tries[monitor[m].of] \in Nat
    BY <1>1, BoundsAssumption DEF BoundsAssumption, RowsInv, TypeOK
  <1>3. \/ status[monitor[m].of] \in Retryable
        \/ tries[monitor[m].of] > 1
    BY <1>1 DEF RowsInv, LoadedInv
  <1>4. tries'[monitor[m].of] >= tries[monitor[m].of] /\ tries'[monitor[m].of] \in Nat
    BY <1>1
  <1>5. tries[monitor[m].of] > 1 => tries'[monitor[m].of] > 1
    BY <1>2, <1>4
  <1> QED
    BY <1>1, <1>3, <1>5

(* A transaction that only expires commands.                               *)
LEMMA RowsExpire ==
    ASSUME RowsInv, NoneLoads, status' = ExpiredStatus, UNCHANGED <<tries, overtaken>>,
           \A o \in Ops, n \in Attempts :
               attempt'[o][n].status = ExpiredAttempt[o][n].status
    PROVE  RowsStep
  <1>1. \A o \in Ops : AgreeOn(o, ExpiredStatus, tries, ExpiredAttempt)
    BY ExpiredAgree
  <1>2. \A o \in Ops : tries[o] \in Nat /\ (tries[o] > 0 => tries[o] \in Attempts)
    BY BoundsAssumption DEF BoundsAssumption, Attempts, RowsInv, TypeOK
  <1>3. AttemptsAgree'
    BY <1>1, <1>2 DEF AgreeOn, AttemptsAgree
  <1>4. \A o \in Ops : status'[o] = status[o] \/ status'[o] = "TIMED_OUT"
    BY DEF ExpiredStatus
  <1>5. LoadedInv'
    BY <1>2, <1>4, LoadedKept DEF Retryable
  <1>6. KeepsFinal
    <2> SUFFICES ASSUME NEW o \in Ops, status[o] = "COMPLETED", o \notin overtaken
                 PROVE  status'[o] = "COMPLETED"
      BY DEF KeepsFinal
    <2>1. o \notin Overdue
      BY LiveIsLatest DEF Overdue, Due, RowsInv, Active
    <2> QED
      BY <2>1 DEF ExpiredStatus
  <1>7. OvertakenInv'
    BY DEF RowsInv, OvertakenInv
  <1> QED
    BY <1>3, <1>5, <1>6, <1>7 DEF RowsStep

(* An ack or a result that matches a live attempt.                         *)
LEMMA RowsRecord ==
    ASSUME RowsInv, NoneLoads, NEW r \in Request, NEW a \in Attempt,
           Live(r.op, r.number), a.status # "NONE",
           status' = [status EXCEPT ![r.op] = a.status],
           attempt' = Recorded(r, a), UNCHANGED <<tries, overtaken>>
    PROVE  RowsStep
  <1>1. /\ r.op \in Ops /\ r.number \in Attempts
        /\ status \in [Ops -> CommandStatus \cup {"NONE"}]
    BY DEF Request, RowsInv, TypeOK
  <1>2. /\ tries[r.op] > 0 /\ status[r.op] # "NONE"
        /\ status[r.op] \in Active \/ tries[r.op] > 1
        /\ r.op \notin overtaken => r.number = tries[r.op] /\ status[r.op] \in Active
    BY <1>1, LiveExists, LiveIsLatest DEF RowsInv
  <1>3. ASSUME NEW o \in Ops, o # r.op
        PROVE  /\ status'[o] = status[o]
               /\ \A n \in Attempts : attempt'[o][n].status = attempt[o][n].status
    BY <1>1, <1>3, RecordedStatuses DEF RowsInv
  <1>4. /\ status'[r.op] = a.status
        /\ attempt'[r.op][r.number].status = a.status
        /\ \A n \in Attempts : n # r.number =>
               attempt'[r.op][n].status = attempt[r.op][n].status
    BY <1>1, RecordedStatuses DEF RowsInv
  <1>5. \A o \in Ops : tries[o] \in Nat /\ (tries[o] > 0 => tries[o] \in Attempts)
    BY BoundsAssumption DEF BoundsAssumption, Attempts, RowsInv, TypeOK
  <1>6. Attempts \subseteq Nat
    BY BoundsAssumption DEF BoundsAssumption, Attempts
  <1>7. AttemptsAgree'
    <2> SUFFICES ASSUME NEW o \in Ops
                 PROVE  /\ tries[o] = 0 <=> status'[o] = "NONE"
                        /\ \A n \in Attempts : n > tries[o] <=> attempt'[o][n].status = "NONE"
                        /\ o \notin overtaken =>
                               /\ tries[o] > 0 => attempt'[o][tries[o]].status = status'[o]
                               /\ \A n \in Attempts :
                                      n < tries[o] => attempt'[o][n].status \in Retryable
      BY DEF AttemptsAgree
    <2>1. CASE o = r.op
      <3>1. tries[o] = 0 <=> status'[o] = "NONE"
        BY <1>2, <1>4, <1>5, <2>1
      <3>2. attempt[o][r.number].status # "NONE"
        BY <2>1 DEF Live, Active
      <3>3. \A n \in Attempts : n > tries[o] <=> attempt'[o][n].status = "NONE"
        BY <1>4, <2>1, <3>2 DEF RowsInv, AttemptsAgree
      <3>4. \A n \in Attempts : n < tries[o] => n # tries[o]
        BY <1>5, <1>6
      <3>5. o \notin overtaken => \A n \in Attempts :
                n < tries[o] => attempt[o][n].status \in Retryable
        BY DEF RowsInv, AttemptsAgree
      <3>6. ASSUME o \notin overtaken
            PROVE  /\ tries[o] > 0 => attempt'[o][tries[o]].status = status'[o]
                   /\ \A n \in Attempts :
                          n < tries[o] => attempt'[o][n].status \in Retryable
        BY <1>2, <1>4, <2>1, <3>4, <3>5, <3>6
      <3> QED
        BY <3>1, <3>3, <3>6
    <2>2. CASE o # r.op
      <3>1. AgreeOn(o, status, tries, attempt)
        BY DEF RowsInv, AttemptsAgree, AgreeOn
      <3> QED
        BY <1>3, <1>5, <2>2, <3>1 DEF AgreeOn
    <2> QED
      BY <2>1, <2>2
  <1>8. LoadedInv'
    <2>1. ASSUME NEW o \in Ops, status[o] \in Retryable
          PROVE  status'[o] \in Retryable \/ tries'[o] > 1
      <3>1. CASE o = r.op
        BY <1>2, <2>1, <3>1 DEF Active, Retryable
      <3>2. CASE o # r.op
        BY <1>3, <2>1, <3>2
      <3> QED
        BY <3>1, <3>2
    <2> QED
      BY <1>5, <2>1, LoadedKept
  <1>9. KeepsFinal
    BY <1>2, <1>3 DEF KeepsFinal, Active
  <1>10. OvertakenInv'
    BY DEF RowsInv, OvertakenInv
  <1> QED
    BY <1>7, <1>8, <1>9, <1>10 DEF RowsStep

(* A retry that goes through, or is refused.                               *)
LEMMA RowsInsert ==
    ASSUME RowsInv, NEW m \in Monitors, RetryCommit(m) \/ RetryAtOnce(m)
    PROVE  RowsStep
  <1> DEFINE o == monitor[m].of
  <1>0. TypeOK
    BY DEF RowsInv
  <1>1. PICK st \in [Ops -> CommandStatus \cup {"NONE"}],
             rowsOf \in [Ops -> [Attempts -> Attempt]] :
            /\ InsertAttempt(m, o, st, rowsOf)
            /\ \A p \in Ops : AgreeOn(p, st, tries, rowsOf)
            /\ \A p \in Ops : st[p] = status[p] \/ (p \in Overdue /\ st[p] = "TIMED_OUT")
            /\ \/ monitor[m].phase = "loaded" /\ st[o] = status[o]
               \/ o \in Overdue /\ st[o] = "TIMED_OUT"
    <2>1. /\ status \in [Ops -> CommandStatus \cup {"NONE"}]
          /\ attempt \in [Ops -> [Attempts -> Attempt]]
          /\ ExpiredStatus \in [Ops -> CommandStatus \cup {"NONE"}]
          /\ ExpiredAttempt \in [Ops -> [Attempts -> Attempt]]
      BY <1>0, ExpiredType DEF TypeOK
    <2>2. \A p \in Ops : AgreeOn(p, status, tries, attempt)
      BY DEF RowsInv, AttemptsAgree, AgreeOn
    <2>3. \A p \in Ops : AgreeOn(p, ExpiredStatus, tries, ExpiredAttempt)
      BY ExpiredAgree
    <2>4. \A p \in Ops : \/ ExpiredStatus[p] = status[p]
                         \/ p \in Overdue /\ ExpiredStatus[p] = "TIMED_OUT"
      BY DEF ExpiredStatus
    <2>5. CASE monitor[m].phase = "loaded" /\ InsertAttempt(m, o, status, attempt)
      BY <2>1, <2>2, <2>5
    <2>6. CASE ~(monitor[m].phase = "loaded" /\ InsertAttempt(m, o, status, attempt))
      <3>1. /\ o \in Ops
            /\ InsertAttempt(m, o, ExpiredStatus, ExpiredAttempt)
            /\ \/ monitor[m].phase = "loaded" /\ ExpiredStatus[o] = status[o]
               \/ ExpiredStatus[o] = "TIMED_OUT"
        BY <1>0, <2>6, RetryCases
      <3>2. \/ monitor[m].phase = "loaded" /\ ExpiredStatus[o] = status[o]
            \/ o \in Overdue /\ ExpiredStatus[o] = "TIMED_OUT"
        BY <2>6, <3>1 DEF RetryCommit, RetryAtOnce, ExpiredStatus
      <3> QED
        BY <2>1, <2>3, <2>4, <3>1, <3>2
    <2> QED
      BY <2>5, <2>6
  <1>2. o \in Ops
    BY <1>0, RetryCases
  <1>3. /\ tries[o] \in Nat /\ tries[o] > 0
        /\ st[o] \in Retryable \/ tries[o] > 1
    <2>1. tries[o] \in Nat
      BY <1>0, <1>2, BoundsAssumption DEF BoundsAssumption, TypeOK
    <2>2. CASE monitor[m].phase = "loaded" /\ st[o] = status[o]
      <3>1. status[o] \in Retryable \/ tries[o] > 1
        BY <2>2 DEF RowsInv, LoadedInv
      <3>2. status[o] \in Retryable => tries[o] # 0
        BY <1>2 DEF RowsInv, AttemptsAgree, Retryable
      <3> QED
        BY <2>1, <2>2, <3>1, <3>2
    <2>3. CASE o \in Overdue /\ st[o] = "TIMED_OUT"
      <3>1. tries[o] > 0
        BY <1>2, <2>3, LiveExists DEF Overdue, Due
      <3> QED
        BY <2>1, <2>3, <3>1 DEF Retryable
    <2> QED
      BY <1>1, <2>2, <2>3
  <1>4. AttemptsAgree'
    BY <1>1, <1>2, <1>3, InsertAgree
  <1>5. monitor' = [monitor EXCEPT ![m] = Idle]
    BY <1>1 DEF InsertAttempt
  <1>6. NoneLoads
    BY <1>0, <1>5 DEF NoneLoads, TypeOK, Idle
  <1> HIDE DEF o
  <1>7. CASE UNCHANGED <<rows, todo, overtaken>>
    BY <1>6, <1>7, RowsUnchanged DEF rows
  <1>8. CASE ~UNCHANGED <<rows, todo, overtaken>>
    <2>1. /\ status' = [st EXCEPT ![o] = "PENDING"]
          /\ tries' = [tries EXCEPT ![o] = tries[o] + 1]
          /\ overtaken' = overtaken \cup ({o} \ {p \in Ops : st[p] \in Retryable})
      BY <1>1, <1>8 DEF InsertAttempt
    <2>2. ASSUME NEW p \in Ops, p # o
          PROVE  /\ status'[p] = st[p] /\ tries'[p] = tries[p] /\ tries[p] \in Nat
                 /\ p \in overtaken' <=> p \in overtaken
      BY <1>0, <2>1, <2>2, BoundsAssumption DEF BoundsAssumption, TypeOK
    <2>3. tries'[o] = tries[o] + 1 /\ tries'[o] \in Nat /\ tries'[o] > 1
      BY <1>0, <1>2, <1>3, <2>1 DEF TypeOK
    <2>4. LoadedInv'
      <3>1. ASSUME NEW p \in Ops
            PROVE  /\ tries'[p] >= tries[p] /\ tries'[p] \in Nat
                   /\ status[p] \in Retryable =>
                          status'[p] \in Retryable \/ tries'[p] > 1
        <4>1. CASE p = o
          BY <1>3, <2>3, <4>1
        <4>2. CASE p # o
          BY <1>1, <2>2, <4>2 DEF Retryable
        <4> QED
          BY <4>1, <4>2
      <3> QED
        BY <1>6, <3>1, LoadedKept
    <2>5. OvertakenInv'
      <3> SUFFICES ASSUME NEW p \in overtaken' PROVE tries'[p] > 2
        BY DEF OvertakenInv
      <3>1. CASE p = o
        <4>1. CASE o \in overtaken
          <5>1. tries[o] > 2
            BY <4>1 DEF RowsInv, OvertakenInv
          <5> QED
            BY <1>3, <2>3, <3>1, <5>1
        <4>2. CASE o \notin overtaken
          <5>1. st[o] \notin Retryable
            BY <1>2, <2>1, <3>1, <4>2
          <5> QED
            BY <1>3, <2>3, <3>1, <5>1
        <4> QED
          BY <4>1, <4>2
      <3>2. CASE p # o
        <4>1. p \in overtaken /\ p \in Ops
          BY <1>0, <2>1, <3>2 DEF TypeOK
        <4> QED
          BY <2>2, <3>2, <4>1 DEF RowsInv, OvertakenInv
      <3> QED
        BY <3>1, <3>2
    <2>6. KeepsFinal
      <3> SUFFICES ASSUME NEW p \in Ops, status[p] = "COMPLETED", p \notin overtaken'
                   PROVE  status'[p] = "COMPLETED"
        BY DEF KeepsFinal
      <3>0. p \notin overtaken
        BY <2>1
      <3>1. p \notin Overdue
        BY <3>0, LiveIsLatest DEF Overdue, Due, RowsInv, Active
      <3>2. st[p] = "COMPLETED"
        BY <1>1, <3>1
      <3>3. p # o
        BY <2>1, <3>2 DEF Retryable
      <3> QED
        BY <2>2, <3>2, <3>3
    <2> QED
      BY <1>4, <2>4, <2>5, <2>6 DEF RowsStep
  <1> QED
    BY <1>7, <1>8

LEMMA RowsInit == Init => RowsInv
  <1> SUFFICES ASSUME Init PROVE RowsInv
    OBVIOUS
  <1>1. TypeOK
    BY TypeInit
  <1>2. Attempts \subseteq Nat \ {0}
    BY BoundsAssumption DEF BoundsAssumption, Attempts
  <1>3. AttemptsAgree
    BY <1>2 DEF Init, AttemptsAgree, NoAttempt
  <1>4. LoadedInv /\ OvertakenInv
    BY DEF Init, LoadedInv, OvertakenInv, Idle
  <1> QED
    BY <1>1, <1>3, <1>4 DEF RowsInv

(* Every step.                                                             *)
LEMMA RowsNext ==
    ASSUME RowsInv, [Next]_vars
    PROVE  RowsInv' /\ KeepsFinal
  <1>0. TypeOK
    BY DEF RowsInv
  <1>1. ASSUME NEW s \in Scenarios, Approve(s) PROVE RowsStep
    BY <1>1, RowsUnchanged DEF Approve, rows, NoneLoads
  <1>2. ASSUME NEW m \in Monitors, NEW s \in Scenarios, ApplyRead(m, s) PROVE RowsStep
    <2>1. NoneLoads
      BY <1>0, <1>2 DEF ApplyRead, NoneLoads, TypeOK
    <2> QED
      BY <1>2, <2>1, RowsUnchanged DEF ApplyRead, rows
  <1>3. ASSUME NEW m \in Monitors, ApplyCreate(m) PROVE RowsStep
    <2>1. NoneLoads
      BY <1>0, <1>3 DEF ApplyCreate, NoneLoads, TypeOK, Idle
    <2>2. CASE UNCHANGED rows
      BY <1>3, <2>1, <2>2, RowsUnchanged DEF rows, ApplyCreate
    <2>3. CASE ~UNCHANGED rows
      <3>1. PICK o \in Ops :
                /\ status[o] = "NONE"
                /\ status' = [status EXCEPT ![o] = "PENDING"]
                /\ tries' = [tries EXCEPT ![o] = 1]
                /\ attempt' = [attempt EXCEPT ![o][1] = NewAttempt]
                /\ overtaken' = overtaken
        BY <1>3, <2>3 DEF ApplyCreate
      <3>2. /\ tries[o] = 0
            /\ \A n \in Attempts : n > 0 => attempt[o][n].status = "NONE"
        BY <3>1 DEF RowsInv, AttemptsAgree
      <3>3. 1 \in Attempts /\ Attempts \subseteq Nat \ {0}
        BY BoundsAssumption DEF BoundsAssumption, Attempts
      <3>4. /\ tries'[o] = 1 /\ status'[o] = "PENDING"
            /\ attempt'[o][1].status = "PENDING"
            /\ \A n \in Attempts \ {1} : attempt'[o][n].status = "NONE"
        BY <1>0, <3>1, <3>2, <3>3, NewAttemptType DEF TypeOK
      <3>5. \A p \in Ops \ {o} : /\ tries'[p] = tries[p] /\ status'[p] = status[p]
                                 /\ attempt'[p] = attempt[p]
        BY <1>0, <3>1 DEF TypeOK
      <3>6. AttemptsAgree'
        <4> SUFFICES ASSUME NEW p \in Ops
                     PROVE  /\ tries'[p] = 0 <=> status'[p] = "NONE"
                            /\ \A n \in Attempts :
                                   n > tries'[p] <=> attempt'[p][n].status = "NONE"
                            /\ p \notin overtaken =>
                                   /\ tries'[p] > 0 =>
                                          attempt'[p][tries'[p]].status = status'[p]
                                   /\ \A n \in Attempts :
                                          n < tries'[p] => attempt'[p][n].status \in Retryable
          BY <3>1 DEF AttemptsAgree
        <4>1. CASE p = o
          <5>1. \A n \in Attempts : n \in Nat /\ (n > 1 <=> n # 1) /\ ~(n < 1)
            BY <3>3
          <5>2. \A n \in Attempts : n > 1 <=> attempt'[o][n].status = "NONE"
            BY <3>4, <5>1
          <5> QED
            BY <3>4, <4>1, <5>1, <5>2
        <4>2. CASE p # o
          BY <3>5, <4>2 DEF RowsInv, AttemptsAgree
        <4> QED
          BY <4>1, <4>2
      <3>7. LoadedInv'
        <4>1. ASSUME NEW p \in Ops
              PROVE  /\ tries'[p] >= tries[p] /\ tries'[p] \in Nat
                     /\ status[p] \in Retryable =>
                            status'[p] \in Retryable \/ tries'[p] > 1
          <5>1. tries[p] \in Nat
            BY <1>0, BoundsAssumption DEF BoundsAssumption, TypeOK
          <5>2. CASE p = o
            <6>1. status[p] \notin Retryable
              BY <3>1, <5>2 DEF Retryable
            <6>2. tries[p] = 0 /\ tries'[p] = 1
              BY <3>2, <3>4, <5>2
            <6> QED
              BY <6>1, <6>2
          <5>3. CASE p # o
            BY <3>5, <5>1, <5>3
          <5> QED
            BY <5>2, <5>3
        <4> QED
          BY <2>1, <4>1, LoadedKept
      <3>8. KeepsFinal
        BY <3>1, <3>5 DEF KeepsFinal
      <3>9. OvertakenInv'
        <4>1. o \notin overtaken
          BY <3>2 DEF RowsInv, OvertakenInv
        <4> QED
          BY <1>0, <3>1, <3>5, <4>1 DEF RowsInv, OvertakenInv, TypeOK
      <3> QED
        BY <3>6, <3>7, <3>8, <3>9 DEF RowsStep
    <2> QED
      BY <2>2, <2>3
  <1>4. ASSUME NEW m \in Monitors, NEW o \in Ops, RetryExpire(m, o) PROVE RowsStep
    <2>1. NoneLoads
      BY <1>0, <1>4 DEF RetryExpire, NoneLoads, TypeOK
    <2> QED
      BY <1>4, <2>1, RowsExpire DEF RetryExpire, ExpireAndNotify
  <1>5. ASSUME NEW m \in Monitors, RetryLoad(m) PROVE RowsStep
    <2>1. AttemptsAgree' /\ KeepsFinal /\ OvertakenInv'
      BY <1>5 DEF RetryLoad, rows, KeepsFinal, RowsInv, AttemptsAgree, OvertakenInv
    <2>2. CASE MayRetry(monitor[m].of)
      <3>1. monitor[m].of \notin Overdue /\ monitor[m].of \in Ops
        BY <1>0, <1>5, <2>2, RequestNames DEF RetryLoad, TypeOK
      <3>2. status[monitor[m].of] \in Retryable
        BY <2>2, <3>1 DEF MayRetry, ExpiredStatus
      <3>3. monitor'[m].of = monitor[m].of
        BY <1>0, <1>5, <2>2 DEF RetryLoad, TypeOK
      <3>4. \A k \in Monitors : k # m => monitor'[k] = monitor[k]
        BY <1>0, <1>5 DEF RetryLoad, TypeOK
      <3>5. status' = status /\ tries' = tries
        BY <1>5 DEF RetryLoad, rows
      <3>6. LoadedInv'
        BY <3>2, <3>3, <3>4, <3>5 DEF RowsInv, LoadedInv
      <3> QED
        BY <2>1, <3>6 DEF RowsStep
    <2>3. CASE ~MayRetry(monitor[m].of)
      <3>1. monitor' = [monitor EXCEPT ![m] = Idle]
        BY <1>5, <2>3 DEF RetryLoad
      <3>2. NoneLoads
        BY <1>0, <3>1 DEF NoneLoads, TypeOK, Idle
      <3> QED
        BY <1>5, <3>2, RowsUnchanged DEF RetryLoad, rows
    <2> QED
      BY <2>2, <2>3
  <1>6. ASSUME NEW m \in Monitors, RetryCommit(m) \/ RetryAtOnce(m) PROVE RowsStep
    BY <1>6, RowsInsert
  <1>8. ASSUME Sweep PROVE RowsStep
    BY <1>8, RowsExpire DEF Sweep, ExpireAndNotify, NoneLoads
  <1>9. ASSUME NEW t \in todo,
               NotifyTimeout(t) \/ NotifyRetry(t) \/ FinishApply(t)
        PROVE RowsStep
    BY <1>9, RowsUnchanged DEF NotifyTimeout, NotifyRetry, FinishApply, rows, NoneLoads
  <1>10. ASSUME BackendRestart PROVE RowsStep
    BY <1>10, RowsUnchanged DEF BackendRestart, rows, NoneLoads, Idle
  <1>11. ASSUME NEW b \in Bridges, Poll(b) PROVE RowsStep
    BY <1>11, RowsExpire DEF Poll, ExpireAndNotify, NoneLoads
  <1>12. ASSUME NEW b \in Bridges, Lease(b) PROVE RowsStep
    <2>1. \A o \in Ops, n \in Attempts :
              attempt'[o][n].status = ExpiredAttempt[o][n].status
      <3>1. /\ ExpiredAttempt \in [Ops -> [Attempts -> Attempt]]
            /\ \A o \in Ops, n \in Attempts : ExpiredAttempt[o][n] \in Attempt
        BY <1>0, ExpiredType DEF TypeOK
      <3>2. CASE attempt' = ExpiredAttempt
        BY <3>2
      <3>3. ASSUME NEW o \in Ops, NEW n \in Attempts,
                   attempt' = [ExpiredAttempt EXCEPT
                       ![o][n] = Leased(ExpiredAttempt[o][n], b)]
            PROVE  \A p \in Ops, k \in Attempts :
                       attempt'[p][k].status = ExpiredAttempt[p][k].status
        <4>1. Leased(ExpiredAttempt[o][n], b).status = ExpiredAttempt[o][n].status
          BY <3>1, UpdateTypes
        <4> QED
          BY <3>1, <3>3, <4>1
      <3> QED
        BY <1>12, <3>2, <3>3 DEF Lease
    <2> QED
      BY <1>12, <2>1, RowsExpire DEF Lease, NoneLoads
  <1>13. ASSUME NEW b \in Bridges,
                \/ GiveUp(b) \/ CallFleet(b) \/ FleetUnavailable(b) \/ FleetApply(b)
                \/ ReportResult(b) \/ ReportException(b)
         PROVE RowsStep
    BY <1>13, RowsUnchanged
       DEF GiveUp, CallFleet, FleetUnavailable, FleetApply, ReportResult,
           ReportException, PostResult, rows, NoneLoads
  <1>14. ASSUME NEW r \in requests, HandleAck(r) PROVE RowsStep
    <2> DEFINE a == Acknowledged(attempt[r.op][r.number])
    <2>1. r \in Request /\ attempt[r.op][r.number] \in Attempt
      BY <1>0 DEF TypeOK, Request
    <2>2. a \in Attempt /\ a.status = "ACKNOWLEDGED"
      BY <2>1, UpdateTypes
    <2>3. NoneLoads /\ UNCHANGED <<tries, overtaken>>
      BY <1>14 DEF HandleAck, NoneLoads
    <2>4. CASE UNCHANGED <<status, attempt>>
      BY <2>3, <2>4, RowsUnchanged
    <2>5. CASE ~UNCHANGED <<status, attempt>>
      <3>1. /\ Matches(r, "PENDING")
            /\ status' = [status EXCEPT ![r.op] = "ACKNOWLEDGED"]
            /\ attempt' = Recorded(r, a)
        BY <1>14, <2>5 DEF HandleAck
      <3>2. Live(r.op, r.number)
        BY <3>1 DEF Matches, Live, Active
      <3> HIDE DEF a
      <3> QED
        BY <2>1, <2>2, <2>3, <3>1, <3>2, RowsRecord
    <2> QED
      BY <2>4, <2>5
  <1>15. ASSUME NEW r \in requests, HandleResult(r) PROVE RowsStep
    <2> DEFINE a == Ended(attempt[r.op][r.number], r.status)
    <2>1. r \in Request /\ attempt[r.op][r.number] \in Attempt
      BY <1>0 DEF TypeOK, Request
    <2>2. r.status \in CommandStatus /\ r.status # "NONE"
      BY <1>15 DEF HandleResult, Outcomes, CommandStatus, Retryable
    <2>3. a \in Attempt /\ a.status = r.status
      BY <2>1, <2>2, UpdateTypes
    <2>4. NoneLoads /\ UNCHANGED <<tries, overtaken>>
      BY <1>15 DEF HandleResult, NoneLoads
    <2>5. CASE UNCHANGED <<status, attempt>>
      BY <2>4, <2>5, RowsUnchanged
    <2>6. CASE ~UNCHANGED <<status, attempt>>
      <3>1. /\ Matches(r, "ACKNOWLEDGED")
            /\ status' = [status EXCEPT ![r.op] = r.status]
            /\ attempt' = Recorded(r, a)
        BY <1>15, <2>6 DEF HandleResult
      <3>2. Live(r.op, r.number)
        BY <3>1 DEF Matches, Live, Active
      <3> HIDE DEF a
      <3> QED
        BY <2>1, <2>2, <2>3, <2>4, <3>1, <3>2, RowsRecord
    <2> QED
      BY <2>5, <2>6
  <1>16. ASSUME NEW r \in requests, Lose(r) PROVE RowsStep
    BY <1>16, RowsUnchanged DEF Lose, rows, NoneLoads
  <1>17. ASSUME Tick PROVE RowsStep
    <2>1. \A o \in Ops, n \in Attempts : attempt'[o][n].status = attempt[o][n].status
      <3>1. \A o \in Ops, n \in Attempts : attempt[o][n] \in Attempt
        BY <1>0 DEF TypeOK
      <3>2. \A o \in Ops, n \in Attempts :
                Aged(attempt[o][n]).status = attempt[o][n].status
        BY <3>1, UpdateTypes
      <3> QED
        BY <1>17, <3>2 DEF Tick
    <2>2. \A o \in Ops : tries[o] > 0 => tries[o] \in Attempts
      BY <1>0, BoundsAssumption DEF BoundsAssumption, Attempts, TypeOK
    <2>3. AttemptsAgree'
      <3>1. status' = status /\ tries' = tries /\ overtaken' = overtaken
        BY <1>17 DEF Tick
      <3>2. \A o \in Ops : AgreeOn(o, status, tries, attempt)
        BY DEF RowsInv, AttemptsAgree, AgreeOn
      <3> QED
        BY <2>1, <2>2, <3>1, <3>2 DEF AttemptsAgree, AgreeOn
    <2> QED
      BY <1>17, <2>3 DEF Tick, RowsStep, RowsInv, LoadedInv, OvertakenInv, KeepsFinal
  <1>18. ASSUME UNCHANGED vars PROVE RowsStep
    BY <1>18, RowsUnchanged DEF vars, rows, NoneLoads
  <1>19. RowsStep
    BY <1>1, <1>2, <1>3, <1>4, <1>5, <1>6, <1>8, <1>9, <1>10, <1>11,
       <1>12, <1>13, <1>14, <1>15, <1>16, <1>17, <1>18 DEF Next
  <1> QED
    BY <1>0, <1>19, TypeStep DEF RowsInv, RowsStep

(* However many commands, requests, bridges and POSTs interleave, create,  *)
(* lease, acknowledge, result, retry and _expire, which update the two     *)
(* tables by separate statements, keep them in agreement: only a command   *)
(* with a retry that overtook another can have a status that is not its    *)
(* latest attempt's, or an earlier attempt that has not ended.             *)
THEOREM AttemptsCorrect == Spec => []AttemptsAgree
  <1>1. RowsInv /\ [Next]_vars => RowsInv'
    BY RowsNext
  <1>2. RowsInv => AttemptsAgree
    BY DEF RowsInv
  <1> QED
    BY RowsInit, <1>1, <1>2, PTL DEF Spec

LEMMA RaceBudget == RowsInv => RaceNeedsBudget /\ (MaxRetries <= 1 => overtaken = {})
  <1> SUFFICES ASSUME RowsInv
               PROVE  RaceNeedsBudget /\ (MaxRetries <= 1 => overtaken = {})
    OBVIOUS
  <1>1. RaceNeedsBudget
    BY DEF RowsInv, OvertakenInv, RaceNeedsBudget
  <1>2. ASSUME MaxRetries <= 1, NEW o \in overtaken PROVE FALSE
    <2>1. tries[o] > 2 /\ tries[o] \in 0..(MaxRetries + 1)
      BY <1>2 DEF RowsInv, OvertakenInv, TypeOK
    <2> QED
      BY <1>2, <2>1, BoundsAssumption DEF BoundsAssumption
  <1> QED
    BY <1>1, <1>2

(* The two SELECTs of a retry let one retry overtake another only with the *)
(* third attempt of a command: with the single retry that every command of *)
(* the console has, what a retry has read and lost to another one leaves   *)
(* no attempt in the budget.                                               *)
THEOREM RaceNeedsBudgetHolds ==
    Spec => [](RaceNeedsBudget /\ (MaxRetries <= 1 => overtaken = {}))
  <1>1. RowsInv /\ [Next]_vars => RowsInv'
    BY RowsNext
  <1> QED
    BY RowsInit, <1>1, RaceBudget, PTL DEF Spec

(* A COMPLETED command is never timed out or overwritten by a late POST,   *)
(* and never retried but by a retry that overtakes another one, with a     *)
(* budget of two or more.                                                  *)
THEOREM CompletedStays == Spec => CompletedIsFinal
  <1>1. RowsInv /\ [Next]_vars => RowsInv'
    BY RowsNext
  <1>2. RowsInv /\ [Next]_vars =>
            [\A o \in Ops : status[o] = "COMPLETED" =>
                 \/ status'[o] = "COMPLETED"
                 \/ MaxRetries > 1 /\ o \in overtaken']_<<status, overtaken>>
    <2> SUFFICES ASSUME RowsInv, [Next]_vars, NEW o \in Ops, status[o] = "COMPLETED",
                        status'[o] # "COMPLETED"
                 PROVE  MaxRetries > 1 /\ o \in overtaken'
      OBVIOUS
    <2>1. o \in overtaken' /\ RowsInv'
      BY RowsNext DEF KeepsFinal
    <2>2. tries'[o] > 2 /\ tries'[o] \in 0..(MaxRetries + 1)
      BY <2>1 DEF RowsInv, OvertakenInv, TypeOK
    <2> QED
      BY <2>1, <2>2, BoundsAssumption DEF BoundsAssumption
  <1> QED
    BY RowsInit, <1>1, <1>2, PTL DEF Spec, CompletedIsFinal

-----------------------------------------------------------------------------
(* Which steps write what.                                                 *)

LEMMA RetryWrites ==
    ASSUME NEW m \in Monitors, RetryCommit(m) \/ RetryAtOnce(m)
    PROVE  /\ UNCHANGED <<scenario, target, alert, bridge, requests, fleet>>
           /\ monitor' = [monitor EXCEPT ![m] = Idle]
           /\ overtaken \subseteq overtaken'
           /\ \/ todo' = todo
              \/ \E o : todo' = todo \cup {[kind |-> "RETRIED", op |-> o, by |-> {}]}
  <1>1. ASSUME NEW o, NEW st, NEW rowsOf, InsertAttempt(m, o, st, rowsOf)
        PROVE  /\ UNCHANGED <<scenario, target, alert, bridge, requests, fleet>>
               /\ monitor' = [monitor EXCEPT ![m] = Idle]
               /\ overtaken \subseteq overtaken'
               /\ \/ todo' = todo
                  \/ \E p : todo' = todo \cup {[kind |-> "RETRIED", op |-> p, by |-> {}]}
    BY <1>1 DEF InsertAttempt, rows
  <1> QED
    BY <1>1 DEF RetryCommit, RetryAtOnce

LEMMA WhoWritesFleet ==
    ASSUME [Next]_vars
    PROVE  UNCHANGED fleet \/ \E b \in Bridges : FleetApply(b)
  BY RetryWrites DEF Next, vars, rows, Approve, ApplyRead, ApplyCreate, RetryExpire, RetryLoad,
         Sweep, NotifyTimeout, NotifyRetry,
         FinishApply, BackendRestart, Poll, Lease, GiveUp, CallFleet,
         FleetUnavailable, PostResult, ReportResult, ReportException,
         HandleAck, HandleResult, Lose, Tick

LEMMA WhoWritesScenario ==
    ASSUME [Next]_vars
    PROVE  \/ UNCHANGED scenario
           \/ \E s \in Scenarios : Approve(s)
           \/ \E t \in todo : FinishApply(t)
  BY RetryWrites DEF Next, vars, rows, ApplyRead, ApplyCreate, RetryExpire, RetryLoad,
         Sweep, NotifyTimeout, NotifyRetry,
         BackendRestart, Poll, Lease, GiveUp, CallFleet, FleetApply,
         FleetUnavailable, PostResult, ReportResult, ReportException,
         HandleAck, HandleResult, Lose, Tick

(* A new completion to be seen to comes from an accepted result.           *)
LEMMA WhoWritesTodo ==
    ASSUME [Next]_vars, NEW t \in todo', t.kind = "COMPLETED"
    PROVE  \/ t \in todo
           \/ \E r \in requests : /\ HandleResult(r) /\ Accepted(r)
                                  /\ r.status = "COMPLETED" /\ t.op = r.op
  <1>1. CASE \E r \in requests : HandleResult(r)
    <2>1. PICK r \in requests : HandleResult(r)
      BY <1>1
    <2>2. CASE r.status = "COMPLETED" /\ Accepted(r)
      <3>1. todo' = todo \cup {[kind |-> "COMPLETED", op |-> r.op, by |-> {}]}
        BY <2>1, <2>2 DEF HandleResult
      <3> QED
        BY <2>1, <2>2, <3>1
    <2>3. CASE ~(r.status = "COMPLETED" /\ Accepted(r))
      <3>1. todo' = todo
        BY <2>1, <2>3 DEF HandleResult
      <3> QED
        BY <3>1
    <2> QED
      BY <2>2, <2>3
  <1>2. CASE ~\E r \in requests : HandleResult(r)
    <2>1. \/ todo' \subseteq todo
          \/ \E by : ExpireAndNotify(by)
          \/ \E o : todo' = todo \cup {[kind |-> "RETRIED", op |-> o, by |-> {}]}
      BY <1>2, RetryWrites DEF Next, vars, rows, Approve, ApplyRead, ApplyCreate, RetryExpire,
             RetryLoad, Sweep, NotifyTimeout, NotifyRetry, FinishApply, BackendRestart,
             Poll, Lease, GiveUp, CallFleet, FleetApply, FleetUnavailable,
             PostResult, ReportResult, ReportException, HandleAck, Lose, Tick
    <2>2. ASSUME NEW by, ExpireAndNotify(by) PROVE t \in todo
      BY <2>2 DEF ExpireAndNotify
    <2>3. ASSUME NEW o, todo' = todo \cup {[kind |-> "RETRIED", op |-> o, by |-> {}]}
          PROVE  t \in todo
      BY <2>3
    <2> QED
      BY <2>1, <2>2, <2>3
  <1> QED
    BY <1>1, <1>2

(* A COMPLETED result comes from a bridge that reports the fleet's.        *)
LEMMA WhoPosts ==
    ASSUME [Next]_vars, NEW r \in requests', r.status = "COMPLETED"
    PROVE  \/ r \in requests
           \/ fleet[r.op][r.number] = "COMPLETED"
  <1>1. CASE \E b \in Bridges : ReportResult(b)
    BY <1>1 DEF ReportResult, PostResult
  <1>2. CASE ~\E b \in Bridges : ReportResult(b)
    <2>1. \/ requests' \subseteq requests
          \/ \E b \in Bridges : Lease(b) \/ PostResult(b, "FAILED")
      BY <1>2, RetryWrites DEF Next, vars, rows, Approve, ApplyRead, ApplyCreate, RetryExpire,
             RetryLoad, Sweep, NotifyTimeout, NotifyRetry, FinishApply, BackendRestart,
             Poll, GiveUp, CallFleet, FleetApply, FleetUnavailable,
             ReportException, HandleAck, HandleResult, Consume, Lose, Tick
    <2>2. ASSUME NEW b \in Bridges, Lease(b) PROVE r \in requests
      BY <2>2 DEF Lease
    <2>3. ASSUME NEW b \in Bridges, PostResult(b, "FAILED") PROVE r \in requests
      BY <2>3 DEF PostResult
    <2> QED
      BY <2>1, <2>2, <2>3
  <1> QED
    BY <1>1, <1>2

(* Only the creation of a command gives it a scenario.                     *)
LEMMA WhoWritesTarget ==
    ASSUME TypeOK, [Next]_vars, NEW o \in Ops
    PROVE  \/ target'[o] = target[o]
           \/ status[o] = "NONE" /\ \E s \in Scenarios : target'[o] = {s}
  <1>1. CASE \E m \in Monitors : ApplyCreate(m)
    <2>1. PICK m \in Monitors : ApplyCreate(m)
      BY <1>1
    <2>2. monitor[m].of \in Scenarios
      BY <2>1, RequestNames DEF ApplyCreate, TypeOK
    <2>3. CASE UNCHANGED rows
      BY <2>3 DEF rows
    <2>4. CASE ~UNCHANGED rows
      <3>1. PICK p \in Ops : /\ status[p] = "NONE"
                             /\ target' = [target EXCEPT ![p] = {monitor[m].of}]
        BY <2>1, <2>4 DEF ApplyCreate
      <3>2. target'[o] = IF o = p THEN {monitor[m].of} ELSE target[o]
        <4>1. target \in [Ops -> SUBSET Scenarios]
          BY DEF TypeOK
        <4> QED
          BY <3>1, <4>1
      <3> QED
        BY <2>2, <3>1, <3>2
    <2> QED
      BY <2>3, <2>4
  <1>2. CASE ~\E m \in Monitors : ApplyCreate(m)
    <2>1. UNCHANGED target
      BY <1>2, RetryWrites DEF Next, vars, rows, Approve, ApplyRead, RetryExpire,
             RetryLoad, ExpireAndNotify,
             Sweep, NotifyTimeout, NotifyRetry, FinishApply, BackendRestart,
             Poll, Lease, GiveUp, CallFleet, FleetApply, FleetUnavailable,
             PostResult, ReportResult, ReportException, HandleAck, HandleResult,
             Lose, Tick
    <2> QED
      BY <2>1
  <1> QED
    BY <1>1, <1>2

(* A command becomes active only where the unique index has nothing        *)
(* against it, and becomes COMPLETED only by a matching result.            *)
LEMMA WhoWritesStatus ==
    ASSUME TypeOK, [Next]_vars, NEW o \in Ops
    PROVE  /\ status'[o] \in Active /\ status[o] \notin Active =>
                  \A p \in Ops \ {o} : target'[p] = target'[o] => status'[p] \notin Active
           /\ status'[o] = "COMPLETED" /\ status[o] # "COMPLETED" =>
                  \E r \in requests : /\ HandleResult(r) /\ r.op = o
                                      /\ r.status = "COMPLETED"
  <1> DEFINE Allowed == \A p \in Ops \ {o} :
                            target'[p] = target'[o] => status'[p] \notin Active
             Goal == /\ status'[o] \in Active /\ status[o] \notin Active => Allowed
                     /\ status'[o] = "COMPLETED" /\ status[o] # "COMPLETED" =>
                            \E r \in requests : /\ HandleResult(r) /\ r.op = o
                                                /\ r.status = "COMPLETED"
  <1>1. CASE UNCHANGED status
    BY <1>1
  <1>2. CASE status' = ExpiredStatus
    BY <1>2 DEF ExpiredStatus, Active
  <1>3. ASSUME NEW m \in Monitors, ApplyCreate(m), ~UNCHANGED status PROVE Goal
    <2>1. PICK q \in Ops :
              /\ IndexAllows(q, {monitor[m].of}, status)
              /\ status' = [status EXCEPT ![q] = "PENDING"]
              /\ target' = [target EXCEPT ![q] = {monitor[m].of}]
      BY <1>3 DEF ApplyCreate, rows
    <2>2. CASE o = q
      BY <2>1, <2>2 DEF IndexAllows, TypeOK, Active
    <2>3. CASE o # q
      BY <2>1, <2>3 DEF TypeOK
    <2> QED
      BY <2>2, <2>3
  <1>4. ASSUME NEW m \in Monitors, NEW st \in [Ops -> CommandStatus \cup {"NONE"}],
               NEW rowsOf, InsertAttempt(m, monitor[m].of, st, rowsOf),
               monitor[m].of \in Ops, ~UNCHANGED status,
               \A p \in Ops : st[p] = status[p] \/ st[p] = "TIMED_OUT"
        PROVE Goal
    <2> DEFINE q == monitor[m].of
    <2>1. /\ IndexAllows(q, target[q], st)
          /\ status' = [st EXCEPT ![q] = "PENDING"]
          /\ target' = target
      BY <1>4 DEF InsertAttempt, rows
    <2>2. CASE o = q
      BY <2>1, <2>2, <1>4 DEF IndexAllows, Active
    <2>3. CASE o # q
      BY <2>1, <2>3, <1>4 DEF Active
    <2> QED
      BY <2>2, <2>3
  <1>5. ASSUME NEW r \in requests, HandleAck(r), ~UNCHANGED status PROVE Goal
    <2>1. /\ IndexAllows(r.op, target[r.op], status)
          /\ status' = [status EXCEPT ![r.op] = "ACKNOWLEDGED"]
          /\ target' = target
      BY <1>5 DEF HandleAck
    <2> QED
      BY <2>1 DEF IndexAllows, TypeOK, Active
  <1>6. ASSUME NEW r \in requests, HandleResult(r), ~UNCHANGED status PROVE Goal
    <2>1. /\ status' = [status EXCEPT ![r.op] = r.status]
          /\ r.status \in Outcomes
      BY <1>6 DEF HandleResult
    <2> QED
      BY <1>6, <2>1 DEF TypeOK, Outcomes, Active
  <1>7. ASSUME NEW m \in Monitors, RetryCommit(m) \/ RetryAtOnce(m), ~UNCHANGED status
        PROVE  Goal
    <2>1. /\ ExpiredStatus \in [Ops -> CommandStatus \cup {"NONE"}]
          /\ \A p \in Ops : ExpiredStatus[p] = status[p] \/ ExpiredStatus[p] = "TIMED_OUT"
          /\ status \in [Ops -> CommandStatus \cup {"NONE"}]
      BY ExpiredType DEF ExpiredStatus, TypeOK
    <2>2. /\ monitor[m].of \in Ops
          /\ \/ InsertAttempt(m, monitor[m].of, status, attempt)
             \/ InsertAttempt(m, monitor[m].of, ExpiredStatus, ExpiredAttempt)
      BY <1>7, RetryCases
    <2>3. CASE InsertAttempt(m, monitor[m].of, status, attempt)
      BY <1>4, <1>7, <2>1, <2>2, <2>3
    <2>4. CASE InsertAttempt(m, monitor[m].of, ExpiredStatus, ExpiredAttempt)
      BY <1>4, <1>7, <2>1, <2>2, <2>4
    <2> QED
      BY <2>2, <2>3, <2>4
  <1>9. \/ UNCHANGED status
        \/ status' = ExpiredStatus
        \/ \E m \in Monitors : ApplyCreate(m) \/ RetryCommit(m) \/ RetryAtOnce(m)
        \/ \E r \in requests : HandleAck(r) \/ HandleResult(r)
    BY DEF Next, vars, rows, Approve, ApplyRead, RetryExpire, RetryLoad,
           ExpireAndNotify, Sweep, NotifyTimeout, NotifyRetry, FinishApply,
           BackendRestart, Poll, Lease, GiveUp, CallFleet, FleetApply,
           FleetUnavailable, PostResult, ReportResult, ReportException, Lose, Tick
  <1> QED
    BY <1>1, <1>2, <1>3, <1>5, <1>6, <1>7, <1>9

(* One command in progress per scenario, however many requests apply it    *)
(* and retry its old commands at once: every path that makes a command     *)
(* active again goes through the partial unique index.                     *)
THEOREM OneActive == Spec => []OneActivePerScenario
  <1>1. Init => TypeOK /\ OneActivePerScenario
    BY TypeInit DEF Init, OneActivePerScenario, Active
  <1>2. TypeOK /\ OneActivePerScenario /\ [Next]_vars => (TypeOK /\ OneActivePerScenario)'
    <2> SUFFICES ASSUME TypeOK, OneActivePerScenario, [Next]_vars
                 PROVE  TypeOK' /\ OneActivePerScenario'
      OBVIOUS
    <2>1. ASSUME NEW o \in Ops, NEW p \in Ops, target'[o] = target'[p],
                 status'[o] \in Active, status'[p] \in Active, o # p
          PROVE  FALSE
      <3>1. status[o] \in Active /\ status[p] \in Active
        BY <2>1, WhoWritesStatus
      <3>2. target'[o] = target[o] /\ target'[p] = target[p]
        BY <3>1, WhoWritesTarget DEF Active
      <3> QED
        BY <2>1, <3>1, <3>2 DEF OneActivePerScenario
    <2> QED
      BY <2>1, TypeStep DEF OneActivePerScenario
  <1> QED
    BY <1>1, <1>2, PTL DEF Spec

-----------------------------------------------------------------------------
(* What becomes of one attempt.                                            *)

(* Once a command has a row it keeps it, and its attempts are numbered     *)
(* without gaps: those to come have no row.                                *)
Numbered ==
    \A o \in Ops :
        /\ status[o] = "NONE" => tries[o] = 0
        /\ \A n \in Attempts : n > tries[o] => attempt[o][n].status = "NONE"

(* a and b differ in nothing but their deadline.                           *)
SameRow(a, b) == b.status = a.status /\ b.leasedBy = a.leasedBy /\ b.acked = a.acked

(* The five fates of an attempt row in a step.                             *)
Stays(o, n) == SameRow(attempt[o][n], attempt'[o][n])
Ends(o, n) ==
    /\ attempt[o][n].status \in Active
    /\ \/ attempt'[o][n].status \in Retryable
       \/ /\ attempt'[o][n].status = "COMPLETED"
          /\ \E r \in requests :
                 /\ HandleResult(r) /\ r.status = "COMPLETED"
                 /\ r.op = o /\ r.number = n
    /\ attempt'[o][n].leasedBy = attempt[o][n].leasedBy
    /\ attempt'[o][n].acked = attempt[o][n].acked
Begins(o, n) ==
    /\ attempt[o][n].status = "NONE"
    /\ attempt'[o][n] = NewAttempt
    /\ tries'[o] = n
IsLeased(o, n) ==
    /\ attempt[o][n].leasedBy = {}
    /\ attempt'[o][n].status = "PENDING"
    /\ attempt[o][n].status = "PENDING"
    /\ attempt'[o][n].acked = attempt[o][n].acked
    /\ \E b \in Bridges : Lease(b) /\ attempt'[o][n].leasedBy = {b}
IsAcknowledged(o, n) ==
    /\ attempt[o][n].status = "PENDING"
    /\ attempt[o][n].leasedBy # {}
    /\ attempt'[o][n].status = "ACKNOWLEDGED"
    /\ attempt'[o][n].leasedBy = attempt[o][n].leasedBy
    /\ attempt'[o][n].acked = TRUE
Fate(o, n) ==
    \/ Stays(o, n)
    \/ Ends(o, n)
    \/ Begins(o, n)
    \/ IsLeased(o, n)
    \/ IsAcknowledged(o, n)

(* Expiring ends the attempts that are due.                                *)
LEMMA ExpiredFate ==
    ASSUME TypeOK, NEW o \in Ops, NEW n \in Attempts,
           SameRow(ExpiredAttempt[o][n], attempt'[o][n])
    PROVE  Stays(o, n) \/ Ends(o, n)
  BY ExpiredStatuses DEF Due, Live, Retryable, SameRow, Stays, Ends

(* A retry inserts the attempt that follows the last one.                  *)
LEMMA InsertFate ==
    ASSUME TypeOK, Numbered, NEW m \in Monitors, NEW p \in Ops,
           NEW st \in [Ops -> CommandStatus \cup {"NONE"}],
           NEW rowsOf \in [Ops -> [Attempts -> Attempt]],
           InsertAttempt(m, p, st, rowsOf), ~UNCHANGED rows,
           NEW o \in Ops, NEW n \in Attempts
    PROVE  \/ SameRow(rowsOf[o][n], attempt'[o][n])
           \/ Begins(o, n)
  <1> DEFINE k == tries[p] + 1
  <1>1. /\ BudgetLeft(p)
        /\ tries' = [tries EXCEPT ![p] = k]
        /\ attempt' = [rowsOf EXCEPT ![p] = [Touched(rowsOf[p]) EXCEPT ![k] = NewAttempt]]
    BY DEF InsertAttempt
  <1>2. tries[p] \in Nat /\ k \in Attempts /\ k > tries[p]
    BY <1>1, BoundsAssumption DEF BoundsAssumption, TypeOK, BudgetLeft, Attempts
  <1>3. attempt[p][k].status = "NONE" /\ tries'[p] = k
    BY <1>1, <1>2 DEF Numbered, TypeOK
  <1>4. attempt'[o] = IF o = p THEN [Touched(rowsOf[p]) EXCEPT ![k] = NewAttempt]
                      ELSE rowsOf[o]
    BY <1>1
  <1>5. /\ Touched(rowsOf[p]) \in [Attempts -> Attempt]
        /\ SameRow(rowsOf[p][n], Touched(rowsOf[p])[n])
    <2>1. rowsOf[p] \in [Attempts -> Attempt]
      OBVIOUS
    <2> QED
      BY <2>1, TouchedMovesDeadlines DEF SameRow
  <1> HIDE DEF k
  <1>6. CASE o = p /\ n = k
    BY <1>2, <1>3, <1>4, <1>5, <1>6 DEF Begins
  <1>7. CASE o = p /\ n # k
    <2>1. attempt'[o][n] = Touched(rowsOf[p])[n]
      BY <1>2, <1>4, <1>5, <1>7
    <2> QED
      BY <1>5, <1>7, <2>1
  <1>8. CASE o # p
    BY <1>4, <1>8 DEF SameRow
  <1> QED
    BY <1>6, <1>7, <1>8

(* Every step gives every attempt one of the five fates.                   *)
LEMMA AttemptFates ==
    ASSUME TypeOK, Numbered, [Next]_vars, NEW o \in Ops, NEW n \in Attempts
    PROVE  Fate(o, n)
  <1>0. /\ attempt[o][n] \in Attempt
        /\ ExpiredStatus \in [Ops -> CommandStatus \cup {"NONE"}]
        /\ ExpiredAttempt \in [Ops -> [Attempts -> Attempt]]
    BY ExpiredType DEF TypeOK
  <1>1. CASE UNCHANGED attempt
    BY <1>1 DEF Fate, Stays, SameRow
  <1>2. ASSUME attempt' = ExpiredAttempt PROVE Fate(o, n)
    BY <1>2, ExpiredFate DEF Fate, SameRow
  <1>3. ASSUME NEW m \in Monitors, ApplyCreate(m) PROVE Fate(o, n)
    <2>1. CASE UNCHANGED rows
      BY <1>1, <2>1 DEF rows
    <2>2. CASE ~UNCHANGED rows
      <3>1. PICK p \in Ops : /\ status[p] = "NONE"
                             /\ tries' = [tries EXCEPT ![p] = 1]
                             /\ attempt' = [attempt EXCEPT ![p][1] = NewAttempt]
        BY <1>3, <2>2 DEF ApplyCreate
      <3>2. 1 \in Attempts
        BY BoundsAssumption DEF BoundsAssumption, Attempts
      <3>3. tries[p] = 0 /\ tries'[p] = 1 /\ attempt[p][1].status = "NONE"
        BY <3>1, <3>2 DEF Numbered, TypeOK
      <3>4. CASE o = p /\ n = 1
        BY <3>1, <3>2, <3>3, <3>4 DEF TypeOK, Fate, Begins
      <3>5. CASE ~(o = p /\ n = 1)
        BY <3>1, <3>2, <3>5 DEF TypeOK, Fate, Stays, SameRow
      <3> QED
        BY <3>4, <3>5
    <2> QED
      BY <2>1, <2>2
  <1>4. ASSUME NEW m \in Monitors, RetryCommit(m) \/ RetryAtOnce(m) PROVE Fate(o, n)
    <2>1. /\ monitor[m].of \in Ops
          /\ \/ InsertAttempt(m, monitor[m].of, status, attempt)
             \/ InsertAttempt(m, monitor[m].of, ExpiredStatus, ExpiredAttempt)
      BY <1>4, RetryCases
    <2>2. CASE UNCHANGED rows
      BY <1>1, <2>2 DEF rows
    <2>3. CASE ~UNCHANGED rows
      <3>1. \/ SameRow(attempt[o][n], attempt'[o][n])
            \/ SameRow(ExpiredAttempt[o][n], attempt'[o][n])
            \/ Begins(o, n)
        BY <1>0, <2>1, <2>3, InsertFate DEF TypeOK
      <3> QED
        BY <3>1, ExpiredFate DEF Fate, Stays
    <2> QED
      BY <2>2, <2>3
  <1>6. ASSUME NEW b \in Bridges, Lease(b) PROVE Fate(o, n)
    <2>1. CASE attempt' = ExpiredAttempt
      BY <1>2, <2>1
    <2>2. CASE attempt' # ExpiredAttempt
      <3>1. PICK p \in Ops, k \in Attempts :
                /\ Leasable(p, k)
                /\ attempt' = [ExpiredAttempt EXCEPT
                       ![p][k] = Leased(ExpiredAttempt[p][k], b)]
        BY <1>6, <2>2 DEF Lease
      <3>2. /\ Leased(ExpiredAttempt[p][k], b).status = ExpiredAttempt[p][k].status
            /\ Leased(ExpiredAttempt[p][k], b).leasedBy = {b}
            /\ Leased(ExpiredAttempt[p][k], b).acked = ExpiredAttempt[p][k].acked
        <4>1. ExpiredAttempt[p][k] \in Attempt
          BY <1>0
        <4> QED
          BY <4>1, UpdateTypes
      <3>3. CASE o = p /\ n = k
        <4>1. attempt'[o][n] = Leased(ExpiredAttempt[p][k], b)
          BY <1>0, <3>1, <3>3
        <4>2. /\ attempt[o][n].status = "PENDING" /\ attempt[o][n].leasedBy = {}
              /\ ExpiredAttempt[o][n].status = "PENDING"
              /\ ExpiredAttempt[o][n].acked = attempt[o][n].acked
          BY <3>1, <3>3, ExpiredStatuses DEF Leasable
        <4> QED
          BY <1>6, <3>2, <3>3, <4>1, <4>2 DEF Fate, IsLeased
      <3>4. CASE ~(o = p /\ n = k)
        <4>1. attempt'[o][n] = ExpiredAttempt[o][n]
          BY <1>0, <3>1, <3>4
        <4> QED
          BY <4>1, ExpiredFate DEF Fate, SameRow
      <3> QED
        BY <3>3, <3>4
    <2> QED
      BY <2>1, <2>2
  <1>7. ASSUME NEW r \in requests, HandleAck(r) PROVE Fate(o, n)
    <2>1. CASE UNCHANGED attempt
      BY <1>1, <2>1
    <2>2. CASE ~UNCHANGED attempt
      <3> DEFINE a == Acknowledged(attempt[r.op][r.number])
      <3>0. r \in Request /\ attempt[r.op][r.number] \in Attempt
        BY DEF TypeOK, Request
      <3>1. Matches(r, "PENDING") /\ attempt' = Recorded(r, a)
        BY <1>7, <2>2 DEF HandleAck
      <3>2. /\ a \in Attempt /\ a.status = "ACKNOWLEDGED" /\ a.acked = TRUE
            /\ a.leasedBy = attempt[r.op][r.number].leasedBy
        BY <3>0, <3>1, UpdateTypes
      <3> HIDE DEF a
      <3>3. LET b == IF o = r.op /\ n = r.number THEN a ELSE attempt[o][n]
            IN  SameRow(b, attempt'[o][n])
        BY <3>0, <3>1, <3>2, RecordedStatuses DEF SameRow
      <3> QED
        BY <3>1, <3>2, <3>3 DEF Fate, Stays, IsAcknowledged, SameRow, Matches
    <2> QED
      BY <2>1, <2>2
  <1>8. ASSUME NEW r \in requests, HandleResult(r) PROVE Fate(o, n)
    <2>1. CASE UNCHANGED attempt
      BY <1>1, <2>1
    <2>2. CASE ~UNCHANGED attempt
      <3> DEFINE a == Ended(attempt[r.op][r.number], r.status)
      <3>0. r \in Request /\ attempt[r.op][r.number] \in Attempt
        BY DEF TypeOK, Request
      <3>1. /\ Matches(r, "ACKNOWLEDGED") /\ attempt' = Recorded(r, a)
            /\ r.status \in Retryable \/ r.status = "COMPLETED"
            /\ r.status \in CommandStatus
        BY <1>8, <2>2 DEF HandleResult, Outcomes, Retryable, CommandStatus
      <3>2. /\ a \in Attempt /\ a.status = r.status
            /\ a.leasedBy = attempt[r.op][r.number].leasedBy
            /\ a.acked = attempt[r.op][r.number].acked
        BY <3>0, <3>1, UpdateTypes
      <3> HIDE DEF a
      <3>3. LET b == IF o = r.op /\ n = r.number THEN a ELSE attempt[o][n]
            IN  SameRow(b, attempt'[o][n])
        BY <3>0, <3>1, <3>2, RecordedStatuses DEF SameRow
      <3> QED
        BY <1>8, <3>1, <3>2, <3>3 DEF Fate, Stays, Ends, SameRow, Matches, Active
    <2> QED
      BY <2>1, <2>2
  <1>9. ASSUME Tick PROVE Fate(o, n)
    <2>1. attempt'[o][n] = Aged(attempt[o][n])
      BY <1>9 DEF Tick
    <2>2. ASSUME NEW a \in Attempt PROVE SameRow(a, Aged(a))
      BY UpdateTypes DEF SameRow
    <2>3. Stays(o, n)
      BY <1>0, <2>1, <2>2 DEF Stays
    <2> QED
      BY <2>3 DEF Fate
  <1>10. \/ UNCHANGED attempt
         \/ attempt' = ExpiredAttempt
         \/ \E m \in Monitors : ApplyCreate(m) \/ RetryCommit(m) \/ RetryAtOnce(m)
         \/ \E b \in Bridges : Lease(b)
         \/ \E r \in requests : HandleAck(r) \/ HandleResult(r)
         \/ Tick
    BY DEF Next, vars, rows, Approve, ApplyRead, RetryExpire, RetryLoad,
           ExpireAndNotify, Sweep, NotifyTimeout, NotifyRetry, FinishApply,
           BackendRestart, Poll, GiveUp, CallFleet, FleetApply, FleetUnavailable,
           PostResult, ReportResult, ReportException, Lose
  <1> QED
    BY <1>1, <1>2, <1>3, <1>4, <1>6, <1>7, <1>8, <1>9, <1>10

(* How the number of attempts and the absence of a command change.         *)
LEMMA WhoWritesTries ==
    ASSUME TypeOK, Numbered, [Next]_vars, NEW o \in Ops
    PROVE  /\ tries'[o] = tries[o] \/ tries'[o] = tries[o] + 1
           /\ status'[o] = "NONE" => status[o] = "NONE" /\ tries'[o] = tries[o]
  <1> DEFINE Goal == /\ tries'[o] = tries[o] \/ tries'[o] = tries[o] + 1
                     /\ status'[o] = "NONE" => status[o] = "NONE" /\ tries'[o] = tries[o]
  <1>1. CASE UNCHANGED <<status, tries>>
    BY <1>1
  <1>2. CASE UNCHANGED tries /\ status' = ExpiredStatus
    BY <1>2 DEF ExpiredStatus
  <1>3. ASSUME NEW m \in Monitors, ApplyCreate(m) PROVE Goal
    <2>1. CASE UNCHANGED rows
      BY <1>1, <2>1 DEF rows
    <2>2. CASE ~UNCHANGED rows
      <3>1. PICK p \in Ops : /\ status[p] = "NONE"
                             /\ status' = [status EXCEPT ![p] = "PENDING"]
                             /\ tries' = [tries EXCEPT ![p] = 1]
        BY <1>3, <2>2 DEF ApplyCreate
      <3> QED
        BY <3>1 DEF TypeOK, Numbered
    <2> QED
      BY <2>1, <2>2
  <1>4. ASSUME NEW m \in Monitors, NEW st \in [Ops -> CommandStatus \cup {"NONE"}],
               NEW rowsOf, InsertAttempt(m, monitor[m].of, st, rowsOf),
               st[o] = "NONE" => status[o] = "NONE"
        PROVE  Goal
    <2>1. CASE UNCHANGED rows
      BY <1>1, <2>1 DEF rows
    <2>2. CASE ~UNCHANGED rows
      <3>1. /\ status' = [st EXCEPT ![monitor[m].of] = "PENDING"]
            /\ tries' = [tries EXCEPT ![monitor[m].of] = tries[monitor[m].of] + 1]
        BY <1>4, <2>2 DEF InsertAttempt
      <3> QED
        BY <1>4, <3>1 DEF TypeOK
    <2> QED
      BY <2>1, <2>2
  <1>5. ASSUME NEW m \in Monitors, RetryCommit(m) \/ RetryAtOnce(m) PROVE Goal
    <2>1. /\ ExpiredStatus \in [Ops -> CommandStatus \cup {"NONE"}]
          /\ status \in [Ops -> CommandStatus \cup {"NONE"}]
      BY ExpiredType DEF TypeOK
    <2>2. ExpiredStatus[o] = "NONE" => status[o] = "NONE"
      BY DEF ExpiredStatus
    <2>3. \/ InsertAttempt(m, monitor[m].of, status, attempt)
          \/ InsertAttempt(m, monitor[m].of, ExpiredStatus, ExpiredAttempt)
      BY <1>5, RetryCases
    <2>4. CASE InsertAttempt(m, monitor[m].of, status, attempt)
      BY <1>4, <2>1, <2>4
    <2>5. CASE InsertAttempt(m, monitor[m].of, ExpiredStatus, ExpiredAttempt)
      BY <1>4, <2>1, <2>2, <2>5
    <2> QED
      BY <2>3, <2>4, <2>5
  <1>7. ASSUME NEW r \in requests, HandleAck(r) \/ HandleResult(r) PROVE Goal
    <2>1. /\ UNCHANGED tries
          /\ \/ UNCHANGED status
             \/ status' = [status EXCEPT ![r.op] = r.status] /\ r.status # "NONE"
      BY <1>7 DEF HandleAck, HandleResult, Outcomes
    <2> QED
      BY <2>1 DEF TypeOK
  <1>8. \/ UNCHANGED <<status, tries>>
        \/ UNCHANGED tries /\ status' = ExpiredStatus
        \/ \E m \in Monitors : ApplyCreate(m) \/ RetryCommit(m) \/ RetryAtOnce(m)
        \/ \E r \in requests : HandleAck(r) \/ HandleResult(r)
    BY DEF Next, vars, rows, Approve, ApplyRead, RetryExpire, RetryLoad,
           ExpireAndNotify, Sweep, NotifyTimeout, NotifyRetry, FinishApply,
           BackendRestart, Poll, Lease, GiveUp, CallFleet, FleetApply,
           FleetUnavailable, PostResult, ReportResult, ReportException, Lose, Tick
  <1> QED
    BY <1>1, <1>2, <1>3, <1>5, <1>7, <1>8

(* An attempt without a row is nobody's; an acknowledged one is somebody's *)
(* and says that it was acknowledged.                                      *)
LeasesInv ==
    \A o \in Ops, n \in Attempts :
        /\ attempt[o][n].status = "NONE" => attempt[o][n].leasedBy = {}
        /\ attempt[o][n].status = "ACKNOWLEDGED" => attempt[o][n].acked
        /\ attempt[o][n].acked => attempt[o][n].leasedBy # {}

FatesInv == TypeOK /\ Numbered /\ LeasesInv

LEMMA FatesInit == Init => FatesInv
  <1> SUFFICES ASSUME Init PROVE FatesInv
    OBVIOUS
  <1>1. TypeOK
    BY TypeInit
  <1>2. Numbered
    BY DEF Init, Numbered, NoAttempt
  <1>3. LeasesInv
    BY DEF Init, LeasesInv, NoAttempt
  <1> QED
    BY <1>1, <1>2, <1>3 DEF FatesInv

LEMMA FatesNext == FatesInv /\ [Next]_vars => FatesInv'
  <1> SUFFICES ASSUME FatesInv, [Next]_vars PROVE FatesInv'
    OBVIOUS
  <1>1. TypeOK /\ TypeOK' /\ Numbered
    BY TypeStep DEF FatesInv
  <1>2. ASSUME NEW o \in Ops, NEW n \in Attempts
        PROVE  Fate(o, n)
    BY <1>1, AttemptFates
  <1>3. Numbered'
    <2>1. ASSUME NEW o \in Ops, status'[o] = "NONE"
          PROVE  tries'[o] = 0
      BY <1>1, <2>1, WhoWritesTries DEF Numbered
    <2>2. ASSUME NEW o \in Ops, NEW n \in Attempts, n > tries'[o]
          PROVE  attempt'[o][n].status = "NONE"
      <3>1. /\ tries[o] \in Nat /\ tries'[o] \in Nat /\ n \in Nat
            /\ tries'[o] = tries[o] \/ tries'[o] = tries[o] + 1
        BY <1>1, WhoWritesTries, BoundsAssumption
           DEF TypeOK, BoundsAssumption, Attempts
      <3>2. n > tries[o] /\ n # tries'[o]
        BY <2>2, <3>1
      <3>3. attempt[o][n].status = "NONE"
        BY <1>1, <3>2 DEF Numbered
      <3> QED
        BY <1>2, <3>2, <3>3
           DEF Fate, Stays, SameRow, Ends, Begins, IsLeased, IsAcknowledged, Active
    <2> QED
      BY <2>1, <2>2 DEF Numbered
  <1>4. LeasesInv'
    <2> SUFFICES ASSUME NEW o \in Ops, NEW n \in Attempts
                 PROVE  /\ attempt'[o][n].status = "NONE" => attempt'[o][n].leasedBy = {}
                        /\ attempt'[o][n].status = "ACKNOWLEDGED" => attempt'[o][n].acked
                        /\ attempt'[o][n].acked => attempt'[o][n].leasedBy # {}
      BY DEF LeasesInv
    <2>1. /\ attempt[o][n].status = "NONE" => attempt[o][n].leasedBy = {}
          /\ attempt[o][n].status = "ACKNOWLEDGED" => attempt[o][n].acked
          /\ attempt[o][n].acked => attempt[o][n].leasedBy # {}
      BY DEF FatesInv, LeasesInv
    <2>2. CASE Stays(o, n)
      BY <2>1, <2>2 DEF Stays, SameRow
    <2>3. CASE Ends(o, n)
      BY <2>1, <2>3 DEF Ends, Retryable
    <2>4. CASE Begins(o, n)
      BY <2>4 DEF Begins, NewAttempt
    <2>5. CASE IsLeased(o, n)
      BY <2>1, <2>5 DEF IsLeased
    <2>6. CASE IsAcknowledged(o, n)
      BY <2>6 DEF IsAcknowledged
    <2> QED
      BY <1>2, <2>2, <2>3, <2>4, <2>5, <2>6 DEF Fate
  <1> QED
    BY <1>1, <1>3, <1>4 DEF FatesInv

(* A finished attempt never changes again and no lease changes hands,      *)
(* however many requests, bridges and POSTs interleave: lease, acknowledge *)
(* and result only match rows in the status they expect, and a retry, even *)
(* one that races another, inserts a row that was not there.               *)
THEOREM AttemptsStay == Spec => AttemptsImmutable
  <1>1. FatesInv /\ [Next]_vars =>
            [\A o \in Ops, n \in Attempts : Keeps(attempt[o][n], attempt'[o][n])]_attempt
    <2> SUFFICES ASSUME FatesInv, [Next]_vars, NEW o \in Ops, NEW n \in Attempts
                 PROVE  Keeps(attempt[o][n], attempt'[o][n])
      OBVIOUS
    <2>1. Fate(o, n)
      BY AttemptFates DEF FatesInv
    <2>2. attempt[o][n].status = "NONE" => attempt[o][n].leasedBy = {}
      BY DEF FatesInv, LeasesInv
    <2> QED
      BY <2>1, <2>2
         DEF Keeps, Fate, Stays, SameRow, Ends, Begins, IsLeased, IsAcknowledged, Active
  <1> QED
    BY FatesInit, FatesNext, <1>1, PTL DEF Spec, AttemptsImmutable

-----------------------------------------------------------------------------
(* From the fleet's answer to an APPLIED scenario.                         *)

(* Everything on its way to an APPLIED scenario is backed by an execution  *)
(* that the Fleet Manager reports as completed, or by an attempt recorded  *)
(* as COMPLETED.                                                           *)
OnTheWay ==
    /\ \A r \in requests : r.status = "COMPLETED" => fleet[r.op][r.number] = "COMPLETED"
    /\ \A t \in todo : t.kind = "COMPLETED" => Finished(t.op)
OneTarget == \A o \in Ops : target[o] = {} \/ \E s \in Scenarios : target[o] = {s}
AppliedInv == FatesInv /\ OnTheWay /\ OneTarget /\ AppliedIsBacked

LEMMA AppliedInit == Init => AppliedInv
  <1> SUFFICES ASSUME Init PROVE AppliedInv
    OBVIOUS
  <1>1. FatesInv
    BY FatesInit
  <1>2. OnTheWay /\ OneTarget /\ AppliedIsBacked
    BY DEF Init, OnTheWay, OneTarget, AppliedIsBacked, NoAttempt
  <1> QED
    BY <1>1, <1>2 DEF AppliedInv

(* A command that has finished once stays so.                              *)
LEMMA FinishedStays ==
    ASSUME FatesInv, [Next]_vars, NEW o \in Ops, Finished(o)
    PROVE  Finished(o)' /\ target'[o] = target[o]
  <1>1. PICK n \in Attempts : attempt[o][n].status = "COMPLETED"
    BY DEF Finished
  <1>2. Fate(o, n)
    BY AttemptFates DEF FatesInv
  <1>3. attempt'[o][n].status = "COMPLETED"
    BY <1>1, <1>2
       DEF Fate, Stays, SameRow, Ends, Begins, IsLeased, IsAcknowledged, Active
  <1>4. status[o] # "NONE"
    <2>1. n > 0
      BY BoundsAssumption DEF BoundsAssumption, Attempts
    <2> QED
      BY <1>1, <2>1 DEF FatesInv, Numbered
  <1> QED
    BY <1>3, <1>4, WhoWritesTarget DEF Finished, FatesInv

(* A completed result that the rows match, or that repeats a COMPLETED     *)
(* command's, leaves the command finished.                                 *)
LEMMA ResultFinishes ==
    ASSUME AppliedInv, [Next]_vars, NEW r \in requests, HandleResult(r), Accepted(r),
           r.status = "COMPLETED"
    PROVE  r.op \in Ops /\ Finished(r.op)'
  <1>1. /\ r \in Request /\ r.op \in Ops /\ r.number \in Attempts
        /\ TypeOK /\ attempt[r.op][r.number] \in Attempt
    BY DEF AppliedInv, FatesInv, TypeOK, Request
  <1>2. CASE Matches(r, "ACKNOWLEDGED")
    <2> DEFINE a == Ended(attempt[r.op][r.number], r.status)
    <2>1. attempt' = Recorded(r, a)
      BY <1>2 DEF HandleResult
    <2>2. a \in Attempt /\ a.status = "COMPLETED"
      <3>1. r.status \in CommandStatus
        BY DEF CommandStatus
      <3> QED
        BY <1>1, <3>1, UpdateTypes
    <2> HIDE DEF a
    <2>3. attempt'[r.op][r.number].status = "COMPLETED"
      BY <1>1, <2>1, <2>2, RecordedStatuses
    <2> QED
      BY <1>1, <2>3 DEF Finished
  <1>3. CASE ~Matches(r, "ACKNOWLEDGED")
    <2>1. status[r.op] = "COMPLETED"
      BY <1>3 DEF Accepted
    <2>2. Finished(r.op)
      BY <1>1, <2>1 DEF AppliedInv, AppliedIsBacked
    <2> QED
      BY <1>1, <2>2, FinishedStays DEF AppliedInv
  <1> QED
    BY <1>2, <1>3

LEMMA AppliedNext ==
    ASSUME AppliedInv, [Next]_vars
    PROVE  AppliedInv'
  <1>1. FatesInv /\ FatesInv' /\ TypeOK /\ TypeOK'
    BY FatesNext DEF AppliedInv, FatesInv
  <1>2. \A o \in Ops, n \in Attempts :
            fleet[o][n] = "COMPLETED" => fleet'[o][n] = "COMPLETED"
    <2>1. CASE UNCHANGED fleet
      BY <2>1
    <2>2. CASE \E b \in Bridges : FleetApply(b)
      <3>1. PICK b \in Bridges : FleetApply(b)
        BY <2>2
      <3>2. bridge[b].op \in Ops /\ bridge[b].number \in Attempts
        BY <1>1, <3>1, BridgeNames DEF FleetApply, TypeOK
      <3>3. PICK outcome \in Outcomes :
                fleet' = [fleet EXCEPT ![bridge[b].op][bridge[b].number] = outcome]
        BY <3>1 DEF FleetApply
      <3>4. fleet[bridge[b].op][bridge[b].number] # "COMPLETED"
        BY <3>1 DEF FleetApply
      <3> QED
        BY <1>1, <3>2, <3>3, <3>4 DEF TypeOK
    <2> QED
      BY <2>1, <2>2, WhoWritesFleet
  <1>3. \A o \in Ops : Finished(o) => Finished(o)' /\ target'[o] = target[o]
    BY <1>1, FinishedStays
  <1>4. \A r \in requests' : r.status = "COMPLETED" => fleet'[r.op][r.number] = "COMPLETED"
    <2> SUFFICES ASSUME NEW r \in requests', r.status = "COMPLETED"
                 PROVE  fleet'[r.op][r.number] = "COMPLETED"
      OBVIOUS
    <2>1. r.op \in Ops /\ r.number \in Attempts
      BY <1>1 DEF TypeOK, Request
    <2>2. fleet[r.op][r.number] = "COMPLETED"
      BY WhoPosts DEF AppliedInv, OnTheWay
    <2> QED
      BY <1>2, <2>1, <2>2
  <1>5. ASSUME NEW o \in Ops, NEW n \in Attempts, attempt'[o][n].status = "COMPLETED"
        PROVE  fleet'[o][n] = "COMPLETED"
    <2>1. Fate(o, n)
      BY <1>1, AttemptFates DEF FatesInv
    <2>2. \/ attempt[o][n].status = "COMPLETED"
          \/ \E r \in requests : r.status = "COMPLETED" /\ r.op = o /\ r.number = n
      BY <1>5, <2>1
         DEF Fate, Stays, SameRow, Ends, Begins, IsLeased, IsAcknowledged, Retryable,
             NewAttempt
    <2>3. fleet[o][n] = "COMPLETED"
      BY <2>2 DEF AppliedInv, AppliedIsBacked, OnTheWay
    <2> QED
      BY <1>2, <2>3
  <1>6. \A o \in Ops : status'[o] = "COMPLETED" => Finished(o)'
    <2> SUFFICES ASSUME NEW o \in Ops, status'[o] = "COMPLETED"
                 PROVE  Finished(o)'
      OBVIOUS
    <2>1. CASE status[o] = "COMPLETED"
      BY <1>3, <2>1 DEF AppliedInv, AppliedIsBacked
    <2>2. CASE status[o] # "COMPLETED"
      <3>1. PICK r \in requests : HandleResult(r) /\ r.op = o /\ r.status = "COMPLETED"
        BY <1>1, <2>2, WhoWritesStatus
      <3>2. Matches(r, "ACKNOWLEDGED")
        BY <2>2, <3>1 DEF HandleResult
      <3> QED
        BY <3>1, <3>2, ResultFinishes DEF Accepted
    <2> QED
      BY <2>1, <2>2
  <1>7. \A t \in todo' : t.kind = "COMPLETED" => Finished(t.op)'
    <2> SUFFICES ASSUME NEW t \in todo', t.kind = "COMPLETED"
                 PROVE  Finished(t.op)'
      OBVIOUS
    <2>1. t.op \in Ops
      BY <1>1 DEF TypeOK, Todo
    <2>2. CASE t \in todo
      BY <1>3, <2>1, <2>2 DEF AppliedInv, OnTheWay
    <2>3. CASE t \notin todo
      <3>1. PICK r \in requests : /\ HandleResult(r) /\ Accepted(r)
                                  /\ r.status = "COMPLETED" /\ t.op = r.op
        BY <2>3, WhoWritesTodo
      <3> QED
        BY <3>1, ResultFinishes
    <2> QED
      BY <2>2, <2>3
  <1>8. OneTarget'
    BY <1>1, WhoWritesTarget DEF AppliedInv, OneTarget
  <1>9. ASSUME NEW s \in Scenarios, scenario'[s] = "APPLIED"
        PROVE  \E o \in Ops : target'[o] = {s} /\ Finished(o)'
    <2>1. CASE scenario[s] = "APPLIED"
      <3>1. PICK o \in Ops : target[o] = {s} /\ Finished(o)
        BY <2>1 DEF AppliedInv, AppliedIsBacked
      <3> QED
        BY <1>3, <3>1
    <2>2. CASE scenario[s] # "APPLIED"
      <3>1. PICK t \in todo : FinishApply(t) /\ s \in target[t.op]
        BY <1>1, <1>9, <2>2, WhoWritesScenario DEF Approve, FinishApply, TypeOK
      <3>2. t.op \in Ops /\ Finished(t.op)
        BY <1>1, <3>1 DEF FinishApply, AppliedInv, OnTheWay, TypeOK, Todo
      <3>3. target[t.op] = {s}
        BY <3>1, <3>2 DEF AppliedInv, OneTarget
      <3> QED
        BY <1>3, <3>2, <3>3
    <2> QED
      BY <2>1, <2>2
  <1>10. OnTheWay'
    BY <1>4, <1>7 DEF OnTheWay
  <1>11. AppliedIsBacked'
    BY <1>5, <1>6, <1>9 DEF AppliedIsBacked
  <1> QED
    BY <1>1, <1>8, <1>10, <1>11 DEF AppliedInv

(* An attempt is COMPLETED only if the Fleet Manager executed it, and a    *)
(* scenario APPLIED only if an attempt of a command for it is COMPLETED,   *)
(* whatever is lost, repeated, reordered, timed out, retried, by one or    *)
(* several requests at once, or restarted on the way.                      *)
THEOREM AppliedCorrect == Spec => []AppliedIsBacked
  <1>1. AppliedInv /\ [Next]_vars => AppliedInv'
    BY AppliedNext
  <1>2. AppliedInv => AppliedIsBacked
    BY DEF AppliedInv
  <1> QED
    BY AppliedInit, <1>1, <1>2, PTL DEF Spec

-----------------------------------------------------------------------------
(* What the bridges execute.                                               *)

AtWork(x) == x.phase \in {"acking", "acked", "executing"}

(* The attempt a bridge works on is leased by it, and none after it is;    *)
(* once the bridge believes so, that attempt is acknowledged, or one that  *)
(* another bridge leased since.                                            *)
HandsInv ==
    \A b \in Bridges : AtWork(bridge[b]) /\ bridge[b].op \notin overtaken =>
        LET a == attempt[bridge[b].op]
            n == bridge[b].number
        IN  /\ a[n].leasedBy = {b}
            /\ \A k \in Attempts : k > n => a[k].leasedBy # {b}
            /\ bridge[b].phase \in {"acked", "executing"} =>
                   \/ a[n].acked
                   \/ \E k \in Attempts : k > n /\ a[k].acked

ExecutesInv == RowsInv /\ FatesInv /\ HandsInv

(* A POST that is answered as if it were the ack of the bridge's attempt:  *)
(* it is recorded, or the command is ACKNOWLEDGED already.                 *)
AckAccepted(r) ==
    \/ /\ Matches(r, "PENDING")
       /\ attempt' = Recorded(r, Acknowledged(attempt[r.op][r.number]))
    \/ /\ ~Matches(r, "PENDING") /\ UNCHANGED attempt
       /\ status[r.op] = "ACKNOWLEDGED"

(* A bridge goes on with what it works on, or leases something else.       *)
LEMMA WhoMovesBridges ==
    ASSUME TypeOK, [Next]_vars, NEW b \in Bridges, AtWork(bridge'[b]), ~Lease(b)
    PROVE  /\ AtWork(bridge[b])
           /\ bridge'[b].op = bridge[b].op /\ bridge'[b].number = bridge[b].number
           /\ bridge'[b].phase \in {"acked", "executing"} =>
                  \/ bridge[b].phase \in {"acked", "executing"}
                  \/ \E r \in requests :
                         /\ HandleAck(r) /\ r.bridge = b
                         /\ r.op = bridge[b].op /\ r.number = bridge[b].number
                         /\ AckAccepted(r)
  <1> DEFINE Goal ==
           /\ AtWork(bridge[b])
           /\ bridge'[b].op = bridge[b].op /\ bridge'[b].number = bridge[b].number
           /\ bridge'[b].phase \in {"acked", "executing"} =>
                  \/ bridge[b].phase \in {"acked", "executing"}
                  \/ \E r \in requests :
                         /\ HandleAck(r) /\ r.bridge = b
                         /\ r.op = bridge[b].op /\ r.number = bridge[b].number
                         /\ AckAccepted(r)
  <1>1. CASE bridge'[b] = bridge[b]
    BY <1>1
  <1>2. ASSUME BackendRestart PROVE Goal
    <2>1. bridge'[b] = bridge[b] \/ bridge'[b] = Idle
      BY <1>2 DEF BackendRestart
    <2> QED
      BY <1>1, <2>1 DEF AtWork, Idle
  <1>3. ASSUME NEW c \in Bridges, Poll(c) \/ GiveUp(c) \/ \E x : PostResult(c, x)
        PROVE  Goal
    <2>1. \/ bridge' = [bridge EXCEPT ![c] = Idle]
          \/ bridge' = [bridge EXCEPT ![c] = [phase |-> "polling"]]
      BY <1>3 DEF Poll, GiveUp, PostResult
    <2>2. b # c
      BY <2>1 DEF TypeOK, AtWork, Idle
    <2>3. bridge'[b] = bridge[b]
      BY <2>1, <2>2 DEF TypeOK
    <2> QED
      BY <1>1, <2>3
  <1>4. ASSUME NEW c \in Bridges, Lease(c) PROVE Goal
    <2>1. b # c
      BY <1>4
    <2>2. \E x : bridge' = [bridge EXCEPT ![c] = x]
      BY <1>4 DEF Lease
    <2>3. bridge'[b] = bridge[b]
      BY <2>1, <2>2 DEF TypeOK
    <2> QED
      BY <1>1, <2>3
  <1>5. ASSUME NEW c \in Bridges, CallFleet(c) PROVE Goal
    <2>1. CASE b = c
      <3>1. bridge'[b] = Handling("executing", bridge[b].op, bridge[b].number)
        BY <1>5, <2>1 DEF CallFleet, TypeOK
      <3>2. bridge[b].phase = "acked"
        BY <1>5, <2>1 DEF CallFleet
      <3> QED
        BY <3>1, <3>2 DEF Handling, AtWork
    <2>2. CASE b # c
      BY <1>1, <1>5, <2>2 DEF CallFleet
    <2> QED
      BY <2>1, <2>2
  <1>6. ASSUME NEW r \in requests, HandleAck(r) PROVE Goal
    <2>1. CASE bridge'[b] # bridge[b]
      <3>1. \E accepted \in BOOLEAN : Answer(r, accepted) /\ (accepted => AckAccepted(r))
        <4>1. \/ Answer(r, TRUE) /\ AckAccepted(r)
              \/ Answer(r, FALSE)
              \/ /\ Answer(r, status[r.op] = "ACKNOWLEDGED")
                 /\ status[r.op] = "ACKNOWLEDGED" => AckAccepted(r)
          BY <1>6, Zenon DEF HandleAck, AckAccepted
        <4> QED
          BY <4>1, Zenon
      <3>2. PICK accepted \in BOOLEAN : Answer(r, accepted) /\ (accepted => AckAccepted(r))
        BY <3>1
      <3>3. r.bridge = b /\ bridge[b] = Handling("acking", r.op, r.number)
        BY <2>1, <3>2 DEF Answer, TypeOK
      <3>4. bridge'[b] = IF accepted THEN Handling("acked", r.op, r.number) ELSE Idle
        BY <3>2, <3>3 DEF Answer, TypeOK
      <3>5. accepted
        BY <3>4 DEF AtWork, Idle
      <3>6. AckAccepted(r)
        BY <3>2, <3>5
      <3> QED
        BY <1>6, <3>3, <3>4, <3>5, <3>6 DEF Handling, AtWork
    <2> QED
      BY <1>1, <2>1
  <1>7. \/ UNCHANGED bridge
        \/ BackendRestart
        \/ \E c \in Bridges : Poll(c) \/ GiveUp(c) \/ \E x : PostResult(c, x)
        \/ \E c \in Bridges : Lease(c) \/ CallFleet(c)
        \/ \E r \in requests : HandleAck(r)
    BY RetryWrites DEF Next, vars, rows, Approve, ApplyRead, ApplyCreate, RetryExpire, RetryLoad,
           Sweep, NotifyTimeout, NotifyRetry,
           FinishApply, FleetUnavailable, FleetApply, ReportResult, ReportException,
           HandleResult, Lose, Tick
  <1> QED
    BY <1>1, <1>2, <1>3, <1>4, <1>5, <1>6, <1>7

LEMMA ExecutesInit == Init => ExecutesInv
  <1> SUFFICES ASSUME Init PROVE ExecutesInv
    OBVIOUS
  <1>1. HandsInv
    BY DEF Init, HandsInv, AtWork, Idle
  <1> QED
    BY <1>1, RowsInit, FatesInit DEF ExecutesInv

(* Only the lease of a free attempt changes who has it.                    *)
LEMMA OnlyLeasesLease ==
    ASSUME FatesInv, [Next]_vars, NEW o \in Ops, NEW n \in Attempts
    PROVE  /\ \/ attempt'[o][n].leasedBy = attempt[o][n].leasedBy
              \/ /\ attempt[o][n].leasedBy = {}
                 /\ \E b \in Bridges : Lease(b) /\ attempt'[o][n].leasedBy = {b}
           /\ attempt[o][n].acked => attempt'[o][n].acked
  <1>1. Fate(o, n)
    BY AttemptFates DEF FatesInv
  <1>2. /\ attempt[o][n].status = "NONE" => attempt[o][n].leasedBy = {}
        /\ attempt[o][n].acked => attempt[o][n].leasedBy # {}
    BY DEF FatesInv, LeasesInv
  <1>3. NewAttempt.leasedBy = {}
    BY NewAttemptType
  <1>4. \/ attempt'[o][n].leasedBy = attempt[o][n].leasedBy
        \/ /\ attempt[o][n].leasedBy = {}
           /\ \E b \in Bridges : Lease(b) /\ attempt'[o][n].leasedBy = {b}
    BY <1>1, <1>2, <1>3
       DEF Fate, Stays, SameRow, Ends, Begins, IsLeased, IsAcknowledged
  <1>5. ASSUME attempt[o][n].acked PROVE attempt'[o][n].acked
    <2>1. ~Begins(o, n)
      BY <1>2, <1>5 DEF Begins
    <2>2. \/ attempt'[o][n].acked = attempt[o][n].acked
          \/ attempt'[o][n].acked = TRUE
      BY <1>1, <2>1, Zenon DEF Fate, Stays, SameRow, Ends, IsLeased, IsAcknowledged
    <2> QED
      BY <1>5, <2>2, Zenon
  <1> QED
    BY <1>4, <1>5

LEMMA OvertakenGrows ==
    ASSUME [Next]_vars
    PROVE  overtaken \subseteq overtaken'
  BY RetryWrites DEF Next, vars, rows, Approve, ApplyRead, ApplyCreate, RetryExpire, RetryLoad,
         Sweep, NotifyTimeout, NotifyRetry,
         FinishApply, BackendRestart, Poll, Lease, GiveUp, CallFleet, FleetApply,
         FleetUnavailable, PostResult, ReportResult, ReportException,
         HandleAck, HandleResult, Lose, Tick

LEMMA ExecutesNext ==
    ASSUME ExecutesInv, [Next]_vars
    PROVE  ExecutesInv'
  <1>1. /\ RowsInv /\ RowsInv' /\ FatesInv /\ FatesInv' /\ TypeOK /\ TypeOK'
        /\ AttemptsAgree /\ AttemptsAgree' /\ LeasesInv'
    BY RowsNext, FatesNext DEF ExecutesInv, RowsInv, FatesInv
  <1> SUFFICES ASSUME NEW b \in Bridges, AtWork(bridge'[b]), bridge'[b].op \notin overtaken'
               PROVE  /\ attempt'[bridge'[b].op][bridge'[b].number].leasedBy = {b}
                      /\ \A k \in Attempts : k > bridge'[b].number =>
                             attempt'[bridge'[b].op][k].leasedBy # {b}
                      /\ bridge'[b].phase \in {"acked", "executing"} =>
                             \/ attempt'[bridge'[b].op][bridge'[b].number].acked
                             \/ \E k \in Attempts :
                                    /\ k > bridge'[b].number
                                    /\ attempt'[bridge'[b].op][k].acked
    BY <1>1 DEF ExecutesInv, HandsInv
  <1>2. Attempts \subseteq Nat /\ \A o \in Ops : tries'[o] \in Nat
    BY <1>1, BoundsAssumption DEF BoundsAssumption, Attempts, TypeOK
  <1>3. CASE Lease(b)
    <2>1. CASE bridge'[b] = Idle
      BY <2>1 DEF AtWork, Idle
    <2>2. CASE bridge'[b] # Idle
      <3>1. PICK o \in Ops, n, last \in Attempts :
                /\ Leasable(o, n)
                /\ last = tries[o]
                /\ attempt' = [ExpiredAttempt EXCEPT
                       ![o][n] = Leased(ExpiredAttempt[o][n], b)]
                /\ bridge' = [bridge EXCEPT ![b] = Handling("acking", o, last)]
        BY <1>1, <1>3, <2>2 DEF Lease, TypeOK
      <3>2. /\ bridge'[b].op = o /\ bridge'[b].number = last
            /\ bridge'[b].phase = "acking"
            /\ tries' = tries /\ overtaken' = overtaken
        BY <1>1, <1>3, <3>1 DEF Lease, TypeOK, Handling
      <3>3. /\ ExpiredAttempt \in [Ops -> [Attempts -> Attempt]]
            /\ ExpiredAttempt[o][n] \in Attempt
        BY <1>1, ExpiredType DEF TypeOK
      <3>4. /\ Leased(ExpiredAttempt[o][n], b).leasedBy = {b}
            /\ Leased(ExpiredAttempt[o][n], b).status = ExpiredAttempt[o][n].status
        BY <3>3, UpdateTypes
      <3>5. attempt'[o][n] = Leased(ExpiredAttempt[o][n], b)
        BY <3>1, <3>3
      <3>6. attempt'[o][n].leasedBy = {b} /\ attempt'[o][n].status = "PENDING"
        BY <3>1, <3>4, <3>5 DEF Leasable
      <3>7. n = last
        <4>1. o \notin overtaken'
          BY <3>2
        <4>2. Live(o, n)'
          BY <3>6 DEF Live, Active
        <4>3. ~(n < tries'[o]) /\ ~(n > tries'[o])
          BY <1>1, <3>6, <4>1 DEF AttemptsAgree, Retryable
        <4> QED
          BY <1>2, <3>1, <3>2, <4>3
      <3>8. ASSUME NEW k \in Attempts, k > n
            PROVE  attempt'[o][k].leasedBy # {b}
        <4>1. k > tries'[o]
          BY <3>1, <3>2, <3>7, <3>8
        <4>2. attempt'[o][k].status = "NONE"
          BY <1>1, <4>1 DEF AttemptsAgree
        <4>3. attempt'[o][k].leasedBy = {}
          BY <1>1, <4>2 DEF LeasesInv
        <4> QED
          BY <4>3
      <3> QED
        BY <3>2, <3>6, <3>7, <3>8
    <2> QED
      BY <2>1, <2>2
  <1>4. CASE ~Lease(b)
    <2>2. /\ AtWork(bridge[b])
          /\ bridge'[b].op = bridge[b].op /\ bridge'[b].number = bridge[b].number
      BY <1>1, <1>4, WhoMovesBridges
    <2> DEFINE o == bridge[b].op
               n == bridge[b].number
    <2>3. o \in Ops /\ n \in Attempts /\ o \notin overtaken
      BY <1>1, <2>2, BridgeNames, OvertakenGrows DEF TypeOK, AtWork
    <2>4. /\ attempt[o][n].leasedBy = {b}
          /\ \A k \in Attempts : k > n => attempt[o][k].leasedBy # {b}
          /\ bridge[b].phase \in {"acked", "executing"} =>
                 \/ attempt[o][n].acked
                 \/ \E k \in Attempts : k > n /\ attempt[o][k].acked
      BY <2>2, <2>3 DEF ExecutesInv, HandsInv
    <2> HIDE DEF o, n
    <2>5. \A k \in Attempts :
              /\ attempt[o][k].leasedBy # {} =>
                     attempt'[o][k].leasedBy = attempt[o][k].leasedBy
              /\ attempt'[o][k].leasedBy = {b} => attempt[o][k].leasedBy = {b}
              /\ attempt[o][k].acked => attempt'[o][k].acked
      <3> SUFFICES ASSUME NEW k \in Attempts
                   PROVE  /\ attempt[o][k].leasedBy # {} =>
                                 attempt'[o][k].leasedBy = attempt[o][k].leasedBy
                          /\ attempt'[o][k].leasedBy = {b} => attempt[o][k].leasedBy = {b}
                          /\ attempt[o][k].acked => attempt'[o][k].acked
        OBVIOUS
      <3>1. /\ \/ attempt'[o][k].leasedBy = attempt[o][k].leasedBy
               \/ /\ attempt[o][k].leasedBy = {}
                  /\ \E c \in Bridges : Lease(c) /\ attempt'[o][k].leasedBy = {c}
            /\ attempt[o][k].acked => attempt'[o][k].acked
        BY <1>1, <2>3, OnlyLeasesLease
      <3> QED
        BY <1>4, <3>1
    <2>6. ASSUME bridge'[b].phase \in {"acked", "executing"}
          PROVE  \/ attempt'[o][n].acked
                 \/ \E k \in Attempts : k > n /\ attempt'[o][k].acked
      <3>1. CASE bridge[b].phase \in {"acked", "executing"}
        BY <2>3, <2>4, <2>5, <3>1
      <3>2. CASE bridge[b].phase \notin {"acked", "executing"}
        <4>1. PICK r \in requests :
                  /\ HandleAck(r) /\ r.bridge = b
                  /\ r.op = o /\ r.number = n
                  /\ AckAccepted(r)
          BY <1>1, <1>4, <2>6, <3>2, WhoMovesBridges DEF o, n
        <4>2. CASE Matches(r, "PENDING")
          <5> DEFINE a == Acknowledged(attempt[r.op][r.number])
          <5>1. r \in Request /\ attempt[r.op][r.number] \in Attempt
            BY <1>1 DEF TypeOK, Request
          <5>2. a \in Attempt /\ a.acked = TRUE
            BY <5>1, UpdateTypes
          <5>3. attempt' = Recorded(r, a)
            BY <4>1, <4>2 DEF AckAccepted
          <5> HIDE DEF a
          <5> QED
            BY <1>1, <2>3, <4>1, <5>1, <5>2, <5>3, RecordedStatuses
        <4>3. CASE ~Matches(r, "PENDING")
          <5>1. UNCHANGED attempt /\ status[o] = "ACKNOWLEDGED"
            BY <4>1, <4>3 DEF AckAccepted
          <5>2. tries[o] \in Attempts /\ attempt[o][tries[o]].status = "ACKNOWLEDGED"
            BY <1>1, <2>3, <5>1, BoundsAssumption
               DEF BoundsAssumption, AttemptsAgree, TypeOK, Attempts
          <5>3. attempt'[o][tries[o]].acked
            BY <1>1, <2>3, <5>1, <5>2 DEF FatesInv, LeasesInv
          <5>4. ~(n > tries[o])
            <6>1. attempt[o][n].status # "NONE"
              BY <1>1, <2>3, <2>4 DEF FatesInv, LeasesInv
            <6> QED
              BY <1>1, <2>3, <6>1 DEF AttemptsAgree
          <5>5. n = tries[o] \/ tries[o] > n
            <6>1. tries[o] \in Nat /\ n \in Nat
              BY <1>2, <2>3, <5>2
            <6> QED
              BY <5>4, <6>1
          <5> QED
            BY <5>2, <5>3, <5>5
        <4> QED
          BY <4>2, <4>3
      <3> QED
        BY <3>1, <3>2
    <2> QED
      BY <2>2, <2>3, <2>4, <2>5, <2>6 DEF o, n
  <1> QED
    BY <1>3, <1>4

(* However many bridges and requests there are, a bridge has a command     *)
(* that no retry overtook executed only on the attempt it leased, and once *)
(* that attempt, or a later one leased by another bridge, is recorded as   *)
(* acknowledged: an ack that is repeated or late is answered by the status *)
(* of the command, which can only be the status of its latest attempt.     *)
THEOREM ExecutesAcknowledged == Spec => []ExecutesOnlyAcknowledged
  <1>1. ExecutesInv /\ [Next]_vars => ExecutesInv'
    BY ExecutesNext
  <1>2. ExecutesInv => ExecutesOnlyAcknowledged
    <2> SUFFICES ASSUME ExecutesInv, NEW b \in Bridges,
                        bridge[b].phase \in {"acked", "executing"},
                        bridge[b].op \notin overtaken
                 PROVE  LET a == attempt[bridge[b].op]
                            n == bridge[b].number
                        IN  /\ a[n].leasedBy = {b}
                            /\ \/ a[n].acked
                               \/ \E k \in Attempts :
                                      k > n /\ a[k].acked /\ a[k].leasedBy # {b}
      BY DEF ExecutesOnlyAcknowledged
    <2>1. AtWork(bridge[b])
      BY DEF AtWork
    <2> QED
      BY <2>1 DEF ExecutesInv, HandsInv
  <1> QED
    BY ExecutesInit, <1>1, <1>2, PTL DEF Spec

-----------------------------------------------------------------------------
(* The refinement.                                                         *)

(* A scenario that a request is about to apply has been approved.          *)
AsksForApproved ==
    \A m \in Monitors :
        monitor[m].phase = "applying" => scenario[monitor[m].of] # "SUBMITTED"
ContractInv == RowsInv /\ AppliedInv /\ AsksForApproved

(* What the contract can see.                                              *)
Done == {o \in Ops : Finished(o)}
Seen == <<scenario, status, target, tries, Done, overtaken>>

LEMMA ContractInvInit == Init => ContractInv
  BY RowsInit, AppliedInit DEF Init, ContractInv, AsksForApproved, Idle

LEMMA ContractInvNext ==
    ASSUME ContractInv, [Next]_vars
    PROVE  ContractInv'
  <1>1. RowsInv' /\ AppliedInv' /\ TypeOK /\ TypeOK'
    BY RowsNext, AppliedNext DEF ContractInv, RowsInv
  <1>2. \A s \in Scenarios : scenario[s] # "SUBMITTED" => scenario'[s] # "SUBMITTED"
    BY <1>1, WhoWritesScenario DEF Approve, FinishApply, TypeOK
  <1> SUFFICES ASSUME NEW m \in Monitors, monitor'[m].phase = "applying"
               PROVE  scenario'[monitor'[m].of] # "SUBMITTED"
    BY <1>1 DEF ContractInv, AsksForApproved
  <1>3. CASE monitor'[m] = monitor[m]
    <2>1. monitor[m].of \in Scenarios /\ scenario[monitor[m].of] # "SUBMITTED"
      BY <1>1, <1>3, RequestNames DEF ContractInv, AsksForApproved, TypeOK
    <2> QED
      BY <1>2, <1>3, <2>1
  <1>4. ASSUME NEW k \in Monitors, NEW s \in Scenarios, ApplyRead(k, s)
        PROVE  scenario'[monitor'[m].of] # "SUBMITTED"
    <2>1. CASE m = k
      BY <1>1, <1>4, <2>1 DEF ApplyRead, TypeOK
    <2>2. CASE m # k
      BY <1>1, <1>3, <1>4, <2>2 DEF ApplyRead, TypeOK
    <2> QED
      BY <2>1, <2>2
  <1>5. ASSUME NEW k \in Monitors, NEW x, monitor' = [monitor EXCEPT ![k] = x],
               x.phase # "applying"
        PROVE  monitor'[m] = monitor[m]
    BY <1>1, <1>5 DEF TypeOK
  <1>6. ASSUME BackendRestart PROVE FALSE
    BY <1>6 DEF BackendRestart, Idle
  <1>7. \/ UNCHANGED monitor
        \/ \E k \in Monitors, s \in Scenarios : ApplyRead(k, s)
        \/ \E k \in Monitors : ApplyCreate(k) \/ monitor' = [monitor EXCEPT ![k] = Idle]
        \/ \E k \in Monitors, o \in Ops : RetryExpire(k, o)
        \/ \E k \in Monitors : RetryLoad(k)
        \/ BackendRestart
    BY RetryWrites
       DEF Next, vars, rows, Approve, Sweep, NotifyTimeout, NotifyRetry, FinishApply,
           Poll, Lease, GiveUp, CallFleet, FleetApply, FleetUnavailable,
           PostResult, ReportResult, ReportException, HandleAck, HandleResult, Lose, Tick
  <1>8. ASSUME NEW k \in Monitors,
               ApplyCreate(k) \/ monitor' = [monitor EXCEPT ![k] = Idle]
        PROVE  monitor'[m] = monitor[m]
    <2>1. monitor' = [monitor EXCEPT ![k] = Idle]
      BY <1>8 DEF ApplyCreate
    <2> QED
      BY <1>5, <2>1 DEF Idle
  <1>9. ASSUME NEW k \in Monitors, NEW o \in Ops, RetryExpire(k, o)
        PROVE  monitor'[m] = monitor[m]
    BY <1>5, <1>9 DEF RetryExpire
  <1>10. ASSUME NEW k \in Monitors, RetryLoad(k)
         PROVE  monitor'[m] = monitor[m]
    <2> DEFINE loaded == [phase |-> "loaded", of |-> monitor[k].of]
    <2>1. \/ monitor' = [monitor EXCEPT ![k] = Idle]
          \/ monitor' = [monitor EXCEPT ![k] = loaded]
      BY <1>10 DEF RetryLoad
    <2>2. Idle.phase # "applying" /\ loaded.phase # "applying"
      BY DEF Idle
    <2> HIDE DEF loaded
    <2> QED
      BY <1>5, <2>1, <2>2
  <1> QED
    BY <1>3, <1>4, <1>6, <1>7, <1>8, <1>9, <1>10

(* The contract times out the overdue commands.                            *)
LEMMA ExpiryIsTimeOut ==
    ASSUME RowsInv
    PROVE  /\ ExpiredStatus = Contract!TimedOut(Overdue)
           /\ Overdue \in SUBSET Ops
           /\ \A o \in Overdue : Contract!May(o, Active) /\ status[o] # "NONE"
           /\ status = Contract!TimedOut({})
  <1>1. Overdue \subseteq Ops
    BY DEF Overdue
  <1>2. ASSUME NEW o \in Overdue PROVE Contract!May(o, Active) /\ status[o] # "NONE"
    BY <1>2, LiveExists DEF Overdue, Due, Contract!May
  <1>3. ExpiredStatus = Contract!TimedOut(Overdue)
    BY DEF ExpiredStatus, Contract!TimedOut, Contract!Ops, Ops
  <1>4. status = Contract!TimedOut({})
    BY DEF RowsInv, TypeOK, Contract!TimedOut, Contract!Ops, Ops
  <1> QED
    BY <1>1, <1>2, <1>3, <1>4

(* A command with a live attempt may be acknowledged and finished.         *)
LEMMA LiveMay ==
    ASSUME RowsInv, NEW o \in Ops, NEW n \in Attempts, Live(o, n)
    PROVE  Contract!May(o, {attempt[o][n].status})
  <1>1. CASE o \in overtaken
    BY <1>1, LiveExists DEF Contract!May
  <1>2. CASE o \notin overtaken
    BY <1>2, LiveIsLatest DEF RowsInv, Contract!May
  <1> QED
    BY <1>1, <1>2

(* Only a result makes an attempt COMPLETED.                               *)
LEMMA DoneStays ==
    ASSUME FatesInv, [Next]_vars, ~\E r \in requests : HandleResult(r)
    PROVE  Done' = Done
  <1>1. ASSUME NEW o \in Ops, NEW n \in Attempts
        PROVE  attempt'[o][n].status = "COMPLETED" <=> attempt[o][n].status = "COMPLETED"
    <2>1. Fate(o, n)
      BY AttemptFates DEF FatesInv
    <2> QED
      BY <2>1, NewAttemptType
         DEF Fate, Stays, SameRow, Ends, Begins, IsLeased, IsAcknowledged, Active, Retryable
  <1> QED
    BY <1>1 DEF Done, Finished

LEMMA ResultDone ==
    ASSUME TypeOK, NEW r \in requests, HandleResult(r), Matches(r, "ACKNOWLEDGED")
    PROVE  Done' = IF r.status = "COMPLETED" THEN Done \cup {r.op} ELSE Done
  <1> DEFINE a == Ended(attempt[r.op][r.number], r.status)
  <1>1. r \in Request /\ attempt[r.op][r.number] \in Attempt
        /\ r.op \in Ops /\ r.number \in Attempts
    BY DEF TypeOK, Request
  <1>2. a \in Attempt /\ a.status = r.status
    <2>1. r.status \in CommandStatus
      BY DEF HandleResult, Outcomes, CommandStatus, Retryable
    <2> QED
      BY <1>1, <2>1, UpdateTypes
  <1>3. attempt' = Recorded(r, a)
    BY DEF HandleResult
  <1>4. attempt[r.op][r.number].status = "ACKNOWLEDGED"
    BY DEF Matches
  <1> HIDE DEF a
  <1>5. \A o \in Ops, n \in Attempts :
            attempt'[o][n].status =
                IF o = r.op /\ n = r.number THEN r.status ELSE attempt[o][n].status
    BY <1>1, <1>2, <1>3, RecordedStatuses
  <1>6. \A o \in Ops : Finished(o)' <=>
            Finished(o) \/ (o = r.op /\ r.status = "COMPLETED")
    BY <1>1, <1>4, <1>5 DEF Finished
  <1> QED
    BY <1>1, <1>6 DEF Done

LEMMA ContractStep ==
    ASSUME ContractInv, [Next]_vars
    PROVE  [Contract!Next]_(Contract!vars)
  <1> SUFFICES Contract!Next \/ UNCHANGED Seen
    BY DEF Contract!vars, Seen, Done
  <1>0. RowsInv /\ TypeOK /\ FatesInv /\ Contract!Ops = Ops /\ Contract!Active = Active
        /\ Contract!Retryable = Retryable
    BY DEF ContractInv, AppliedInv, RowsInv, Contract!Ops, Ops, Contract!Active, Active,
           Contract!Retryable, Retryable
  <1>1. ASSUME NEW s \in Scenarios, Approve(s), Done' = Done PROVE Contract!Next
    <2>1. Contract!Approve(s)
      BY <1>1 DEF Approve, rows, Contract!Approve, Done
    <2> QED
      BY <2>1 DEF Contract!Next
  <1>2. ASSUME NEW m \in Monitors, ApplyCreate(m), ~UNCHANGED rows, Done' = Done
        PROVE  Contract!Next
    <2> DEFINE s == monitor[m].of
    <2>1. s \in Scenarios /\ scenario[s] # "SUBMITTED"
      BY <1>0, <1>2, RequestNames DEF ApplyCreate, ContractInv, AsksForApproved, TypeOK
    <2>2. PICK o \in Ops :
              /\ status[o] = "NONE"
              /\ IndexAllows(o, {s}, status)
              /\ status' = [status EXCEPT ![o] = "PENDING"]
              /\ target' = [target EXCEPT ![o] = {s}]
              /\ tries' = [tries EXCEPT ![o] = 1]
              /\ UNCHANGED <<scenario, overtaken>>
      BY <1>2 DEF ApplyCreate
    <2> HIDE DEF s
    <2>3. ~Contract!SomeActive(s)
      BY <1>0, <2>2 DEF Contract!SomeActive, IndexAllows, Active
    <2>4. Contract!Create(o, s)
      BY <1>2, <2>1, <2>2, <2>3 DEF Contract!Create, Done
    <2> QED
      BY <1>0, <2>1, <2>4 DEF Contract!Next
  <1>3. ASSUME status' = ExpiredStatus, UNCHANGED <<scenario, target, tries, overtaken>>,
               Done' = Done
        PROVE  Contract!Next
    <2>1. Contract!TimeOut(Overdue) /\ Overdue \in SUBSET Contract!Ops
      BY <1>0, <1>3, ExpiryIsTimeOut DEF Contract!TimeOut, Done
    <2> QED
      BY <2>1 DEF Contract!Next
  <1>4. ASSUME NEW m \in Monitors, NEW o \in Ops, NEW due \in SUBSET Ops, NEW rowsOf,
               \A p \in due : Contract!May(p, Active),
               status[o] # "NONE",
               Contract!TimedOut(due)[o] \in Retryable \/ tries[o] > 1,
               InsertAttempt(m, o, Contract!TimedOut(due), rowsOf),
               ~UNCHANGED <<rows, todo, overtaken>>, Done' = Done
        PROVE  Contract!Next
    <2> DEFINE st == Contract!TimedOut(due)
    <2>1. /\ BudgetLeft(o) /\ IndexAllows(o, target[o], st)
          /\ status' = [st EXCEPT ![o] = "PENDING"]
          /\ tries' = [tries EXCEPT ![o] = tries[o] + 1]
          /\ overtaken' = overtaken \cup ({o} \ {p \in Ops : st[p] \in Retryable})
          /\ UNCHANGED <<target, scenario>>
      BY <1>4 DEF InsertAttempt
    <2>2. overtaken' = IF st[o] \in Retryable THEN overtaken ELSE overtaken \cup {o}
      BY <2>1
    <2>3. st[o] \in Retryable \/ (MaxRetries > 1 /\ tries[o] > 1)
      <3>1. tries[o] \in 0..(MaxRetries + 1)
        BY <1>0 DEF TypeOK
      <3> QED
        BY <1>4, <2>1, <3>1, BoundsAssumption DEF BoundsAssumption, BudgetLeft
    <2>4. Contract!Retry(o, due)
      BY <1>0, <1>4, <2>1, <2>2, <2>3 DEF BudgetLeft, IndexAllows, Contract!Retry, Done
    <2> QED
      BY <1>0, <2>4 DEF Contract!Next
  <1>5. ASSUME NEW m \in Monitors, RetryCommit(m) \/ RetryAtOnce(m),
               ~UNCHANGED <<rows, todo, overtaken>>, Done' = Done
        PROVE  Contract!Next
    <2> DEFINE o == monitor[m].of
    <2>1. o \in Ops
      BY <1>0, <1>5, RetryCases
    <2>2. \A p \in Ops : tries[p] > 0 => status[p] # "NONE"
      <3>1. \A p \in Ops : tries[p] \in Nat
        BY <1>0, BoundsAssumption DEF BoundsAssumption, TypeOK
      <3> QED
        BY <1>0, <3>1 DEF RowsInv, AttemptsAgree
    <2>3. monitor[m].phase = "loaded" =>
              status[o] # "NONE" /\ (status[o] \in Retryable \/ tries[o] > 1)
      <3>1. tries[o] \in Nat
        BY <1>0, <2>1, BoundsAssumption DEF BoundsAssumption, TypeOK
      <3> QED
        BY <1>0, <2>1, <2>2, <3>1 DEF RowsInv, LoadedInv, Retryable
    <2>4. CASE monitor[m].phase = "loaded" /\ InsertAttempt(m, o, status, attempt)
      <3>1. status = Contract!TimedOut({})
        BY <1>0, ExpiryIsTimeOut
      <3> QED
        BY <1>4, <1>5, <2>1, <2>3, <2>4, <3>1
    <2>5. CASE ~(monitor[m].phase = "loaded" /\ InsertAttempt(m, o, status, attempt))
      <3>1. /\ \/ /\ monitor[m].phase = "loaded"
                  /\ ExpiredStatus[o] = status[o]
               \/ ExpiredStatus[o] = "TIMED_OUT"
            /\ InsertAttempt(m, o, ExpiredStatus, ExpiredAttempt)
        BY <1>0, <1>5, <2>5, RetryCases
      <3>2. /\ ExpiredStatus[o] \in Retryable \/ tries[o] > 1
            /\ status[o] # "NONE"
        <4>1. ExpiredStatus[o] = "TIMED_OUT" => o \in Overdue \/ status[o] = "TIMED_OUT"
          BY <2>1 DEF ExpiredStatus
        <4> QED
          BY <1>0, <2>3, <3>1, <4>1, ExpiryIsTimeOut DEF Retryable
      <3>3. /\ ExpiredStatus = Contract!TimedOut(Overdue)
            /\ Overdue \in SUBSET Ops
            /\ \A p \in Overdue : Contract!May(p, Active)
        BY <1>0, ExpiryIsTimeOut
      <3> HIDE DEF o
      <3> QED
        BY <1>4, <1>5, <2>1, <3>1, <3>2, <3>3
    <2> QED
      BY <2>4, <2>5
  <1>6. ASSUME NEW r \in requests, HandleAck(r), ~UNCHANGED status, Done' = Done
        PROVE  Contract!Next
    <2>1. /\ Matches(r, "PENDING")
          /\ IndexAllows(r.op, target[r.op], status)
          /\ status' = [status EXCEPT ![r.op] = "ACKNOWLEDGED"]
          /\ UNCHANGED <<scenario, target, tries, overtaken>>
      BY <1>6 DEF HandleAck
    <2>2. r.op \in Ops /\ r.number \in Attempts
      BY <1>0 DEF TypeOK, Request
    <2>3. Live(r.op, r.number) /\ attempt[r.op][r.number].status = "PENDING"
      BY <2>1 DEF Matches, Live, Active
    <2>4. Contract!May(r.op, {"PENDING"})
      BY <1>0, <2>2, <2>3, LiveMay
    <2>5. Contract!Acknowledge(r.op)
      BY <1>0, <1>6, <2>1, <2>4 DEF Contract!Acknowledge, IndexAllows, Done
    <2> QED
      BY <1>0, <2>2, <2>5 DEF Contract!Next
  <1>7. ASSUME NEW r \in requests, HandleResult(r) PROVE Contract!Next \/ UNCHANGED Seen
    <2>1. CASE Matches(r, "ACKNOWLEDGED")
      <3>1. /\ status' = [status EXCEPT ![r.op] = r.status]
            /\ r.status \in {"COMPLETED", "FAILED"}
            /\ UNCHANGED <<scenario, target, tries, overtaken>>
        BY <1>7, <2>1 DEF HandleResult, Outcomes
      <3>2. r.op \in Ops /\ r.number \in Attempts
        BY <1>0 DEF TypeOK, Request
      <3>3. Live(r.op, r.number) /\ attempt[r.op][r.number].status = "ACKNOWLEDGED"
        BY <2>1 DEF Matches, Live, Active
      <3>4. Contract!May(r.op, {"ACKNOWLEDGED"})
        BY <1>0, <3>2, <3>3, LiveMay
      <3>5. Done' = IF r.status = "COMPLETED" THEN Done \cup {r.op} ELSE Done
        BY <1>0, <1>7, <2>1, ResultDone
      <3>6. CASE r.status = "COMPLETED"
        <4>1. Contract!Complete(r.op)
          BY <3>1, <3>4, <3>5, <3>6 DEF Contract!Complete, Done
        <4> QED
          BY <1>0, <3>2, <4>1 DEF Contract!Next
      <3>7. CASE r.status = "FAILED"
        <4>1. Contract!Fail(r.op)
          BY <3>1, <3>4, <3>5, <3>7 DEF Contract!Fail, Done
        <4> QED
          BY <1>0, <3>2, <4>1 DEF Contract!Next
      <3> QED
        BY <3>1, <3>6, <3>7
    <2>2. CASE ~Matches(r, "ACKNOWLEDGED")
      BY <1>7, <2>2 DEF HandleResult, Seen, Done, Finished
    <2> QED
      BY <2>1, <2>2
  <1>8. ASSUME NEW t \in todo, FinishApply(t), ~UNCHANGED scenario, Done' = Done
        PROVE  Contract!Next
    <2>1. /\ \A s \in target[t.op] : scenario[s] \in {"APPROVED", "APPLIED"}
          /\ scenario' = [s \in Scenarios |->
                 IF s \in target[t.op] THEN "APPLIED" ELSE scenario[s]]
          /\ UNCHANGED <<status, target, tries, overtaken>>
      BY <1>8 DEF FinishApply, rows
    <2>2. t.op \in Done
      BY <1>0, <1>8 DEF FinishApply, TypeOK, Todo, ContractInv, AppliedInv, OnTheWay, Done
    <2>3. scenario = [s \in Scenarios |-> scenario[s]]
      BY <1>0 DEF TypeOK
    <2>4. target[t.op] # {}
      BY <1>8, <2>1, <2>3
    <2>5. PICK s \in Scenarios : target[t.op] = {s}
      BY <2>2, <2>4 DEF ContractInv, AppliedInv, OneTarget, Done
    <2>6. scenario' = [scenario EXCEPT ![s] = "APPLIED"]
      BY <2>1, <2>3, <2>5
    <2>7. scenario[s] = "APPROVED"
      <3>1. scenario[s] # "APPLIED"
        <4> SUFFICES ASSUME scenario[s] = "APPLIED" PROVE FALSE
          OBVIOUS
        <4>1. \A p \in Scenarios : scenario'[p] = scenario[p]
          BY <2>1, <2>5
        <4>2. scenario' = [p \in Scenarios |-> scenario'[p]]
          BY <2>1
        <4> QED
          BY <1>8, <2>3, <4>1, <4>2
      <3> QED
        BY <2>1, <2>5, <3>1
    <2>8. Contract!Apply(s)
      BY <1>8, <2>1, <2>2, <2>5, <2>6, <2>7 DEF Contract!Apply, Done
    <2> QED
      BY <2>8 DEF Contract!Next
  <1>9. CASE \E r \in requests : HandleResult(r)
    BY <1>7, <1>9
  <1>10. CASE ~\E r \in requests : HandleResult(r)
    <2>0. Done' = Done
      BY <1>0, <1>10, DoneStays
    <2>1. \/ \E s \in Scenarios : Approve(s)
          \/ \E m \in Monitors : ApplyCreate(m) \/ RetryCommit(m) \/ RetryAtOnce(m)
          \/ status' = ExpiredStatus /\ UNCHANGED <<scenario, target, tries, overtaken>>
          \/ \E r \in requests : HandleAck(r)
          \/ \E t \in todo : FinishApply(t)
          \/ UNCHANGED <<scenario, status, target, tries, overtaken>>
      BY <1>10
         DEF Next, vars, rows, ApplyRead, RetryExpire, RetryLoad,
             ExpireAndNotify, Sweep, NotifyTimeout, NotifyRetry,
             BackendRestart, Poll, Lease, GiveUp, CallFleet, FleetApply,
             FleetUnavailable, PostResult, ReportResult, ReportException, Lose, Tick
    <2>2. ASSUME UNCHANGED <<scenario, status, target, tries, overtaken>>
          PROVE  UNCHANGED Seen
      BY <2>0, <2>2 DEF Seen
    <2>3. ASSUME NEW m \in Monitors, ApplyCreate(m)
          PROVE  Contract!Next \/ UNCHANGED Seen
      <3>1. CASE UNCHANGED rows
        BY <2>2, <2>3, <3>1 DEF ApplyCreate, rows
      <3> QED
        BY <1>2, <2>0, <2>3, <3>1
    <2>4. ASSUME NEW m \in Monitors, RetryCommit(m) \/ RetryAtOnce(m)
          PROVE  Contract!Next \/ UNCHANGED Seen
      <3>1. CASE UNCHANGED <<rows, todo, overtaken>>
        <4>1. UNCHANGED scenario
          BY <2>4, RetryWrites
        <4> QED
          BY <2>2, <3>1, <4>1 DEF rows
      <3> QED
        BY <1>5, <2>0, <2>4, <3>1
    <2>5. ASSUME NEW r \in requests, HandleAck(r)
          PROVE  Contract!Next \/ UNCHANGED Seen
      <3>1. CASE UNCHANGED status
        BY <2>2, <2>5, <3>1 DEF HandleAck
      <3> QED
        BY <1>6, <2>0, <2>5, <3>1
    <2>6. ASSUME NEW t \in todo, FinishApply(t)
          PROVE  Contract!Next \/ UNCHANGED Seen
      <3>1. CASE UNCHANGED scenario
        BY <2>2, <2>6, <3>1 DEF FinishApply, rows
      <3> QED
        BY <1>8, <2>0, <2>6, <3>1
    <2> QED
      BY <1>1, <1>3, <2>0, <2>1, <2>2, <2>3, <2>4, <2>5, <2>6
  <1> QED
    BY <1>9, <1>10

(* The durable command path keeps the contract it has with the scenarios,  *)
(* however many retries overtake each other: rows, leases, POSTs and       *)
(* coroutines are hidden, and what is left is created, acknowledged,       *)
(* finished, timed out and retried one step at a time, and a scenario is   *)
(* applied only once an attempt of a command for it was executed.          *)
THEOREM ContractImplemented == Spec => ImplementsContract
  <1>1. Init => Contract!Init
    <2>1. ASSUME Init PROVE {o \in Ops : Finished(o)} = {}
      BY <2>1 DEF Init, Finished, NoAttempt
    <2> QED
      BY <2>1 DEF Init, Contract!Init, Contract!Ops, Ops
  <1>2. ContractInv /\ [Next]_vars => ContractInv'
    BY ContractInvNext
  <1>3. ContractInv /\ [Next]_vars => [Contract!Next]_(Contract!vars)
    BY ContractStep
  <1> QED
    BY ContractInvInit, <1>1, <1>2, <1>3, PTL DEF Spec, ImplementsContract, Contract!Spec
=============================================================================
