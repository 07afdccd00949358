----------------------- MODULE ScenarioWorkflow_proofs -----------------------
(***************************************************************************)
(* Proofs about ScenarioWorkflow, for every set of scenarios, users and    *)
(* requests, with and without a mock factory.                              *)
(***************************************************************************)
EXTENDS ScenarioWorkflow, TLAPS

-----------------------------------------------------------------------------
(* Lemmas about requests.                                                  *)

Busy == {"deciding", "applying"} \cup Exclusive

(* A request that has read a row to change it is a Transition, and one     *)
(* that answers a request for revision is a Revision.                      *)
LEMMA RequestKinds ==
    ASSUME Types, NEW r \in Requests
    PROVE  /\ Phase(r) \in Busy => request[r] \in Transition
           /\ Phase(r) = "revising" => request[r] \in Revision
  BY DEF Types, Phase, Busy, Exclusive, Uncommitted, Transition, Revision, Idle

(* Entering a phase changes nothing but the phase.                         *)
LEMMA AtPhase ==
    ASSUME NEW q \in Transition, NEW phase \in Busy
    PROVE  /\ At(q, phase) \in Transition
           /\ At(q, phase).phase = phase
           /\ At(q, phase).of = q.of
           /\ At(q, phase).user = q.user
           /\ At(q, phase).to = q.to
           /\ At(q, phase).version = q.version
  BY DEF At, Transition, Busy

-----------------------------------------------------------------------------
(* The types, but for the bound on versions.                               *)

LEMMA TypesInit == Init => Types
  <1> SUFFICES ASSUME Init PROVE Types
    OBVIOUS
  <1>1. saved \in [layout : SUBSET Scenarios, config : SUBSET Scenarios]
    BY DEF Init
  <1>2. request \in [Requests -> Transition \cup Revision \cup {Idle}]
    BY DEF Init
  <1>3. /\ creator \in [Scenarios -> SUBSET Users]
        /\ reviewer \in [Scenarios -> SUBSET Users]
        /\ applier \in [Scenarios -> SUBSET Users]
        /\ source \in [Scenarios -> SUBSET Scenarios]
    BY DEF Init
  <1> QED
    BY <1>1, <1>2, <1>3 DEF Init, Types, Status

LEMMA InsertTypes ==
    ASSUME Types, NEW s \in Scenarios, NEW u \in Users, NEW of \in SUBSET Scenarios,
           Insert(s, u, of), request' \in [Requests -> Transition \cup Revision \cup {Idle}]
    PROVE  Types'
  BY DEF Insert, Types, Status, factory

LEMMA ReadTypes ==
    ASSUME Types, NEW r \in Requests, NEW u \in Users, NEW s \in Scenarios,
           NEW to \in Status, Read(r, u, s, to)
    PROVE  Types'
  BY DEF Read, Types, Become, Transition, row, factory

LEMMA TypesStep == Types /\ [Next]_vars => Types'
  <1> SUFFICES ASSUME Types, [Next]_vars PROVE Types'
    OBVIOUS
  <1> USE DEF row, factory
  <1>1. ASSUME NEW s \in Scenarios, NEW u \in Users, Run(s, u) PROVE Types'
    BY <1>1, InsertTypes DEF Run, Types
  <1>2. ASSUME NEW r \in Requests, NEW s \in Scenarios, RunRevision(r, s) PROVE Types'
    BY <1>2, InsertTypes, RequestKinds DEF RunRevision, Types, Revision, Become
  <1>3. ASSUME NEW r \in Requests, NEW s \in Scenarios, NEW u \in Users, ReadSource(r, u, s)
        PROVE  Types'
    BY <1>3 DEF ReadSource, Types, Become, Revision
  <1>4. ASSUME NEW r \in Requests, NEW s \in Scenarios, NEW u \in Users,
               SubmitRead(r, u, s) \/ ApplyRead(r, u, s)
                   \/ \E decision \in Decisions : ReviewRead(r, u, s, decision)
        PROVE  Types'
    BY <1>4, ReadTypes DEF SubmitRead, ApplyRead, ReviewRead, Status
  <1>5. ASSUME NEW r \in Requests, Decide(r) PROVE Types'
    BY <1>5, RequestKinds DEF Decide, Advance, Become, Types, Transition, Phase, Busy
  <1>6. ASSUME NEW r \in Requests, Refuse(r) PROVE Types'
    BY <1>6 DEF Refuse, Become, Types
  <1>7. ASSUME NEW r \in Requests,
               TakeControl(r) \/ UpdateRow(r) \/ ChangeFactory(r) \/ EndReset(r)
                   \/ Commit(r) \/ RollBack(r) \/ LoseAnswer(r) \/ Confirm(r)
                   \/ Compensate(r) \/ EndCompensation(r)
        PROVE  Types'
    <2>1. request[r] \in Transition
      BY <1>7, RequestKinds
         DEF TakeControl, UpdateRow, ChangeFactory, EndReset, Commit, RollBack,
             LoseAnswer, Confirm, Compensate, EndCompensation, Busy, Exclusive, Uncommitted
    <2>2. \A phase \in Busy : At(request[r], phase) \in Transition
      BY <2>1, AtPhase
    <2>3. request' \in [Requests -> Transition \cup Revision \cup {Idle}]
      BY <1>7, <2>2
         DEF TakeControl, UpdateRow, ChangeFactory, EndReset, Commit, RollBack,
             LoseAnswer, Confirm, Compensate, EndCompensation, Fail, Enter, Become,
             Busy, Exclusive, Uncommitted, Types
    <2>4. CASE Commit(r)
      BY <2>1, <2>3, <2>4 DEF Commit, Advance, Types, Transition
    <2>5. CASE ChangeFactory(r) \/ TakeControl(r) \/ Confirm(r) \/ Compensate(r)
      <3>1. {request[r].of} \in SUBSET Scenarios
        BY <2>1 DEF Transition
      <3>2. [layout |-> layout, config |-> config]
                \in [layout : SUBSET Scenarios, config : SUBSET Scenarios]
        BY DEF Types
      <3> QED
        BY <2>3, <2>5, <3>1, <3>2
           DEF ChangeFactory, TakeControl, Confirm, Compensate, Types
    <2>6. CASE UpdateRow(r) \/ EndReset(r) \/ RollBack(r) \/ LoseAnswer(r) \/ EndCompensation(r)
      BY <2>3, <2>6
         DEF UpdateRow, EndReset, RollBack, LoseAnswer, EndCompensation, Types
    <2> QED
      BY <1>7, <2>4, <2>5, <2>6
  <1>8. CASE SetConfig
    BY <1>8 DEF SetConfig, Types
  <1>9. CASE Restart
    <2>1. Applied \in SUBSET Scenarios
      BY DEF Applied
    <2> QED
      BY <1>9, <2>1 DEF Restart, Types
  <1>10. CASE UNCHANGED vars
    BY <1>10 DEF vars, Types
  <1> QED
    BY <1>1, <1>2, <1>3, <1>4, <1>5, <1>6, <1>7, <1>8, <1>9, <1>10 DEF Next

-----------------------------------------------------------------------------
(* What a request has read still holds where it matters.                   *)

(* The scenario a revision answers stays REVISION_REQUESTED; what is under *)
(* way in a phase is what the phase says; one apply at a time controls the *)
(* factory; an updated row stays as it was matched.                        *)
RequestsInv ==
    \A r \in Requests :
        /\ Phase(r) = "revising" =>
               /\ status[request[r].of] = "REVISION_REQUESTED"
               /\ creator[request[r].of] = {request[r].user}
        /\ Phase(r) = "deciding" => request[r].to \in Decisions \cup {"SUBMITTED"}
        /\ Phase(r) \in {"applying"} \cup Exclusive => request[r].to = "APPLIED"
        /\ Phase(r) \in Uncommitted => Matches(request[r])
        /\ \A p \in Requests :
               Phase(r) \in Exclusive /\ Phase(p) \in Exclusive => p = r

(* A row that no transaction changes keeps what requests know of it.       *)
RowKept(s) ==
    status'[s] = status[s] /\ version'[s] = version[s] /\ creator'[s] = creator[s]

LEMMA RequestsInit == Init => RequestsInv
  BY DEF Init, RequestsInv, Phase, Idle, Exclusive, Uncommitted

(* Who changes which row: an insertion a new one, a decision one it has    *)
(* matched, a commit the one of its apply.                                 *)
LEMMA WhoWritesRows ==
    ASSUME Types, RequestsInv, [Next]_vars, NEW s \in Scenarios
    PROVE  \/ RowKept(s)
           \/ \E u \in Users, of \in SUBSET Scenarios : Insert(s, u, of)
           \/ \E r \in Requests : Decide(r) /\ request[r].of = s
           \/ \E r \in Requests : Commit(r) /\ request[r].of = s
  <1> USE DEF RowKept, row
  <1>1. ASSUME NEW p \in Scenarios, NEW u \in Users, NEW of, Insert(p, u, of)
        PROVE  RowKept(s) \/ p = s
    BY <1>1 DEF Insert, Types
  <1>2. ASSUME NEW r \in Requests, Decide(r)
        PROVE  RowKept(s) \/ request[r].of = s
    BY <1>2, RequestKinds DEF Decide, Advance, Types
  <1>3. ASSUME NEW r \in Requests, Commit(r)
        PROVE  RowKept(s) \/ request[r].of = s
    BY <1>3, RequestKinds DEF Commit, Advance, Types
  <1>4. CASE \E p \in Scenarios, u \in Users : Run(p, u)
    BY <1>1, <1>4 DEF Run
  <1>5. CASE \E r \in Requests, p \in Scenarios : RunRevision(r, p)
    BY <1>1, <1>5, RequestKinds DEF RunRevision, Revision
  <1>6. CASE \E r \in Requests : Decide(r) \/ Commit(r)
    BY <1>2, <1>3, <1>6
  <1>7. ASSUME NEW r \in Requests,
               \/ \E p \in Scenarios, u \in Users :
                      \/ ReadSource(r, u, p) \/ SubmitRead(r, u, p) \/ ApplyRead(r, u, p)
                      \/ \E decision \in Decisions : ReviewRead(r, u, p, decision)
               \/ Refuse(r) \/ TakeControl(r) \/ UpdateRow(r) \/ ChangeFactory(r)
               \/ EndReset(r) \/ RollBack(r) \/ LoseAnswer(r) \/ Confirm(r)
               \/ Compensate(r) \/ EndCompensation(r)
        PROVE  RowKept(s)
    BY <1>7
       DEF ReadSource, SubmitRead, ApplyRead, ReviewRead, Read, Refuse, TakeControl,
           UpdateRow, ChangeFactory, EndReset, RollBack, LoseAnswer, Confirm,
           Compensate, EndCompensation
  <1>8. CASE SetConfig \/ Restart \/ UNCHANGED vars
    BY <1>8 DEF SetConfig, Restart, vars
  <1> QED
    BY <1>4, <1>5, <1>6, <1>7, <1>8 DEF Next

(* Who changes which request: it is over, or moved on by its own action.   *)
Targets == Decisions \cup {"SUBMITTED", "APPLIED"}
Moves(r) ==
    \/ TakeControl(r) \/ UpdateRow(r) \/ ChangeFactory(r) \/ EndReset(r)
    \/ Commit(r) \/ RollBack(r) \/ LoseAnswer(r) \/ Compensate(r)

LEMMA WhoMovesRequests ==
    ASSUME Types, [Next]_vars, NEW r \in Requests
    PROVE  \/ request'[r] = request[r]
           \/ request'[r] = Idle
           \/ \E s \in Scenarios, u \in Users :
                  \/ ReadSource(r, u, s)
                  \/ \E to \in Targets : Read(r, u, s, to)
           \/ Moves(r)
  <1> DEFINE Goal ==
          \/ request'[r] = request[r]
          \/ request'[r] = Idle
          \/ \E s \in Scenarios, u \in Users :
                 \/ ReadSource(r, u, s)
                 \/ \E to \in Targets : Read(r, u, s, to)
          \/ Moves(r)
  <1> SUFFICES Goal
    OBVIOUS
  <1>1. ASSUME NEW p \in Requests, NEW x, p # r, Become(p, x) PROVE request'[r] = request[r]
    BY <1>1 DEF Become, Types
  <1>2. ASSUME NEW p \in Requests, Become(p, Idle) PROVE Goal
    BY <1>2 DEF Become, Types
  <1>3. ASSUME NEW p \in Requests, Moves(p) PROVE Goal
    <2>1. p # r => \E x : Become(p, x)
      BY <1>3 DEF Moves, TakeControl, UpdateRow, ChangeFactory, EndReset, Commit,
                  RollBack, LoseAnswer, Compensate, Fail, Enter
    <2> QED
      BY <1>1, <1>3, <2>1
  <1>4. ASSUME NEW p \in Requests, NEW s \in Scenarios, NEW u \in Users,
               ReadSource(p, u, s) \/ \E to \in Targets : Read(p, u, s, to)
        PROVE  Goal
    <2>1. p # r => \E x : Become(p, x)
      BY <1>4 DEF ReadSource, Read
    <2> QED
      BY <1>1, <1>4, <2>1
  <1>5. ASSUME NEW p \in Requests, NEW s \in Scenarios, NEW u \in Users,
               SubmitRead(p, u, s) \/ ApplyRead(p, u, s)
                   \/ \E decision \in Decisions : ReviewRead(p, u, s, decision)
        PROVE  \E to \in Targets : Read(p, u, s, to)
    BY <1>5 DEF SubmitRead, ApplyRead, ReviewRead, Targets
  <1>6. ASSUME NEW p \in Requests,
               Decide(p) \/ Refuse(p) \/ Confirm(p) \/ EndCompensation(p)
                   \/ \E s \in Scenarios : RunRevision(p, s)
        PROVE  Goal
    BY <1>2, <1>6 DEF Decide, Refuse, Confirm, EndCompensation, RunRevision
  <1>7. ASSUME \/ \E s \in Scenarios, u \in Users : Run(s, u)
               \/ SetConfig \/ Restart \/ UNCHANGED vars
        PROVE  Goal
    BY <1>7 DEF Run, SetConfig, Restart, vars
  <1> QED
    BY <1>3, <1>4, <1>5, <1>6, <1>7 DEF Next, Moves

(* A row that waits for a revision or for the end of its apply is touched  *)
(* by nobody else.                                                         *)
LEMMA RowStays ==
    ASSUME Types, RequestsInv, [Next]_vars, NEW s \in Scenarios
    PROVE  /\ status[s] = "REVISION_REQUESTED" => RowKept(s)
           /\ status[s] = "APPROVED" =>
                  \/ RowKept(s)
                  \/ \E r \in Requests : Commit(r) /\ request[r].of = s
  <1>0. ASSUME NEW u \in Users, NEW of, Insert(s, u, of) PROVE status[s] = "NONE"
    BY <1>0 DEF Insert
  <1>1. ASSUME NEW r \in Requests, Decide(r)
        PROVE  status[request[r].of] \in {"SIMULATED", "SUBMITTED"}
    <2>1. request[r].to \in Decisions \cup {"SUBMITTED"}
      BY <1>1 DEF RequestsInv, Decide, Phase
    <2>2. status[request[r].of] = From(request[r].to)
      BY <1>1 DEF Decide, Matches
    <2> QED
      BY <2>1, <2>2 DEF From, Decisions
  <1>2. ASSUME NEW r \in Requests, Commit(r)
        PROVE  status[request[r].of] = "APPROVED"
    BY <1>2 DEF RequestsInv, Commit, Matches, From, Uncommitted, Exclusive
  <1> QED
    BY <1>0, <1>1, <1>2, WhoWritesRows

LEMMA RequestsStep == Types /\ RequestsInv /\ [Next]_vars => RequestsInv'
  <1> SUFFICES ASSUME Types, RequestsInv, [Next]_vars, NEW r \in Requests
               PROVE  /\ Phase(r)' = "revising" =>
                             /\ status'[request'[r].of] = "REVISION_REQUESTED"
                             /\ creator'[request'[r].of] = {request'[r].user}
                      /\ Phase(r)' = "deciding" =>
                             request'[r].to \in Decisions \cup {"SUBMITTED"}
                      /\ Phase(r)' \in {"applying"} \cup Exclusive =>
                             request'[r].to = "APPLIED"
                      /\ Phase(r)' \in Uncommitted => Matches(request[r])'
                      /\ \A p \in Requests :
                             Phase(r)' \in Exclusive /\ Phase(p)' \in Exclusive => p = r
    BY DEF RequestsInv
  <1>1. ASSUME NEW q \in Requests, Phase(q)' \in Exclusive
        PROVE  Phase(q) \in Exclusive \/ TakeControl(q)
    <2>1. CASE request'[q] = request[q] \/ request'[q] = Idle
      BY <1>1, <2>1 DEF Phase, Idle, Exclusive, Uncommitted
    <2>2. CASE \E s \in Scenarios, u \in Users :
                   ReadSource(q, u, s) \/ \E to \in Targets : Read(q, u, s, to)
      <3>1. Phase(q)' \in {"revising", "applying", "deciding"}
        BY <2>2 DEF ReadSource, Read, Become, Types, Phase
      <3> QED
        BY <1>1, <3>1 DEF Exclusive, Uncommitted
    <2>3. CASE Moves(q)
      BY <2>3 DEF Moves, UpdateRow, ChangeFactory, EndReset, Commit, RollBack,
                  LoseAnswer, Compensate, Exclusive, Uncommitted
    <2> QED
      BY <2>1, <2>2, <2>3, WhoMovesRequests
  <1>2. ASSUME NEW q \in Requests, NEW p \in Requests, TakeControl(q),
               Phase(p)' \in Exclusive
        PROVE  p = q
    BY <1>2 DEF TakeControl, ControlFree, Enter, Become, Types, Phase
  <1>3. ASSUME NEW p \in Requests, Phase(r)' \in Exclusive, Phase(p)' \in Exclusive
        PROVE  p = r
    BY <1>1, <1>2, <1>3 DEF RequestsInv
  <1>4. CASE request'[r] = request[r]
    <2>1. Phase(r)' = Phase(r)
      BY <1>4 DEF Phase
    <2>2. CASE Phase(r) = "revising"
      <3>1. request[r].of \in Scenarios
        BY <2>2, RequestKinds DEF Revision
      <3> QED
        BY <1>4, <2>1, <2>2, <3>1, RowStays
           DEF RequestsInv, RowKept, Exclusive, Uncommitted
    <2>3. CASE Phase(r) \in Uncommitted
      <3>1. /\ request[r].of \in Scenarios
            /\ status[request[r].of] = "APPROVED"
            /\ Matches(request[r]) /\ request[r].to = "APPLIED"
        BY <2>3, RequestKinds
           DEF RequestsInv, Matches, From, Transition, Busy, Exclusive, Uncommitted
      <3>2. ASSUME NEW p \in Requests, Commit(p) PROVE FALSE
        <4>1. p = r
          BY <2>3, <3>2 DEF RequestsInv, Commit, Exclusive, Uncommitted
        <4>2. request[r] \in Transition
          BY <2>3, RequestKinds DEF Busy, Exclusive
        <4>3. request'[r].phase = "committed"
          BY <3>2, <4>1, <4>2, AtPhase DEF Commit, Enter, Become, Types, Busy, Exclusive
        <4> QED
          BY <1>4, <2>3, <4>3 DEF Phase, Uncommitted
      <3>3. RowKept(request[r].of)
        BY <3>1, <3>2, RowStays
      <3> QED
        BY <1>3, <1>4, <2>1, <2>3, <3>1, <3>3
           DEF RowKept, Matches, Independent, From, Exclusive, Uncommitted
    <2>4. CASE Phase(r) # "revising" /\ Phase(r) \notin Uncommitted
      BY <1>3, <1>4, <2>1, <2>4 DEF RequestsInv
    <2> QED
      BY <2>2, <2>3, <2>4
  <1>5. CASE request'[r] = Idle
    BY <1>5 DEF Idle, Phase, Exclusive, Uncommitted
  <1>6. CASE \E s \in Scenarios, u \in Users : ReadSource(r, u, s)
    BY <1>6 DEF ReadSource, MayRevise, Become, Types, Phase, row, Exclusive, Uncommitted
  <1>7. CASE \E s \in Scenarios, u \in Users, to \in Targets : Read(r, u, s, to)
    <2> PICK s \in Scenarios, u \in Users, to \in Targets : Read(r, u, s, to)
      BY <1>7
    <2> QED
      BY DEF Read, Become, Types, Phase, Exclusive, Uncommitted, Targets
  <1>8. CASE Moves(r)
    <2>1. request[r] \in Transition /\ request[r].to = "APPLIED"
      BY <1>8, RequestKinds
         DEF RequestsInv, Moves, TakeControl, UpdateRow, ChangeFactory, EndReset, Commit,
             RollBack, LoseAnswer, Compensate, Busy, Exclusive, Uncommitted
    <2>2. CASE RollBack(r) \/ LoseAnswer(r)
      <3>1. (Phase(r)' = "failed" /\ request'[r].to = "APPLIED") \/ request'[r] = Idle
        BY <2>1, <2>2, AtPhase
           DEF RollBack, LoseAnswer, Fail, Enter, Become, Types, Phase, Busy, Exclusive
      <3> QED
        BY <1>3, <1>5, <3>1 DEF Exclusive, Uncommitted
    <2>3. CASE TakeControl(r) \/ Commit(r) \/ Compensate(r)
      <3>1. Phase(r)' \in {"locked", "committed", "restoring"} /\ request'[r].to = "APPLIED"
        BY <2>1, <2>3, AtPhase
           DEF TakeControl, Commit, Compensate, Enter, Become, Types, Phase, Busy, Exclusive
      <3> QED
        BY <1>3, <3>1 DEF Exclusive, Uncommitted
    <2>4. CASE UpdateRow(r) \/ ChangeFactory(r) \/ EndReset(r)
      <3>1. /\ Phase(r)' \in Uncommitted \cup {"failed"}
            /\ request'[r].to = "APPLIED"
            /\ request'[r].of = request[r].of
            /\ request'[r].user = request[r].user
            /\ request'[r].version = request[r].version
        BY <2>1, <2>4, AtPhase
           DEF UpdateRow, ChangeFactory, EndReset, Enter, Become, Types, Phase, Busy,
               Exclusive, Uncommitted
      <3>2. Matches(request[r])
        BY <2>4 DEF UpdateRow, ChangeFactory, EndReset, RequestsInv, Uncommitted
      <3>3. UNCHANGED <<status, version, creator>>
        BY <2>4 DEF UpdateRow, ChangeFactory, EndReset, row
      <3> QED
        BY <1>3, <2>1, <3>1, <3>2, <3>3
           DEF Matches, Independent, From, Exclusive, Uncommitted
    <2> QED
      BY <1>8, <2>2, <2>3, <2>4 DEF Moves
  <1> QED
    BY <1>4, <1>5, <1>6, <1>7, <1>8, WhoMovesRequests

-----------------------------------------------------------------------------
(* The workflow implements its contract.                                   *)

LEMMA ContractInit == Init => Contract!Init
  BY DEF Init, Contract!Init

(* Every step is a step of the contract, or one it does not see.           *)
LEMMA ContractStep ==
    Types /\ RequestsInv /\ [Next]_vars => [Contract!Next]_(Contract!vars)
  <1> SUFFICES ASSUME Types, RequestsInv, [Next]_vars
               PROVE  Contract!Next \/ UNCHANGED Contract!vars
    OBVIOUS
  <1> USE DEF Contract!vars, row
  <1>1. ASSUME NEW s \in Scenarios, NEW u \in Users, Run(s, u) PROVE Contract!Next
    <2>1. Contract!Run(s, u, {})
      BY <1>1 DEF Run, Insert, Contract!Run
    <2> QED
      BY <2>1 DEF Contract!Next
  <1>2. ASSUME NEW r \in Requests, NEW s \in Scenarios, RunRevision(r, s)
        PROVE  Contract!Next
    <2>1. request[r].of \in Scenarios /\ request[r].user \in Users
      BY <1>2, RequestKinds DEF RunRevision, Revision
    <2>2. Contract!Run(s, request[r].user, {request[r].of})
      BY <1>2 DEF RunRevision, Insert, RequestsInv, Contract!Run
    <2> QED
      BY <2>1, <2>2 DEF Contract!Next
  <1>3. ASSUME NEW r \in Requests, Decide(r) PROVE Contract!Next
    <2>1. /\ request[r] \in Transition
          /\ request[r].to \in Decisions \cup {"SUBMITTED"}
      BY <1>3, RequestKinds DEF Decide, RequestsInv, Phase, Busy
    <2>2. request[r].of \in Scenarios /\ request[r].user \in Users
      BY <2>1 DEF Transition
    <2>3. CASE request[r].to = "SUBMITTED"
      <3>1. Contract!Submit(request[r].of)
        BY <1>3, <2>3 DEF Decide, Advance, Matches, From, Contract!Submit
      <3> QED
        BY <2>2, <3>1 DEF Contract!Next
    <2>4. CASE request[r].to \in Decisions
      <3>1. Contract!Review(request[r].of, request[r].user, request[r].to)
        BY <1>3, <2>4
           DEF Decide, Advance, Matches, From, Independent, Decisions, Contract!Review
      <3> QED
        BY <2>2, <2>4, <3>1 DEF Contract!Next, Decisions, Contract!Decisions
    <2> QED
      BY <2>1, <2>3, <2>4
  <1>4. ASSUME NEW r \in Requests, Commit(r) PROVE Contract!Next
    <2>1. /\ request[r] \in Transition
          /\ request[r].to = "APPLIED"
          /\ Matches(request[r])
      BY <1>4, RequestKinds DEF Commit, RequestsInv, Phase, Busy, Exclusive, Uncommitted
    <2>2. request[r].of \in Scenarios /\ request[r].user \in Users
      BY <2>1 DEF Transition
    <2>3. Contract!Apply(request[r].of, request[r].user)
      BY <1>4, <2>1 DEF Commit, Advance, Matches, From, Independent, Contract!Apply
    <2> QED
      BY <2>2, <2>3 DEF Contract!Next
  <1>5. ASSUME NEW r \in Requests,
               \/ \E p \in Scenarios, u \in Users :
                      \/ ReadSource(r, u, p) \/ SubmitRead(r, u, p) \/ ApplyRead(r, u, p)
                      \/ \E decision \in Decisions : ReviewRead(r, u, p, decision)
               \/ Refuse(r) \/ TakeControl(r) \/ UpdateRow(r) \/ ChangeFactory(r)
               \/ EndReset(r) \/ RollBack(r) \/ LoseAnswer(r) \/ Confirm(r)
               \/ Compensate(r) \/ EndCompensation(r)
        PROVE  UNCHANGED Contract!vars
    BY <1>5
       DEF ReadSource, SubmitRead, ApplyRead, ReviewRead, Read, Refuse, TakeControl,
           UpdateRow, ChangeFactory, EndReset, RollBack, LoseAnswer, Confirm,
           Compensate, EndCompensation
  <1>6. CASE SetConfig \/ Restart \/ UNCHANGED vars
    BY <1>6 DEF SetConfig, Restart, vars
  <1> QED
    BY <1>1, <1>2, <1>3, <1>4, <1>5, <1>6 DEF Next

LEMMA TypesAndRequests == Spec => [](Types /\ RequestsInv)
  <1>1. Init => Types /\ RequestsInv
    BY TypesInit, RequestsInit
  <1>2. Types /\ RequestsInv /\ [Next]_vars => (Types /\ RequestsInv)'
    BY TypesStep, RequestsStep
  <1> QED
    BY <1>1, <1>2, PTL DEF Spec

(* Although a request reads in one transaction and writes in another, and  *)
(* an apply changes the factory between its update and its commit, what    *)
(* users see of a scenario changes as the contract says.                   *)
THEOREM ContractImplemented == Spec => ImplementsContract
  <1>1. Init => Contract!Init
    BY ContractInit
  <1>2. Types /\ RequestsInv /\ [Next]_vars => [Contract!Next]_(Contract!vars)
    BY ContractStep
  <1> QED
    BY <1>1, <1>2, TypesAndRequests, PTL DEF Spec, ImplementsContract, Contract!Spec

-----------------------------------------------------------------------------
(* Decisions stand.                                                        *)

(* Who reviewed or applied is known only once that has happened.           *)
ActorsInv ==
    \A s \in Scenarios :
        /\ reviewer[s] # {} => status[s] \in Decisions \cup {"APPLIED"}
        /\ applier[s] # {} => status[s] = "APPLIED"

LEMMA ActorsStep ==
    ASSUME Types, ActorsInv, [Contract!Next]_(Contract!vars)
    PROVE  ActorsInv' /\ \A s \in Scenarios : Stands(s)
  <1> USE DEF Types, ActorsInv, Stands
  <1>1. ASSUME NEW p \in Scenarios, NEW u \in Users, NEW of, Contract!Run(p, u, of)
        PROVE  ActorsInv' /\ \A s \in Scenarios : Stands(s)
    BY <1>1 DEF Contract!Run, Decisions
  <1>2. ASSUME NEW p \in Scenarios, Contract!Submit(p)
        PROVE  ActorsInv' /\ \A s \in Scenarios : Stands(s)
    BY <1>2 DEF Contract!Submit, Decisions
  <1>3. ASSUME NEW p \in Scenarios, NEW u \in Users, NEW decision \in Contract!Decisions,
               Contract!Review(p, u, decision)
        PROVE  ActorsInv' /\ \A s \in Scenarios : Stands(s)
    BY <1>3 DEF Contract!Review, Decisions, Contract!Decisions
  <1>4. ASSUME NEW p \in Scenarios, NEW u \in Users, Contract!Apply(p, u)
        PROVE  ActorsInv' /\ \A s \in Scenarios : Stands(s)
    BY <1>4 DEF Contract!Apply, Decisions
  <1>5. CASE UNCHANGED Contract!vars
    BY <1>5 DEF Contract!vars
  <1> QED
    BY <1>1, <1>2, <1>3, <1>4, <1>5 DEF Contract!Next

(* No request, however late, overwrites what a reviewer or an applier did. *)
THEOREM DecisionsFinal == Spec => DecisionsStand
  <1>1. Init => ActorsInv
    BY DEF Init, ActorsInv
  <1>2. Types /\ RequestsInv /\ ActorsInv /\ [Next]_vars
            => ActorsInv' /\ [\A s \in Scenarios : Stands(s)]_<<status, reviewer, applier>>
    BY ContractStep, ActorsStep
  <1> QED
    BY <1>1, <1>2, TypesAndRequests, PTL DEF Spec, DecisionsStand

-----------------------------------------------------------------------------
(* Versions count transitions.                                             *)

LEMMA VersionsInit == Init => VersionTracksStatus
  BY DEF Init, VersionTracksStatus, Steps, Phase, Idle, Exclusive, Uncommitted

LEMMA VersionsStep ==
    ASSUME Types, RequestsInv, VersionTracksStatus, [Next]_vars
    PROVE  VersionTracksStatus'
  <1>1. ASSUME NEW s \in Scenarios
        PROVE  version'[s] = Steps(status'[s]) /\ version[s] <= version'[s]
    <2>1. version[s] = Steps(status[s]) /\ version[s] \in Nat
      BY DEF VersionTracksStatus, Types
    <2>2. CASE RowKept(s)
      BY <2>1, <2>2 DEF RowKept
    <2>3. ASSUME NEW u, NEW of, Insert(s, u, of)
          PROVE  version'[s] = Steps(status'[s]) /\ version[s] <= version'[s]
      BY <2>1, <2>3 DEF Insert, Types, Steps
    <2>4. ASSUME NEW r \in Requests, Advance(request[r]), Matches(request[r]),
                 request[r] \in Transition, request[r].to \in Targets
          PROVE  version'[s] = Steps(status'[s]) /\ version[s] <= version'[s]
      <3>1. CASE request[r].of = s
        <4>1. status[s] = From(request[r].to) /\ status'[s] = request[r].to
          BY <2>4, <3>1 DEF Advance, Matches, Types
        <4>2. version'[s] = version[s] + 1
          BY <2>4, <3>1 DEF Advance, Types
        <4>3. Steps(request[r].to) = Steps(From(request[r].to)) + 1
          BY <2>4 DEF Steps, From, Targets, Decisions
        <4> QED
          BY <2>1, <4>1, <4>2, <4>3
      <3>2. CASE request[r].of # s
        BY <2>1, <2>4, <3>2 DEF Advance, Types
      <3> QED
        BY <3>1, <3>2
    <2>5. ASSUME NEW r \in Requests, Decide(r) \/ Commit(r)
          PROVE  /\ Advance(request[r]) /\ Matches(request[r])
                 /\ request[r] \in Transition /\ request[r].to \in Targets
      BY <2>5, RequestKinds
         DEF Decide, Commit, RequestsInv, Phase, Busy, Exclusive, Uncommitted, Targets
    <2> QED
      BY <2>2, <2>3, <2>4, <2>5, WhoWritesRows
  <1>2. ASSUME NEW r \in Requests, NEW q \in Transition,
               q.version = Steps(From(q.to)), q.version <= version[q.of],
               request'[r].of = q.of, request'[r].to = q.to, request'[r].version = q.version
        PROVE  /\ request'[r].version = Steps(From(request'[r].to))
               /\ request'[r].version <= version'[request'[r].of]
    <2>1. /\ q.version \in Nat /\ version[q.of] \in Nat /\ version'[q.of] \in Nat
          /\ version[q.of] <= version'[q.of]
      BY <1>1, TypesStep DEF Transition, Types
    <2> QED
      BY <1>2, <2>1
  <1>3. ASSUME NEW r \in Requests, Phase(r)' \in Busy
        PROVE  /\ request'[r].version = Steps(From(request'[r].to))
               /\ request'[r].version <= version'[request'[r].of]
    <2>1. CASE request'[r] = request[r]
      <3>1. Phase(r) \in Busy
        BY <1>3, <2>1 DEF Phase
      <3>2. /\ request[r] \in Transition
            /\ request[r].version = Steps(From(request[r].to))
            /\ request[r].version <= version[request[r].of]
        BY <3>1, RequestKinds DEF VersionTracksStatus, Busy
      <3> QED
        BY <1>2, <2>1, <3>2
    <2>2. CASE request'[r] = Idle
      BY <1>3, <2>2 DEF Phase, Idle, Busy, Exclusive, Uncommitted
    <2>3. CASE \E s \in Scenarios, u \in Users : ReadSource(r, u, s)
      BY <1>3, <2>3 DEF ReadSource, Become, Types, Phase, Busy, Exclusive, Uncommitted
    <2>4. CASE \E s \in Scenarios, u \in Users, to \in Targets : Read(r, u, s, to)
      <3> PICK s \in Scenarios, u \in Users, to \in Targets : Read(r, u, s, to)
        BY <2>4
      <3>1. /\ request'[r].of = s /\ request'[r].to = to
            /\ request'[r].version = version[s]
        BY DEF Read, Become, Types
      <3>2. version[s] = Steps(From(to)) /\ version[s] \in Nat /\ version'[s] = version[s]
        BY DEF Read, VersionTracksStatus, Types, row
      <3> QED
        BY <3>1, <3>2
    <2>5. CASE Moves(r)
      <3>1. Phase(r) \in Busy
        BY <2>5 DEF Moves, TakeControl, UpdateRow, ChangeFactory, EndReset, Commit,
                    RollBack, LoseAnswer, Compensate, Busy, Exclusive, Uncommitted
      <3>2. /\ request[r] \in Transition
            /\ request[r].version = Steps(From(request[r].to))
            /\ request[r].version <= version[request[r].of]
        BY <3>1, RequestKinds DEF VersionTracksStatus, Busy
      <3>3. request'[r] = Idle \/ \E phase \in Busy : request'[r] = At(request[r], phase)
        BY <2>5 DEF Moves, TakeControl, UpdateRow, ChangeFactory, EndReset, Commit,
                    RollBack, LoseAnswer, Compensate, Fail, Enter, Become, Types,
                    Busy, Exclusive, Uncommitted
      <3> QED
        BY <1>2, <2>2, <3>2, <3>3, AtPhase
    <2> QED
      BY <2>1, <2>2, <2>3, <2>4, <2>5, WhoMovesRequests
  <1> QED
    BY <1>1, <1>3 DEF VersionTracksStatus, Busy, Phase

(* A request whose version is the row's has seen the row as it is.         *)
THEOREM VersionsCorrect == Spec => []VersionTracksStatus
  <1>1. Types /\ RequestsInv /\ VersionTracksStatus /\ [Next]_vars => VersionTracksStatus'
    BY VersionsStep
  <1> QED
    BY <1>1, VersionsInit, TypesAndRequests, PTL DEF Spec

(* The variables have their types; versions stay below 5 because they      *)
(* count the transitions.                                                  *)
THEOREM TypeCorrect == Spec => []TypeOK
  <1>1. Types /\ VersionTracksStatus => TypeOK
    BY DEF Types, VersionTracksStatus, TypeOK, Steps
  <1> QED
    BY <1>1, VersionsCorrect, TypesAndRequests, PTL

(* The row of an open apply transaction is as it matched it, and the apply *)
(* is alone with the factory.                                              *)
THEOREM UpdatedRowsMatch == Spec => []UpdatedRowMatches
  <1>1. Types /\ RequestsInv => UpdatedRowMatches
    BY DEF RequestsInv, UpdatedRowMatches, Matches, Independent, From, Exclusive,
           Uncommitted, Phase
  <1> QED
    BY <1>1, TypesAndRequests, PTL

-----------------------------------------------------------------------------
(* The factory follows the scenario applied last.                          *)

(* applied_at is set by applies alone, and later ones set later times.     *)
TimesInv == \A s \in Scenarios : appliedAt[s] <= clock

(* What the factory runs and what compensation would put back, by phase of *)
(* the apply.  Only a commit whose answer was lost makes them wrong.       *)
Settled == layout = Applied /\ config \in {{}, Applied}
Restorable == saved.layout = Applied /\ saved.config \in {{}, Applied}
FactoryOf(r) ==
    /\ MockEnabled /\ ~inDoubt /\ Phase(r) \in {"locked", "updated"} => Settled
    /\ MockEnabled /\ ~inDoubt /\ Phase(r) \in Exclusive \ {"committed"} => Restorable
    /\ MockEnabled /\ Phase(r) \in {"resetting", "reset", "committed"}
           => layout = {request[r].of} /\ config = {request[r].of}
    /\ MockEnabled /\ Phase(r) = "restoring"
           => layout = saved.layout /\ config = saved.config
    /\ Phase(r) = "committed" => Applied = {request[r].of}
FactoryInv ==
    /\ MockEnabled /\ ~inDoubt /\ ControlFree => Settled
    /\ \A r \in Requests : FactoryOf(r)

LEMMA FactoryInit == Init => TimesInv /\ FactoryInv
  BY DEF Init, TimesInv, FactoryInv, FactoryOf, Settled, Applied, Phase, Idle, Exclusive, Uncommitted

(* Only a commit changes which scenario was applied last.                  *)
LEMMA AppliedKept ==
    ASSUME Types, RequestsInv, [Next]_vars, ~ \E r \in Requests : Commit(r)
    PROVE  Applied' = Applied /\ appliedAt' = appliedAt /\ clock' = clock
  <1>1. appliedAt' = appliedAt /\ clock' = clock
    <2>1. CASE \E r \in Requests, s \in Scenarios, u \in Users :
                   \/ ReadSource(r, u, s) \/ SubmitRead(r, u, s) \/ ApplyRead(r, u, s)
                   \/ \E decision \in Decisions : ReviewRead(r, u, s, decision)
      <3>1. ASSUME NEW r, NEW s, NEW u, NEW next, Read(r, s, u, next)
            PROVE  UNCHANGED row
        BY <3>1 DEF Read
      <3>2. PICK r \in Requests, s \in Scenarios, u \in Users :
                   \/ ReadSource(r, u, s) \/ SubmitRead(r, u, s) \/ ApplyRead(r, u, s)
                   \/ \E decision \in Decisions : ReviewRead(r, u, s, decision)
        BY <2>1
      <3>3. UNCHANGED row
        BY <3>1, <3>2 DEF ReadSource, SubmitRead, ApplyRead, ReviewRead
      <3> QED
        BY <3>3 DEF row
    <2>4. CASE \E r \in Requests : Refuse(r) \/ TakeControl(r) \/ UpdateRow(r)
      <3>1. UNCHANGED row
        BY <2>4 DEF Refuse, TakeControl, UpdateRow
      <3> QED
        BY <3>1 DEF row
    <2>5. CASE \E r \in Requests : ChangeFactory(r) \/ EndReset(r) \/ RollBack(r)
      <3>1. UNCHANGED row
        BY <2>5 DEF ChangeFactory, EndReset, RollBack
      <3> QED
        BY <3>1 DEF row
    <2>6. CASE \E r \in Requests : LoseAnswer(r) \/ Confirm(r) \/ Compensate(r) \/ EndCompensation(r)
      <3>1. UNCHANGED row
        BY <2>6 DEF LoseAnswer, Confirm, Compensate, EndCompensation
      <3> QED
        BY <3>1 DEF row
    <2>2. CASE \/ \E s \in Scenarios, u \in Users : Run(s, u)
               \/ \E r \in Requests : Decide(r) \/ \E s \in Scenarios : RunRevision(r, s)
      BY <2>2 DEF Run, RunRevision, Insert, Decide
    <2>3. CASE SetConfig \/ Restart \/ UNCHANGED vars
      BY <2>3 DEF SetConfig, Restart, vars, row
    <2> QED
      BY <2>1, <2>2, <2>3, <2>4, <2>5, <2>6 DEF Next
  <1>2. ASSUME NEW s \in Scenarios
        PROVE  status'[s] = "APPLIED" <=> status[s] = "APPLIED"
    <2>1. ASSUME NEW u, NEW of, Insert(s, u, of)
          PROVE  status[s] = "NONE" /\ status'[s] = "SIMULATED"
      BY <2>1 DEF Insert, Types
    <2>2. ASSUME NEW r \in Requests, Decide(r), request[r].of = s
          PROVE  status[s] # "APPLIED" /\ status'[s] # "APPLIED"
      <3>1. request[r].to \in Decisions \cup {"SUBMITTED"}
        BY <2>2 DEF RequestsInv, Decide, Phase
      <3>2. status[s] = From(request[r].to) /\ status'[s] = request[r].to
        BY <2>2 DEF Decide, Matches, Advance, Types
      <3> QED
        BY <3>1, <3>2 DEF From, Decisions
    <2> QED
      BY <2>1, <2>2, WhoWritesRows DEF RowKept
  <1> QED
    BY <1>1, <1>2 DEF Applied

(* A commit makes its scenario the one applied last.                       *)
LEMMA CommitApplies ==
    ASSUME Types, RequestsInv, TimesInv, NEW r \in Requests, Commit(r)
    PROVE  Applied' = {request[r].of} /\ TimesInv'
  <1>1. request[r] \in Transition /\ request[r].to = "APPLIED"
    BY RequestKinds DEF Commit, RequestsInv, Busy, Exclusive, Uncommitted
  <1> DEFINE s == request[r].of
  <1>2. /\ s \in Scenarios /\ status'[s] = "APPLIED"
        /\ appliedAt'[s] = clock + 1 /\ clock' = clock + 1 /\ clock \in Nat
    BY <1>1 DEF Commit, Advance, Types, Transition
  <1>3. ASSUME NEW p \in Scenarios, p # s
        PROVE  appliedAt'[p] \in Nat /\ appliedAt'[p] <= clock
    BY <1>2, <1>3 DEF Commit, Types, TimesInv
  <1> HIDE DEF s
  <1>4. s \in Applied'
    <2>1. \A p \in Scenarios : appliedAt'[p] <= appliedAt'[s]
      BY <1>2, <1>3
    <2> QED
      BY <1>2, <2>1 DEF Applied
  <1>5. ASSUME NEW p \in Applied' PROVE p = s
    <2>1. p \in Scenarios /\ appliedAt'[s] <= appliedAt'[p]
      BY <1>2, <1>5 DEF Applied
    <2> QED
      BY <1>2, <1>3, <2>1
  <1>6. TimesInv'
    BY <1>2, <1>3 DEF TimesInv
  <1>7. Applied' = {s}
    BY <1>4, <1>5
  <1> QED
    BY <1>6, <1>7 DEF s

LEMMA TimesStep == Types /\ RequestsInv /\ TimesInv /\ [Next]_vars => TimesInv'
  BY AppliedKept, CommitApplies DEF TimesInv

(* While one apply controls the factory, it alone matters; when it is done *)
(* the factory is free.                                                    *)
LEMMA OneExclusive ==
    ASSUME Types, RequestsInv, NEW r \in Requests, Phase(r) \in Exclusive,
           NEW x, Become(r, x)
    PROVE  /\ \A p \in Requests : p # r => Phase(p)' \notin Exclusive
           /\ request'[r] = x
           /\ x = Idle => ControlFree'
  <1>1. \A p \in Requests : p # r => request'[p] = request[p]
    BY DEF Become, Types
  <1>2. request'[r] = x
    BY DEF Become, Types
  <1>3. \A p \in Requests : p # r => Phase(p)' \notin Exclusive
    BY <1>1 DEF RequestsInv, Phase
  <1>4. x = Idle => Phase(r)' \notin Exclusive
    BY <1>2 DEF Phase, Idle, Exclusive, Uncommitted
  <1> QED
    BY <1>2, <1>3, <1>4 DEF ControlFree

(* What one step of the apply in control must establish.                   *)
LEMMA FactoryStepOfApply ==
    ASSUME Types, RequestsInv, FactoryInv, NEW r \in Requests, Phase(r) \in Exclusive,
           NEW x, Become(r, x),
           \/ x = Idle /\ (MockEnabled /\ ~inDoubt' => Settled')
           \/ x.phase \in Exclusive /\ FactoryOf(r)'
    PROVE  FactoryInv'
  <1>1. ASSUME NEW p \in Requests, Phase(p)' \notin Exclusive PROVE FactoryOf(p)'
    BY <1>1 DEF FactoryOf, Exclusive, Uncommitted
  <1>2. CASE x = Idle /\ (MockEnabled /\ ~inDoubt' => Settled')
    <2>1. ControlFree'
      BY <1>2, OneExclusive
    <2> QED
      BY <1>1, <1>2, <2>1 DEF FactoryInv, ControlFree
  <1>3. CASE x.phase \in Exclusive /\ FactoryOf(r)'
    <2>1. Phase(r)' \in Exclusive
      BY <1>3, OneExclusive DEF Phase
    <2>2. \A p \in Requests : p # r => Phase(p)' \notin Exclusive
      BY OneExclusive
    <2> QED
      BY <1>1, <1>3, <2>1, <2>2 DEF FactoryInv, ControlFree
  <1> QED
    BY <1>2, <1>3

LEMMA FactoryStep ==
    ASSUME Types, RequestsInv, TimesInv, FactoryInv, [Next]_vars
    PROVE  FactoryInv'
  <1>0. clock' = clock => Applied' = Applied
    <2>1. ASSUME NEW r \in Requests, Commit(r) PROVE clock' # clock
      BY <2>1 DEF Commit, Types
    <2> QED
      BY <2>1, AppliedKept
  <1> USE DEF Exclusive, Uncommitted
  <1>1. ASSUME NEW r \in Requests, TakeControl(r) PROVE FactoryInv'
    <2>1. Phase(r)' = "locked" /\ Phase(r) = "applying"
      <3>1. request[r] \in Transition
        BY <1>1, RequestKinds DEF TakeControl, Busy
      <3> QED
        BY <1>1, <3>1, AtPhase DEF TakeControl, Enter, Become, Types, Phase, Busy
    <2>2. \A p \in Requests : p # r => Phase(p)' \notin Exclusive
      BY <1>1 DEF TakeControl, ControlFree, Enter, Become, Types, Phase
    <2>3. MockEnabled /\ ~inDoubt => Settled' /\ Restorable'
      BY <1>0, <1>1 DEF TakeControl, FactoryInv, Settled, Restorable, row, factory
    <2> QED
      BY <1>1, <2>1, <2>2, <2>3 DEF TakeControl, FactoryInv, FactoryOf, ControlFree
  <1>2. ASSUME NEW r \in Requests,
               \/ UpdateRow(r) \/ ChangeFactory(r) \/ EndReset(r) \/ Commit(r)
               \/ RollBack(r) \/ LoseAnswer(r) \/ Confirm(r)
               \/ Compensate(r) \/ EndCompensation(r)
        PROVE  FactoryInv'
    <2>1. Phase(r) \in Exclusive /\ FactoryOf(r) /\ request[r] \in Transition
      BY <1>2, RequestKinds
         DEF UpdateRow, ChangeFactory, EndReset, Commit, RollBack, LoseAnswer, Confirm,
             Compensate, EndCompensation, FactoryInv, Busy
    <2>2. ASSUME NEW x, Become(r, x),
                 \/ x = Idle /\ (MockEnabled /\ ~inDoubt' => Settled')
                 \/ x.phase \in Exclusive /\ FactoryOf(r)'
          PROVE  FactoryInv'
      BY <2>1, <2>2, FactoryStepOfApply
    <2>3. ASSUME NEW phase \in Exclusive, Enter(r, phase)
          PROVE  /\ Phase(r)' = phase /\ request'[r].of = request[r].of
                 /\ FactoryOf(r)' => FactoryInv'
      <3>1. /\ At(request[r], phase).phase = phase
            /\ At(request[r], phase).of = request[r].of
        BY <2>1, AtPhase DEF Busy
      <3> QED
        BY <2>2, <2>3, <3>1 DEF Enter, Become, Types, Phase
    <2> USE DEF Settled, Restorable, FactoryOf, row, factory
    <2>4. CASE UpdateRow(r)
      BY <1>0, <2>1, <2>3, <2>4 DEF UpdateRow
    <2>5. CASE ChangeFactory(r)
      BY <1>0, <2>1, <2>3, <2>5 DEF ChangeFactory
    <2>6. CASE EndReset(r)
      BY <1>0, <2>1, <2>3, <2>6 DEF EndReset
    <2>7. CASE Commit(r)
      <3>1. Phase(r)' = "committed" /\ request'[r].of = request[r].of
        BY <2>3, <2>7 DEF Commit
      <3>2. Applied' = {request[r].of}
        BY <2>7, CommitApplies
      <3>3. MockEnabled => layout' = {request[r].of} /\ config' = {request[r].of}
        BY <2>1, <2>7 DEF Commit
      <3>4. FactoryOf(r)'
        BY <3>1, <3>2, <3>3
      <3> QED
        BY <2>3, <2>7, <3>4 DEF Commit
    <2>8. CASE RollBack(r)
      BY <1>0, <2>1, <2>2, <2>3, <2>8 DEF RollBack, Fail
    <2>9. CASE LoseAnswer(r)
      BY <1>0, <2>1, <2>2, <2>3, <2>9 DEF LoseAnswer, Fail
    <2>10. CASE Confirm(r)
      BY <1>0, <2>1, <2>2, <2>10 DEF Confirm
    <2>11. CASE Compensate(r)
      BY <1>0, <2>1, <2>3, <2>11 DEF Compensate
    <2>12. CASE EndCompensation(r)
      BY <1>0, <2>1, <2>2, <2>12 DEF EndCompensation
    <2> QED
      BY <1>2, <2>4, <2>5, <2>6, <2>7, <2>8, <2>9, <2>10, <2>11, <2>12
  <1>3. ASSUME NEW r \in Requests, NEW x, Become(r, x), Phase(r) \notin Exclusive,
               x.phase \notin Exclusive, clock' = clock, UNCHANGED <<factory, saved, inDoubt>>
        PROVE  FactoryInv'
    <2>1. \A p \in Requests : request'[p] = request[p] \/ Phase(p)' \notin Exclusive
      BY <1>3 DEF Become, Types, Phase
    <2>2. ControlFree' <=> ControlFree
      BY <1>3 DEF Become, Types, Phase, ControlFree
    <2>3. ASSUME NEW p \in Requests PROVE FactoryOf(p)'
      BY <1>0, <1>3, <2>1 DEF FactoryInv, FactoryOf, Settled, Restorable, Phase, factory
    <2> QED
      BY <1>0, <1>3, <2>2, <2>3 DEF FactoryInv, Settled, factory
  <1>4. ASSUME NEW r \in Requests,
               \/ \E s \in Scenarios, u \in Users :
                      \/ ReadSource(r, u, s) \/ SubmitRead(r, u, s) \/ ApplyRead(r, u, s)
                      \/ \E decision \in Decisions : ReviewRead(r, u, s, decision)
               \/ Decide(r) \/ \E s \in Scenarios : RunRevision(r, s)
        PROVE  FactoryInv'
    <2>1. CASE \E s \in Scenarios, u \in Users : ReadSource(r, u, s)
      BY <1>3, <2>1 DEF ReadSource, row, Phase, Idle
    <2>2. ASSUME NEW s \in Scenarios, NEW u \in Users, NEW to \in Status, Read(r, u, s, to)
          PROVE  FactoryInv'
      <3>1. \E x : Become(r, x) /\ x.phase \notin Exclusive
        BY <2>2 DEF Read
      <3> QED
        BY <1>3, <2>2, <3>1 DEF Read, row, Phase, Idle
    <2>3. CASE Decide(r)
      BY <1>3, <2>3 DEF Decide, Phase, Idle
    <2>4. CASE \E s \in Scenarios : RunRevision(r, s)
      BY <1>3, <2>4 DEF RunRevision, Insert, Idle
    <2> QED
      BY <1>4, <2>1, <2>2, <2>3, <2>4 DEF SubmitRead, ApplyRead, ReviewRead, Status
  <1>5. ASSUME NEW r \in Requests, Refuse(r) PROVE FactoryInv'
    <2>1. CASE Phase(r) \notin Exclusive
      BY <1>3, <1>5, <2>1 DEF Refuse, row, Idle
    <2>2. CASE Phase(r) = "locked"
      BY <1>0, <1>5, <2>2, FactoryStepOfApply
         DEF Refuse, FactoryInv, FactoryOf, Settled, row, factory
    <2> QED
      BY <1>5, <2>1, <2>2 DEF Refuse
  <1>6. CASE SetConfig
    BY <1>0, <1>6 DEF SetConfig, FactoryInv, FactoryOf, Settled, ControlFree, Phase, row
  <1>7. CASE Restart
    <2>1. \A p \in Requests : Phase(p)' \notin Exclusive
      BY <1>7 DEF Restart, Phase, Idle
    <2> QED
      BY <1>0, <1>7, <2>1 DEF Restart, FactoryInv, FactoryOf, Settled, row
  <1>8. CASE UNCHANGED vars \/ \E s \in Scenarios, u \in Users : Run(s, u)
    <2>1. clock' = clock /\ UNCHANGED <<request, layout, config, saved, inDoubt>>
      BY <1>8 DEF vars, Run, Insert, factory
    <2> QED
      BY <1>0, <2>1 DEF FactoryInv, FactoryOf, Settled, Restorable, ControlFree, Phase
  <1> QED
    BY <1>1, <1>2, <1>4, <1>5, <1>6, <1>7, <1>8 DEF Next

(* The congestion layout, too: only an unconfirmed commit parts the two.   *)
LEMMA HealthStep ==
    ASSUME Types, RequestsInv, TimesInv, FactoryInv, HealthFollowsApplied, [Next]_vars
    PROVE  HealthFollowsApplied'
  <1>0. clock' = clock => Applied' = Applied
    <2>1. ASSUME NEW r \in Requests, Commit(r) PROVE clock' # clock
      BY <2>1 DEF Commit, Types
    <2> QED
      BY <2>1, AppliedKept
  <1> USE DEF HealthFollowsApplied
  <1>1. ASSUME NEW r \in Requests, Commit(r) PROVE Phase(r)' = "committed"
    BY <1>1, RequestKinds, AtPhase
       DEF Commit, Enter, Become, Types, Phase, Busy, Exclusive, Uncommitted
  <1>2. ASSUME NEW r \in Requests, Confirm(r) PROVE HealthFollowsApplied'
    BY <1>0, <1>2 DEF Confirm, FactoryInv, FactoryOf, row
  <1>3. ASSUME NEW r \in Requests, LoseAnswer(r) PROVE HealthFollowsApplied'
    BY <1>3 DEF LoseAnswer
  <1>4. CASE Restart
    BY <1>0, <1>4 DEF Restart, row
  <1>5. ASSUME clock' = clock, health' = health, inDoubt' = inDoubt,
               \A r \in Requests : Phase(r) = "committed" => Phase(r)' = "committed"
        PROVE  HealthFollowsApplied'
    BY <1>0, <1>5
  <1>6. ASSUME NEW r \in Requests, Phase(r) # "committed", NEW x, Become(r, x),
               clock' = clock, health' = health, inDoubt' = inDoubt
        PROVE  HealthFollowsApplied'
    BY <1>5, <1>6 DEF Become, Types, Phase
  <1>7. ASSUME NEW r \in Requests,
               \/ \E s \in Scenarios, u \in Users :
                      \/ ReadSource(r, u, s) \/ SubmitRead(r, u, s) \/ ApplyRead(r, u, s)
                      \/ \E decision \in Decisions : ReviewRead(r, u, s, decision)
               \/ \E s \in Scenarios : RunRevision(r, s)
        PROVE  HealthFollowsApplied'
    <2>1. CASE \E s \in Scenarios, u \in Users : ReadSource(r, u, s)
      BY <1>6, <2>1 DEF ReadSource, row, Phase, Idle
    <2>2. ASSUME NEW s \in Scenarios, NEW u \in Users, NEW to \in Status, Read(r, u, s, to)
          PROVE  HealthFollowsApplied'
      <3>1. \E x : Become(r, x)
        BY <2>2 DEF Read
      <3> QED
        BY <1>6, <2>2, <3>1 DEF Read, row, Phase, Idle
    <2>3. CASE \E s \in Scenarios : RunRevision(r, s)
      BY <1>6, <2>3 DEF RunRevision, Insert
    <2> QED
      BY <1>7, <2>1, <2>2, <2>3 DEF SubmitRead, ApplyRead, ReviewRead, Status
  <1>8. ASSUME NEW r \in Requests,
               \/ Decide(r) \/ Refuse(r) \/ TakeControl(r) \/ UpdateRow(r)
               \/ ChangeFactory(r) \/ EndReset(r) \/ RollBack(r)
               \/ Compensate(r) \/ EndCompensation(r)
        PROVE  HealthFollowsApplied'
    BY <1>6, <1>8 DEF Decide, Refuse, TakeControl, UpdateRow, ChangeFactory, EndReset,
                      RollBack, Compensate, EndCompensation, Enter, Fail, row, Phase
  <1>9. CASE SetConfig \/ UNCHANGED vars \/ \E s \in Scenarios, u \in Users : Run(s, u)
    BY <1>5, <1>9 DEF SetConfig, vars, Run, Insert, row, Phase
  <1> QED
    BY <1>1, <1>2, <1>3, <1>4, <1>7, <1>8, <1>9 DEF Next

LEMMA FactoryCorrect == Spec => [](TimesInv /\ FactoryInv)
  <1>1. Types /\ RequestsInv /\ TimesInv /\ FactoryInv /\ [Next]_vars
            => TimesInv' /\ FactoryInv'
    BY TimesStep, FactoryStep
  <1> QED
    BY <1>1, FactoryInit, TypesAndRequests, PTL DEF Spec

(* Whatever fails, is refused or crashes on the way, between applies the   *)
(* factory runs the scenario applied last, unless a commit's answer was    *)
(* lost.                                                                   *)
THEOREM FactoryCompensated == Spec => []FactoryFollowsApplied
  <1>1. FactoryInv => FactoryFollowsApplied
    BY DEF FactoryInv, FactoryFollowsApplied, Settled
  <1> QED
    BY <1>1, FactoryCorrect, PTL

(* Congestion is judged by the layout of the scenario applied last.        *)
THEOREM HealthInformed == Spec => []HealthFollowsApplied
  <1>1. Init => HealthFollowsApplied
    BY DEF Init, HealthFollowsApplied, Applied
  <1>2. /\ Types /\ RequestsInv /\ TimesInv /\ FactoryInv
        /\ HealthFollowsApplied /\ [Next]_vars
        => HealthFollowsApplied'
    BY HealthStep
  <1> QED
    BY <1>1, <1>2, FactoryCorrect, TypesAndRequests, PTL DEF Spec
=============================================================================
