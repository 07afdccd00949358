# EV-Factory-Twin: TLA+ models and proofs

EV-Factory-Twin is a digital twin of an electric-vehicle factory: a FastAPI
backend over PostgreSQL (Supabase), a Next.js frontend fed by REST and
WebSocket, a ROS 2 workspace with a Gazebo factory, and an edge bridge that is
the only link between the two. This directory holds TLA+ models of its
concurrent parts, TLC configurations that check them on small instances, and
TLAPS proofs for every instance. Two backend components and four frontend
components are modelled; section 12 says what is not, and why.

Paths below are relative to the repository root; `services/`, `api/`, `core/`
and `schemas/` are under `apps/backend/src/ev_twin_api/`; `app/`, `components/`,
`hooks/`, `lib/` and `stores/` under `apps/frontend/src/`.

## 1. Inventory

| Component | State | Operations | Talks to |
|---|---|---|---|
| Apply-command lifecycle, `services/command_service.py`, migration `20260822000400` | tables `commands`, `command_attempts`; a sweep task | apply, retry, lease, acknowledge, result, expire, list, get | scenario workflow, runtime health, audit, WebSocket; edge bridge over HTTP |
| Edge bridge, `ros2_ws/src/telemetry_bridge` | one active command, newest sample per robot, delivery workers | poll, acknowledge, call fleet, post result; queue and deliver telemetry, tasks, health | backend (HTTP), Fleet Manager (ROS service) |
| Scenario workflow, `services/scenario_service.py`, `scenario_repository.py` | `scenarios` rows with a version; baseline cache | run, submit, approve, reject, request revision, complete apply | mock factory, layouts, audit |
| Client synchronisation, `lib/websocket-client.ts`, `hooks/use-factory-socket.ts`, `stores/factory-store.ts` | socket, buffers, snapshot request, pause; the store | connect, authenticate, synchronise, receive, pause, resume, reconnect | backend REST and WebSocket; browser session |
| Browser session, `components/auth/auth-provider.tsx`, `lib/api-client.ts`, `middleware.ts` | user, access token, generation, two latches | hydrate, log in, log out, expire, revoke, refresh | Supabase client (external), `GET /auth/me`, router |
| Application shell, `components/layout`, `components/onboarding`, `components/ui/toast.tsx` | menu, tool, toasts, tour step | open, close, navigate, dismiss, time out | browser session, local storage |
| Scenario and command pages, `app/scenarios/page.tsx`, `app/commands/page.tsx` | candidate, revision source, layout, queue, active action, comparison | load, run, optimise, submit, review, apply, retry, compare | backend REST, store, `command.updated` |
| Layout editor, `app/layouts/page.tsx`, `components/layout/layout-zone-editor.tsx`, `lib/layout-diff.ts` | draft, selected version, drawing modes, busy | edit stations, routes, zones; load, save, rename, archive | layouts backend |
| Layouts backend, `services/layout_service.py` | immutable versions of layouts | create, add version, rename, archive, list | scenario workflow |
| Mock factory, `services/mock_factory.py` and its services | robots, stations, tasks, alerts, metrics; control lock, tick task | start, stop, reset, configure, apply layout, tick | WebSocket, KPI writer |
| Telemetry ingress and persistence | newest timestamp per robot; batch queue and writer task | ingest, flush, stop | WebSocket, database, runtime health |
| Runtime health, `services/runtime_health.py` | last-seen times, active conditions, congestion keys; sweep task | note telemetry, health, command timeout; sweep | alert history, WebSocket |
| Task manager, Fleet Manager, navigation, `ros2_ws/src` | tasks with attempts, robot reservations, goals, batteries, apply cache | create, dispatch, feedback, finish, retry, navigate, override, apply scenario | each other (actions, services), bridge (topics) |
| WebSocket manager, JWT/JWKS, KPI writer, audit log, application start and stop | connections; key set and cooldown; writer task; append-only rows | register, broadcast; verify, refresh; snapshot; record; lifespan | all |
| Simulation, optimisation, twin core, 3D scene, Gazebo launch, scripts | none that is shared | pure computations, rendering, tooling | |

What is hard in each, and what makes it correct:

- **Commands.** Two HTTP requests, a sweep, a polling bridge and late POSTs
  work on two tables in separate transactions; PostgreSQL runs at READ
  COMMITTED; after a commit a coroutine still alerts, audits and broadcasts,
  and may be interrupted. Correct: one command in progress per scenario; the
  two tables agree; a scenario is applied only if the fleet executed it;
  finished attempts are immutable; every command ends.
- **Scenarios.** Review races on a version; applying changes the in-memory
  factory before the database commits and is compensated on failure. Correct:
  terminal states stay, the factory and the applied scenario agree.
- **Mock factory.** Control operations against the tick task. Correct: a robot
  has one task, a task one robot, batteries stay in range.
- **Telemetry.** Locks released before broadcasts, batches in flight at
  shutdown, bounded retries. Correct: no older sample replaces a newer one,
  nothing accepted is written twice.
- **Runtime health.** State read before an await and written after it, a sweep
  that iterates over what others insert. Correct: an alert is active exactly
  while its condition holds; the sweep goes on.
- **Task execution.** Timeouts against late results, cancellation, feedback of
  an earlier attempt. Correct: a robot executes one goal; a task ends once.
- **Client synchronisation.** Snapshot and events arrive in any order, buffers
  are bounded, connections break, the operator pauses. Correct: a snapshot never
  overwrites what came after it, nothing received is lost, LIVE means connected,
  and in the end the store equals the backend.
- **Browser session.** Answers of superseded requests, signals of the identity
  client and of other tabs, ends of a session that overlap. Correct: the user
  shown is the one signed in, every end of a session is heard, nobody is left on
  a page that leads nowhere.
- **Scenario pages.** Copies of rows, answers and events in any order; state
  used after an await. Correct: what is compared, revised and reported
  is what the page shows; no button stays disabled for ever.
- **Layout editor.** Drawing modes, a draft that answers replace, ids that are
  generated, a map that renders whatever is typed. Correct: one drawing at a
  time, routes that stay valid, an exact comparison of revisions.

Every hazard is in `PROJECT.json` at its line, with the properties that guard it
or the reason why none does.

## 2. Modules

| Module | Content | Checked and proved |
|---|---|---|
| `CommandLifecycle` | command path over PostgreSQL, bridge, apply service | implements `CommandContract`; every safety property proved in `CommandLifecycle_proofs`; liveness by TLC |
| `ScenarioWorkflow` | review state machine, versions, `complete_apply` with compensation, factory configuration | implements `ScenarioContract`; every property proved in `ScenarioWorkflow_proofs` |
| `ClientSync` | WebSocket, snapshot, pause, reconnect and the store of one browser | types and the implementation of `LiveViewContract` proved in `ClientSync_proofs`; that nothing received is lost and that LIVE means connected too, for every connection that is not `astray`; liveness by TLC |
| `AuthSession`, `ApplicationShell` | the session of one tab; the frame that is mounted around it | safety proved in `AuthSession_proofs`; liveness by TLC |
| `ScenariosPage` | the scenario and the command page with the store they share | busy flags proved in `ScenariosPage_proofs`, everything else in `ScenariosCopies_proofs` |
| `LayoutEditor` | the layout editor, its map, its requests, and the comparison of versions | every property proved in `LayoutEditor_proofs` |

`MCCommandLifecycle`, `MCScenarioWorkflow`, `MCClientSync`, `MCAuthSession`,
`MCScenariosPage` and `MCLayoutEditor` hold the constants of the runs.
`NumberFacts` has the facts about sets of numbers that several proofs cite
(`ClientSync_proofs`, `ScenariosCopies_proofs`, `LayoutEditor_proofs`).

How they meet. The first two meet in `complete_apply`, which `FinishApply` of
`CommandLifecycle` calls: what that module knows of a scenario is the part
`ScenarioWorkflow` describes. `ApplicationShell` extends `AuthSession` and
composes with every step of it (`FollowTour`, `FollowShell`). `ClientSync` sees
the session from the other side: `NewToken`, `ProfileChanged`, `Restored` and
`EndSession` are what `AuthSession` does to the mounted page. `ScenariosPage`
sees scenarios and commands as histories that only grow along the transitions of
the two contracts; it does not instantiate them, because a review by somebody
else is one step there.

## 3. CommandLifecycle

### State

| Variable | Code |
|---|---|
| `scenario` | `scenarios.status`, the part commands can see |
| `status`, `target`, `tries` | the `commands` row: status, scenario, number of its attempt rows |
| `attempt` | the `command_attempts` rows: status, `leased_by`, deadline, acknowledged or not |
| `alert` | ACTIVE `COMMAND_TIMEOUT` alerts in the runtime history |
| `todo` | what a backend coroutine still does after its commit |
| `monitor` | open apply and retry requests, and how far each has got |
| `bridge` | what `_poll_command` / `_on_apply_result` of each bridge is doing |
| `requests` | acknowledgement and result POSTs the backend has not read, or may read again |
| `fleet` | `FleetManager._apply_results` |
| `overtaken` | history, read by no guard: commands to which a retry gave another attempt although the last one had not ended |

### Actions

One action is one database transaction, or one callback of the bridge or the
fleet, with everything it does: `ApplyRead`/`ApplyCreate`, `RetryExpire`,
`RetryLoad`, `RetryCommit`, `RetryAtOnce`, `Sweep`, `Poll`, `Lease`,
`HandleAck`, `HandleResult`. `NotifyTimeout`, `NotifyRetry` and `FinishApply` are
the work after a commit; `BackendRestart` discards all of it. `CallFleet`,
`FleetUnavailable`, `FleetApply`, `ReportResult`, `ReportException` and `GiveUp`
are the edge; `Lose` and the choice in `Consume` are the network; `Tick` is
time.

Points where a reader may want the reasons:

- *Retry takes one or two steps.* `retry` calls `_expire` and then `_load`,
  which issues two SELECTs without locking. If its `_expire` timed this command
  out, the locks of its rows hold every other retry of it until it commits: one
  step (`RetryAtOnce`). Otherwise, whether its `_expire` updated the rows of
  other commands or none, other transactions can commit between the two SELECTs:
  `RetryLoad` reads the status, `RetryCommit` counts the attempts as they are by
  then. Any number of requests may be open (`Monitors`): FastAPI serves retries
  concurrently.
- *A lease* locks the first free attempt of the oldest command, and hands out the
  command's last one (`command.attempts[-1]`, `:521`). They are the same unless a
  retry has overtaken another and left two PENDING attempts.
- *COMPLETED comes first.* The row is COMPLETED by the commit of
  `repository.result`; `scenarios.get` and `complete_apply` follow in `FinishApply`,
  which may fail or be lost by a restart, and then nothing repeats it (section 10).
- *Failures.* Every write of a request may also do nothing (`UNCHANGED rows`):
  the unique index, the primary key, or the database refuses.
- *Time* is relative. `ttl` counts down to the deadline: `lease_expires_at` of a
  leased attempt, `updated_at + timeout_seconds` of one that nobody leased;
  hence every update of the command row restarts the latter (`Touched`).
- *Identity.* A command's UUID is its rank by creation time, which is the order
  `lease` serves.

### Left out

The payload and its comparison with the running fleet (a free outcome in
`FleetApply`); the audit and broadcast of created, acknowledged, retried, failed and
completed commands, which nothing reads back; roles, and that the creator may not
apply (which is in `ScenarioWorkflow`); an HTTP client that keeps waiting after
its time limit: giving up and being answered late is `Lease`, `Lose`,
`GiveUp`. `Approve` is the environment.

## 4. ScenarioWorkflow

### State

| Variable | Code |
|---|---|
| `status`, `version`, `creator`, `reviewer`, `applier`, `source`, `appliedAt` | the columns of a `scenarios` row (`source` is `revision_of`) |
| `clock` | the time of the latest apply, to tell which `applied_at` is the latest |
| `request` | what each open request has read, and how far it has got |
| `layout`, `config` | `FactoryState._layout` and `MockFactory.config`: whose they are |
| `saved` | `previous_layout`, `previous_config` of `_apply_exclusively` |
| `health` | `RuntimeHealthService._applied_layout` |
| `inDoubt` | the latest apply committed, but the backend was told otherwise |

### Actions

| Actions | Code |
|---|---|
| `Run`; `ReadSource`, `RunRevision` | `run`, without and with `revision_of` |
| `SubmitRead`, `ReviewRead`, `ApplyRead` | the first transaction and the early returns of `submit`, `_review`, `complete_apply` |
| `Decide`, `Refuse` | `transition` for a submit or a review, and its failures |
| `TakeControl` ... `EndCompensation` | `_apply_exclusively` from await to await |
| `SetConfig` | `POST /mock/config` |
| `Restart` | the process dies; `lifespan` sets the new one up |

The phases of an apply are `applying`, `locked` (it holds the control lock),
`updated`, `resetting`, `reset` (it holds the row lock, too), `committed`, and
on the way back `failed`, `restoring`.

Points where a reader may want the reasons:

- *Two transactions.* A request is decided on a row that it read in an earlier
  transaction; the UPDATE repeats status, version and actor. Between the two any
  other request may commit. `Decide` is one transaction: nothing observable
  happens between its UPDATE and its commit. An apply is not, because it changes
  the factory while its transaction is open.
- *Two locks.* `ControlFree` is the asyncio lock of the mock factory, which
  serialises applies and operators' commands; `RowFree` is PostgreSQL's lock on
  a row that an open transaction has updated, which also holds reviews.
- *Lost answers.* A commit can succeed although the backend sees it fail
  (`LoseAnswer`). The backend then compensates: the scenario is APPLIED and the
  factory has the old layout again. No backend can know better, so the two
  properties about the factory and the congestion layout exclude it by
  `inDoubt`, until the next confirmed apply or restart.

### Left out

Benchmark results, names, notes, the route within a layout; the audit events,
which are part of the transactions; manual start, stop and reset, which change
neither layout nor configuration; the in-memory
repository. The actor of an apply is whoever requested the command.

Worth knowing: a `reset` that raises (the alert sink, the database) has stopped
the tick task, and the reset of the compensation, which finds it stopped, does
not start it again.

## 5. ClientSync

One browser, from the page load to the end of its session. The backend is a log
of changes, and a value is the position in the log of the change that wrote it:
"newer" is ">", and a value can neither be confused with another nor repeated.

| State | Code |
|---|---|
| `log` | what the backend has published on `/ws/factory`, and what its REST endpoints answer from |
| `page` | what `DataProvider` and `ApplicationFrame` show: loading, an error with Retry, the pages, the restoring of a session, or the login |
| `client.view`, `status`, `paused` | `stores/factory-store.ts` |
| `client.socket`, `pos`, `pending`, `timer` | `FactorySocket`: state of the connection, what it has read, `pendingEvents`, `reconnectTimer` |
| `client.fetch`, `buffered`, `held`, `incomplete`, `snapshot`, `recovery` | the closure of `useFactorySocket`: `activeSynchronization` and who awaits it, `bufferedEvents`, `pausedEvents`, `pausedBufferIncomplete`, `pausedSnapshot`, `recoveryRequested` |
| `client.attempted`, `refreshing` | `refreshAttemptedForToken`, and an awaited `refreshSession` |
| `astray` | history, read by no code: on this connection one of the three steps of `Strays` happened (below) |

| Actions | Code |
|---|---|
| `Publish`, `Register`, `Serve` | the backend: an event, `manager.register`, one request of a snapshot |
| `AuthOk`, `Deliver`, `AuthTimeout`, `Dropped`, `Rejected`, `ProfileChanged`, `ReconnectTimer` | the handlers of `FactorySocket`, by the close code |
| `Loaded`, `ReadAgain`, `Commit`, `Defer`, `FetchFails` | the end of a snapshot: first load, overtaken by a reset, applied, kept while paused, failed |
| `Pause`, `Resume`, `Reconnect`, `RetryLoad` | the operator's buttons |
| `NewToken`, `Restored`, `EndSession` | what the session does to the effect of the hook |

Points where a reader may want the reasons:

- *One task is one action.* JavaScript runs a task with the promise
  continuations it resolves before the next one. The functions of the hook are
  operators on the record `client` (`Synchronize`, `Receive`, `RequestRecovery`,
  `FinishAuthentication`), so that a task may call several of them in order.
- *Generations* are not needed: `AbortController.abort` rejects the pending
  requests at once, and their continuations run in the same task.
- *A snapshot is several requests.* Each key is read at its own time (`Serve`),
  so a snapshot may mix values that never held together.
- *A closing socket* hands over nothing more; its `onclose` comes when it comes
  (`Closing`), unless the operator has replaced the socket first.
- *Registration.* That the backend answers `auth.ok` and registers the
  connection (`api/websocket.py:130-152`) is one step, `Register`. The module
  does not describe what an event published between the two does.
- *Astray.* There are three steps after which the code loses track of what a
  paused view holds back: a snapshot whose events are put behind events held
  before (`Defer`, `use-factory-socket.ts:114`), a Resume after an overflow that
  joins a read already under way (`:78-81`, `:197-201`), and a Reconnect that
  keeps what the old connection has left (`websocket-client.ts:152-166`).
  `astray` remembers such a step until the connection ends, whose `onclose`
  empties the buffers, or the effect of the hook does. It guards no action: the code goes
  on, and all that follows is explored. The properties say what holds when none
  of the three happened, and `client_paused` what happens otherwise.

Left out: the contents of events and their parsing, wording of the banner, the
freshness indicator, backoff times.

## 6. AuthSession and ApplicationShell

`AuthSession` is one tab's `AuthProvider` with the login form, the middleware
and the API client's handler of 401; `ApplicationShell` extends it by what
`ApplicationFrame` mounts with the pages.

| State | Code |
|---|---|
| `issued`, `stored`, `expired`, `inactive` | the sessions that Supabase has issued, the one in the cookies, the tokens and accounts that the backend refuses (external) |
| `tab.user`, `token`, `loading`, `error` | the state of `AuthProvider`, and the access token that `lib/api-client.ts` sends |
| `tab.ending`, `leaving` | `expirationInProgressRef`, `logoutInProgressRef` |
| `tab.hydrations` | `GET /auth/me` under way; `current` is "its generation is still `generationRef.current`" |
| `tab.calls`, `requests`, `going`, `submitting` | awaited calls of the Supabase client, API requests, `router.replace`, the login form |
| `tour`, `done` | the onboarding tour and its keys in the local storage |
| `shell` | the page shown, the navigation menu, the tool of the overview, the toasts |

The actions: `InitialSession`, `GotSession`, `Refreshed`, `RefreshFails`,
`SignedIn`, `SignInFails`, `SignedOut` are the continuations after an awaited
call; `NewSession`, `SessionRemoved`, `Refocused` are signals of the client that
nobody asked for; `Hydrated`, `HydrationExpired`, `HydrationForbidden`,
`HydrationFails` are the answers of `GET /auth/me`, 401 and 403 among them;
`RequestEnds` and `SocketRejected` are how a page learns that its session is
over; `Submit`, `Logout`, `Retry`, `Arrive`, `Reload` are the user and the
router. `TakeTour`, `PressMenu`, `PressTool`, `Visit`, `Escape`, `AddToast`,
`ToastTimer` and `CloseToast` are the shell; every step of `AuthSession` carries
`FollowTour` and `FollowShell`, the mounting and unmounting that follows from it.

Points where a reader may want the reasons:

- *The Supabase client* holds a lock while it signs out, so no other call of any
  tab ends meanwhile (`SigningOut`). That is an assumption on the library.
- *A click and a key* differ: a press with the pointer also closes the menu or
  tool that it is not in (`Pressed`), a key does not (`Activated`).
- *The tour* is mounted here as soon as there is a user; in the code the first
  load of the factory comes in between. The focus trap is not modelled.
- *Where a login leads* (`returnTo`, the default route of a role) is the overview
  here.

Worth knowing, without a property that says otherwise: a 401 for a request that
carried an old token ends the newer session that has replaced it
(`lib/api-client.ts:81`), although `docs/adr/0004-supabase-auth-rbac.md:58-60`
says that sessions otherwise remain active until logout; a 403 that arrives
while `expirationInProgressRef` is set leaves "Restoring secure session"
(`auth-provider.tsx:105`; `LoadingEnds` excludes it); when a `router.replace`
crosses a sign-out (`:97`, `:215`) the page stays at "Redirecting to login…";
a login whose hydration is superseded reports a profile error (`:244`); toasts
survive a sign-out, so that the next user of the tab sees them.

## 7. ScenariosPage

Two pages of one tab, with the store that they share. The backend keeps for each
scenario the history of its status, and for each command its own history, the
scenario it applies and the `updated_at` of every entry; a copy of a row is
the number of entries it has seen, so that an older copy is a smaller number. A
scenario may have several commands, one after the other: after FAILED or
TIMED_OUT it can be applied anew, or the command retried, as the unique index
allows (`InProgress`). The page shows the one that was updated last, as far as the
store knows (`LatestOf`, for `latestCommandForScenario`).

| State | Code |
|---|---|
| `status`, `layout`, `applied`, `mine` | the backend's scenarios, as histories (external to the pages) |
| `command`, `target`, `updated`, `clock` | its commands: history, `scenario_id`, `updated_at` of every entry, and the latest of them all |
| `tab.scenarios`, `commands` | `stores/factory-store.ts` |
| `tab.candidate`, `source`, `selected`, `layouts`, `queue`, `loading`, `action`, `dialog` | the hooks of `app/scenarios/page.tsx` and `app/commands/page.tsx` |
| `tab.awaited`, `linked` | the `Promise.all` of `loadPage` |
| `tab.optimizing`, `recommended`; `open`, `compared`; `guided` | `OptimizationPanel`; `LayoutComparison`; `NextActionStrip` |
| `tab.calls` | the open requests: `live` is FALSE once the component that awaits them is gone or no longer wants them |

A request is sent by the user's action (`RunScenario`, `SubmitScenario`,
`ReviewScenario`, `ApplyScenario`, `Retry`, `Optimize`, `StartRevision`,
`ChooseLayout`, ...), served (`ServeAction`, `ServeOptimization`, `ServeRead`)
and delivered (`Deliver`, `CallFails`), in any order with others. `Handle` and
`HandleFailure` are the continuations, by the kind of request. `Rendered` adds
what React does after every task: the effect that re-reads the list when the
candidate's command is COMPLETED (`Watch`), and the one that loads the layouts
of the comparison (`Compare`). `Others` and `Bridge` are other users and the
edge: COMPLETED is committed first, and the scenario becomes APPLIED in a later
step or never (`command_service.py:537-548`); `CommandUpdated` and `FactoryReset`
are the WebSocket.

Abstractions: the backend serves a review, an apply or a retry in one step, and
`max_retries` is 1 at most, because the page asks for 1 (`page.tsx:365`), with which
retries cannot overtake each other (`RaceNeedsBudget`; requests served in several
steps are what `CommandLifecycle` and `ScenarioWorkflow` are about); there are at
most as many commands as scenarios; two requests
that are alike count as one; the baseline and the list of layouts stand with the
request they are awaited together with; two updates of commands are at least
1 ms apart, and `updated_at` follows the order of the commits; a request that a full reload cancels takes effect before it or never; the
optimiser searches the layout that is selected; the fields of the form are
abstracted, and of its validation only the missing layout is kept.

Worth knowing, without a property that says otherwise: the apply dialog acts on
whatever the candidate is by then; a late `selectLayout` answer or "Refresh
scenarios" replaces the layout under a prepared revision and keeps its source
(`page.tsx:173-208`); a `getScenarios` answer may overwrite newer rows; the
linked candidate is taken from a list that may be older; an optimisation result
is dropped when the layout changes (`page.tsx:507`), and an optimisation that
fails half-way leaves its scenarios; the strip's link on `/scenarios` itself
changes the URL only, because the queue is read in `loadPage`, unlike
`docs/changes/workflow-guidance-p0.md:35-36`; `designerAction`'s default calls a
scenario that was returned for revision rejected (`lib/workflow.ts:143-147`).

## 8. LayoutEditor

| State | Code |
|---|---|
| `versions`, `archived` | the rows of `layouts` and `layout_versions` |
| `page.draft`, `selected`, `named`, `layouts`, `busy` | the hooks of `app/layouts/page.tsx` |
| `page.zoneDrawing`, `routeDrawing`, `routeDraft`, `route` | the drawing modes, and the route that is selected |
| `page.dragging`, `dialog`, `crashed` | `draggingStationId` of the map; the archive dialog; an exception while rendering |
| `calls` | the open requests; a save awaits its answer and then a refresh of the list |

The actions are the editor's callbacks under their names in the code
(`MoveStation`, `AddRoute`, `RemoveSelectedRoute`, `UpdateRouteEndpoint`,
`StartZoneDrawing`, `FinishZoneDrawing`, ...), the pointer on the map
(`ClickMap`, `PressStation`, `DragStation`, `ReleasePointer`), the requests
(`LoadLayout`, `Save`, `Rename`, `Archive`, `Reload`), the backend (`Read`,
`Store`, `Change`, `Refuse`) and `Deliver`. `DiffLayoutContent` is
`lib/layout-diff.ts`, which shows a reviewer what a revision changes.

Abstractions: the plane is a line (a point is in the factory if it is no further
than the factory is wide); stations are fixed, as in the editor; one pointer;
other users do not edit; highlight, measuring and panning are left out; the
backend may refuse more than `Accepts` says (zones that overlap).

Worth knowing, without a property that says otherwise:

- the `useMemo` of the preview (`page.tsx:169-176`) throws while rendering when
  a station or a waypoint lies outside the footprint or the name is blank: the
  page goes down and the draft is lost (`Rendered`, `crashed`), although
  `page.tsx:711` reads "Preview pauses while the draft is invalid.";
- the answer to a rename that arrives after another tab was chosen selects the
  renamed layout under the other one's draft (`page.tsx:503`), and Save then
  stores it there; the archive dialog's target may change in the same way;
- a refresh that fails after a save was stored is reported as a failed save
  (`:482-491`), and repeating it stores a second revision;
- the answer to a slow save or load overwrites a newer draft; the end of one
  call enables the buttons while another is open;
- a drawing whose route is changed, or whose first station moves, keeps its
  first point (`StaleDrawing`, which `RoutesStayJoined` excludes).

## 9. Abstract specifications

`ScenarioContract` is the workflow without versions, transactions and factory:
each step reads and writes a scenario at one instant, whoever decides or applies
is not the creator, and only the creator of a candidate answers a request to
revise it. `ScenarioWorkflow` implements it under the identity on `status`,
`creator`, `reviewer`, `applier` and `source`.

`CommandContract` has no attempts, leases, bridges or HTTP. It promises that a
scenario has at most one command in progress, that only failed or timed-out
commands are retried and within the budget, that only an acknowledged command
ends, and that a scenario is applied only if an attempt of one of its commands was
executed. For a command with a retry that overtook another, which takes a budget
of two, it promises only the first, the budget and the last.
`CommandLifecycle` implements it under the identity on `scenario`, `status`,
`target`, `tries` and `overtaken`, with `executed` the commands that have a
COMPLETED attempt (`ImplementsContract`, any number of requests), which is proved
too.

`LiveViewContract` has no sockets, snapshots or buffers: the view shows past
values of the factory, and nothing in it changes while the operator has paused
it. `ClientSync` implements it with `view <- client.view` and
`frozen <- page = "ready" /\ client.paused`. That a paused view stands still is
what `docs/changes/improve-ux-cp4-pause-live-updates.md` asks for; it has to
survive snapshots, resets, reconnects and new tokens.

## 10. Runs

| Run | Bounds | Shows |
|---|---|---|
| `command_one` | 1 command, 1 retry, 1 bridge, 1 open request, deadline 2 ticks | both tables agree; a scenario is applied only if executed; the bridge executes only what the backend acknowledged; finished attempts and COMPLETED commands stay; every command ends |
| `command_race` | 2 open requests, 1 bridge, deadline 1 tick; 1 command with 2 retries, one POST and one coroutine in flight, or 2 commands of one scenario and 1 retry of the first, one POST or one coroutine in flight | one command in progress per scenario; a retry overtakes another only with a third attempt; with overtaking retries attempts are numbered without a gap and agree with every other command; a scenario is applied only if executed; implements `CommandContract` |
| `command_retry_race` | 2 open requests, 2 retries | *violated*: finding 1 |
| `command_silent_timeout` | as `command_one`, deadline 1 tick | *violated*: finding 2 |
| `command_stale_alert` | as `command_one`, deadline 1 tick | *violated*: finding 3 |
| `command_late_apply` | 2 commands, no retries | *violated*: finding 4 |
| `scenario_workflow` | 3 scenarios, 2 users, 2 open requests, mock factory | versions prevent lost updates; decisions stand; factory and congestion layout follow the scenario applied last; implements `ScenarioContract` |
| `client_live` | 2 keys, 3 events, buffers of 1; 3 closes, or 2 resets with a close, a failure and a refresh, or a pause with a close, a failure and a refresh, or 2 pauses with a reset and a failure | unless the connection is astray, nothing received is lost or shown in the wrong order; LIVE means connected; implements `LiveViewContract`; the view catches up |
| `client_paused` | 1 key, 3 events, buffers of 2, 1 reset, 1 pause | *violated*: finding 5 |
| `auth_session` | 2 accounts, 2 sessions, 1 API request, 1 toast; two acts of the outside world, failures or acts in the shell | the user shown is the one signed in; every end of a session is heard; who loses the user is led on; loading ends; tour, menu and tools go with their page |
| `scenarios_page` | 2 scenarios, 2 layouts, 1 retry, 5 open requests; two clicks, or a click with two choices, or a click with an act of others and a failure | two commands, of two scenarios or of one: what the page compares, revises and reports; no page or button waits for nothing; progress goes back only for a newer command |
| `layout_editor` | 1 station of each type, 2 routes, 1 zone of each kind, 2 layouts; two edits, drawings or requests, with and without a failure | one drawing at a time; routes stay valid and joined; the comparison is exact; buttons come back |

Bounds: `MaxOps` commands, `MaxRetries` retries, `Timeout` ticks, and
`FewInFlight` in the run with two requests. One retry suffices
for an old and a new attempt of a command to coexist with each other's late
POSTs, two for a retry to overtake another; a deadline of 2 ticks
lets one pass between lease and acknowledgement, or acknowledgement and result,
without expiring the attempt. One bridge is the documented deployment ("single
trusted bridge"); the proofs hold for any number. The console always asks for one retry
(`scenarios/page.tsx:365`), the API takes up to five. Requests and bridges are
symmetric where no liveness is checked. Two commands for one scenario are what the unique index is
about. Three scenarios let one apply be followed by a second and compensated by
a third, and a revision exist besides; two requests race for a row or for the
control lock; the proofs cover any number. Scenarios, users and
requests are symmetric, and the properties of that run are safety properties.
Nothing else needs a bound: a scenario has at most four transitions.

The frontend runs bound what the outside may do by a `Budgets` constant, a set
of records that say how often each kind of thing may happen; what the system
does by itself (answers, timers, retries, reconnects) is not bounded, or only by
`MaxCalls` and `MaxRequests`, the requests open at once. The members
combine the kinds that disturb each other most, two or three at a time, because
their sum does not fit five minutes. Two keys
are needed for a snapshot whose requests are served at different times; a buffer
of one overflows at the second event; three events let one arrive before, during
and after a snapshot. The fourth member of `client_live` pauses twice and
has a reset and a failure: all three ways to be astray occur in it, and the
connections that are not. Two accounts and two sessions are the least with which a late
answer can belong to somebody else; the budgets of `auth_session` are unrelated
to its proofs, which hold for any. `SmallSpec` only starts from fewer initial
states: where nothing is done in the shell the tour does not matter, and a
browser whose socket may close has a session. Two scenarios and two layouts are what a comparison and a confusion of
candidates need. In `layout_editor`, `MinCorners` and `MaxCorners` are 1 and not
3 and 100, because no property counts corners; routes and zones are limited to 3
of 200 and 100, one more than there are at first.

Fairness (`FairSpec`) is asserted of two actions only: `Tick`, time passes; and
`Sweep`, because `CommandService._run` catches every exception, logs it and
tries again each `sweep_seconds`, and the lifespan starts it with the process.
Nothing is assumed of bridges, network, fleet or requests, so `CommandsEnd` holds
with all of them gone. Restarts do not disable `Sweep`; a backend that restarts
so often that no sweep ever runs is excluded.

`ClientSync` asserts weak fairness of four things: the backend registers sockets
and serves requests; the browser runs its tasks and timers; a socket that is
closing gets its `onclose`; a refresh of the session ends. The operator need not
press anything, so `CatchesUp` allows the states in which the page asks for it
(`NeedsUser`). `AuthSession` asserts that as long as a call, a profile request or
a navigation is under way, one of them comes to an end, which the time limits of
the Supabase client and of fetch justify; `LoadingEnds` needs it. `ScenariosPage`
and `LayoutEditor` assert nothing: their `BusyIsAwaited` says that what a button
waits for is under way, and leaves to the network whether it comes.

### Findings

1. *Retry race* (`command_service.py:329`). The two reads of `_load` see
   different states; a second retry gets an attempt for a command that is
   PENDING again, although "only failed or timed-out commands can retry". Such a
   command is `overtaken`: its status need not be that of its latest attempt, an
   attempt can end after a later one, and even COMPLETED can become PENDING.
   `RaceNeedsBudget`, `AttemptsAgree` and `CompletedIsFinal` say how far that
   goes. Locking the command row in `retry` would remove it.
2. *Silent timeout* (`command_service.py:240`, `:328`). Commands expired inside
   `lease` or `retry` are neither alerted, audited nor broadcast.
3. *Stale alert* (`command_service.py:577`). The timeout alert can be raised
   after the retry that should have cleared it.
4. *Late apply* (`command_service.py:478`). A command can be created for a
   scenario that is APPLIED already.
5. *Resume shows an old value* (`use-factory-socket.ts:114`). When a snapshot
   arrives while the view is paused, the events buffered during its request are
   appended behind those that were held since the pause. Resume replays a newer
   event first and an older one last, although
   `docs/changes/improve-ux-cp4-pause-live-updates.md:12` says that "data catches
   up on resume". There is a second way to it. When the pause buffer overflows
   while a snapshot is being read, Resume drops the held events and
   `synchronizeSnapshot` joins the read that is active; its answer may be older
   than what was dropped. Buffers of 1 and a budget of one reset, one pause and
   one failure are enough. These are the `Defer` and the `Resume` that stray; a
   connection with neither, and without the Reconnect described below, does
   catch up (`ShowsEverythingReceived`, which is proved).

### What the code does not promise

Behaviours of the code that the models contain and that no property above
denies:

- *COMPLETED but not applied* (`command_service.py:537-548`). The COMPLETED row is
  committed before `complete_apply`; if that fails, or the process ends in
  between, the scenario stays APPROVED for good (`FinishApply` and
  `BackendRestart` have these outcomes), although
  `docs/changes/m13-authoritative-ros-registry.md:25` says that "ROS command
  completion marks the scenario APPLIED".
- *The list is read too early* (`page.tsx:212-214`). The page reads the scenarios
  again once, when it sees the candidate's command COMPLETED. `complete_apply`
  follows that commit, so the list may still say APPROVED, and it is not read again
  before the user asks for it. `ScenariosPage` has this order (`Bridge`,
  `ServeRead`), and no property says that the list shows APPLIED.
- *Unknown outcome* (`telemetry_bridge/node.py:405`). A command ends FAILED when the
  service call raises and TIMED_OUT when its result is lost, although the fleet may
  have executed it; the page says then that "the factory runtime is unchanged"
  (`workflow-timeline.tsx:65`).
- LIVE can be shown while a new socket is still opening. A snapshot
  fails while the view is paused and the pause buffer has overflowed; the operator
  presses Reconnect, which opens another socket and leaves `pausedEvents` and
  `pausedBufferIncomplete` as they are; Resume then reads a snapshot and sets LIVE
  when it is there (`use-factory-socket.ts:197-205`, `:123`). `auth.ok` of the
  new socket repairs it. One key, three events, buffers of 1 and a budget of one
  reset, one pause and one failure are enough. This is the `Reconnect` that strays:
  `LiveMeansConnected` says that LIVE means connected unless one of the three
  steps of `Strays` happened on the connection (section 5), and is proved.

## 11. Proofs

`CommandLifecycle_proofs` proves, for all constants that satisfy
`BoundsAssumption`:

| Theorem | Statement |
|---|---|
| `TypeCorrect` | `Spec => []TypeOK` |
| `OneActive` | `Spec => []OneActivePerScenario` |
| `AttemptsCorrect` | `Spec => []AttemptsAgree` |
| `RaceNeedsBudgetHolds` | `Spec => [](RaceNeedsBudget /\ (MaxRetries <= 1 => overtaken = {}))` |
| `CompletedStays` | `Spec => CompletedIsFinal` |
| `AppliedCorrect` | `Spec => []AppliedIsBacked` |
| `AttemptsStay` | `Spec => AttemptsImmutable` |
| `ExecutesAcknowledged` | `Spec => []ExecutesOnlyAcknowledged` |
| `ContractImplemented` | `Spec => ImplementsContract` |

No theorem limits the requests or the bridges. The argument: `TypeOK` is
inductive. `OneActivePerScenario` is inductive with it: every action that
activates a command consults the index (`WhoWritesStatus`), and a command keeps
its scenario (`WhoWritesTarget`).
`AttemptsAgree` alone is not inductive: a retry that has read a retryable status
may not find it when it inserts. `RowsInv` adds what it finds then: a command that
has been tried twice, because another retry was there (`LoadedInv`), so that its
own attempt is the third (`OvertakenInv`), for which a budget of one leaves no room
(`RaceNeedsBudgetHolds`). In a command that was not overtaken a live attempt is the
latest one and has its command's status (`LiveIsLatest`), so that an expiry, an
acknowledgement or a result touches the command it should, and nothing touches a
COMPLETED one. `AgreeOn` states the agreement of the rows for any three functions,
because a retry inserts into rows that are those of no state: the ones its own
`_expire` has just updated.

`AttemptFates` says what a step can do to an attempt row: nothing but move its
deadline, end it, insert it, lease it or acknowledge it. `AttemptsImmutable`
follows, because attempts are numbered without gaps (`Numbered`) and a row that is
not there belongs to nobody (`LeasesInv`): even a retry that races another inserts
a row, and overwrites none. So an attempt that was COMPLETED stays so
(`FinishedStays`), and `AppliedInv` adds what is on its way: every COMPLETED result
in flight repeats what the fleet recorded, and every completion still to be seen to
is of a command that has a COMPLETED attempt.
`ExecutesOnlyAcknowledged`: an ack that matches no row is answered by the status of
the *command*. `HandsInv` shows that what a bridge works on is an attempt it leased,
and that it leased none after it; with the status
ACKNOWLEDGED the latest attempt is acknowledged, and it is this one or a later one.
The refinement adds to `RowsInv` and `AppliedInv` that a request applies only what
was approved (`AsksForApproved`); the overdue commands are the ones the contract
times out (`ExpiryIsTimeOut`), and only a result adds to the executed commands
(`DoneStays`, `ResultDone`).

`ScenarioWorkflow_proofs` proves every property of the run `scenario_workflow`,
for any sets of scenarios, users and requests, with and without a mock factory,
from `MockAssumption` (the setting is a Boolean) alone:

| Theorem | Statement |
|---|---|
| `TypeCorrect` | `Spec => []TypeOK` |
| `VersionsCorrect` | `Spec => []VersionTracksStatus` |
| `UpdatedRowsMatch` | `Spec => []UpdatedRowMatches` |
| `DecisionsFinal` | `Spec => DecisionsStand` |
| `ContractImplemented` | `Spec => ImplementsContract` |
| `FactoryCompensated` | `Spec => []FactoryFollowsApplied` |
| `HealthInformed` | `Spec => []HealthFollowsApplied` |

The argument. `RequestsInv` says what a request may still rely on: the scenario
that a revision answers is still REVISION_REQUESTED, an open apply transaction's
row still matches, and one apply at most controls the factory. It is inductive
because of two lemmas about who writes what: `WhoWritesRows`, a row is changed
by its insertion, a decision that matches it or the commit of its apply; and
`WhoMovesRequests`, a request is moved on by its own actions. Every step is then
a step of the contract or stutters, and `DecisionsFinal` follows from the
contract's own steps. `FactoryInv` says, phase by phase, what the factory has
and what compensation would put back; `CommitApplies` shows that a commit makes
its scenario the one applied last, because no `applied_at` is later than the
clock (`TimesInv`), and `AppliedKept` that nothing else does. The bound on
versions in `TypeOK` follows from `VersionTracksStatus`: the types alone are
inductive without it.

`AuthSession_proofs` proves, for any accounts, sessions, requests and budgets
(`SessionAssumption`, `BudgetAssumption`, `ShellAssumption`), of the composition
with the shell:

| Theorem | Statement |
|---|---|
| `TypeCorrect` | `ShellSpec => []TypeOK` |
| `UserIsSignedInHolds` | `ShellSpec => []UserIsSignedIn` |
| `ExpiryIsHeardHolds` | `ShellSpec => []ExpiryIsHeard` |
| `LostUserIsLedOnHolds` | `ShellSpec => LostUserIsLedOn` |
| `ShellTypeCorrect` | `ShellSpec => []ShellTypeOK` |

The argument. `UserIsSignedIn` is not inductive: an answer under way may show
another user. The invariant adds `CurrentIsStored`: a hydration that is still
current is the only one, and is for the token and the session of the cookies.
Each callback of `AuthProvider` is then shown to keep the invariant *relative to
the session stored after the step* (`Good`), because the client signals a change
in the step that makes it; the actions are compositions of callbacks and follow.
`LostUserIsLedOn` rests on `ExpiryIsHeard`: a page that shows its user is not
ending its session, so `terminateSession` and the signal of a lost session do
redirect (`TerminatedLeads`, `SignalledUp`), and every other callback keeps the user,
loads, or shows the error (`Kept`); where a step is two callbacks, the first
leaves the page up, or has asked for the login page already.
The shell's part is a second invariant, about what is mounted (`Framed`) and
whose tour is shown (`Due`): a step of the session either keeps the page and its
user, or `FollowTour` and `FollowShell` put away what belonged to them.

`LayoutEditor_proofs` proves every property of the run `layout_editor`, for all
stations, points, contents and budgets that satisfy `EditorAssumption` and
`InitialAssumption` (the content that is stored at first is one the backend
accepts, and its routes have paths, which is so of the layout that
`supabase/seed.sql` stores):

| Theorem | Statement |
|---|---|
| `TypeCorrect` | `Spec => []TypeOK` |
| `OneDrawingHolds` | `Spec => []OneDrawing` |
| `BusyIsAwaitedHolds` | `Spec => []BusyIsAwaited` |
| `RoutesStandHolds` | `Spec => []RoutesStand` |
| `RoutesStayJoinedHolds` | `Spec => RoutesStayJoined` |
| `DiffIsExactHolds` | `Spec => []DiffIsExact` |

The argument has two invariants. `IInv` is about modes and the busy flag. A step
either leaves the tools alone, clears them (`NoTools`, `ResetDraft`, a crash), or
starts one and ends the other. For the busy flag it adds the shape of the
requests and that a page that has crashed is not busy; an answer or failure
either clears the flag, or goes on to the refresh of the list, whose answer
clears it; a request is forgotten only with its page (`Reload`).

`Fits` is about contents. None of `RoutesStand`, `RoutesStayJoined` and
`DiffIsExact` is inductive, because a draft is replaced by contents that come
from elsewhere: a stored version, the template, the answer to a request. `Fits`
therefore says of every content, in the draft, in a request and in the backend,
that it *stands* (`Stands`: its routes and zones have types, ids of routes are
distinct, the delivery route is there, every path has two points), that stored
ones were accepted, and that every version the page or a request names exists
(`Names`); the versions only grow, which keeps that (`GrownFits`). An edit *keeps*
a draft (`Keeps`): it still stands, and no route has come loose from its stations
that was not so before. The edits of routes need that an id the page makes up is
new, which is the pigeonhole principle: of n + 1 suffixes one is not among n ids
(`FreeSuffixIsFree`, with `LeastOf`). Each step is then shown to be `Sound`: it
keeps `Fits`, and loosens no route unless it is one of the two that
`RoutesStayJoined` excepts. `DiffIsExact` follows from `Fits` and from what a
comparison shows of an entry: the last with its id on either side, which is the
only one where ids are distinct (`EntryIs`, `DiffersIs`, `ShownIs`).

`ScenariosPage_proofs` proves, for any scenarios, layouts, histories and
budgets, with no assumption:

| Theorem | Statement |
|---|---|
| `BusyIsAwaitedHolds` | `Spec => []BusyIsAwaited` |

The argument. The property is about three things a page waits for: its loading
(`Loads`), the optimisation (`Optimizes`) and the action of a button (`Acts`).
Most steps touch none of them (`Keeps`, `Same`): an event, a click that selects,
a request of a page that was left. Every other answer or failure ends what
waited for it, or leaves another request that will (`DoneGood`, `JoinedGood`,
`CommandedGood`, `LoadFailedGood`). One case needs a strengthening
(`RetriesHere`): a failed retry sets `loading` and asks for the *commands*
again, which ends the loading only where commands are shown, so that a live
retry must be one of the command page. Whoever leaves a page abandons its
requests and flags together.

`ScenariosCopies_proofs` proves the other properties of the same run, for all
constants that satisfy `PageAssumption` (layouts are numbered from 1 and there is
one at least: `supabase/seed.sql` stores a default) and `StartAssumption` (the rows that
are there at first were created one after the other, nothing follows a
REVISION_REQUESTED, and nothing is applied yet: `Init` starts with no command):

| Theorem | Statement |
|---|---|
| `CopiesAreHistory` | `Spec => []CopiesFit` |
| `TypeCorrect` | `Spec => []TypeOK` |
| `RevisesReturnedHolds` | `Spec => []RevisesReturned` |
| `ComparesCandidateHolds` | `Spec => []ComparesCandidate` |
| `ProgressNeverGoesBackHolds` | `Spec => ProgressNeverGoesBack` |

The argument. None of the properties is inductive, because each is about what
comes after an await. `CopiesFit` says what holds meanwhile. Of the backend
(`Backend`): a history goes on only from entries that are not final, every entry
of a command has a time of its own, which increases along its history (`Times`),
and rows are created in order. Nothing is said of the scenario of a COMPLETED
command: it may be APPROVED still. Of the tab
(`TabFits`), its copies and the answers to its requests are no longer than the
histories, and the source of a revision and of a request for one is returned for
revision. All of that is kept when histories go on (`TabFitsGrown`): a history that has
ended stays as it is (`EndedStays`). Of the comparison (`Pictures`), what it shows,
and the one request for it that is still wanted, are of the layouts to compare now.

The steps are proved in two halves. A step of the backend lets the histories go
on (`Proceeds`) and cannot change what is compared, because what the page has seen
of a row is in its past (`ComparedStays`). A step of the tab is a handler followed
by `Rendered`. Every handler but that of the comparison's answer goes `Onward`:
it fits the histories, forgets nothing of the commands, and leaves the comparison
alone; `RenderedShows` then says that `Compare` notices whatever else has changed.
`ProgressNeverGoesBack` follows: the known part of a command only grows, and ends
with COMPLETED, so that the phases of one command never go back (`PhasesGrow`). A
known command stays known, at the same time or a later one; the latest therefore
stays the latest, or another takes its place whose time is later than what was
shown (`LatestInIs`, `ProgressGrows`), since no two entries share a time.

`ClientSync_proofs` proves, for any keys, buffer limits, numbers of events and
budgets that satisfy `SyncAssumption` and `BudgetAssumption`:

| Theorem | Statement |
|---|---|
| `TypeCorrect` | `Spec => []TypeOK` |
| `ContractImplemented` | `Spec => ImplementsContract` |
| `NothingReceivedIsLost` | `Spec => []ShowsEverythingReceived` |
| `LiveIsConnected` | `Spec => []LiveMeansConnected` |

The argument. The contract lets the view show only values its keys have had, and
keeps a paused view as it is. The invariant `Typed` therefore says more than
`TypeOK`: every value shown, read or kept for later is in `Past(k)`, and every
event buffered anywhere is in the log. Each function of the hook keeps it and does
not touch the view of a paused client (`Good`, `Frozen`); the actions compose
these functions (`Handled`). What `ReceiveAll` and `HoldAll` do for a whole buffer
follows by induction over its length. The library's induction theorems take an
operator and are out of reach, so `LeastOf` (in `NumberFacts`) takes the least
element of a set of numbers from its theorem on well-founded relations, and `UpTo`,
`ReceivesAll` and `HoldsAll` rest on that.

`ShowsEverythingReceived` and `LiveMeansConnected` are not inductive. `Followed`
adds what the hook is waiting for: as long as `astray` is false, the state is
`Sound` (the view is not paused) or `Waits` (it is), and a page that is not ready
is not astray. `Stands` is about the connection, in both of them: a socket that
is still synchronising has its events in `pending`, LIVE is shown only over a
socket that is live or closing, and a page that is not mounted has no socket, no
timer and is not LIVE.

`Sound` says of a live socket that has read the first n events that either they
are shown, or a snapshot is under way, the buffer holds exactly the events after
some m, and everything read for the snapshot is as new as m (`TakenIn`,
`Reading`, `Covers`, `Follow`); and that nothing is left over from an earlier
pause (`Clear`). `CaughtUp` is the heart of it: a snapshot no older than m,
followed by the events m + 1 to n, is no older than n, unless one of them is a
reset, and then the hook reads again (`LatestResetIs`, `ReadAgainIs`).

`Waits` says of a live socket that it keeps back exactly the last events it has
read, in `held`, unless some were dropped and `incomplete` says so; and that what
Resume would show first, the snapshot kept meanwhile or else the view, or what
the read under way will bring, is as new as all events before those (`Behind`,
`Holding`). Replaying them is then `CaughtUp` again (`ResumeSound`). Each of the
three steps of `Strays` is where one clause of this fails: a `Defer` with events
both held and buffered breaks `Follow(held, ..)`, a `Resume` that joins a read breaks
`Reading` (the read may be older than what was dropped), a `Reconnect` with
something held breaks what `Waits` says of a socket that is neither live nor closing.
Without such a step `DeferWaits`, `ResumeSound` and `ApartTracked` carry the
invariant through these actions, however often they occur.

The steps in which nothing is shown or handed over leave a socket that is not
live and what is kept as it was, or empty (`Apartly`); those that end the
connection also end being astray, and establish `Sound` or `Waits` from whatever
came before (`Ends`, `EndingTracked`).

Only model-checked, and why. Liveness (`CommandsEnd`, `CatchesUp`, `LoadingEnds`)
is outside the prover's reach. Every other property of a passing run is a theorem.

## 12. Not modelled

| Component | Why |
|---|---|
| Mock factory: ticks, tasks, batteries, alerts, metrics | one asyncio task over in-memory objects; of its interplay with others the control lock, the layout and the configuration are in `ScenarioWorkflow`. The rest is arithmetic on positions and charges |
| Telemetry ingress, persistence and the bridge's delivery workers | a watermark per robot, a bounded queue and a batch; their hazards are listed, no module |
| Runtime health | the `COMMAND_TIMEOUT` condition is `alert` of `CommandLifecycle`, the congestion layout is `health` of `ScenarioWorkflow`; the sweep, staleness and congestion conditions are not modelled |
| Task manager, Fleet Manager's execution, navigation | three ROS nodes over actions and topics, whose ordering the middleware decides; of the Fleet Manager the apply service and its cache are in `CommandLifecycle` |
| WebSocket manager | its registration and order of events are the log of `ClientSync`; slow or failing connections of other clients are not |
| In-memory repositories | the same checks under one lock; used without a database only |
| JWT and JWKS, KPI writer, audit log | stateless or append-only but for a cooldown and a stop event |
| Simulation, optimiser, twin core | random durations, numeric results and floating-point geometry |
| Overview, fleet, task, alert and evaluation pages, charts, 3D scene | rendering of the store |
| Gazebo launch files, scripts, evaluation | tooling |
