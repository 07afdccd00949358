------------------------------ MODULE ClientSync ------------------------------
(***************************************************************************)
(* How a browser keeps its copy of the factory (apps/frontend/src):        *)
(* useInitialFactoryData loads it once; then FactorySocket                 *)
(* (lib/websocket-client.ts) receives events, and useFactorySocket         *)
(* (hooks/use-factory-socket.ts) fetches a snapshot after every            *)
(* authentication and every factory.reset and holds events back while the  *)
(* operator has paused the view.                                           *)
(*                                                                         *)
(* The backend is a log of changes.  A value is the position in the log of *)
(* the change that wrote it, so "newer" is ">".  JavaScript runs one task  *)
(* at a time: an action is one task with the promise continuations it      *)
(* resolves, and the functions of the code are operators on the record     *)
(* client, the state its closures and objects hold.                        *)
(***************************************************************************)
EXTENDS Integers, Sequences, FiniteSetsExt

CONSTANTS
    Keys,           \* robots, tasks, the KPI figures, alerts
    Reset,          \* the factory.reset event
    MaxEvents,      \* bound on the changes of the factory
    SocketLimit,    \* SOCKET_PENDING_EVENT_LIMIT
    PauseLimit,     \* PAUSED_FACTORY_EVENT_LIMIT
    Budgets         \* how often the outside world may act

ASSUME SyncAssumption ==
    /\ Reset \notin Keys
    /\ {MaxEvents, SocketLimit, PauseLimit} \subseteq Nat
    /\ PauseLimit > 0

VARIABLES
    log,            \* what the backend has published
    page,           \* what DataProvider has mounted
    client,         \* the socket, the hook and the store: see Client
    budget,         \* what may still happen: see Budget
    astray          \* history, which no code reads: see Strays

vars == <<log, page, client, budget, astray>>

(* Resets of the factory, pauses by the operator, closes of a connection,  *)
(* failing requests, refreshes of the access token by its library.         *)
Budget == [resets : Nat, pauses : Nat, closes : Nat, failures : Nat, refreshes : Nat]

ASSUME BudgetAssumption == Budgets \subseteq Budget

Positions == 0..MaxEvents
Unread == -1
NoSnapshot == [k \in Keys |-> Unread]
(* A REST read in flight: what each of its requests has answered, and who  *)
(* awaits it: the page, the authentication, or a caller that asks for      *)
(* recovery when it fails.                                                 *)
NoFetch == [waiting |-> {}]
Fetch == [waiting : SUBSET {"page", "auth", "recover"},
          parts : [Keys -> Positions \cup {Unread}]]

Client ==
    [view : [Keys -> Positions],        \* the factory store
     status : {"CONNECTING", "LIVE", "OFFLINE"},
     paused : BOOLEAN,
     socket : {"none", "opening", "registered", "syncing", "live", "closing"},
     pos : Positions,                   \* the last event this socket missed or got
     pending : Seq(Positions),          \* FactorySocket.pendingEvents
     timer : BOOLEAN,                   \* reconnectTimer is set
     fetch : Fetch \cup {NoFetch},      \* activeSynchronization
     buffered : Seq(Positions),         \* bufferedEvents
     held : Seq(Positions),             \* pausedEvents
     incomplete : BOOLEAN,              \* pausedBufferIncomplete
     snapshot : [Keys -> Positions \cup {Unread}], \* pausedSnapshot
     recovery : BOOLEAN,                \* recoveryRequested
     attempted : BOOLEAN,               \* refreshAttemptedForToken is this token
     refreshing : BOOLEAN]              \* refreshSession is awaited

TypeOK ==
    /\ log \in Seq(Keys \cup {Reset}) /\ Len(log) <= MaxEvents
    /\ page \in {"loading", "error", "ready", "restoring", "ended"}
    /\ client \in Client
    /\ budget \in Budget
    /\ astray \in BOOLEAN
    /\ Len(client.pending) <= SocketLimit
    /\ Len(client.held) <= PauseLimit

Init ==
    /\ log = <<>>
    /\ page = "loading"
    /\ budget \in Budgets
    /\ astray = FALSE
    /\ client = [view |-> [k \in Keys |-> 0], status |-> "CONNECTING", paused |-> FALSE,
                 socket |-> "none", pos |-> 0, pending |-> <<>>, timer |-> FALSE,
                 fetch |-> [waiting |-> {"page"}, parts |-> NoSnapshot],
                 buffered |-> <<>>, held |-> <<>>, incomplete |-> FALSE,
                 snapshot |-> NoSnapshot, recovery |-> FALSE, attempted |-> FALSE,
                 refreshing |-> FALSE]

Spend(what) ==
    /\ budget[what] > 0
    /\ budget' = [budget EXCEPT ![what] = @ - 1]

-----------------------------------------------------------------------------
(* Values.                                                                 *)

(* The value of k after the first n changes.                               *)
ValueAt(k, n) == Max({0} \cup {i \in 1..n : log[i] \in {k, Reset}})

(* applyEvent of one event after the other: the last one of a key stays,   *)
(* whatever its age.                                                       *)
Apply(view, events) ==
    [k \in Keys |->
        LET hits == {i \in DOMAIN events : log[events[i]] = k}
        IN IF hits = {} THEN view[k] ELSE events[Max(hits)]]

(* bufferPausedEvent: the oldest event makes room, and that is remembered. *)
Hold_Silently(c, e) ==
    [c EXCEPT !.held = Append(IF Len(c.held) >= PauseLimit THEN Tail(@) ELSE @, e)]
Hold_Unbounded(c, e) == [c EXCEPT !.held = Append(@, e)]
Hold(c, e) ==
    IF Len(c.held) >= PauseLimit
    THEN [c EXCEPT !.held = Append(Tail(@), e), !.incomplete = TRUE]
    ELSE [c EXCEPT !.held = Append(@, e)]

HoldAll(c, events) ==
    LET after[n \in 0..Len(events)] == IF n = 0 THEN c ELSE Hold(after[n - 1], events[n])
    IN after[Len(events)]

-----------------------------------------------------------------------------
(* The functions of the hook and of the socket.                            *)

Synchronizing(c) == c.fetch # NoFetch

(* synchronizeSnapshot: a second caller waits for the read of the first.   *)
Synchronize(c, who) ==
    IF Synchronizing(c)
    THEN [c EXCEPT !.fetch.waiting = @ \cup {who}]
    ELSE [c EXCEPT !.fetch = [waiting |-> {who}, parts |-> NoSnapshot],
                   !.status = "CONNECTING"]

(* socket.close: the browser hands over nothing more of a closing socket.  *)
CloseSocket(c) ==
    IF c.socket = "none" THEN c
    ELSE [c EXCEPT !.socket = "closing", !.pending = <<>>]

(* requestRecovery of the hook, with cancelSynchronization and the         *)
(* requestRecovery of the socket.                                          *)
RequestRecovery(c) ==
    IF c.recovery THEN c
    ELSE CloseSocket([c EXCEPT !.recovery = TRUE, !.fetch = NoFetch,
                               !.buffered = <<>>, !.status = "OFFLINE"])

(* receiveEvent                                                            *)
Receive(c, e) ==
    CASE c.paused -> Hold(c, e)
      [] ~c.paused /\ Synchronizing(c) ->
            IF Len(c.buffered) >= SocketLimit THEN RequestRecovery(c)
            ELSE [c EXCEPT !.buffered = Append(@, e)]
      [] ~c.paused /\ ~Synchronizing(c) /\ log[e] = Reset -> Synchronize(c, "recover")
      [] OTHER -> [c EXCEPT !.view = Apply(@, <<e>>)]

ReceiveAll(c, events) ==
    LET after[n \in 0..Len(events)] == IF n = 0 THEN c ELSE Receive(after[n - 1], events[n])
    IN after[Len(events)]

(* connect leaves a socket that is not closing alone.                      *)
Connect(c) ==
    IF c.socket \notin {"none", "closing"} THEN c
    ELSE [c EXCEPT !.socket = "opening", !.pending = <<>>, !.status = "CONNECTING"]

(* disconnect, when the hook is done with the socket.                      *)
Disconnect(c) == [c EXCEPT !.socket = "none", !.pending = <<>>, !.timer = FALSE]

(* The cleanup of the effect (cancelSynchronization, unsubscribePause,     *)
(* disconnect): its closure goes, the store stays.                         *)
EndLifecycle(c) ==
    [Disconnect(c) EXCEPT
              !.fetch = NoFetch, !.buffered = <<>>, !.held = <<>>, !.incomplete = FALSE,
              !.snapshot = NoSnapshot, !.recovery = FALSE]

(* The effect of useFactorySocket for a new token or a new mount.          *)
NewLifecycle(c) == Connect([EndLifecycle(c) EXCEPT !.attempted = FALSE])

(* onclose and onStatus("OFFLINE").  An aborted read makes the callers     *)
(* that would recover from it set recoveryRequested.                       *)
Offline_KeepFetch(c) ==
    [c EXCEPT !.socket = "none", !.pending = <<>>, !.status = "OFFLINE", !.held = <<>>,
              !.snapshot = NoSnapshot, !.incomplete = FALSE]
Offline(c) ==
    [c EXCEPT !.socket = "none", !.pending = <<>>, !.status = "OFFLINE",
              !.recovery = @ \/ "recover" \in c.fetch.waiting,
              !.fetch = NoFetch, !.buffered = <<>>, !.held = <<>>,
              !.snapshot = NoSnapshot, !.incomplete = FALSE]

(* finishAuthentication after its await: the socket hands over what it has *)
(* kept, if it is still open.                                              *)
FinishAuthentication(c) ==
    IF c.socket # "syncing" THEN c
    ELSE ReceiveAll([c EXCEPT !.socket = "live", !.status = "LIVE", !.pending = <<>>],
                    c.pending)

(* History: from such a step until the connection ends, what a paused view *)
(* holds back may be out of order or out of date.  A snapshot puts its     *)
(* events behind newer ones (Defer); Resume, which has dropped some, joins *)
(* a read that began before them; Reconnect keeps what the old connection  *)
(* has left.                                                               *)
Strays(so) == astray' = (astray \/ so)

-----------------------------------------------------------------------------
(* The backend.                                                            *)

Publish(k) ==
    /\ Len(log) < MaxEvents
    /\ log' = Append(log, k)
    /\ IF k = Reset THEN Spend("resets") ELSE UNCHANGED budget
    /\ UNCHANGED <<page, client, astray>>

(* factory_websocket: from here on the events are sent to this socket.     *)
Register ==
    /\ client.socket = "opening"
    /\ client' = [client EXCEPT !.socket = "registered", !.pos = Len(log)]
    /\ UNCHANGED <<log, page, budget, astray>>

(* One of the requests of a snapshot is served.                            *)
Serve(k) ==
    /\ Synchronizing(client)
    /\ client.fetch.parts[k] = Unread
    /\ client' = [client EXCEPT !.fetch.parts[k] = ValueAt(k, Len(log))]
    /\ UNCHANGED <<log, page, budget, astray>>

-----------------------------------------------------------------------------
(* Events of the socket.                                                   *)

(* onmessage of auth.ok, and onAuthenticated.                              *)
AuthOk ==
    /\ client.socket = "registered"
    /\ client' = Synchronize([client EXCEPT !.socket = "syncing", !.recovery = FALSE], "auth")
    /\ UNCHANGED <<log, page, budget, astray>>

(* onmessage of an event.                                                  *)
Deliver ==
    /\ client.socket \in {"syncing", "live"}
    /\ client.pos < Len(log)
    /\ LET e == client.pos + 1
           c == [client EXCEPT !.pos = e]
       IN client' = IF c.socket = "live" THEN Receive(c, e)
                    ELSE IF Len(c.pending) >= SocketLimit THEN CloseSocket(c)
                    ELSE [c EXCEPT !.pending = Append(@, e)]
    /\ UNCHANGED <<log, page, budget, astray>>

(* No auth.ok within SOCKET_AUTH_TIMEOUT_MS.                               *)
AuthTimeout ==
    /\ client.socket \in {"opening", "registered"}
    /\ Spend("closes")
    /\ client' = CloseSocket(client)
    /\ UNCHANGED <<log, page, astray>>

(* scheduleReconnect: onclose for an ordinary code.                        *)
Dropped ==
    /\ \/ client.socket = "closing" /\ UNCHANGED budget
       \/ client.socket \notin {"none", "closing"} /\ Spend("closes")
    /\ client' = [Offline(client) EXCEPT !.timer = TRUE]
    /\ astray' = FALSE
    /\ UNCHANGED <<log, page>>

(* Code 4401: one refresh for each token; 1008: no way on.                 *)
Rejected(refreshes) ==
    /\ client.socket \notin {"none", "closing"}
    /\ Spend("closes")
    /\ client' = IF refreshes /\ ~client.attempted
                 THEN [Offline(client) EXCEPT !.attempted = TRUE, !.refreshing = TRUE]
                 ELSE Offline(client)
    /\ astray' = FALSE
    /\ UNCHANGED <<log, page>>

(* Code 4409: refreshUser takes the pages away while it asks who the user  *)
(* is, so the lifecycle ends and the reconnect of the socket is void.      *)
ProfileChanged ==
    /\ client.socket \notin {"none", "closing"}
    /\ Spend("closes")
    /\ page' = "restoring"
    /\ client' = EndLifecycle(Offline(client))
    /\ astray' = FALSE
    /\ UNCHANGED log

ReconnectTimer ==
    /\ client.timer
    /\ client' = Connect([client EXCEPT !.timer = FALSE])
    /\ UNCHANGED <<log, page, budget, astray>>

-----------------------------------------------------------------------------
(* The read of a snapshot ends.                                            *)

Answered == Synchronizing(client) /\ \A k \in Keys : client.fetch.parts[k] # Unread

LatestReset == Max({0} \cup {i \in DOMAIN client.buffered : log[client.buffered[i]] = Reset})

(* The page is ready: the socket connects.                                 *)
Loaded ==
    /\ Answered /\ page = "loading"
    /\ page' = "ready"
    /\ client' = NewLifecycle([client EXCEPT !.view = client.fetch.parts])
    /\ UNCHANGED <<log, budget, astray>>

(* A reset came in the meantime: read again, keep what came after it.      *)
ReadAgain ==
    /\ Answered /\ page = "ready"
    /\ LatestReset > 0
    /\ client' = [client EXCEPT !.fetch.parts = NoSnapshot,
                                !.buffered = SubSeq(@, LatestReset + 1, Len(@))]
    /\ UNCHANGED <<log, page, budget, astray>>

Synchronized(c) ==
    LET done == [c EXCEPT !.fetch = NoFetch, !.buffered = <<>>, !.status = "LIVE"]
    IN IF "auth" \in c.fetch.waiting THEN FinishAuthentication(done) ELSE done

Commit_Anyway ==
    /\ Answered /\ page = "ready"
    /\ LatestReset = 0
    /\ client' = Synchronized([client EXCEPT !.view = Apply(client.fetch.parts, client.buffered)])
    /\ UNCHANGED <<log, page, budget, astray>>
Commit_BeforeEvents ==
    /\ Answered /\ page = "ready"
    /\ LatestReset = 0
    /\ ~client.paused
    /\ client' = Synchronized([client EXCEPT !.view = client.fetch.parts])
    /\ UNCHANGED <<log, page, budget, astray>>
Commit ==
    /\ Answered /\ page = "ready"
    /\ LatestReset = 0
    /\ ~client.paused
    /\ client' = Synchronized([client EXCEPT !.view = Apply(client.fetch.parts, client.buffered)])
    /\ UNCHANGED <<log, page, budget, astray>>

(* Paused: the snapshot and the events that came meanwhile are kept.       *)
Defer ==
    /\ Answered /\ page = "ready"
    /\ LatestReset = 0
    /\ client.paused
    /\ client' = Synchronized(HoldAll([client EXCEPT !.snapshot = client.fetch.parts],
                                       client.buffered))
    /\ Strays(client.held # <<>> /\ client.buffered # <<>>)
    /\ UNCHANGED <<log, page, budget>>

(* A request fails or takes longer than FACTORY_SNAPSHOT_TIMEOUT_MS.       *)
FetchFails ==
    /\ Synchronizing(client)
    /\ Spend("failures")
    /\ LET c == [client EXCEPT !.fetch = NoFetch, !.buffered = <<>>]
           off == [c EXCEPT !.status = "OFFLINE"]
       IN IF page = "loading" THEN page' = "error" /\ client' = c
          ELSE /\ client' = IF "recover" \in client.fetch.waiting THEN RequestRecovery(off)
                            ELSE CloseSocket(off)
               /\ UNCHANGED page
    /\ UNCHANGED <<log, astray>>

-----------------------------------------------------------------------------
(* The user and the session.                                               *)

(* What ConnectionBanner says; its button works while it is disconnected.  *)
Banner ==
    CASE page # "ready" \/ client.status = "LIVE" -> "none"
      [] page = "ready" /\ client.status = "CONNECTING" -> "reconnecting"
      [] OTHER -> "disconnected"

(* The button Reconnect: the old socket is detached, so its onclose does   *)
(* nothing.                                                                *)
Reconnect ==
    /\ Banner = "disconnected"
    /\ client' = Connect([client EXCEPT !.socket = "none", !.timer = FALSE])
    /\ Strays(client.held # <<>> \/ client.incomplete)
    /\ UNCHANGED <<log, page, budget>>

(* The Retry button of DataProvider.                                       *)
RetryLoad ==
    /\ page = "error"
    /\ page' = "loading"
    /\ client' = [client EXCEPT !.fetch = [waiting |-> {"page"}, parts |-> NoSnapshot]]
    /\ UNCHANGED <<log, budget, astray>>

Pause ==
    /\ page = "ready" /\ ~client.paused
    /\ Spend("pauses")
    /\ client' = [client EXCEPT !.paused = TRUE, !.incomplete = FALSE]
    /\ UNCHANGED <<log, page, astray>>

(* The subscription to the store: replay what was held, or read again.     *)
Resume ==
    /\ page = "ready" /\ client.paused
    /\ LET c == [client EXCEPT !.paused = FALSE, !.snapshot = NoSnapshot,
                               !.held = <<>>, !.incomplete = FALSE]
           shown == IF client.snapshot = NoSnapshot THEN c
                    ELSE [c EXCEPT !.view = client.snapshot]
       IN client' = CASE client.status = "OFFLINE" -> c
                      [] client.status # "OFFLINE" /\ client.incomplete -> Synchronize(c, "recover")
                      [] OTHER -> ReceiveAll(shown, client.held)
    /\ Strays(client.incomplete /\ Synchronizing(client))
    /\ UNCHANGED <<log, page, budget>>

(* A new access token, from refreshSession or from the library itself.     *)
NewToken ==
    /\ page = "ready"
    /\ \/ client.refreshing /\ UNCHANGED budget
       \/ ~client.refreshing /\ Spend("refreshes")
    /\ client' = [NewLifecycle(client) EXCEPT !.refreshing = FALSE]
    /\ astray' = FALSE
    /\ UNCHANGED <<log, page>>

(* refreshUser has found the user again: the pages are mounted anew.       *)
Restored ==
    /\ page = "restoring"
    /\ page' = "loading"
    /\ client' = [client EXCEPT !.fetch = [waiting |-> {"page"}, parts |-> NoSnapshot]]
    /\ UNCHANGED <<log, budget, astray>>

(* clearAuth: the session ends and the store is emptied, whether a refresh *)
(* fails, the server forbids the account or the user signs out.            *)
EndSession ==
    /\ page # "ended"
    /\ page' = "ended"
    /\ client' = [EndLifecycle(client) EXCEPT
                    !.view = [k \in Keys |-> 0], !.status = "OFFLINE", !.paused = FALSE,
                    !.refreshing = FALSE]
    /\ astray' = FALSE
    /\ UNCHANGED <<log, budget>>

-----------------------------------------------------------------------------
Backend == Register \/ (\E k \in Keys : Serve(k))
Browser == AuthOk \/ Deliver \/ ReconnectTimer \/ Loaded \/ ReadAgain \/ Commit \/ Defer
Closing == client.socket = "closing" /\ Dropped
Session == Restored \/ (client.refreshing /\ NewToken)

Next ==
    \/ \E k \in Keys \cup {Reset} : Publish(k)
    \/ Register \/ AuthOk \/ Deliver \/ AuthTimeout \/ Dropped \/ ProfileChanged
    \/ \E refreshes \in BOOLEAN : Rejected(refreshes)
    \/ \E k \in Keys : Serve(k)
    \/ ReconnectTimer \/ Loaded \/ ReadAgain \/ Commit \/ Defer \/ FetchFails
    \/ Reconnect \/ RetryLoad \/ Pause \/ Resume
    \/ NewToken \/ Restored \/ EndSession

(* The backend serves, the browser runs its tasks and timers, and a        *)
(* refresh of the session ends.  Nobody has to press a button.             *)
Fairness == WF_vars(Backend) /\ WF_vars(Browser) /\ WF_vars(Closing) /\ WF_vars(Session)

Spec == Init /\ [][Next]_vars /\ Fairness

-----------------------------------------------------------------------------
(* Properties.                                                             *)

(* While live updates are on and no snapshot is awaited, the page shows,   *)
(* for every key, a value at least as new as all the events this socket    *)
(* has received: a snapshot never overwrites what came after it, and no    *)
(* event is lost in a buffer (synchronizeSnapshot, receiveEvent, resume),  *)
(* however often the view is paused and the factory is reset, unless one   *)
(* of the three steps of Strays happened on this connection.               *)
UpToDate ==
    client.socket = "live" /\ ~client.paused /\ ~Synchronizing(client)
        => \A k \in Keys : client.view[k] >= ValueAt(k, client.pos)
ShowsEverythingReceived == ~astray => UpToDate

(* "Resume ... replays later events" and "data catches up on resume"       *)
(* (docs/changes/improve-ux-cp4-pause-live-updates.md).                    *)
ResumeCatchesUp == UpToDate

(* LIVE is shown only with a socket that is authenticated and handed over  *)
(* to the hook, or is being closed by the browser itself: a read that ends *)
(* after its connection was lost must not say that all is well, unless,    *)
(* again, one of the three steps came before.                              *)
LiveMeansConnected ==
    client.status = "LIVE" /\ ~astray => client.socket \in {"live", "closing"}

(* What the view implements: LiveViewContract.                             *)
Contract == INSTANCE LiveViewContract
    WITH view <- client.view, frozen <- page = "ready" /\ client.paused
ImplementsContract == Contract!Spec

(* The page needs the user: to resume, to reconnect after a rejection, to  *)
(* retry a failed load or to sign in again.                                *)
NeedsUser ==
    \/ client.paused
    \/ page \in {"error", "ended"}
    \/ client.socket = "none" /\ client.status = "OFFLINE"

(* In the end the page is LIVE and shows what the backend has, needs its   *)
(* user, or is astray: a reset, a lost connection or a failed snapshot     *)
(* never leaves it in CONNECTING for ever, or LIVE with old values.        *)
CatchesUp ==
    <>[]\/ NeedsUser \/ astray
        \/ /\ client.status = "LIVE"
           /\ \A k \in Keys : client.view[k] = ValueAt(k, Len(log))
=============================================================================
