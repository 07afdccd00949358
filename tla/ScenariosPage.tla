---------------------------- MODULE ScenariosPage ----------------------------
(***************************************************************************)
(* The pages on which a user reviews and applies scenarios, in one tab:    *)
(* apps/frontend/src/app/scenarios/page.tsx and app/commands/page.tsx with *)
(* ScenarioRunForm, OptimizationPanel, ScenarioActions, LayoutComparison,  *)
(* WorkflowTimeline, ConfirmDialog, the next-action strip of the           *)
(* application frame, and the part of the factory store they share.        *)
(*                                                                         *)
(* The backend is external: it keeps the history of every scenario and of  *)
(* every command that applies one.  What the tab holds of a row is a copy, *)
(* and a copy is the number of the history's entries it has seen; 0 is no  *)
(* copy.                                                                   *)
(*                                                                         *)
(* JavaScript runs one task at a time: an action is a task up to its next  *)
(* await, with the rendering and the effects that follow it.  A request is *)
(* sent, served and delivered in three steps, in any order with others.    *)
(***************************************************************************)
EXTENDS Naturals, Sequences, FiniteSets

CONSTANTS
    MaxScenarios,   \* scenarios are numbered as they are created
    Layouts,        \* versions of layouts, numbered as the backend lists them
    Links,          \* the URLs that the tab may be opened with
    MaxRetries,     \* max_retries of a command; the page asks for 1
    MaxCalls,       \* bound on the requests open when the user acts
    Histories,      \* the first histories of the scenarios
    Budgets         \* how often the user, the others and failures act

Scenarios == 1..MaxScenarios

(* Commands have numbers, too; there are as many of them at most.          *)
Ops == Scenarios

ASSUME PageAssumption ==
    /\ MaxScenarios \in Nat /\ MaxRetries \in {0, 1} /\ MaxCalls \in Nat
    /\ IsFiniteSet(Layouts) /\ Layouts # {} /\ Layouts = 1..Cardinality(Layouts)

VARIABLES
    status,         \* status[s]: the history of scenario s
    layout,         \* layout[s]: the version that it was run on
    command,        \* command[o]: the history of command o
    target,         \* target[o]: the scenario that it applies
    updated,        \* updated[o]: the updated_at of every entry of that history
    clock,          \* the latest of them all
    applied,        \* the scenarios applied so far, in that order
    mine,           \* the scenarios that this user created
    tab,
    budget

rows == <<command, target, updated, clock>>
backend == <<status, layout, rows, applied, mine>>
vars == <<backend, tab, budget>>

ScenarioStatus == {"SIMULATED", "SUBMITTED", "APPROVED", "REVISION_REQUESTED", "APPLIED"}
CommandStatus == {"PENDING", "ACKNOWLEDGED", "COMPLETED", "FAILED", "TIMED_OUT"}
Copies == [Scenarios -> Nat]
NoCopies == [s \in Scenarios |-> 0]

Last(history) == history[Len(history)]
Lengths(histories) == [s \in Scenarios |-> Len(histories[s])]

Reviews == {"submit", "approve", "request-revision"}
Actions == {"run", "apply", "retry"} \cup Reviews
Lists == {"load", "reload", "strip"}
Reads == {"commands", "again", "layout", "select", "source", "compare"}
Kinds == Actions \cup Lists \cup Reads \cup {"optimize"}

(* of, and base, are what the request is about; live, that the component which awaits  *)
(* it is still there and still wants it; answer, <<>> until it is served.  *)
Call == [kind : Kinds, of : Nat, base : Nat, live : BOOLEAN, answer : Copies \cup {<<>>}]
Ask(kind, of) == [kind |-> kind, of |-> of, base |-> 0, live |-> TRUE, answer |-> <<>>]

(* The layouts that are compared; base is 0 if there is only one.          *)
NoPair == [of |-> 0, base |-> 0]

NoCandidate == [of |-> 0, seen |-> 0]

QueueKeys == {"all", "awaiting", "mine", "approved", "applied"}

(* What the page reads of window.location; 0 and "" are absent.            *)
Url == [candidate : {0} \cup Scenarios, queue : {""} \cup QueueKeys, layout : {0} \cup Layouts]
NoQuery == [candidate |-> 0, queue |-> "", layout |-> 0]

Tab ==
    [at : {"scenarios", "commands"},                 \* the page shown
     url : Url,
     role : {"DESIGNER", "MONITOR"},
     scenarios : Copies,                             \* the store's
     commands : Copies,                              \* the store's
     candidate : [of : Nat, seen : Nat],
     source : {0} \cup Scenarios,                    \* revisionSource
     selected : {0} \cup Layouts,                    \* selectedLayout
     layouts : BOOLEAN,                              \* the list of layouts is there
     queue : QueueKeys,
     guided : BOOLEAN,                               \* the strip has its list
     optimizing : BOOLEAN,                           \* the panel's running
     recommended : {0} \cup Scenarios,               \* ... and its result
     loading : BOOLEAN,
     awaited : SUBSET {"load", "commands"},          \* what loadPage waits for
     linked : Nat,                                   \* the linked row it has loaded
     action : {""} \cup Actions,                     \* activeAction, or retrying
     dialog : BOOLEAN,                               \* applyConfirmationOpen
     open : BOOLEAN,                                 \* the layout comparison
     compared : [of : Nat, base : Nat],              \* what it shows
     calls : SUBSET Call]

(* The clicks of the user, those on links and filters and on the choice of *)
(* layouts apart; what other users and failures do.                        *)
Budget == [clicks : Nat, choices : Nat, outside : Nat, failures : Nat]

(* A history goes on only from entries that are not final.                 *)
Ends(history, final) == \A i \in 1..(Len(history) - 1) : history[i] \notin final

(* The scenarios that are there already were created one after the other,  *)
(* and none has been applied.                                              *)
ASSUME StartAssumption ==
    /\ Links \subseteq Url /\ Budgets \subseteq Budget
    /\ \A histories \in Histories :
           /\ histories \in [Scenarios -> Seq(ScenarioStatus \ {"APPLIED"})]
           /\ \A s \in Scenarios : Ends(histories[s], {"REVISION_REQUESTED"})
           /\ \A r, s \in Scenarios : r <= s /\ histories[s] # <<>> => histories[r] # <<>>

TypeOK ==
    /\ status \in [Scenarios -> Seq(ScenarioStatus)]
    /\ command \in [Ops -> Seq(CommandStatus)] /\ target \in [Ops -> {0} \cup Scenarios]
    /\ updated \in [Ops -> Seq(Nat)] /\ clock \in Nat
    /\ applied \in Seq(Scenarios)
    /\ layout \in [Scenarios -> {0} \cup Layouts]
    /\ mine \subseteq Scenarios
    /\ tab \in Tab
    /\ budget \in Budget
    /\ \A s \in Scenarios : tab.scenarios[s] <= Len(status[s])
    /\ \A o \in Ops : tab.commands[o] <= Len(command[o])
    /\ tab.candidate # NoCandidate =>
           tab.candidate.of \in Scenarios /\ tab.candidate.seen \in 1..Len(status[tab.candidate.of])

Spend(what) ==
    /\ budget[what] > 0
    /\ budget' = [budget EXCEPT ![what] = @ - 1]

-----------------------------------------------------------------------------
(* The store.                                                              *)

LatestCommand_Incoming(current, incoming) == IF incoming = 0 THEN current ELSE incoming
LatestCommand(current, incoming) == IF current > incoming THEN current ELSE incoming

SetCommands(t, commands) ==
    [t EXCEPT !.commands = [o \in Ops |-> LatestCommand(@[o], commands[o])]]
SetScenarios(t, scenarios) == [t EXCEPT !.scenarios = scenarios]
UpdateScenario(t, s, seen) == [t EXCEPT !.scenarios[s] = seen]

-----------------------------------------------------------------------------
(* What the pages derive from it.                                          *)

Copy(s, seen) == [of |-> s, seen |-> seen]
StatusSeen(copy) == status[copy.of][copy.seen]

(* rolePermissions                                                         *)
Can(role, permission) ==
    permission \in CASE role = "DESIGNER" -> {"scenarios:run", "layout:view"}
                     [] role = "MONITOR" ->
                            {"scenarios:review", "scenarios:apply", "layout:view", "commands:retry"}

Listed(scenarios) == {s \in Scenarios : scenarios[s] # 0}
In(scenarios, st) == {s \in Listed(scenarios) : status[s][scenarios[s]] = st}
FilterQueue(scenarios, queue) ==
    CASE queue = "awaiting" -> In(scenarios, "SUBMITTED")
      [] queue = "approved" -> In(scenarios, "APPROVED")
      [] queue = "applied" -> In(scenarios, "APPLIED")
      [] queue = "mine" -> Listed(scenarios) \cap mine
      [] queue = "all" -> Listed(scenarios)
Newest(set) == CHOOSE s \in set : \A r \in set : r <= s

NewestUseful(scenarios) ==
    LET listed == Listed(scenarios)
        sets == <<In(scenarios, "SUBMITTED"), In(scenarios, "SIMULATED"),
                  In(scenarios, "APPROVED"), listed>>
        first == CHOOSE i \in 1..4 : sets[i] # {} /\ \A j \in 1..(i - 1) : sets[j] = {}
    IN IF listed = {} THEN NoCandidate
       ELSE Copy(Newest(sets[first]), scenarios[Newest(sets[first])])

(* latestCommandForScenario, or 0.                                         *)
Known(t, s) == {o \in Ops : t.commands[o] # 0 /\ target[o] = s}
UpdatedAt(t, o) == updated[o][t.commands[o]]
LatestOf(t, s) ==
    LET known == Known(t, s)
    IN IF known = {} THEN 0
       ELSE CHOOSE o \in known : \A p \in known : UpdatedAt(t, p) <= UpdatedAt(t, o)

(* candidateCommand?.status *)
CommandSeen(t) ==
    LET o == LatestOf(t, t.candidate.of)
    IN IF t.candidate = NoCandidate \/ o = 0 THEN "" ELSE command[o][t.commands[o]]

(* applyProgress, of a command as the store has it: how many of the        *)
(* APPLY_PHASES it has entered.                                            *)
Progress(o) ==
    LET seen == SubSeq(command[o], 1, tab.commands[o])
    IN IF Last(seen) = "COMPLETED" THEN 3
       ELSE IF \E i \in DOMAIN seen : seen[i] = "ACKNOWLEDGED" THEN 2 ELSE 1

(* What the timeline shows of an apply, when s is the candidate: so many   *)
(* phases are done, current or failed, and the others pending.             *)
Entered(s) == IF LatestOf(tab, s) = 0 THEN 0 ELSE Progress(LatestOf(tab, s))

(* The queue that the strip links to, or the layout editor.                *)
DesignerAction(t) ==
    LET latest == FilterQueue(t.scenarios, "mine")
    IN IF latest # {} /\ Newest(latest) \notin In(t.scenarios, "APPLIED")
                                              \cup In(t.scenarios, "REVISION_REQUESTED")
       THEN "mine" ELSE "layouts"
MonitorAction(t) ==
    CASE FilterQueue(t.scenarios, "awaiting") # {} -> "awaiting"
      [] FilterQueue(t.scenarios, "awaiting") = {}
            /\ FilterQueue(t.scenarios, "approved") # {} -> "approved"
      [] OTHER -> ""
NextAction(t) == IF t.role = "DESIGNER" THEN DesignerAction(t) ELSE MonitorAction(t)

(* latestAppliedScenario                                                   *)
LatestApplied(t) ==
    LET seen == {i \in DOMAIN applied : applied[i] \in In(t.scenarios, "APPLIED")}
    IN IF seen = {} THEN 0 ELSE applied[Newest(seen)]

(* The layouts to compare: the live one, unless the candidate is it.       *)
Compared(t) ==
    LET live == LatestApplied(t)
        of == layout[t.candidate.of]
    IN IF t.candidate = NoCandidate THEN NoPair
       ELSE [of |-> of, base |-> IF live \in {0, t.candidate.of} THEN 0
                                 ELSE IF layout[live] = of THEN 0 ELSE layout[live]]

-----------------------------------------------------------------------------
(* Rendering: the effects, whose dependencies are compared with tab.       *)

Send(t, kind, of) == [t EXCEPT !.calls = @ \cup {Ask(kind, of)}]
Abandoned(calls, kinds) ==
    {IF c.kind \in kinds THEN [c EXCEPT !.live = FALSE] ELSE c : c \in calls}

(* The candidate's command is seen to be COMPLETED: read the list again.   *)
Watch(t) ==
    IF t.at = "scenarios" /\ CommandSeen(t) # CommandSeen(tab) /\ CommandSeen(t) = "COMPLETED"
    THEN Send(t, "reload", t.candidate.of) ELSE t

(* LayoutComparison: what was asked for before is no longer wanted.        *)
Compare(t) ==
    CASE t.candidate = NoCandidate ->
             [t EXCEPT !.open = FALSE, !.compared = NoPair, !.calls = Abandoned(@, {"compare"})]
      [] t.candidate # NoCandidate /\ t.open = tab.open /\ Compared(t) = Compared(tab) -> t
      [] OTHER ->
             LET c == [t EXCEPT !.calls = Abandoned(@, {"compare"})]
                 ask == [Ask("compare", Compared(t).of) EXCEPT !.base = Compared(t).base]
             IN IF t.open THEN [c EXCEPT !.compared = NoPair, !.calls = @ \cup {ask}] ELSE c

Rendered(t) == Compare(Watch(t))

-----------------------------------------------------------------------------
(* The pages' own callbacks.                                               *)

(* loadPage, and the load of the commands page.                            *)
LoadPage(t) ==
    LET l == [t EXCEPT !.loading = TRUE]
    IN IF t.at = "commands" THEN Send(l, "commands", 0)
       ELSE Send(Send([l EXCEPT !.awaited = {"load", "commands"}], "load", 0), "commands", 0)

(* A page is mounted, and shows what the store has.                        *)
Mounted(t, at, url) ==
    LoadPage([t EXCEPT !.at = at, !.url = url, !.candidate = NoCandidate, !.source = 0,
                       !.selected = 0, !.layouts = FALSE, !.queue = "all",
                       !.optimizing = FALSE, !.recommended = 0, !.loading = FALSE, !.awaited = {}, !.linked = 0, !.action = "",
                       !.dialog = FALSE, !.open = FALSE, !.compared = NoPair,
                       !.calls = Abandoned(@, Kinds \ {"strip"})])

(* The application is loaded: the page and the strip ask for their lists.  *)
Opened(at, role, url) ==
    Send(Mounted([at |-> at, url |-> url, role |-> role, scenarios |-> NoCopies,
                  commands |-> NoCopies, candidate |-> NoCandidate, source |-> 0,
                  selected |-> 0, layouts |-> FALSE, queue |-> "all", guided |-> FALSE,
                  optimizing |-> FALSE, recommended |-> 0, loading |-> FALSE, awaited |-> {}, linked |-> 0,
                  action |-> "", dialog |-> FALSE, open |-> FALSE, compared |-> NoPair,
                  calls |-> {}], at, url), "strip", 0)

(* setSelectedLayout: another layout is another OptimizationPanel, by its  *)
(* key, and the old one's result goes nowhere.                             *)
SelectLayout(t, l) ==
    IF t.selected = l THEN t
    ELSE [t EXCEPT !.selected = l, !.optimizing = FALSE, !.recommended = 0,
                   !.calls = Abandoned(@, {"optimize"})]

(* loadScenarios after its await: the candidate is looked up in the list.  *)
LoadScenarios_Unchecked(t, list) ==
    LET s == t.candidate.of
    IN [SetScenarios(t, list) EXCEPT
           !.candidate = IF s # 0 THEN Copy(s, list[s]) ELSE NewestUseful(list)]
LoadScenarios(t, list) ==
    LET s == t.candidate.of
    IN [SetScenarios(t, list) EXCEPT
           !.candidate = IF s # 0 /\ list[s] # 0 THEN Copy(s, list[s]) ELSE NewestUseful(list)]

(* One of the requests that loadPage awaits together has its answer.  The  *)
(* last one also stands for the baseline and the list of layouts.          *)
Joined(t, part) ==
    LET j == [t EXCEPT !.awaited = @ \ {part}]
    IN IF t.awaited # {part} THEN j
       ELSE Send([j EXCEPT !.layouts = TRUE,
                           !.queue = IF t.url.queue = "" THEN @ ELSE t.url.queue,
                           !.candidate = IF t.url.candidate = 0 \/ t.linked = 0 THEN @
                                         ELSE Copy(t.url.candidate, t.linked)],
                 "layout", IF t.url.layout = 0 THEN 1 ELSE t.url.layout)
(* ... or has failed: nobody awaits the others any more.                   *)
LoadFailed(t) ==
    [t EXCEPT !.loading = FALSE, !.awaited = {}, !.calls = Abandoned(@, {"load", "commands"})]

(* The answer of getCommands, or its failure: list is NoCopies.            *)
GotCommands(t, c, list) ==
    LET t1 == SetCommands(t, list)
    IN CASE ~c.live -> t1
         [] c.live /\ c.kind = "again" -> [t1 EXCEPT !.loading = FALSE, !.action = ""]
         [] OTHER -> IF t.at = "commands" THEN [t1 EXCEPT !.loading = FALSE]
                     ELSE Joined(t1, "commands")

(* runScenario, submitScenario, approveScenario, requestRevision after     *)
(* their await, and what they do finally.                                  *)
ActionEnds_NotOnError(t, c) == [t EXCEPT !.action = IF c.answer = NoCopies THEN @ ELSE ""]
ActionEnds(t, c) == [t EXCEPT !.action = ""]

Changed(t, c) ==
    LET s == CHOOSE s \in Scenarios : c.answer[s] # 0
        u == UpdateScenario(t, s, c.answer[s])
        shown == [u EXCEPT !.candidate = Copy(s, c.answer[s]),
                           !.source = IF c.kind = "run" THEN 0 ELSE @]
    IN IF c.answer = NoCopies THEN (IF c.live THEN ActionEnds(t, c) ELSE t)
       ELSE IF c.live THEN ActionEnds(shown, c) ELSE u

(* applyScenario and retry; a failed retry loads the commands again.       *)
Commanded(t, c) ==
    LET u == SetCommands(t, c.answer)
        again == [Ask("again", 0) EXCEPT !.live = c.live]
    IN IF c.kind = "retry" /\ c.answer = NoCopies
       THEN [t EXCEPT !.loading = @ \/ c.live, !.calls = @ \cup {again}]
       ELSE IF c.live THEN ActionEnds(u, c) ELSE u

(* startRevision after its await: the scenario that it was called for.     *)
Prepared_Candidate(t, c) == [SelectLayout(t, layout[c.of]) EXCEPT !.source = t.candidate.of]
Prepared(t, c) == [SelectLayout(t, layout[c.of]) EXCEPT !.source = c.of]

(* run of the panel: the store is not told of the new scenarios.           *)
Optimized(t, c) ==
    IF ~c.live THEN t
    ELSE [t EXCEPT !.optimizing = FALSE,
                   !.recommended = IF c.answer = NoCopies THEN @
                                   ELSE CHOOSE s \in Scenarios : c.answer[s] # 0]

CompareLoaded_Late(t, c) == [t EXCEPT !.compared = [of |-> c.of, base |-> c.base]]
CompareLoaded(t, c) == IF c.live THEN [t EXCEPT !.compared = [of |-> c.of, base |-> c.base]] ELSE t

(* What the code that awaits request c does with its answer.               *)
Handle(t, c) ==
    CASE c.kind = "load" ->
             IF c.live THEN Joined([LoadScenarios(t, c.answer) EXCEPT
                                        !.linked = IF t.url.candidate = 0 THEN 0
                                                   ELSE c.answer[t.url.candidate]], "load")
             ELSE SetScenarios(t, c.answer)
      [] c.kind = "reload" ->
             IF c.live THEN LoadScenarios(t, c.answer) ELSE SetScenarios(t, c.answer)
      [] c.kind = "strip" ->
             IF c.live THEN [SetScenarios(t, c.answer) EXCEPT !.guided = TRUE] ELSE t
      [] c.kind \in {"commands", "again"} -> GotCommands(t, c, c.answer)
      [] c.kind \in {"run"} \cup Reviews -> Changed(t, c)
      [] c.kind \in {"apply", "retry"} -> Commanded(t, c)
      [] c.kind = "layout" ->
             IF c.live THEN [SelectLayout(t, c.of) EXCEPT !.loading = FALSE] ELSE t
      [] c.kind = "select" -> IF c.live THEN SelectLayout(t, c.of) ELSE t
      [] c.kind = "optimize" -> Optimized(t, c)
      [] c.kind = "source" -> IF c.live THEN Prepared(t, c) ELSE t
      [] c.kind = "compare" -> CompareLoaded(t, c)

(* ... and what it does when the request fails.                            *)
HandleFailure(t, c) ==
    CASE c.kind \in {"load", "layout"} -> IF c.live THEN LoadFailed(t) ELSE t
      [] c.kind \in {"commands", "again"} -> GotCommands(t, c, NoCopies)
      [] c.kind \in {"run"} \cup Reviews -> Changed(t, [c EXCEPT !.answer = NoCopies])
      [] c.kind \in {"apply", "retry"} -> Commanded(t, [c EXCEPT !.answer = NoCopies])
      [] c.kind = "optimize" -> Optimized(t, [c EXCEPT !.answer = NoCopies])
      [] c.kind = "strip" -> IF c.live THEN [t EXCEPT !.guided = FALSE] ELSE t
      [] c.kind \in {"reload", "select", "source", "compare"} -> t

Created == {s \in Scenarios : status[s] # <<>>}

Init ==
    /\ status \in Histories
    /\ command = [o \in Ops |-> <<>>] /\ updated = [o \in Ops |-> <<>>]
    /\ target = [o \in Ops |-> 0] /\ clock = 0
    /\ applied = <<>>
    /\ mine \in {{}, Created}
    /\ layout = [s \in Scenarios |-> IF s \in Created THEN (s % Cardinality(Layouts)) + 1
                                     ELSE 0]
    /\ \E at \in {"scenarios", "commands"}, role \in {"DESIGNER", "MONITOR"}, url \in Links :
           /\ role = "MONITOR" => mine = {}
           /\ tab = Opened(at, role, IF at = "scenarios" THEN url ELSE NoQuery)
    /\ budget \in Budgets

-----------------------------------------------------------------------------
(* The backend.                                                            *)

Grown(histories, s, entry) == [histories EXCEPT ![s] = Append(@, entry)]

(* The status that a review starts from, and the one it leads to.          *)
From(review) == IF review = "submit" THEN "SIMULATED" ELSE "SUBMITTED"
To(review) ==
    CASE review = "submit" -> "SUBMITTED"
      [] review = "approve" -> "APPROVED"
      [] review = "request-revision" -> "REVISION_REQUESTED"

NextId == Cardinality(Created) + 1

(* Scenarios are created on layout l; by this user if own.                 *)
Insert(new, l, own) ==
    /\ status' = [s \in Scenarios |-> IF s \in new THEN <<"SIMULATED">> ELSE status[s]]
    /\ layout' = [s \in Scenarios |-> IF s \in new THEN l ELSE layout[s]]
    /\ mine' = IF own THEN mine \cup new ELSE mine
    /\ UNCHANGED <<rows, applied>>
Becomes(s, st) ==
    /\ status' = Grown(status, s, st)
    /\ UNCHANGED <<layout, rows, applied, mine>>
(* The next entry of command o, which applies s.                           *)
Writes(o, s, st) ==
    /\ command' = Grown(command, o, st)
    /\ target' = [target EXCEPT ![o] = s]
    /\ clock' = clock + 1
    /\ updated' = Grown(updated, o, clock + 1)
    /\ UNCHANGED <<status, layout, applied, mine>>
Commands(o, st) == Writes(o, target[o], st)
Unused == {o \in Ops : command[o] = <<>>}
NextOp == CHOOSE o \in Unused : TRUE

Is(s, st) == s \in Created /\ Last(status[s]) = st
IsAt(o, states) == command[o] # <<>> /\ Last(command[o]) \in states
Attempts(history) == Cardinality({i \in DOMAIN history : history[i] = "PENDING"})
MayRetry(history) ==
    /\ history # <<>> /\ Last(history) \in {"FAILED", "TIMED_OUT"}
    /\ Attempts(history) <= MaxRetries

(* The unique index: a scenario has one command in progress at most.       *)
InProgress(s) == \E o \in Ops : target[o] = s /\ IsAt(o, {"PENDING", "ACKNOWLEDGED"})
Applicable(s) == Is(s, "APPROVED") /\ ~InProgress(s) /\ Unused # {}
Retryable(o) == MayRetry(command[o]) /\ ~InProgress(target[o])

Allowed(c) ==
    CASE c.kind = "run" ->
             /\ NextId \in Scenarios
             /\ c.of # 0 => c.of \in mine /\ Is(c.of, "REVISION_REQUESTED")
      [] c.kind = "submit" -> c.of \in mine /\ Is(c.of, From(c.kind))
      [] c.kind \in Reviews \ {"submit"} -> c.of \notin mine /\ Is(c.of, From(c.kind))
      [] c.kind = "apply" -> c.of \notin mine /\ Applicable(c.of)
      [] c.kind = "retry" -> Retryable(c.of)
Row(s, length) == [NoCopies EXCEPT ![s] = length]
Rows(new) == [s \in Scenarios |-> IF s \in new THEN 1 ELSE 0]
Answered(c, answer) == [tab EXCEPT !.calls = (@ \ {c}) \cup {[c EXCEPT !.answer = answer]}]

(* A request of the user takes effect, and its answer is what the row then *)
(* is; or it is refused.                                                   *)
ServeAction(c) ==
    /\ c.kind \in Actions /\ c.answer = <<>>
    /\ IF Allowed(c)
       THEN \/ /\ c.kind = "run" /\ Insert({NextId}, c.base, TRUE)
               /\ tab' = Answered(c, Row(NextId, 1))
            \/ /\ c.kind \in Reviews /\ Becomes(c.of, To(c.kind))
               /\ tab' = Answered(c, Row(c.of, Len(status[c.of]) + 1))
            \/ /\ c.kind = "apply" /\ Writes(NextOp, c.of, "PENDING")
               /\ tab' = Answered(c, Row(NextOp, 1))
            \/ /\ c.kind = "retry" /\ Commands(c.of, "PENDING")
               /\ tab' = Answered(c, Row(c.of, Len(command[c.of]) + 1))
       ELSE tab' = Answered(c, NoCopies) /\ UNCHANGED backend
    /\ UNCHANGED budget

(* One scenario after the other; when one fails the others stay.           *)
ServeOptimization(c) ==
    /\ c.kind = "optimize" /\ c.answer = <<>>
    /\ \/ \E n \in NextId..MaxScenarios, answer \in BOOLEAN :
              /\ Insert(NextId..n, c.base, TRUE)
              /\ tab' = Answered(c, IF answer THEN Rows(NextId..n) ELSE NoCopies)
       \/ tab' = Answered(c, NoCopies) /\ UNCHANGED backend
    /\ UNCHANGED budget

ServeRead(c) ==
    /\ c.kind \in Lists \cup Reads /\ c.answer = <<>>
    /\ tab' = Answered(c, IF c.kind \in {"commands", "again"} THEN Lengths(command)
                          ELSE Lengths(status))
    /\ UNCHANGED <<backend, budget>>

(* Other users: they create and review scenarios, apply them, and retry.   *)
Others ==
    /\ Spend("outside")
    /\ \/ NextId \in Scenarios /\ \E l \in Layouts : Insert({NextId}, l, FALSE)
       \/ \E s \in Created, review \in Reviews :
              Is(s, From(review)) /\ Becomes(s, To(review))
       \/ \E s \in Created : Applicable(s) /\ Writes(NextOp, s, "PENDING")
       \/ \E o \in Ops : Retryable(o) /\ Commands(o, "PENDING")
    /\ UNCHANGED tab

(* The bridge and CommandService.result, which makes the command COMPLETED *)
(* first; complete_apply follows, later or never.  Retries that overtake   *)
(* each other take a larger budget (CommandLifecycle).                     *)
Bridge(o) ==
    /\ \/ IsAt(o, {"PENDING"}) /\ Commands(o, "ACKNOWLEDGED")
       \/ IsAt(o, {"PENDING", "ACKNOWLEDGED"}) /\ Commands(o, "TIMED_OUT")
       \/ IsAt(o, {"ACKNOWLEDGED"}) /\ Commands(o, "FAILED")
       \/ IsAt(o, {"ACKNOWLEDGED"}) /\ Commands(o, "COMPLETED")
       \/ /\ IsAt(o, {"COMPLETED"}) /\ Is(target[o], "APPROVED")
          /\ status' = Grown(status, target[o], "APPLIED")
          /\ applied' = Append(applied, target[o])
          /\ UNCHANGED <<layout, rows, mine>>
    /\ UNCHANGED <<tab, budget>>

-----------------------------------------------------------------------------
(* Answers, failures and events.                                           *)

Done(c) == [tab EXCEPT !.calls = @ \ {c}]

Deliver(c) ==
    /\ c.answer # <<>>
    /\ tab' = Rendered(Handle(Done(c), c))
    /\ UNCHANGED <<backend, budget>>

(* A request or its answer is lost.                                        *)
CallFails(c) ==
    /\ Spend("failures")
    /\ tab' = Rendered(HandleFailure(Done(c), c))
    /\ UNCHANGED backend

(* command.updated: events overtake each other, and are held while paused. *)
CommandUpdated(o, n) ==
    /\ n \in 1..Len(command[o])
    /\ tab' = Rendered(SetCommands(tab, Row(o, n)))
    /\ UNCHANGED <<backend, budget>>

(* factory.reset: the strip reads the list again.                          *)
FactoryReset ==
    /\ Spend("outside")
    /\ tab' = Send([tab EXCEPT !.calls = Abandoned(@, {"strip"})], "strip", 0)
    /\ UNCHANGED backend

-----------------------------------------------------------------------------
(* The user.                                                               *)

(* The dialog is modal.                                                    *)
Undisturbed == ~tab.dialog /\ Cardinality(tab.calls) < MaxCalls /\ UNCHANGED backend
Click == Undisturbed /\ Spend("clicks")
Choice == Undisturbed /\ Spend("choices")

OnPage(at) == tab.at = at
Shown(st) == tab.candidate # NoCandidate /\ StatusSeen(tab.candidate) = st
Act(kind, of) == tab' = Send([tab EXCEPT !.action = kind], kind, of)

Refresh ==
    /\ ~tab.loading
    /\ tab' = LoadPage(tab)
    /\ Click

Navigate(at) ==
    /\ ~OnPage(at)
    /\ tab' = Rendered(Mounted(tab, at, NoQuery))
    /\ Click

(* The strip's link: the page that is shown already does not read its URL. *)
FollowStrip ==
    /\ tab.guided /\ NextAction(tab) # "layouts"
    /\ LET url == [NoQuery EXCEPT !.queue = NextAction(tab)]
       IN tab' = IF OnPage("scenarios") THEN [tab EXCEPT !.url = url]
                 ELSE Rendered(Mounted(tab, "scenarios", url))
    /\ Choice

(* This link loads the application anew; what is on its way is cancelled.  *)
OpenRecommended ==
    /\ tab.recommended # 0
    /\ tab' = Opened("scenarios", tab.role, [NoQuery EXCEPT !.candidate = tab.recommended])
    /\ Choice

SetQueue(queue) ==
    /\ OnPage("scenarios") /\ Listed(tab.scenarios) # {} /\ queue # tab.queue
    /\ tab' = [tab EXCEPT !.queue = queue]
    /\ Choice

Select(s) ==
    /\ OnPage("scenarios") /\ s \in FilterQueue(tab.scenarios, tab.queue)
    /\ tab' = Rendered([tab EXCEPT !.candidate = Copy(s, tab.scenarios[s]), !.source = 0])
    /\ Click

(* ScenarioRunForm is for those who may run scenarios.                     *)
FormShown == OnPage("scenarios") /\ Can(tab.role, "scenarios:run")

(* What its fields for the layout and the version offer.                   *)
LayoutChoices == IF FormShown /\ tab.layouts THEN Layouts ELSE {}

(* selectLayout and selectLayoutVersion: the form stays usable meanwhile.  *)
ChooseLayout(l) ==
    /\ l \in LayoutChoices
    /\ tab' = Send(tab, "select", l)
    /\ Choice

(* What the form submits: the layout that is selected and the source.      *)
RunRequest(t) == [Ask("run", t.source) EXCEPT !.base = t.selected]

(* Its button is disabled while any action is awaited.                     *)
MayRun == FormShown /\ tab.action = "" /\ tab.selected # 0

RunScenario ==
    /\ MayRun
    /\ tab' = [tab EXCEPT !.action = "run", !.calls = @ \cup {RunRequest(tab)}]
    /\ Click

(* Its button: without a layout there are no combinations to evaluate.     *)
MayOptimize == FormShown /\ tab.selected # 0 /\ ~tab.optimizing

(* Every layout of the search is one of the list; here it is the selected. *)
Optimize ==
    /\ MayOptimize
    /\ tab' = [tab EXCEPT !.optimizing = TRUE,
                          !.calls = @ \cup {[Ask("optimize", 0) EXCEPT !.base = tab.selected]}]
    /\ Choice

(* ScenarioActions shows the buttons by the status seen.                   *)
SubmitScenario ==
    /\ OnPage("scenarios") /\ Can(tab.role, "scenarios:run")
    /\ tab.action = "" /\ Shown("SIMULATED")
    /\ Act("submit", tab.candidate.of)
    /\ Click

(* Approve, or Request revision.                                           *)
ReviewScenario(review) ==
    /\ OnPage("scenarios") /\ Can(tab.role, "scenarios:review")
    /\ tab.action = "" /\ Shown(From(review))
    /\ Act(review, tab.candidate.of)
    /\ Click

StartRevision ==
    /\ FormShown /\ tab.action = ""
    /\ Shown("REVISION_REQUESTED") /\ tab.candidate.of \in mine
    /\ tab' = Send(tab, "source", tab.candidate.of)
    /\ Click

RequestApply ==
    /\ OnPage("scenarios") /\ Can(tab.role, "scenarios:apply")
    /\ tab.action = "" /\ Shown("APPROVED")
    /\ tab' = [tab EXCEPT !.dialog = TRUE]
    /\ Click

CancelApply ==
    /\ tab.dialog
    /\ tab' = [tab EXCEPT !.dialog = FALSE]
    /\ UNCHANGED <<backend, budget>>

(* Whatever the candidate is by now.                                       *)
ApplyScenario ==
    /\ tab.dialog /\ Shown("APPROVED")
    /\ tab' = Send([tab EXCEPT !.dialog = FALSE, !.action = "apply"], "apply", tab.candidate.of)
    /\ UNCHANGED <<backend, budget>>

(* The page lists every command.                                           *)
Retry(o) ==
    /\ OnPage("commands") /\ Can(tab.role, "commands:retry") /\ tab.action = ""
    /\ MayRetry(SubSeq(command[o], 1, tab.commands[o]))
    /\ Act("retry", o)
    /\ Click

ToggleComparison ==
    /\ OnPage("scenarios") /\ tab.candidate # NoCandidate
    /\ tab' = Rendered([tab EXCEPT !.open = ~@])
    /\ Click

-----------------------------------------------------------------------------
Answer ==
    \E c \in tab.calls :
        ServeAction(c) \/ ServeOptimization(c) \/ ServeRead(c) \/ Deliver(c) \/ CallFails(c)

User ==
    \/ Refresh \/ RunScenario \/ StartRevision \/ RequestApply \/ CancelApply
    \/ ApplyScenario \/ ToggleComparison \/ Optimize \/ OpenRecommended \/ FollowStrip
    \/ \E l \in Layouts : ChooseLayout(l)
    \/ \E queue \in QueueKeys : SetQueue(queue)
    \/ \E at \in {"scenarios", "commands"} : Navigate(at)
    \/ \E s \in Scenarios : Select(s)
    \/ \E o \in Ops : Retry(o)
    \/ SubmitScenario \/ \E review \in Reviews \ {"submit"} : ReviewScenario(review)

Next ==
    \/ Answer
    \/ Others \/ \E o \in Ops : Bridge(o)
    \/ \E o \in Ops : \E n \in 1..Len(command[o]) : CommandUpdated(o, n)
    \/ FactoryReset
    \/ User

Spec == Init /\ [][Next]_vars

-----------------------------------------------------------------------------
(* Properties.                                                             *)

(* "A command that later failed still shows how far it got"                *)
(* (docs/changes/workflow-guidance-p0.md), and no answer or event that     *)
(* comes late takes a phase of an apply back: lists of commands, answers   *)
(* to apply and retry, and events overtake each other, also those of two   *)
(* commands of one scenario.  Only another command of the scenario that    *)
(* was updated after what is shown may begin anew.                         *)
ReplacedByNewer(s) ==
    LET o == LatestOf(tab, s)
    IN LatestOf(tab, s)' # o /\ UpdatedAt(tab, LatestOf(tab, s))' > UpdatedAt(tab, o)
ProgressNeverGoesBack ==
    [][\A s \in Scenarios :
          Entered(s) <= Entered(s)' \/ tab'.commands = NoCopies \/ ReplacedByNewer(s)]_vars

(* The maps of an open comparison are those of the candidate and of the    *)
(* scenario applied last as the page knows them, whichever was asked for   *)
(* first: a reviewer never decides on another candidate's geometry.        *)
ComparesCandidate == tab.open /\ tab.compared # NoPair => tab.compared = Compared(tab)

(* A run names as its source a scenario of this user that was returned for *)
(* revision, although the source is set after an await during which the    *)
(* candidate may change.                                                   *)
RevisesReturned ==
    tab.source # 0 => tab.source \in mine /\ Is(tab.source, "REVISION_REQUESTED")

(* No page is left loading, and no button disabled, for ever: what will    *)
(* end that, whether it succeeds or fails, is still under way.             *)
Waits(kinds) == \E c \in tab.calls : c.live /\ c.kind \in kinds
Parts(awaited) == IF awaited = {} THEN {"layout"} ELSE awaited
BusyIsAwaited ==
    /\ tab.loading /\ OnPage("commands") => Waits({"commands", "again"})
    /\ tab.loading /\ OnPage("scenarios") =>
           \A part \in Parts(tab.awaited) : Waits({part})
    /\ tab.optimizing => Waits({"optimize"})
    /\ tab.action # "" => Waits({tab.action} \cup IF tab.action = "retry" THEN {"again"} ELSE {})
=============================================================================
