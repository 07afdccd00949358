--------------------------- MODULE ApplicationShell ---------------------------
(***************************************************************************)
(* The frame around the protected pages: AuthSession with the navigation   *)
(* menu (components/layout/sidebar.tsx), the tools of the overview         *)
(* (components/dashboard/overview-tool-dock.tsx), the toasts               *)
(* (stores/toast-store.ts, components/ui/toast.tsx) and the onboarding     *)
(* tour (components/onboarding/onboarding-tour.tsx).  ApplicationFrame     *)
(* mounts them with the pages, for the user it shows.  The toasts are kept *)
(* while the document lives, and the tour is remembered in the browser's   *)
(* local storage under a key for each user.                                *)
(*                                                                         *)
(* DataProvider shows the pages only once the factory has been loaded      *)
(* (ClientSync); here they are mounted as soon as there is a user.         *)
(***************************************************************************)
EXTENDS AuthSession

CONSTANTS
    Designers,      \* the accounts with that role
    ToastLimit      \* how many toasts are kept

ASSUME ShellAssumption == Designers \subseteq Accounts /\ ToastLimit \in Nat \ {0}

VARIABLES
    done,           \* the accounts whose key in the local storage is set
    tour,
    shell

shellVars == <<vars, done, tour, shell>>

Steps == 1..4       \* stepsFor: as many for a Designer as for a Monitor

(* Step 0 is a tour that is not visible; keep is dontShowAgain.            *)
Tour == [step : {0} \cup Steps, keep : BOOLEAN]
NoTour == [step |-> 0, keep |-> TRUE]

Places == {"overview", "layouts", "scenarios"}
Tools == {"metrics", "fleet", "alerts"}

Shell ==
    [at : Places \cup {""},             \* the protected page
     menu : BOOLEAN,                    \* the navigation is open
     tool : {""} \cup Tools,            \* activeTool
     toasts : Seq({"passing", "error"})]

-----------------------------------------------------------------------------
(* What follows the session.                                               *)

(* The effect for a new storage key.                                       *)
Opened_Always(a) == [NoTour EXCEPT !.step = 1]
Opened(a) == IF a \in done THEN NoTour ELSE [NoTour EXCEPT !.step = 1]

(* The tour is mounted and unmounted with the pages.  A user who becomes   *)
(* another one while they are shown has another key.                       *)
FollowTour ==
    /\ tour' = IF ~Mounted' THEN NoTour
               ELSE IF Mounted /\ tab'.user = tab.user THEN tour
               ELSE Opened(tab'.user)
    /\ UNCHANGED done

(* A login leads to the overview here, not to its returnTo or the default  *)
(* route of the role; every other page can be visited from there.          *)
Address(path) == IF path = "login" THEN "" ELSE IF shell.at = "" THEN "overview" ELSE shell.at

Reloaded == budget'.reloads < budget.reloads

FollowShell ==
    shell' = [at |-> Address(tab'.path),
              menu |-> shell.menu /\ Mounted',
              tool |-> IF Mounted' THEN shell.tool ELSE "",
              toasts |-> IF Reloaded THEN <<>> ELSE shell.toasts]

-----------------------------------------------------------------------------
(* The onboarding tour.  It covers the page.                               *)

Turn(t) ==
    /\ Spend("shell")
    /\ tour' = t
    /\ UNCHANGED <<world, tab>>

NextStep ==
    /\ tour.step \in Steps /\ tour.step + 1 \in Steps
    /\ Turn([tour EXCEPT !.step = @ + 1])
    /\ UNCHANGED <<done, shell>>

Back ==
    /\ tour.step > 1
    /\ Turn([tour EXCEPT !.step = @ - 1])
    /\ UNCHANGED <<done, shell>>

Prefer ==
    /\ tour.step > 0
    /\ Turn([tour EXCEPT !.keep = ~@])
    /\ UNCHANGED <<done, shell>>

(* The storage may refuse the write.                                       *)
PutAway ==
    /\ Turn(NoTour)
    /\ done' \in IF tour.keep THEN {done, done \cup {tab.user}} ELSE {done}

(* A press with the pointer, not with a key, closes what it is not in.     *)
Pressed(inside) ==
    [shell EXCEPT !.menu = @ /\ inside = "menu", !.tool = IF inside = "dock" THEN @ ELSE ""]
Activated(inside) == {shell, Pressed(inside)}

(* A page that is left takes its tools along; a new pathname closes the    *)
(* menu.                                                                   *)
Navigated(s, place) ==
    IF place = s.at THEN s ELSE [s EXCEPT !.at = place, !.menu = FALSE, !.tool = ""]

(* Skip tour and Get started.                                              *)
Dismiss ==
    /\ tour.step > 0
    /\ PutAway
    /\ shell' \in Activated("tour")

StepLink(step) ==
    CASE step = 1 -> {}
      [] step = 3 -> {"overview"}
      [] OTHER -> {IF tab.user \in Designers THEN "layouts" ELSE "scenarios"}
FollowStepLink ==
    /\ tour.step > 0
    /\ PutAway
    /\ \E place \in StepLink(tour.step), s \in Activated("tour") : shell' = Navigated(s, place)

TakeTour == NextStep \/ Back \/ Prefer \/ Dismiss \/ FollowStepLink

-----------------------------------------------------------------------------
(* The navigation and the tools of the overview.                           *)

Act ==
    /\ Mounted /\ tour.step = 0
    /\ Spend("shell")
    /\ UNCHANGED <<world, tab, done, tour>>

PressMenu ==
    /\ Act
    /\ \E s \in Activated("menu") : shell' = [s EXCEPT !.menu = ~@]

PressTool(tool) ==
    /\ Act
    /\ shell.at = "overview"
    /\ \E s \in Activated("dock") : shell' = [s EXCEPT !.tool = IF @ = tool THEN "" ELSE tool]

PressElsewhere ==
    /\ shell.menu \/ shell.tool # ""
    /\ Act
    /\ shell' = Pressed("page")

(* NAVIGATION_ITEMS that the role may see.                                 *)
Links == IF tab.user \in Designers THEN Places ELSE Places \ {"layouts"}

(* A link of the menu, or of the page.                                     *)
Visit(place) ==
    /\ Act
    /\ place \in Links
    /\ \E s \in Activated("page") \cup IF shell.menu THEN Activated("menu") ELSE {} :
        shell' = Navigated(s, place)

(* Escape is heard by the tour, the menu and the tools alike.              *)
Escape ==
    /\ tour.step > 0 \/ shell.menu \/ shell.tool # ""
    /\ IF tour.step > 0 THEN PutAway ELSE Act
    /\ shell' = [shell EXCEPT !.menu = FALSE, !.tool = ""]

-----------------------------------------------------------------------------
(* Toasts.                                                                 *)

(* addToast, by a page or by an answer that comes after it is gone.        *)
AddToast(type) ==
    /\ Spend("shell")
    /\ shell' = [shell EXCEPT !.toasts =
                    LET all == Append(@, type)
                    IN IF Len(all) > ToastLimit THEN Tail(all) ELSE all]
    /\ UNCHANGED <<world, tab, done, tour>>

Without(toasts, i) == SubSeq(toasts, 1, i - 1) \o SubSeq(toasts, i + 1, Len(toasts))

RemoveToast(i) ==
    /\ Mounted
    /\ shell' = [shell EXCEPT !.toasts = Without(@, i)]
    /\ UNCHANGED <<vars, done, tour>>

(* The timers run while the toasts are shown, all as long; an error has    *)
(* none.                                                                   *)
Passing == {i \in DOMAIN shell.toasts : shell.toasts[i] = "passing"}
ToastTimer == \E i \in Passing : (\A j \in Passing : i <= j) /\ RemoveToast(i)

CloseToast == \E i \in DOMAIN shell.toasts : RemoveToast(i)

-----------------------------------------------------------------------------
ShellInit ==
    /\ Init
    /\ done \in SUBSET Accounts
    /\ tour = NoTour
    /\ shell = [at |-> IF tab.path = "page" THEN "overview" ELSE "", menu |-> FALSE,
                tool |-> "", toasts |-> <<>>]

ShellNext ==
    \/ Next /\ FollowTour /\ FollowShell
    \/ TakeTour
    \/ PressMenu \/ PressElsewhere \/ Escape
    \/ \E tool \in Tools : PressTool(tool)
    \/ \E place \in Places : Visit(place)
    \/ \E type \in {"passing", "error"} : AddToast(type)
    \/ ToastTimer \/ CloseToast

ShellSpec == ShellInit /\ [][ShellNext]_shellVars /\ Fairness

(* Types.  A tour that is visible is that of a user whose pages are shown  *)
(* and who has not put it away for good, however the session changed under *)
(* it; no menu and no tool outlives the page it belongs to.                *)
ShellTypeOK ==
    /\ TypeOK
    /\ done \subseteq Accounts
    /\ tour \in Tour
    /\ tour.step > 0 => Mounted /\ tab.user \notin done
    /\ shell \in Shell
    /\ Len(shell.toasts) <= ToastLimit
    /\ tab.path = "page" <=> shell.at # ""
    /\ shell.menu => Mounted
    /\ shell.tool # "" => Mounted /\ shell.at = "overview"
=============================================================================
