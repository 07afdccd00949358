-------------------------- MODULE ScenariosPage_proofs --------------------------
(* Proofs about ScenariosPage: what its buttons and its loading wait for   *)
(* is under way.                                                           *)
EXTENDS ScenariosPage, TLAPS

(* The shape of the records is all that this needs of their types.         *)
TabFields ==
    {"at", "url", "role", "scenarios", "commands", "candidate", "source", "selected",
     "layouts", "queue", "guided", "optimizing", "recommended", "loading", "awaited",
     "linked", "action", "dialog", "open", "compared", "calls"}
CallFields == {"kind", "of", "base", "live", "answer"}

AreCalls(cs) == \A c \in cs : DOMAIN c = CallFields /\ c.kind \in Kinds /\ c.live \in BOOLEAN

IsTab(t) ==
    /\ DOMAIN t = TabFields
    /\ t.at \in {"scenarios", "commands"}
    /\ t.awaited \subseteq {"load", "commands"}
    /\ t.action \in {""} \cup Actions
    /\ AreCalls(t.calls)

(* BusyIsAwaited, of any tab.                                              *)
Awaits(t, kinds) == \E c \in t.calls : c.live /\ c.kind \in kinds
Loads(t) ==
    /\ t.loading /\ t.at = "commands" => Awaits(t, {"commands", "again"})
    /\ t.loading /\ t.at = "scenarios" => \A part \in Parts(t.awaited) : Awaits(t, {part})
Optimizes(t) == t.optimizing => Awaits(t, {"optimize"})
For(action) == {action} \cup IF action = "retry" THEN {"again"} ELSE {}
Acts(t) == t.action # "" => Awaits(t, For(t.action))
Busy(t) == Loads(t) /\ Optimizes(t) /\ Acts(t)

(* A failed retry loads the commands again: on the page that shows them.   *)
RetriesHere(t) == \A c \in t.calls : c.live /\ c.kind = "retry" => t.at = "commands"

Good(t) == IsTab(t) /\ Busy(t) /\ RetriesHere(t)

-----------------------------------------------------------------------------
(* Changes that no button and no loading is about.                         *)

(* The requests that a button or the loading waits for.                    *)
Busying == Actions \cup {"load", "commands", "again", "layout", "optimize"}

(* None of them is given up, and no retry is new.                          *)
KeepsCalls(cs, ds) ==
    /\ AreCalls(ds)
    /\ \A c \in cs : c.live /\ c.kind \in Busying => \E d \in ds : d.live /\ d.kind = c.kind
    /\ \A d \in ds : d.live /\ d.kind = "retry" => \E c \in cs : c.live /\ c.kind = "retry"

Keeps(t, u) ==
    /\ DOMAIN u = TabFields
    /\ u.at = t.at /\ u.loading = t.loading /\ u.awaited = t.awaited
    /\ u.action = t.action /\ u.optimizing = t.optimizing
    /\ KeepsCalls(t.calls, u.calls)

LEMMA AwaitsKept ==
  ASSUME NEW t, NEW u, NEW kinds \in SUBSET Busying, KeepsCalls(t.calls, u.calls), Awaits(t, kinds)
  PROVE  Awaits(u, kinds)
  BY DEF KeepsCalls, Awaits

LEMMA KeepsLoads ==
  ASSUME NEW t, NEW u, IsTab(t), Keeps(t, u), Loads(t)
  PROVE  Loads(u)
<1>1. /\ u.loading = t.loading /\ u.at = t.at /\ u.awaited = t.awaited
      /\ KeepsCalls(t.calls, u.calls)
  BY DEF Keeps
<1>2. ASSUME u.loading, u.at = "commands" PROVE Awaits(u, {"commands", "again"})
  <2>1. Awaits(t, {"commands", "again"})
    BY <1>1, <1>2 DEF Loads
  <2>2. {"commands", "again"} \in SUBSET Busying
    BY DEF Busying
  <2> QED
    BY <1>1, <2>1, <2>2, AwaitsKept
<1>3. ASSUME u.loading, u.at = "scenarios", NEW part \in Parts(u.awaited) PROVE Awaits(u, {part})
  <2>1. Awaits(t, {part})
    BY <1>1, <1>3 DEF Loads
  <2>2. {part} \in SUBSET Busying
    BY <1>1 DEF IsTab, Busying, Parts
  <2> QED
    BY <1>1, <2>1, <2>2, AwaitsKept
<1> QED
  BY <1>2, <1>3 DEF Loads

LEMMA KeepsActs ==
  ASSUME NEW t, NEW u, IsTab(t), Keeps(t, u), Acts(t)
  PROVE  Acts(u)
<1> SUFFICES ASSUME u.action # "" PROVE Awaits(u, For(u.action))
  BY DEF Acts
<1> DEFINE kinds == For(t.action)
<1>1. u.action = t.action /\ KeepsCalls(t.calls, u.calls)
  BY DEF Keeps
<1>2. kinds \in SUBSET Busying
  BY <1>1 DEF IsTab, Busying, For
<1>3. Awaits(t, kinds)
  BY <1>1 DEF Acts
<1> QED
  BY <1>1, <1>2, <1>3, AwaitsKept

LEMMA KeepsGood ==
  ASSUME NEW t, NEW u, Good(t), Keeps(t, u)
  PROVE  Good(u)
<1>1. IsTab(u)
  BY DEF Good, IsTab, Keeps, KeepsCalls
<1>2. RetriesHere(u)
  BY DEF Good, RetriesHere, Keeps, KeepsCalls
<1>3. {"optimize"} \in SUBSET Busying
  BY DEF Busying
<1>4. Optimizes(u)
  BY <1>3, AwaitsKept DEF Keeps, Good, Busy, Optimizes
<1> QED
  BY <1>1, <1>2, <1>4, KeepsLoads, KeepsActs DEF Good, Busy

LEMMA KeepsCallsMore ==
  ASSUME NEW cs, AreCalls(cs), NEW c, DOMAIN c = CallFields, c.live \in BOOLEAN, c.kind \in Kinds \ {"retry"}
  PROVE  KeepsCalls(cs, cs \cup {c})
  BY DEF KeepsCalls, AreCalls

LEMMA AskKeeps ==
  ASSUME NEW cs, AreCalls(cs), NEW kind \in Kinds \ {"retry"}, NEW of, NEW b
  PROVE  /\ KeepsCalls(cs, cs \cup {Ask(kind, of)})
         /\ KeepsCalls(cs, cs \cup {[Ask(kind, of) EXCEPT !.base = b]})
<1> DEFINE c == Ask(kind, of)
           d == [Ask(kind, of) EXCEPT !.base = b]
<1>1. DOMAIN c = CallFields /\ c.live = TRUE /\ c.kind = kind
  BY DEF Ask, CallFields
<1>2. DOMAIN d = CallFields /\ d.live = TRUE /\ d.kind = kind
  BY DEF Ask, CallFields
<1> HIDE DEF c, d
<1>3. KeepsCalls(cs, cs \cup {c}) /\ KeepsCalls(cs, cs \cup {d})
  BY <1>1, <1>2, KeepsCallsMore
<1> QED
  BY <1>3 DEF c, d

LEMMA OtherKinds ==
  /\ Lists \cup Reads \cup {"optimize"} \subseteq Kinds \ {"retry"}
  /\ Actions \subseteq Kinds
  BY DEF Kinds, Lists, Actions, Reviews, Reads

(* Requests of other kinds may be given up.                                *)
LEMMA AbandonedKeeps ==
  ASSUME NEW cs, AreCalls(cs), NEW kinds, kinds \cap Busying = {}
  PROVE  KeepsCalls(cs, Abandoned(cs, kinds))
<1> DEFINE f(c) == IF c.kind \in kinds THEN [c EXCEPT !.live = FALSE] ELSE c
<1>1. Abandoned(cs, kinds) = {f(c) : c \in cs}
  BY DEF Abandoned
<1>2. ASSUME NEW c \in cs
      PROVE  /\ DOMAIN f(c) = CallFields /\ f(c).kind = c.kind /\ f(c).live \in BOOLEAN
             /\ f(c).live => f(c) = c
             /\ c.live /\ c.kind \in Busying => f(c) = c
  BY DEF AreCalls, CallFields
<1> HIDE DEF f
<1> QED
  BY <1>1, <1>2 DEF KeepsCalls, AreCalls

LEMMA KeepsCallsTrans ==
  ASSUME NEW bs, NEW cs, NEW ds, AreCalls(bs), KeepsCalls(bs, cs), KeepsCalls(cs, ds)
  PROVE  KeepsCalls(bs, ds)
  BY DEF KeepsCalls

-----------------------------------------------------------------------------
(* Rendering.                                                              *)

LEMMA WatchKeeps ==
  ASSUME NEW t, IsTab(t)
  PROVE  Keeps(t, Watch(t))
<1>1. KeepsCalls(t.calls, t.calls)
  BY DEF IsTab, KeepsCalls
<1>2. KeepsCalls(t.calls, t.calls \cup {Ask("reload", t.candidate.of)})
  <2>1. "reload" \in Kinds \ {"retry"}
    BY OtherKinds DEF Lists
  <2> QED
    BY <2>1, AskKeeps DEF IsTab
<1>3. Keeps(t, t)
  BY <1>1 DEF Keeps, IsTab
<1>4. Keeps(t, Send(t, "reload", t.candidate.of))
  BY <1>2 DEF Keeps, IsTab, Send, TabFields
<1> QED
  BY <1>3, <1>4 DEF Watch

LEMMA CompareKeeps ==
  ASSUME NEW t, IsTab(t)
  PROVE  Keeps(t, Compare(t))
<1> DEFINE cs == Abandoned(t.calls, {"compare"})
           ask == [Ask("compare", Compared(t).of) EXCEPT !.base = Compared(t).base]
<1>1. KeepsCalls(t.calls, cs)
  BY AbandonedKeeps DEF IsTab, Busying, Actions, Reviews
<1>2. KeepsCalls(t.calls, cs \cup {ask})
  <2>1. AreCalls(cs)
    BY <1>1 DEF KeepsCalls
  <2>2. KeepsCalls(cs, cs \cup {ask})
    <3>1. "compare" \in Kinds \ {"retry"}
      BY OtherKinds DEF Reads
    <3> QED
      BY <2>1, <3>1, AskKeeps
  <2> QED
    BY <1>1, <2>2, KeepsCallsTrans DEF IsTab
<1>3. KeepsCalls(t.calls, t.calls)
  BY DEF IsTab, KeepsCalls
<1> HIDE DEF cs, ask
<1>4. CASE t.candidate = NoCandidate
  <2>1. Compare(t) = [t EXCEPT !.open = FALSE, !.compared = NoPair, !.calls = cs]
    BY <1>4 DEF Compare, cs
  <2> QED
    BY <1>1, <2>1 DEF Keeps, IsTab, TabFields
<1>5. CASE t.candidate # NoCandidate /\ t.open = tab.open /\ Compared(t) = Compared(tab)
  BY <1>3, <1>5 DEF Compare, Keeps, IsTab
<1>6. CASE t.candidate # NoCandidate /\ ~(t.open = tab.open /\ Compared(t) = Compared(tab))
  <2>1. Compare(t) = IF t.open THEN [[t EXCEPT !.calls = cs] EXCEPT !.compared = NoPair, !.calls = @ \cup {ask}]
                     ELSE [t EXCEPT !.calls = cs]
    BY <1>6 DEF Compare, cs, ask
  <2>2. CASE t.open
    BY <1>2, <2>1, <2>2 DEF Keeps, IsTab, TabFields
  <2>3. CASE ~t.open
    BY <1>1, <2>1, <2>3 DEF Keeps, IsTab, TabFields
  <2> QED
    BY <2>2, <2>3
<1> QED
  BY <1>4, <1>5, <1>6

LEMMA RenderedGood ==
  ASSUME NEW t, Good(t)
  PROVE  Good(Rendered(t))
<1>1. Good(Watch(t))
  BY WatchKeeps, KeepsGood DEF Good
<1> QED
  BY <1>1, CompareKeeps, KeepsGood DEF Good, Rendered
-----------------------------------------------------------------------------
(* A request of a retry is sent by a click, or answered where it was sent. *)

LEMMA ActGood ==
  ASSUME NEW t, Good(t), NEW c, DOMAIN c = CallFields, c.live = TRUE, c.kind \in Actions,
         c.kind = "retry" => t.at = "commands",
         NEW u, u = [t EXCEPT !.action = c.kind, !.calls = @ \cup {c}]
  PROVE  Good(u)
<1>1. /\ DOMAIN u = TabFields /\ u.at = t.at /\ u.loading = t.loading
      /\ u.awaited = t.awaited /\ u.optimizing = t.optimizing
      /\ u.action = c.kind /\ u.calls = t.calls \cup {c}
  BY DEF Good, IsTab, TabFields
<1>2. IsTab(u)
  BY <1>1, OtherKinds DEF Good, IsTab, AreCalls
<1>3. RetriesHere(u)
  BY <1>1 DEF Good, RetriesHere
<1>4. \A kinds : Awaits(t, kinds) => Awaits(u, kinds)
  BY <1>1 DEF Awaits
<1>5. Acts(u)
  BY <1>1 DEF Acts, Awaits, For
<1> QED
  BY <1>1, <1>2, <1>3, <1>4, <1>5 DEF Good, Busy, Loads, Optimizes

(* The optimization of the panel is asked for.                             *)
LEMMA OptimizeGood ==
  ASSUME NEW t, Good(t), NEW c, DOMAIN c = CallFields, c.live = TRUE, c.kind = "optimize",
         NEW u, u = [t EXCEPT !.optimizing = TRUE, !.calls = @ \cup {c}]
  PROVE  Good(u)
<1>1. /\ DOMAIN u = TabFields /\ u.at = t.at /\ u.loading = t.loading
      /\ u.awaited = t.awaited /\ u.optimizing = TRUE
      /\ u.action = t.action /\ u.calls = t.calls \cup {c}
  BY DEF Good, IsTab, TabFields
<1>2. IsTab(u)
  BY <1>1, OtherKinds DEF Good, IsTab, AreCalls
<1>3. RetriesHere(u)
  BY <1>1 DEF Good, RetriesHere
<1>4. \A kinds : Awaits(t, kinds) => Awaits(u, kinds)
  BY <1>1 DEF Awaits
<1>5. Optimizes(u)
  BY <1>1 DEF Optimizes, Awaits
<1> QED
  BY <1>1, <1>2, <1>3, <1>4, <1>5 DEF Good, Busy, Loads, Acts

(* Another layout is another panel.                                        *)
LEMMA SelectGood ==
  ASSUME NEW t, NEW l, IsTab(t), RetriesHere(t), Optimizes(t), Acts(t)
  PROVE  LET u == SelectLayout(t, l)
         IN /\ IsTab(u) /\ RetriesHere(u) /\ Optimizes(u) /\ Acts(u)
            /\ Loads(t) => Loads(u)
<1> DEFINE v == [t EXCEPT !.selected = l, !.optimizing = FALSE, !.recommended = 0,
                          !.calls = Abandoned(@, {"optimize"})]
           f(c) == IF c.kind \in {"optimize"} THEN [c EXCEPT !.live = FALSE] ELSE c
<1>1. v.calls = {f(c) : c \in t.calls}
  BY DEF IsTab, TabFields, Abandoned
<1>2. ASSUME NEW c \in t.calls
      PROVE  /\ DOMAIN f(c) = CallFields /\ f(c).kind = c.kind /\ f(c).live \in BOOLEAN
             /\ f(c).live => f(c) = c
             /\ c.kind # "optimize" => f(c) = c
  BY DEF IsTab, AreCalls, CallFields
<1>3. /\ DOMAIN v = TabFields /\ v.at = t.at /\ v.loading = t.loading /\ v.awaited = t.awaited
      /\ v.action = t.action /\ v.optimizing = FALSE
  BY DEF IsTab, TabFields
<1> HIDE DEF v, f
<1>4. AreCalls(v.calls)
  <2> SUFFICES ASSUME NEW d \in v.calls
               PROVE  DOMAIN d = CallFields /\ d.kind \in Kinds /\ d.live \in BOOLEAN
    BY DEF AreCalls
  <2>1. PICK c \in t.calls : d = f(c)
    BY <1>1
  <2>2. c.kind \in Kinds
    BY <2>1 DEF IsTab, AreCalls
  <2> QED
    BY <1>2, <2>1, <2>2
<1>5. IsTab(v)
  BY <1>3, <1>4 DEF IsTab
<1>6. RetriesHere(v)
  BY <1>1, <1>2, <1>3 DEF RetriesHere
<1>7. ASSUME NEW kinds, "optimize" \notin kinds, Awaits(t, kinds) PROVE Awaits(v, kinds)
  BY <1>1, <1>2, <1>7 DEF Awaits
<1>8. Optimizes(v)
  BY <1>3 DEF Optimizes
<1>9. Acts(v)
  <2> DEFINE kinds == For(t.action)
  <2>1. "optimize" \notin kinds
    BY DEF IsTab, Actions, Reviews, For
  <2> QED
    BY <1>3, <1>7, <2>1 DEF Acts
<1>10. Loads(t) => Loads(v)
  <2>1. "optimize" \notin {"commands", "again"} /\ \A part \in Parts(t.awaited) : "optimize" \notin {part}
    BY DEF Parts, IsTab
  <2> QED
    BY <1>3, <1>7, <2>1 DEF Loads
<1>11. SelectLayout(t, l) = IF t.selected = l THEN t ELSE v
  BY DEF SelectLayout, v
<1> QED
  BY <1>5, <1>6, <1>8, <1>9, <1>10, <1>11

(* A page asks for what it shows.                                          *)
LEMMA LoadPageGood ==
  ASSUME NEW t, IsTab(t), RetriesHere(t), Optimizes(t), Acts(t)
  PROVE  Good(LoadPage(t))
<1>1. CASE t.at = "commands"
  <2> DEFINE c == Ask("commands", 0)
             u == [t EXCEPT !.loading = TRUE, !.calls = @ \cup {c}]
  <2>1. LoadPage(t) = u
    BY <1>1 DEF LoadPage, Send, IsTab, TabFields
  <2>2. DOMAIN c = CallFields /\ c.live = TRUE /\ c.kind = "commands"
    BY DEF Ask, CallFields
  <2>3. /\ DOMAIN u = TabFields /\ u.at = t.at /\ u.loading = TRUE /\ u.awaited = t.awaited
        /\ u.action = t.action /\ u.optimizing = t.optimizing /\ u.calls = t.calls \cup {c}
    BY DEF IsTab, TabFields
  <2> HIDE DEF c, u
  <2>4. "commands" \in Kinds
    BY DEF Kinds, Reads
  <2>5. IsTab(u)
    BY <2>2, <2>3, <2>4 DEF IsTab, AreCalls
  <2>6. RetriesHere(u) /\ Optimizes(u) /\ Acts(u)
    BY <2>2, <2>3 DEF RetriesHere, Optimizes, Acts, Awaits
  <2>7. Loads(u)
    BY <1>1, <2>2, <2>3 DEF Loads, Awaits
  <2> QED
    BY <2>1, <2>5, <2>6, <2>7 DEF Good, Busy
<1>2. CASE t.at = "scenarios"
  <2> DEFINE c == Ask("commands", 0)
             d == Ask("load", 0)
             u == [t EXCEPT !.loading = TRUE, !.awaited = {"load", "commands"},
                            !.calls = (@ \cup {d}) \cup {c}]
  <2>1. LoadPage(t) = u
    BY <1>2 DEF LoadPage, Send, IsTab, TabFields
  <2>2. /\ DOMAIN c = CallFields /\ c.live = TRUE /\ c.kind = "commands"
        /\ DOMAIN d = CallFields /\ d.live = TRUE /\ d.kind = "load"
    BY DEF Ask, CallFields
  <2>3. /\ DOMAIN u = TabFields /\ u.at = t.at /\ u.awaited = {"load", "commands"}
        /\ u.action = t.action /\ u.optimizing = t.optimizing /\ u.calls = t.calls \cup {c, d}
    BY DEF IsTab, TabFields
  <2> HIDE DEF c, d, u
  <2>4. "commands" \in Kinds /\ "load" \in Kinds
    BY DEF Kinds, Reads, Lists
  <2>5. IsTab(u)
    BY <2>2, <2>3, <2>4 DEF IsTab, AreCalls
  <2>6. RetriesHere(u) /\ Optimizes(u) /\ Acts(u)
    BY <2>2, <2>3 DEF RetriesHere, Optimizes, Acts, Awaits
  <2>7. Awaits(u, {"load"}) /\ Awaits(u, {"commands"})
    BY <2>2, <2>3 DEF Awaits
  <2>8. Loads(u)
    BY <1>2, <2>3, <2>7 DEF Loads, Parts
  <2> QED
    BY <2>1, <2>5, <2>6, <2>8 DEF Good, Busy
<1> QED
  BY <1>1, <1>2 DEF IsTab

(* A page is mounted: whoever awaited a request for the last one is gone.  *)
LEMMA MountedGood ==
  ASSUME NEW t, DOMAIN t = TabFields, AreCalls(t.calls), NEW at \in {"scenarios", "commands"}, NEW url
  PROVE  Good(Mounted(t, at, url))
<1> DEFINE u == [t EXCEPT !.at = at, !.url = url, !.candidate = NoCandidate, !.source = 0,
                          !.selected = 0, !.layouts = FALSE, !.queue = "all",
                          !.optimizing = FALSE, !.recommended = 0, !.loading = FALSE,
                          !.awaited = {}, !.linked = 0, !.action = "", !.dialog = FALSE,
                          !.open = FALSE, !.compared = NoPair,
                          !.calls = Abandoned(@, Kinds \ {"strip"})]
           f(c) == IF c.kind \in Kinds \ {"strip"} THEN [c EXCEPT !.live = FALSE] ELSE c
<1>1. Mounted(t, at, url) = LoadPage(u)
  BY DEF Mounted
<1>2. /\ DOMAIN u = TabFields /\ u.at = at /\ u.awaited = {} /\ u.action = ""
      /\ u.optimizing = FALSE /\ u.calls = {f(c) : c \in t.calls}
  BY DEF TabFields, Abandoned
<1>3. ASSUME NEW c \in t.calls
      PROVE  /\ DOMAIN f(c) = CallFields /\ f(c).kind = c.kind /\ f(c).live \in BOOLEAN
             /\ f(c).live => f(c).kind = "strip"
  BY DEF AreCalls, CallFields
<1> HIDE DEF u, f
<1>4. AreCalls(u.calls)
  BY <1>2, <1>3 DEF AreCalls
<1>5. IsTab(u) /\ RetriesHere(u) /\ Optimizes(u) /\ Acts(u)
  BY <1>2, <1>3, <1>4 DEF IsTab, RetriesHere, Optimizes, Acts
<1> QED
  BY <1>1, <1>5, LoadPageGood

LEMMA OpenedGood ==
  ASSUME NEW at \in {"scenarios", "commands"}, NEW role, NEW url
  PROVE  Good(Opened(at, role, url))
<1> DEFINE t == [at |-> at, url |-> url, role |-> role, scenarios |-> NoCopies,
                 commands |-> NoCopies, candidate |-> NoCandidate, source |-> 0,
                 selected |-> 0, layouts |-> FALSE, queue |-> "all", guided |-> FALSE,
                 optimizing |-> FALSE, recommended |-> 0, loading |-> FALSE, awaited |-> {},
                 linked |-> 0, action |-> "", dialog |-> FALSE, open |-> FALSE,
                 compared |-> NoPair, calls |-> {}]
           u == Mounted(t, at, url)
<1>1. DOMAIN t = TabFields /\ AreCalls(t.calls)
  BY DEF TabFields, AreCalls
<1>2. Opened(at, role, url) = Send(u, "strip", 0)
  BY DEF Opened
<1> HIDE DEF t
<1>3. Good(u)
  BY <1>1, MountedGood
<1> HIDE DEF u
<1>4. KeepsCalls(u.calls, u.calls \cup {Ask("strip", 0)})
  <2>1. "strip" \in Kinds \ {"retry"}
    BY OtherKinds DEF Lists
  <2> QED
    BY <1>3, <2>1, AskKeeps DEF Good, IsTab
<1>5. Keeps(u, Send(u, "strip", 0))
  BY <1>3, <1>4 DEF Keeps, Good, IsTab, Send, TabFields
<1> QED
  BY <1>2, <1>3, <1>5, KeepsGood
-----------------------------------------------------------------------------
(* Answers and failures.                                                   *)

(* A change of what no button waits for.                                   *)
Same(t, u) ==
    /\ DOMAIN u = TabFields
    /\ u.at = t.at /\ u.loading = t.loading /\ u.awaited = t.awaited
    /\ u.action = t.action /\ u.optimizing = t.optimizing /\ u.calls = t.calls

LEMMA SameGood ==
  ASSUME NEW t, NEW u, Same(t, u)
  PROVE  /\ IsTab(t) => IsTab(u)
         /\ RetriesHere(t) => RetriesHere(u)
         /\ Loads(t) => Loads(u)
         /\ Optimizes(t) => Optimizes(u)
         /\ Acts(t) => Acts(u)
  BY DEF Same, IsTab, RetriesHere, Loads, Optimizes, Acts, Awaits

LEMMA StoreSame ==
  ASSUME NEW t, IsTab(t)
  PROVE  /\ Same(t, t)
         /\ \A list : /\ Same(t, SetCommands(t, list)) /\ Same(t, SetScenarios(t, list))
                     /\ Same(t, LoadScenarios(t, list))
         /\ \A s, n : Same(t, UpdateScenario(t, s, n))
  BY DEF Same, IsTab, TabFields, SetCommands, SetScenarios, LoadScenarios, UpdateScenario

LEMMA SameTrans ==
  ASSUME NEW t, NEW u, NEW v, Same(t, u), Same(u, v)
  PROVE  Same(t, v)
  BY DEF Same

(* Without the request that is answered.                                   *)
LEMMA DoneHolds ==
  ASSUME Good(tab), NEW c \in tab.calls
  PROVE  /\ IsTab(Done(c)) /\ RetriesHere(Done(c))
         /\ Done(c).at = tab.at /\ Done(c).loading = tab.loading
         /\ Done(c).awaited = tab.awaited /\ Done(c).action = tab.action
         /\ Done(c).optimizing = tab.optimizing
         /\ \A kinds : Awaits(tab, kinds) /\ ~(c.live /\ c.kind \in kinds) => Awaits(Done(c), kinds)
<1>1. /\ DOMAIN Done(c) = TabFields /\ Done(c).at = tab.at /\ Done(c).loading = tab.loading
      /\ Done(c).awaited = tab.awaited /\ Done(c).action = tab.action
      /\ Done(c).optimizing = tab.optimizing /\ Done(c).calls = tab.calls \ {c}
  BY DEF Done, Good, IsTab, TabFields
<1>2. IsTab(Done(c)) /\ RetriesHere(Done(c))
  BY <1>1 DEF Good, IsTab, AreCalls, RetriesHere
<1>3. ASSUME NEW kinds, Awaits(tab, kinds), ~(c.live /\ c.kind \in kinds)
      PROVE  Awaits(Done(c), kinds)
  BY <1>1, <1>3 DEF Awaits
<1> QED
  BY <1>1, <1>2, <1>3

LEMMA DoneLoads ==
  ASSUME Good(tab), NEW c \in tab.calls,
         ~(c.live /\ c.kind \in {"load", "commands", "again", "layout"})
  PROVE  Loads(Done(c))
<1>1. ~(c.live /\ c.kind \in {"commands", "again"})
  OBVIOUS
<1>2. \A part \in Parts(tab.awaited) : ~(c.live /\ c.kind \in {part})
  BY DEF Parts, Good, IsTab
<1> QED
  BY <1>1, <1>2, DoneHolds DEF Loads, Good, Busy

LEMMA DoneOptimizes ==
  ASSUME Good(tab), NEW c \in tab.calls, ~(c.live /\ c.kind = "optimize")
  PROVE  Optimizes(Done(c))
  BY DoneHolds DEF Optimizes, Good, Busy

LEMMA DoneActs ==
  ASSUME Good(tab), NEW c \in tab.calls, ~(c.live /\ c.kind \in Actions \cup {"again"})
  PROVE  Acts(Done(c))
<1> DEFINE kinds == For(tab.action)
<1>1. tab.action # "" => ~(c.live /\ c.kind \in kinds)
  BY DEF Good, IsTab, For
<1> QED
  BY <1>1, DoneHolds DEF Acts, Good, Busy

LEMMA DoneGood ==
  ASSUME Good(tab), NEW c \in tab.calls, ~(c.live /\ c.kind \in Busying)
  PROVE  Good(Done(c))
<1>1. Loads(Done(c))
  BY DoneLoads DEF Busying
<1>2. Optimizes(Done(c))
  BY DoneOptimizes DEF Busying
<1>3. Acts(Done(c))
  BY DoneActs DEF Busying
<1> QED
  BY <1>1, <1>2, <1>3, DoneHolds DEF Good, Busy

(* One of the two requests of loadPage; t is what its answer made of tab.  *)
LEMMA JoinedGood ==
  ASSUME Good(tab), NEW c \in tab.calls, c.live, NEW part \in {"load", "commands"}, c.kind = part,
         part = "commands" => tab.at = "scenarios", NEW t, Same(Done(c), t)
  PROVE  Good(Joined(t, part))
<1> DEFINE j == [t EXCEPT !.awaited = @ \ {part}]
           l == Ask("layout", IF t.url.layout = 0 THEN 1 ELSE t.url.layout)
           w == [j EXCEPT !.layouts = TRUE,
                          !.queue = IF t.url.queue = "" THEN @ ELSE t.url.queue,
                          !.candidate = IF t.url.candidate = 0 \/ t.linked = 0 THEN @
                                        ELSE Copy(t.url.candidate, t.linked),
                          !.calls = @ \cup {l}]
<1>1. Joined(t, part) = IF t.awaited # {part} THEN j ELSE w
  BY DEF Joined, Send, Same, TabFields
<1>2. /\ IsTab(t) /\ RetriesHere(t) /\ Optimizes(t) /\ Acts(t)
  <2>1. Optimizes(Done(c))
    BY DoneOptimizes
  <2>2. Acts(Done(c))
    BY DoneActs DEF Actions, Reviews
  <2> QED
    BY <2>1, <2>2, DoneHolds, SameGood
<1>3. /\ t.at = tab.at /\ t.loading = tab.loading /\ t.awaited = tab.awaited
      /\ \A kinds : Awaits(tab, kinds) /\ part \notin kinds => Awaits(t, kinds)
  BY DoneHolds DEF Same, Awaits
<1>4. /\ DOMAIN j = TabFields /\ j.at = t.at /\ j.loading = t.loading
      /\ j.awaited = t.awaited \ {part} /\ j.action = t.action
      /\ j.optimizing = t.optimizing /\ j.calls = t.calls
  BY <1>2 DEF IsTab, TabFields
<1>5. /\ DOMAIN w = TabFields /\ w.at = t.at /\ w.loading = t.loading
      /\ w.awaited = t.awaited \ {part} /\ w.action = t.action
      /\ w.optimizing = t.optimizing /\ w.calls = t.calls \cup {l}
  BY <1>2 DEF IsTab, TabFields
<1>6. DOMAIN l = CallFields /\ l.live = TRUE /\ l.kind = "layout" /\ "layout" \in Kinds
  BY DEF Ask, CallFields, Kinds, Reads
<1> HIDE DEF j, l, w
<1>7. CASE t.awaited # {part}
  <2>1. IsTab(j) /\ RetriesHere(j) /\ Optimizes(j) /\ Acts(j)
    BY <1>2, <1>4 DEF IsTab, RetriesHere, Optimizes, Acts, Awaits
  <2>2. ASSUME j.loading, j.at = "commands" PROVE Awaits(j, {"commands", "again"})
    <3>1. Awaits(tab, {"commands", "again"})
      BY <1>3, <1>4, <2>2 DEF Good, Busy, Loads
    <3>2. part \notin {"commands", "again"}
      BY <1>3, <1>4, <2>2
    <3> QED
      BY <1>3, <1>4, <3>1, <3>2 DEF Awaits
  <2>3. ASSUME j.loading, j.at = "scenarios", NEW other \in Parts(j.awaited) PROVE Awaits(j, {other})
    <3>1. other \in Parts(tab.awaited) /\ other # part
      BY <1>3, <1>4, <1>7, <2>3 DEF Parts
    <3>2. Awaits(tab, {other})
      BY <1>3, <1>4, <2>3, <3>1 DEF Good, Busy, Loads
    <3> QED
      BY <1>3, <1>4, <3>1, <3>2 DEF Awaits
  <2> QED
    BY <1>1, <1>7, <2>1, <2>2, <2>3 DEF Good, Busy, Loads
<1>8. CASE t.awaited = {part}
  <2>1. IsTab(w) /\ RetriesHere(w) /\ Optimizes(w) /\ Acts(w)
    BY <1>2, <1>5, <1>6 DEF IsTab, RetriesHere, Optimizes, Acts, Awaits, AreCalls
  <2>2. ASSUME w.loading, w.at = "commands" PROVE Awaits(w, {"commands", "again"})
    <3>1. Awaits(tab, {"commands", "again"})
      BY <1>3, <1>5, <2>2 DEF Good, Busy, Loads
    <3>2. part \notin {"commands", "again"}
      BY <1>3, <1>5, <2>2
    <3> QED
      BY <1>3, <1>5, <3>1, <3>2 DEF Awaits
  <2>3. ASSUME NEW other \in Parts(w.awaited) PROVE Awaits(w, {other})
    <3>1. other = "layout"
      BY <1>5, <1>8, <2>3 DEF Parts
    <3> QED
      BY <1>5, <1>6, <3>1 DEF Awaits
  <2> QED
    BY <1>1, <1>8, <2>1, <2>2, <2>3 DEF Good, Busy, Loads
<1> QED
  BY <1>7, <1>8
(* The list of commands, or its failure.                                   *)
LEMMA GotCommandsGood ==
  ASSUME Good(tab), NEW c \in tab.calls, c.kind \in {"commands", "again"}, NEW list
  PROVE  Good(GotCommands(Done(c), c, list))
<1> DEFINE t == SetCommands(Done(c), list)
           u == [t EXCEPT !.loading = FALSE]
           v == [t EXCEPT !.loading = FALSE, !.action = ""]
<1>1. Same(Done(c), t)
  BY DoneHolds, StoreSame
<1>2. GotCommands(Done(c), c, list) =
        IF ~c.live THEN t
        ELSE IF c.kind = "again" THEN v
        ELSE IF t.at = "commands" THEN u ELSE Joined(t, "commands")
  <2> c.live \in BOOLEAN
    BY DEF Good, IsTab, AreCalls
  <2>1. ~c.live => GotCommands(Done(c), c, list) = t
    BY DEF GotCommands
  <2>2. c.live /\ c.kind = "again" => GotCommands(Done(c), c, list) = v
    BY DEF GotCommands
  <2>3. c.live /\ c.kind # "again" /\ Done(c).at = "commands" => GotCommands(Done(c), c, list) = u
    BY DEF GotCommands
  <2>4. c.live /\ c.kind # "again" /\ Done(c).at # "commands" =>
            GotCommands(Done(c), c, list) = Joined(t, "commands")
    BY DEF GotCommands
  <2>5. t.at = Done(c).at
    BY <1>1 DEF Same
  <2> HIDE DEF t, u, v
  <2> QED
    BY <2>1, <2>2, <2>3, <2>4, <2>5
<1>3. IsTab(t) /\ RetriesHere(t)
  BY <1>1, DoneHolds, SameGood
<1>4. /\ DOMAIN u = TabFields /\ u.at = t.at /\ u.loading = FALSE /\ u.awaited = t.awaited
      /\ u.action = t.action /\ u.optimizing = t.optimizing /\ u.calls = t.calls
      /\ DOMAIN v = TabFields /\ v.at = t.at /\ v.loading = FALSE /\ v.awaited = t.awaited
      /\ v.action = "" /\ v.optimizing = t.optimizing /\ v.calls = t.calls
  BY <1>3 DEF IsTab, TabFields
<1> HIDE DEF t, u, v
<1>5. Optimizes(t)
  BY <1>1, DoneOptimizes, SameGood
<1>6. IsTab(u) /\ RetriesHere(u) /\ Loads(u) /\ Optimizes(u)
  BY <1>3, <1>4, <1>5 DEF IsTab, RetriesHere, Loads, Optimizes, Awaits
<1>7. Good(v)
  BY <1>3, <1>4, <1>5 DEF Good, Busy, IsTab, RetriesHere, Loads, Optimizes, Acts, Awaits
<1>8. CASE ~c.live
  BY <1>1, <1>2, <1>8, DoneGood, SameGood DEF Good, Busy
<1>9. CASE c.live /\ c.kind = "again"
  BY <1>2, <1>7, <1>9
<1>10. CASE c.live /\ c.kind = "commands" /\ t.at = "commands"
  <2>1. Acts(Done(c))
    BY <1>10, DoneActs DEF Actions, Reviews
  <2>2. Acts(u)
    BY <1>1, <1>4, <2>1, SameGood DEF Acts, Awaits
  <2> QED
    BY <1>2, <1>6, <1>10, <2>2 DEF Good, Busy
<1>11. CASE c.live /\ c.kind = "commands" /\ t.at # "commands"
  <2>1. tab.at = "scenarios"
    BY <1>1, <1>11, DoneHolds DEF Same, Good, IsTab
  <2> QED
    BY <1>1, <1>2, <1>11, <2>1, JoinedGood
<1> QED
  BY <1>8, <1>9, <1>10, <1>11

(* The button whose request c has ended is enabled.                        *)
LEMMA EndedGood ==
  ASSUME Good(tab), NEW c \in tab.calls, c.live, c.kind \in Actions, NEW t, Same(Done(c), t)
  PROVE  Good([t EXCEPT !.action = ""])
<1> DEFINE u == [t EXCEPT !.action = ""]
<1>1. c.kind \notin {"load", "commands", "again", "layout", "optimize"}
  BY DEF Actions, Reviews
<1>2. IsTab(t) /\ RetriesHere(t) /\ Optimizes(t) /\ Loads(t)
  BY <1>1, DoneHolds, DoneOptimizes, DoneLoads, SameGood
<1>3. /\ DOMAIN u = TabFields /\ u.at = t.at /\ u.loading = t.loading /\ u.awaited = t.awaited
      /\ u.action = "" /\ u.optimizing = t.optimizing /\ u.calls = t.calls
  BY <1>2 DEF IsTab, TabFields
<1> HIDE DEF u
<1>4. Good(u)
  BY <1>2, <1>3 DEF Good, Busy, IsTab, RetriesHere, Loads, Optimizes, Acts, Awaits
<1> QED
  BY <1>4 DEF u

(* d is c, or c with the answer that stands for its failure.               *)
LEMMA ChangedGood ==
  ASSUME Good(tab), NEW c \in tab.calls, c.kind \in {"run"} \cup Reviews,
         NEW d, d.live = c.live, d.kind = c.kind
  PROVE  Good(Changed(Done(c), d))
<1> DEFINE t == Done(c)
           s == CHOOSE s \in Scenarios : d.answer[s] # 0
           u == UpdateScenario(t, s, d.answer[s])
           shown == [u EXCEPT !.candidate = Copy(s, d.answer[s]),
                              !.source = IF d.kind = "run" THEN 0 ELSE @]
<1>1. Changed(t, d) = IF d.answer = NoCopies
                      THEN (IF d.live THEN [t EXCEPT !.action = ""] ELSE t)
                      ELSE IF d.live THEN [shown EXCEPT !.action = ""] ELSE u
  BY DEF Changed, ActionEnds
<1>2. IsTab(t)
  BY DoneHolds
<1> HIDE DEF t, s
<1>3. Same(t, t) /\ Same(t, u)
  BY <1>2, StoreSame
<1> HIDE DEF u
<1>4. Same(u, shown)
  BY <1>3 DEF Same, TabFields
<1> HIDE DEF shown
<1>5. CASE c.live
  <2>1. c.kind \in Actions
    BY DEF Actions
  <2>2. Good([t EXCEPT !.action = ""])
    BY <1>3, <1>5, <2>1, EndedGood DEF t
  <2>3. Good([shown EXCEPT !.action = ""])
    BY <1>3, <1>4, <1>5, <2>1, EndedGood, SameTrans DEF t
  <2> QED
    BY <1>1, <1>5, <2>2, <2>3 DEF t
<1>6. CASE ~c.live
  <2>1. Good(t)
    BY <1>6, DoneGood DEF t
  <2>2. Good(u)
    BY <1>3, <2>1, SameGood DEF Good, Busy
  <2> QED
    BY <1>1, <1>6, <2>1, <2>2 DEF t
<1> QED
  BY <1>5, <1>6

LEMMA CommandedGood ==
  ASSUME Good(tab), NEW c \in tab.calls, c.kind \in {"apply", "retry"},
         NEW d, d.live = c.live, d.kind = c.kind
  PROVE  Good(Commanded(Done(c), d))
<1> DEFINE t == Done(c)
           u == SetCommands(t, d.answer)
           again == [Ask("again", 0) EXCEPT !.live = d.live]
           v == [t EXCEPT !.loading = @ \/ d.live, !.calls = @ \cup {again}]
<1>1. Commanded(t, d) = IF d.kind = "retry" /\ d.answer = NoCopies THEN v
                        ELSE IF d.live THEN [u EXCEPT !.action = ""] ELSE u
  BY DEF Commanded, ActionEnds
<1>2. IsTab(t) /\ RetriesHere(t)
  BY DoneHolds
<1>3. DOMAIN again = CallFields /\ again.kind = "again" /\ again.live = d.live
  BY DEF Ask, CallFields
<1>4. c.live \in BOOLEAN /\ c.kind \in Actions
  BY DEF Good, IsTab, AreCalls, Actions
<1> HIDE DEF t, again
<1>5. Same(t, t) /\ Same(t, u)
  BY <1>2, StoreSame
<1> HIDE DEF u
<1>6. /\ DOMAIN v = TabFields /\ v.at = t.at /\ v.loading = (t.loading \/ d.live)
      /\ v.awaited = t.awaited /\ v.action = t.action /\ v.optimizing = t.optimizing
      /\ v.calls = t.calls \cup {again}
  BY <1>2 DEF IsTab, TabFields
<1> HIDE DEF v
<1>7. CASE ~(d.kind = "retry" /\ d.answer = NoCopies) /\ c.live
  <2>1. Good([u EXCEPT !.action = ""])
    BY <1>4, <1>5, <1>7, EndedGood DEF t
  <2> QED
    BY <1>1, <1>7, <2>1 DEF t
<1>8. CASE ~(d.kind = "retry" /\ d.answer = NoCopies) /\ ~c.live
  <2>1. Good(t)
    BY <1>8, DoneGood DEF t
  <2> QED
    BY <1>1, <1>5, <1>8, <2>1, SameGood DEF t, Good, Busy
<1>9. CASE d.kind = "retry" /\ d.answer = NoCopies
  <2>1. IsTab(v)
    <3>1. "again" \in Kinds
      BY DEF Kinds, Reads
    <3>2. AreCalls(v.calls)
      BY <1>2, <1>3, <1>4, <1>6, <3>1 DEF IsTab, AreCalls
    <3> QED
      BY <1>2, <1>6, <3>2 DEF IsTab
  <2>2. RetriesHere(v)
    BY <1>2, <1>3, <1>6 DEF RetriesHere
  <2>3. \A kinds : Awaits(t, kinds) => Awaits(v, kinds)
    BY <1>6 DEF Awaits
  <2>4. Optimizes(v)
    <3>1. Optimizes(t)
      BY <1>9, DoneOptimizes DEF t
    <3> QED
      BY <1>6, <2>3, <3>1 DEF Optimizes
  <2>5. Loads(t)
    BY <1>9, DoneLoads DEF t
  <2>6. CASE c.live
    <3>1. Awaits(v, {"again"}) /\ Awaits(v, {"commands", "again"}) /\ Awaits(v, {"retry", "again"})
      BY <1>3, <1>6, <2>6 DEF Awaits
    <3>2. v.at = "commands"
      BY <1>6, <1>9, <2>6, DoneHolds DEF t, Good, RetriesHere
    <3>3. Loads(v)
      BY <3>1, <3>2 DEF Loads
    <3>4. ASSUME tab.action = "retry" PROVE Acts(v)
      <4>1. v.action = "retry"
        BY <1>6, <3>4, DoneHolds DEF t
      <4>2. For("retry") = {"retry", "again"}
        BY DEF For
      <4> QED
        BY <3>1, <4>1, <4>2 DEF Acts
    <3>5. ASSUME tab.action # "retry" PROVE Acts(v)
      <4> DEFINE kinds == For(tab.action)
      <4>1. v.action = tab.action
        BY <1>6, DoneHolds DEF t
      <4>2. tab.action # "" => Awaits(tab, kinds)
        BY DEF Good, Busy, Acts
      <4>3. c.kind \notin kinds
        BY <1>9, <3>5 DEF For
      <4> HIDE DEF kinds
      <4>4. tab.action # "" => Awaits(v, kinds)
        BY <2>3, <4>2, <4>3, DoneHolds DEF t
      <4> QED
        BY <4>1, <4>4 DEF Acts, kinds
    <3> QED
      BY <1>1, <1>9, <2>1, <2>2, <2>4, <3>3, <3>4, <3>5 DEF Good, Busy, t
  <2>7. CASE ~c.live
    <3>1. v.loading => t.loading
      BY <1>6, <2>7
    <3>2. Acts(t)
      BY <2>7, DoneActs DEF t
    <3>3. Loads(v) /\ Acts(v)
      BY <1>6, <2>3, <2>5, <3>1, <3>2 DEF Loads, Acts
    <3> QED
      BY <1>1, <1>9, <2>1, <2>2, <2>4, <3>3 DEF Good, Busy, t
  <2> QED
    BY <2>6, <2>7
<1> QED
  BY <1>7, <1>8, <1>9

LEMMA OptimizedGood ==
  ASSUME Good(tab), NEW c \in tab.calls, c.kind = "optimize", NEW d, d.live = c.live
  PROVE  Good(Optimized(Done(c), d))
<1> DEFINE t == Done(c)
           u == [t EXCEPT !.optimizing = FALSE,
                          !.recommended = IF d.answer = NoCopies THEN @
                                          ELSE CHOOSE s \in Scenarios : d.answer[s] # 0]
<1>1. Optimized(t, d) = IF ~d.live THEN t ELSE u
  BY DEF Optimized
<1>2. IsTab(t) /\ RetriesHere(t) /\ Loads(t) /\ Acts(t)
  BY DoneHolds, DoneLoads, DoneActs DEF Actions, Reviews
<1> HIDE DEF t
<1>3. /\ DOMAIN u = TabFields /\ u.at = t.at /\ u.loading = t.loading /\ u.awaited = t.awaited
      /\ u.action = t.action /\ u.optimizing = FALSE /\ u.calls = t.calls
  BY <1>2 DEF IsTab, TabFields
<1> HIDE DEF u
<1>4. Good(u)
  BY <1>2, <1>3 DEF Good, Busy, IsTab, RetriesHere, Loads, Optimizes, Acts, Awaits
<1>5. CASE c.live
  BY <1>1, <1>4, <1>5 DEF t
<1>6. CASE ~c.live
  BY <1>1, <1>6, DoneGood DEF t
<1> QED
  BY <1>5, <1>6

(* The layout that loadPage asks for last, and its failure.                *)
LEMMA LayoutGood ==
  ASSUME Good(tab), NEW c \in tab.calls, c.kind = "layout", NEW l
  PROVE  Good([SelectLayout(Done(c), l) EXCEPT !.loading = FALSE])
<1> DEFINE t == SelectLayout(Done(c), l)
           u == [t EXCEPT !.loading = FALSE]
<1>1. Optimizes(Done(c)) /\ Acts(Done(c))
  BY DoneOptimizes, DoneActs DEF Actions, Reviews
<1>2. IsTab(t) /\ RetriesHere(t) /\ Optimizes(t) /\ Acts(t)
  BY <1>1, DoneHolds, SelectGood
<1> HIDE DEF t
<1>3. /\ DOMAIN u = TabFields /\ u.at = t.at /\ u.loading = FALSE /\ u.awaited = t.awaited
      /\ u.action = t.action /\ u.optimizing = t.optimizing /\ u.calls = t.calls
  BY <1>2 DEF IsTab, TabFields
<1> HIDE DEF u
<1>4. Good(u)
  BY <1>2, <1>3 DEF Good, Busy, IsTab, RetriesHere, Loads, Optimizes, Acts, Awaits
<1> QED
  BY <1>4 DEF t, u

LEMMA LoadFailedGood ==
  ASSUME Good(tab), NEW c \in tab.calls, c.kind \in {"load", "layout"}
  PROVE  Good(LoadFailed(Done(c)))
<1> DEFINE t == Done(c)
           u == LoadFailed(t)
           f(d) == IF d.kind \in {"load", "commands"} THEN [d EXCEPT !.live = FALSE] ELSE d
<1>1. IsTab(t) /\ RetriesHere(t) /\ Optimizes(t) /\ Acts(t)
  BY DoneHolds, DoneOptimizes, DoneActs DEF Actions, Reviews
<1> HIDE DEF t
<1>2. /\ DOMAIN u = TabFields /\ u.at = t.at /\ u.loading = FALSE /\ u.awaited = {}
      /\ u.action = t.action /\ u.optimizing = t.optimizing /\ u.calls = {f(d) : d \in t.calls}
  BY <1>1 DEF LoadFailed, IsTab, TabFields, Abandoned
<1>3. ASSUME NEW d \in t.calls
      PROVE  /\ DOMAIN f(d) = CallFields /\ f(d).kind = d.kind /\ f(d).live \in BOOLEAN
             /\ f(d).live => f(d) = d
             /\ d.kind \notin {"load", "commands"} => f(d) = d
  <2>1. AreCalls(t.calls)
    BY <1>1 DEF IsTab
  <2> QED
    BY <2>1 DEF AreCalls, CallFields
<1> HIDE DEF u, f
<1>4. AreCalls(u.calls)
  <2> SUFFICES ASSUME NEW e \in u.calls
               PROVE  DOMAIN e = CallFields /\ e.kind \in Kinds /\ e.live \in BOOLEAN
    BY DEF AreCalls
  <2>1. PICK d \in t.calls : e = f(d)
    BY <1>2
  <2>2. d.kind \in Kinds
    BY <1>1, <2>1 DEF IsTab, AreCalls
  <2> QED
    BY <1>3, <2>1, <2>2
<1>5. IsTab(u) /\ RetriesHere(u) /\ Loads(u)
  <2>1. IsTab(u)
    BY <1>1, <1>2, <1>4 DEF IsTab
  <2>2. ASSUME NEW e \in u.calls, e.live, e.kind = "retry" PROVE u.at = "commands"
    <3>1. PICK d \in t.calls : e = f(d)
      BY <1>2, <2>2
    <3>2. e = d
      BY <1>3, <2>2, <3>1
    <3> QED
      BY <1>1, <1>2, <2>2, <3>2 DEF RetriesHere
  <2>3. Loads(u)
    BY <1>2 DEF Loads
  <2> QED
    BY <2>1, <2>2, <2>3 DEF RetriesHere
<1>6. ASSUME NEW kinds, Awaits(t, kinds), kinds \cap {"load", "commands"} = {}
      PROVE  Awaits(u, kinds)
  <2>1. PICK d \in t.calls : d.live /\ d.kind \in kinds
    BY <1>6 DEF Awaits
  <2>2. f(d) = d /\ f(d) \in u.calls
    BY <1>2, <1>3, <1>6, <2>1
  <2> QED
    BY <2>1, <2>2 DEF Awaits
<1>7. Optimizes(u)
  BY <1>1, <1>2, <1>6 DEF Optimizes
<1>8. Acts(u)
  <2> DEFINE kinds == For(t.action)
  <2>1. t.action # "" => kinds \cap {"load", "commands"} = {}
    BY <1>1 DEF IsTab, Actions, Reviews, For
  <2> QED
    BY <1>1, <1>2, <1>6, <2>1 DEF Acts
<1> QED
  BY <1>5, <1>7, <1>8 DEF Good, Busy, t, u

-----------------------------------------------------------------------------
(* Every answer and every failure.                                         *)

LEMMA HandleGood ==
  ASSUME Good(tab), NEW c \in tab.calls
  PROVE  Good(Handle(Done(c), c))
<1> DEFINE t == Done(c)
<1>1. c.kind \in Kinds
  BY DEF Good, IsTab, AreCalls
<1>2. IsTab(t)
  BY DoneHolds
<1>3. ASSUME ~(c.live /\ c.kind \in Busying), NEW u, Same(t, u)
      PROVE  Good(u)
  BY <1>3, DoneGood, SameGood DEF Good, Busy
<1>4. CASE c.kind = "load"
  <2> DEFINE h == [LoadScenarios(t, c.answer) EXCEPT
                       !.linked = IF t.url.candidate = 0 THEN 0 ELSE c.answer[t.url.candidate]]
  <2>1. CASE c.live
    <3>1. Handle(t, c) = Joined(h, "load")
      BY <1>4, <2>1 DEF Handle, Reviews
    <3>2. Same(t, LoadScenarios(t, c.answer))
      BY <1>2, StoreSame
    <3>3. Same(t, h)
      BY <3>2 DEF Same, TabFields
    <3> QED
      BY <1>4, <2>1, <3>1, <3>3, JoinedGood
  <2>2. CASE ~c.live
    <3>1. Handle(t, c) = SetScenarios(t, c.answer)
      BY <1>4, <2>2 DEF Handle, Reviews
    <3> QED
      BY <1>2, <1>3, <2>2, <3>1, StoreSame
  <2> QED
    BY <2>1, <2>2
<1>5. CASE c.kind = "reload"
  <2>1. Handle(t, c) = LoadScenarios(t, c.answer) \/ Handle(t, c) = SetScenarios(t, c.answer)
    BY <1>5 DEF Handle, Reviews
  <2>2. c.kind \notin Busying
    BY <1>5 DEF Busying, Actions, Reviews
  <2> QED
    BY <1>2, <1>3, <2>1, <2>2, StoreSame
<1>6. CASE c.kind = "strip"
  <2> DEFINE h == [SetScenarios(t, c.answer) EXCEPT !.guided = TRUE]
  <2>1. Handle(t, c) = h \/ Handle(t, c) = t
    BY <1>6 DEF Handle, Reviews
  <2>2. Same(t, SetScenarios(t, c.answer))
    BY <1>2, StoreSame
  <2>3. Same(t, h) /\ Same(t, t)
    BY <1>2, <2>2, StoreSame DEF Same, TabFields
  <2>4. c.kind \notin Busying
    BY <1>6 DEF Busying, Actions, Reviews
  <2> QED
    BY <1>3, <2>1, <2>3, <2>4
<1>7. CASE c.kind \in {"commands", "again"}
  <2>1. Handle(t, c) = GotCommands(t, c, c.answer)
    BY <1>7 DEF Handle, Reviews
  <2> QED
    BY <1>7, <2>1, GotCommandsGood
<1>8. CASE c.kind \in {"run"} \cup Reviews
  <2>1. Handle(t, c) = Changed(t, c)
    BY <1>8 DEF Handle, Reviews
  <2> QED
    BY <1>8, <2>1, ChangedGood
<1>9. CASE c.kind \in {"apply", "retry"}
  <2>1. Handle(t, c) = Commanded(t, c)
    BY <1>9 DEF Handle, Reviews
  <2> QED
    BY <1>9, <2>1, CommandedGood
<1>10. CASE c.kind = "layout"
  <2>1. c.live => Handle(t, c) = [SelectLayout(t, c.of) EXCEPT !.loading = FALSE]
    BY <1>10 DEF Handle, Reviews
  <2>2. ~c.live => Handle(t, c) = t
    BY <1>10 DEF Handle, Reviews
  <2> QED
    BY <1>2, <1>3, <1>10, <2>1, <2>2, LayoutGood, StoreSame
<1>11. CASE c.kind \in {"select", "source"}
  <2> DEFINE v == [SelectLayout(t, layout[c.of]) EXCEPT !.source = c.of]
  <2>1. Handle(t, c) = t \/ Handle(t, c) = SelectLayout(t, c.of) \/ Handle(t, c) = v
    BY <1>11 DEF Handle, Reviews, Prepared
  <2>2. Good(t)
    BY <1>11, DoneGood DEF Busying, Actions, Reviews
  <2>3. \A l : Good(SelectLayout(t, l))
    BY <2>2, SelectGood DEF Good, Busy
  <2>4. Good(SelectLayout(t, layout[c.of]))
    BY <2>3
  <2>5. Same(SelectLayout(t, layout[c.of]), v)
    BY <2>4 DEF Same, TabFields, Good, IsTab
  <2>6. Good(v)
    BY <2>4, <2>5, SameGood DEF Good, Busy
  <2> QED
    BY <2>1, <2>2, <2>3, <2>6
<1>12. CASE c.kind = "optimize"
  <2>1. Handle(t, c) = Optimized(t, c)
    BY <1>12 DEF Handle, Reviews
  <2> QED
    BY <1>12, <2>1, OptimizedGood
<1>13. CASE c.kind = "compare"
  <2> DEFINE h == [t EXCEPT !.compared = [of |-> c.of, base |-> c.base]]
  <2>1. Handle(t, c) = h \/ Handle(t, c) = t
    BY <1>13 DEF Handle, Reviews, CompareLoaded
  <2>2. Same(t, h) /\ Same(t, t)
    BY <1>2, StoreSame DEF Same, IsTab, TabFields
  <2>3. c.kind \notin Busying
    BY <1>13 DEF Busying, Actions, Reviews
  <2> QED
    BY <1>3, <2>1, <2>2, <2>3
<1> QED
  BY <1>1, <1>4, <1>5, <1>6, <1>7, <1>8, <1>9, <1>10, <1>11, <1>12, <1>13
  DEF Kinds, Actions, Lists, Reads

LEMMA HandleFailureGood ==
  ASSUME Good(tab), NEW c \in tab.calls
  PROVE  Good(HandleFailure(Done(c), c))
<1> DEFINE t == Done(c)
           d == [c EXCEPT !.answer = NoCopies]
<1>1. c.kind \in Kinds /\ DOMAIN c = CallFields
  BY DEF Good, IsTab, AreCalls
<1>2. IsTab(t)
  BY DoneHolds
<1>3. d.live = c.live /\ d.kind = c.kind
  BY <1>1 DEF CallFields
<1> HIDE DEF d
<1>4. CASE c.kind \in {"load", "layout"}
  <2>1. c.live => HandleFailure(t, c) = LoadFailed(t)
    BY <1>4 DEF HandleFailure, Reviews
  <2>2. ~c.live => HandleFailure(t, c) = t
    BY <1>4 DEF HandleFailure, Reviews
  <2> QED
    BY <1>4, <2>1, <2>2, DoneGood, LoadFailedGood
<1>5. CASE c.kind \in {"commands", "again"}
  <2>1. HandleFailure(t, c) = GotCommands(t, c, NoCopies)
    BY <1>5 DEF HandleFailure, Reviews
  <2> QED
    BY <1>5, <2>1, GotCommandsGood
<1>6. CASE c.kind \in {"run"} \cup Reviews
  <2>1. HandleFailure(t, c) = Changed(t, d)
    BY <1>6 DEF HandleFailure, Reviews, d
  <2> QED
    BY <1>3, <1>6, <2>1, ChangedGood
<1>7. CASE c.kind \in {"apply", "retry"}
  <2>1. HandleFailure(t, c) = Commanded(t, d)
    BY <1>7 DEF HandleFailure, Reviews, d
  <2> QED
    BY <1>3, <1>7, <2>1, CommandedGood
<1>8. CASE c.kind = "optimize"
  <2>1. HandleFailure(t, c) = Optimized(t, d)
    BY <1>8 DEF HandleFailure, Reviews, d
  <2> QED
    BY <1>3, <1>8, <2>1, OptimizedGood
<1>9. CASE c.kind \in {"strip", "reload", "select", "source", "compare"}
  <2> DEFINE h == [t EXCEPT !.guided = FALSE]
  <2>1. HandleFailure(t, c) = h \/ HandleFailure(t, c) = t
    BY <1>9 DEF HandleFailure, Reviews
  <2>2. Good(t)
    BY <1>9, DoneGood DEF Busying, Actions, Reviews
  <2>3. Same(t, h)
    BY <1>2 DEF Same, IsTab, TabFields
  <2> QED
    BY <2>1, <2>2, <2>3, SameGood DEF Good, Busy
<1> QED
  BY <1>1, <1>4, <1>5, <1>6, <1>7, <1>8, <1>9 DEF Kinds, Actions, Lists, Reads

(* An answer that is on its way.                                           *)
LEMMA AnsweredGood ==
  ASSUME Good(tab), NEW c \in tab.calls, NEW answer
  PROVE  Good(Answered(c, answer))
<1> DEFINE d == [c EXCEPT !.answer = answer]
           u == Answered(c, answer)
<1>1. DOMAIN c = CallFields /\ c.live \in BOOLEAN /\ c.kind \in Kinds
  BY DEF Good, IsTab, AreCalls
<1>2. DOMAIN d = CallFields /\ d.live = c.live /\ d.kind = c.kind
  BY <1>1 DEF CallFields
<1>3. /\ DOMAIN u = TabFields /\ u.at = tab.at /\ u.loading = tab.loading
      /\ u.awaited = tab.awaited /\ u.action = tab.action /\ u.optimizing = tab.optimizing
      /\ u.calls = (tab.calls \ {c}) \cup {d}
  BY DEF Answered, Good, IsTab, TabFields
<1> HIDE DEF d, u
<1>4. KeepsCalls(tab.calls, u.calls)
  <2>1. AreCalls(u.calls)
    BY <1>1, <1>2, <1>3 DEF Good, IsTab, AreCalls
  <2> QED
    BY <1>2, <1>3, <2>1 DEF KeepsCalls
<1> QED
  BY <1>3, <1>4, KeepsGood DEF Keeps, u

LEMMA AnswerGood ==
  ASSUME Good(tab), Answer
  PROVE  Good(tab')
<1>1. PICK c \in tab.calls :
          ServeAction(c) \/ ServeOptimization(c) \/ ServeRead(c) \/ Deliver(c) \/ CallFails(c)
  BY DEF Answer
<1>2. CASE ServeAction(c)
  <2>1. \E answer : tab' = Answered(c, answer)
    BY <1>2, Zenon DEF ServeAction
  <2> QED
    BY <2>1, AnsweredGood
<1>3. CASE ServeOptimization(c)
  <2>1. \E answer : tab' = Answered(c, answer)
    BY <1>3, Zenon DEF ServeOptimization
  <2> QED
    BY <2>1, AnsweredGood
<1>4. CASE ServeRead(c)
  <2>1. \E answer : tab' = Answered(c, answer)
    BY <1>4, Zenon DEF ServeRead
  <2> QED
    BY <2>1, AnsweredGood
<1>5. CASE Deliver(c)
  <2>1. tab' = Rendered(Handle(Done(c), c))
    BY <1>5 DEF Deliver
  <2> QED
    BY <2>1, HandleGood, RenderedGood
<1>6. CASE CallFails(c)
  <2>1. tab' = Rendered(HandleFailure(Done(c), c))
    BY <1>6 DEF CallFails
  <2> QED
    BY <2>1, HandleFailureGood, RenderedGood
<1> QED
  BY <1>1, <1>2, <1>3, <1>4, <1>5, <1>6

-----------------------------------------------------------------------------
(* The user, events, and the rest.                                         *)

LEMMA SendGood ==
  ASSUME NEW t, Good(t), NEW kind \in Kinds \ {"retry"}, NEW of
  PROVE  Good(Send(t, kind, of))
<1>1. KeepsCalls(t.calls, t.calls \cup {Ask(kind, of)})
  BY AskKeeps DEF Good, IsTab
<1>2. Keeps(t, Send(t, kind, of))
  BY <1>1 DEF Keeps, Good, IsTab, Send, TabFields
<1> QED
  BY <1>2, KeepsGood

LEMMA SameIsGood ==
  ASSUME NEW t, NEW u, Good(t), Same(t, u)
  PROVE  Good(u)
  BY SameGood DEF Good, Busy

(* A button that sends a request of its own.                               *)
LEMMA ActIsGood ==
  ASSUME NEW t, Good(t), NEW kind \in Actions, kind = "retry" => t.at = "commands", NEW of
  PROVE  Good(Send([t EXCEPT !.action = kind], kind, of))
<1> DEFINE c == Ask(kind, of)
           u == [t EXCEPT !.action = kind, !.calls = @ \cup {c}]
<1>1. DOMAIN c = CallFields /\ c.live = TRUE /\ c.kind = kind
  BY DEF Ask, CallFields
<1>2. Send([t EXCEPT !.action = kind], kind, of) = u
  BY DEF Send, Good, IsTab, TabFields
<1> HIDE DEF c
<1>3. u = [t EXCEPT !.action = c.kind, !.calls = @ \cup {c}]
  BY <1>1
<1> QED
  BY <1>1, <1>2, <1>3, ActGood

LEMMA UserGood ==
  ASSUME Good(tab), User
  PROVE  Good(tab')
<1>0. IsTab(tab) /\ DOMAIN tab = TabFields /\ AreCalls(tab.calls)
  BY DEF Good, IsTab
<1> HIDE DEF Good
<1>1. CASE Refresh
  BY <1>1, LoadPageGood DEF Refresh, Good, Busy
<1>2. CASE RunScenario
  <2> DEFINE c == RunRequest(tab)
  <2>1. tab' = [tab EXCEPT !.action = "run", !.calls = @ \cup {c}]
    BY <1>2 DEF RunScenario
  <2>2. DOMAIN c = CallFields /\ c.live = TRUE /\ c.kind = "run"
    BY DEF RunRequest, Ask, CallFields
  <2>3. "run" \in Actions
    BY DEF Actions
  <2> HIDE DEF c
  <2>4. tab' = [tab EXCEPT !.action = c.kind, !.calls = @ \cup {c}]
    BY <2>1, <2>2
  <2> QED
    BY <2>2, <2>3, <2>4, ActGood
<1>3. CASE StartRevision
  <2>1. "source" \in Kinds \ {"retry"}
    BY OtherKinds DEF Reads
  <2> QED
    BY <1>3, <2>1, SendGood DEF StartRevision
<1>4. CASE RequestApply
  <2>1. Same(tab, [tab EXCEPT !.dialog = TRUE])
    BY <1>0 DEF Same, TabFields
  <2> QED
    BY <1>4, <2>1, SameIsGood DEF RequestApply
<1>5. CASE CancelApply
  <2>1. Same(tab, [tab EXCEPT !.dialog = FALSE])
    BY <1>0 DEF Same, TabFields
  <2> QED
    BY <1>5, <2>1, SameIsGood DEF CancelApply
<1>6. CASE ApplyScenario
  <2> DEFINE t == [tab EXCEPT !.dialog = FALSE]
  <2>1. Same(tab, t)
    BY <1>0 DEF Same, TabFields
  <2>2. Good(t)
    BY <2>1, SameIsGood
  <2>3. tab' = Send([t EXCEPT !.action = "apply"], "apply", tab.candidate.of)
    BY <1>6 DEF ApplyScenario
  <2>4. "apply" \in Actions
    BY DEF Actions
  <2> HIDE DEF t
  <2> QED
    BY <2>2, <2>3, <2>4, ActIsGood
<1>7. CASE ToggleComparison
  <2>1. Same(tab, [tab EXCEPT !.open = ~@])
    BY <1>0 DEF Same, TabFields
  <2>2. Good([tab EXCEPT !.open = ~@])
    BY <2>1, SameIsGood
  <2> QED
    BY <1>7, <2>2, RenderedGood DEF ToggleComparison
<1>8. CASE Optimize
  <2> DEFINE c == [Ask("optimize", 0) EXCEPT !.base = tab.selected]
  <2>1. tab' = [tab EXCEPT !.optimizing = TRUE, !.calls = @ \cup {c}]
    BY <1>8 DEF Optimize
  <2>2. DOMAIN c = CallFields /\ c.live = TRUE /\ c.kind = "optimize"
    BY DEF Ask, CallFields
  <2> HIDE DEF c
  <2> QED
    BY <2>1, <2>2, OptimizeGood
<1>9. CASE OpenRecommended
  BY <1>9, OpenedGood DEF OpenRecommended
<1>10. CASE FollowStrip
  <2>1. PICK url : tab' = IF OnPage("scenarios") THEN [tab EXCEPT !.url = url]
                          ELSE Rendered(Mounted(tab, "scenarios", url))
    BY <1>10 DEF FollowStrip
  <2>2. Same(tab, [tab EXCEPT !.url = url])
    BY <1>0 DEF Same, TabFields
  <2>3. Good([tab EXCEPT !.url = url])
    BY <2>2, SameIsGood
  <2>4. Good(Rendered(Mounted(tab, "scenarios", url)))
    BY <1>0, MountedGood, RenderedGood
  <2> QED
    BY <2>1, <2>3, <2>4
<1>11. ASSUME NEW l \in Layouts, ChooseLayout(l)
       PROVE  Good(tab')
  <2>1. "select" \in Kinds \ {"retry"}
    BY OtherKinds DEF Reads
  <2> QED
    BY <1>11, <2>1, SendGood DEF ChooseLayout
<1>12. ASSUME NEW queue, SetQueue(queue)
       PROVE  Good(tab')
  <2>1. Same(tab, [tab EXCEPT !.queue = queue])
    BY <1>0 DEF Same, TabFields
  <2> QED
    BY <1>12, <2>1, SameIsGood DEF SetQueue
<1>13. ASSUME NEW at \in {"scenarios", "commands"}, Navigate(at)
       PROVE  Good(tab')
  BY <1>0, <1>13, MountedGood, RenderedGood DEF Navigate
<1>14. ASSUME NEW s, Select(s)
       PROVE  Good(tab')
  <2> DEFINE t == [tab EXCEPT !.candidate = Copy(s, tab.scenarios[s]), !.source = 0]
  <2>1. Same(tab, t)
    BY <1>0 DEF Same, TabFields
  <2>2. Good(t)
    BY <2>1, SameIsGood
  <2> QED
    BY <1>14, <2>2, RenderedGood DEF Select
<1>15. ASSUME NEW s, Retry(s)
       PROVE  Good(tab')
  <2>1. "retry" \in Actions /\ tab.at = "commands"
    BY <1>15 DEF Actions, Retry, OnPage
  <2> QED
    BY <1>15, <2>1, ActIsGood DEF Retry, Act
<1>16. CASE SubmitScenario
  <2>1. "submit" \in Actions /\ "submit" # "retry"
    BY DEF Actions, Reviews
  <2> QED
    BY <1>16, <2>1, ActIsGood DEF SubmitScenario, Act
<1>17. ASSUME NEW review \in Reviews, ReviewScenario(review)
       PROVE  Good(tab')
  <2>1. review \in Actions /\ review # "retry"
    BY DEF Actions, Reviews
  <2> QED
    BY <1>17, <2>1, ActIsGood DEF ReviewScenario, Act
<1> QED
  BY <1>1, <1>2, <1>3, <1>4, <1>5, <1>6, <1>7, <1>8, <1>9, <1>10, <1>11, <1>12, <1>13, <1>14,
     <1>15, <1>16, <1>17 DEF User

LEMMA InitGood == Init => Good(tab)
  BY OpenedGood DEF Init

LEMMA NextGood == Good(tab) /\ [Next]_vars => Good(tab')
<1> SUFFICES ASSUME Good(tab), [Next]_vars PROVE Good(tab')
  OBVIOUS
<1>1. CASE Answer
  BY <1>1, AnswerGood
<1>2. CASE Others \/ \E o \in Ops : Bridge(o)
  BY <1>2 DEF Others, Bridge
<1>3. ASSUME NEW s, NEW n, CommandUpdated(s, n)
      PROVE  Good(tab')
  <2>1. Good(SetCommands(tab, Row(s, n)))
    BY StoreSame, SameIsGood DEF Good
  <2> QED
    BY <1>3, <2>1, RenderedGood DEF CommandUpdated
<1>4. CASE FactoryReset
  <2> DEFINE t == [tab EXCEPT !.calls = Abandoned(@, {"strip"})]
  <2>1. KeepsCalls(tab.calls, Abandoned(tab.calls, {"strip"}))
    BY AbandonedKeeps DEF Busying, Actions, Reviews, Good, IsTab
  <2>2. Keeps(tab, t)
    BY <2>1 DEF Keeps, Good, IsTab, TabFields
  <2>3. Good(t)
    BY <2>2, KeepsGood
  <2>4. "strip" \in Kinds \ {"retry"}
    BY OtherKinds DEF Lists
  <2>5. tab' = Send(t, "strip", 0)
    BY <1>4 DEF FactoryReset
  <2> HIDE DEF t
  <2> QED
    BY <2>3, <2>4, <2>5, SendGood
<1>5. CASE User
  BY <1>5, UserGood
<1>6. CASE UNCHANGED vars
  BY <1>6 DEF vars
<1> QED
  BY <1>1, <1>2, <1>3, <1>4, <1>5, <1>6 DEF Next

LEMMA GoodIsAwaited == Good(tab) => BusyIsAwaited
<1> SUFFICES ASSUME Good(tab) PROVE BusyIsAwaited
  OBVIOUS
<1>1. \A kinds : Waits(kinds) <=> Awaits(tab, kinds)
  BY DEF Waits, Awaits
<1>2. tab.action # "" => Waits({tab.action} \cup IF tab.action = "retry" THEN {"again"} ELSE {})
  BY <1>1, Zenon DEF Good, Busy, Acts, For
<1>3. /\ tab.loading /\ OnPage("commands") => Waits({"commands", "again"})
      /\ tab.loading /\ OnPage("scenarios") => \A part \in Parts(tab.awaited) : Waits({part})
      /\ tab.optimizing => Waits({"optimize"})
  BY <1>1 DEF Good, Busy, Loads, Optimizes, OnPage
<1> QED
  BY <1>2, <1>3, Zenon DEF BusyIsAwaited

(* No page is left loading, and no button of the pages, the optimization   *)
(* panel's included, stays disabled without a request whose answer or      *)
(* failure will end that; for any scenarios, layouts, links and budgets.   *)
THEOREM BusyIsAwaitedHolds == Spec => []BusyIsAwaited
<1> DEFINE Inv == Good(tab)
<1>1. Init => Inv
  BY InitGood
<1>2. Inv /\ [Next]_vars => Inv'
  BY NextGood
<1>3. Inv => BusyIsAwaited
  BY GoodIsAwaited
<1> HIDE DEF Inv
<1> QED
  BY <1>1, <1>2, <1>3, PTL DEF Spec
=============================================================================
