------------------------ MODULE ScenariosCopies_proofs ------------------------
(* Proofs about ScenariosPage: what the tab holds of the backend is a      *)
(* part of its history, and what the pages conclude from it stays true.    *)
EXTENDS ScenariosPage, NumberFacts, FiniteSetTheorems, TLAPS

(* Scenarios and commands are numbered alike.                              *)
USE DEF Ops

(* The history of one list is that of the other, continued.                *)
Continues(h, g) == Len(h) <= Len(g) /\ \A i \in 1..Len(h) : g[i] = h[i]
Ended(h, st) == h # <<>> /\ h[Len(h)] = st

FinalStatus == {"REVISION_REQUESTED", "APPLIED"}
Statuses(st) ==
    /\ st \in [Scenarios -> Seq(ScenarioStatus)]
    /\ \A s \in Scenarios : Ends(st[s], FinalStatus)
CommandsOf(cm) ==
    /\ cm \in [Scenarios -> Seq(CommandStatus)]
    /\ \A s \in Scenarios : Ends(cm[s], {"COMPLETED"})

(* No two entries have the same time, and a command's times increase.      *)
TimesOf(cm, tg, up, now) ==
    /\ tg \in [Ops -> {0} \cup Scenarios] /\ now \in Nat /\ up \in [Ops -> Seq(Nat)]
    /\ \A o \in Ops : /\ Len(up[o]) = Len(cm[o])
                      /\ cm[o] # <<>> => tg[o] \in Scenarios
                      /\ \A i \in 1..Len(up[o]) : up[o][i] <= now
                      /\ \A i, j \in 1..Len(up[o]) : i < j => up[o][i] < up[o][j]
    /\ \A o, p \in Ops : o # p =>
           \A i \in 1..Len(up[o]), j \in 1..Len(up[p]) : up[o][i] # up[p][j]
Times == TimesOf(command, target, updated, clock)

Backend ==
    /\ Statuses(status) /\ CommandsOf(command) /\ Times
    /\ layout \in [Scenarios -> {0} \cup Layouts]
    /\ mine \subseteq Scenarios
    /\ applied \in Seq(Scenarios)
    /\ \A i \in DOMAIN applied : Ended(status[applied[i]], "APPLIED")
    /\ \A r, s \in Scenarios : r <= s /\ status[s] # <<>> => status[r] # <<>>

CommandKinds == {"commands", "again", "apply", "retry"}

CallFits(c, st, cm, mi) ==
    /\ c \in Call
    /\ c.kind = "source" => c.of \in mi /\ Ended(st[c.of], "REVISION_REQUESTED")
    /\ c.kind \in {"layout", "select"} => c.of \in Layouts
    /\ c.kind \in {"run", "optimize"} => c.base \in Layouts
    /\ c.kind \in Reviews \cup {"apply", "retry"} => c.of \in Scenarios
    /\ c.kind = "run" => c.of \in {0} \cup Scenarios
    /\ c.answer # <<>> =>
           /\ c.kind \in CommandKinds => \A s \in Scenarios : c.answer[s] <= Len(cm[s])
           /\ c.kind \notin CommandKinds => \A s \in Scenarios : c.answer[s] <= Len(st[s])

TabFits(t, st, cm, mi) ==
    /\ t \in Tab
    /\ \A s \in Scenarios : t.scenarios[s] <= Len(st[s]) /\ t.commands[s] <= Len(cm[s])
    /\ t.candidate # NoCandidate =>
           t.candidate.of \in Scenarios /\ t.candidate.seen \in 1..Len(st[t.candidate.of])
    /\ t.url.candidate # 0 => t.linked <= Len(st[t.url.candidate])
    /\ t.source # 0 => t.source \in mi /\ Ended(st[t.source], "REVISION_REQUESTED")
    /\ \A c \in t.calls : CallFits(c, st, cm, mi)

Pictures(t, pair) ==
    /\ t.open /\ t.compared # NoPair => t.compared = pair
    /\ \A c \in t.calls : c.kind = "compare" /\ c.live => t.open /\ [of |-> c.of, base |-> c.base] = pair

Grown2(st, st2) == \A s \in Scenarios : Continues(st[s], st2[s])

-----------------------------------------------------------------------------
(* Histories.                                                              *)

LEMMA AppendContinues ==
  ASSUME NEW S, NEW h \in Seq(S), NEW x \in S, NEW final,
         Ends(h, final), h # <<>> => h[Len(h)] \notin final
  PROVE  Append(h, x) \in Seq(S) /\ Continues(h, Append(h, x)) /\ Ends(Append(h, x), final)
<1>1. /\ Append(h, x) \in Seq(S) /\ Len(Append(h, x)) = Len(h) + 1 /\ Len(h) \in Nat
      /\ \A i \in 1..Len(h) : Append(h, x)[i] = h[i]
  OBVIOUS
<1>2. \A i \in 1..Len(h) : h[i] \notin final
  <2> SUFFICES ASSUME NEW i \in 1..Len(h) PROVE h[i] \notin final
    OBVIOUS
  <2>1. h # <<>>
    OBVIOUS
  <2>2. CASE i = Len(h)
    BY <2>1, <2>2
  <2>3. CASE i # Len(h)
    BY <1>1, <2>3 DEF Ends
  <2> QED
    BY <2>2, <2>3
<1> QED
  BY <1>1, <1>2 DEF Continues, Ends

LEMMA FinalIsLast ==
  ASSUME NEW S, NEW h \in Seq(S), NEW final, Ends(h, final),
         NEW i \in 1..Len(h), h[i] \in final
  PROVE  i = Len(h) /\ Ended(h, h[i])
<1>1. Len(h) \in Nat /\ h # <<>>
  OBVIOUS
<1>2. i = Len(h)
  BY <1>1 DEF Ends
<1> QED
  BY <1>1, <1>2 DEF Ended

LEMMA EndedStays ==
  ASSUME NEW S, NEW h \in Seq(S), NEW g \in Seq(S), NEW final, Ends(g, final),
         Continues(h, g), NEW x \in final, Ended(h, x)
  PROVE  Ended(g, x) /\ Len(g) = Len(h)
<1>1. Len(h) \in Nat /\ Len(g) \in Nat /\ Len(h) <= Len(g) /\ Len(h) # 0
  BY DEF Continues, Ended
<1>2. Len(h) \in 1..Len(g) /\ g[Len(h)] = x
  BY <1>1 DEF Continues, Ended
<1> QED
  BY <1>2, FinalIsLast

LEMMA ContinuesItself ==
  ASSUME NEW S, NEW h \in Seq(S)
  PROVE  Continues(h, h)
  BY DEF Continues

-----------------------------------------------------------------------------
(* What fits the histories fits their continuations.                       *)

LEMMA CallFitsGrown ==
  ASSUME NEW c, NEW st, NEW cm, NEW mi \in SUBSET Scenarios, CallFits(c, st, cm, mi),
         Statuses(st), CommandsOf(cm),
         NEW st2, NEW cm2, NEW mi2, Statuses(st2), CommandsOf(cm2),
         Grown2(st, st2), Grown2(cm, cm2), mi \subseteq mi2
  PROVE  CallFits(c, st2, cm2, mi2)
<1>1. ASSUME NEW s \in Scenarios, NEW x \in FinalStatus, Ended(st[s], x)
      PROVE  Ended(st2[s], x) /\ Len(st2[s]) = Len(st[s])
  BY <1>1, EndedStays DEF Statuses, Grown2
<1>2. \A s \in Scenarios : /\ Len(st[s]) <= Len(st2[s]) /\ Len(cm[s]) <= Len(cm2[s])
                           /\ {Len(st[s]), Len(st2[s]), Len(cm[s]), Len(cm2[s])} \subseteq Nat
  BY DEF Grown2, Continues, Statuses, CommandsOf
<1>3. c.kind = "source" => c.of \in mi2 /\ Ended(st2[c.of], "REVISION_REQUESTED")
  BY <1>1 DEF CallFits, FinalStatus
<1>5. c.answer # <<>> => c.answer \in [Scenarios -> Nat]
  BY DEF CallFits, Call, Copies
<1>6. ASSUME c.answer # <<>>, NEW s \in Scenarios
      PROVE  /\ c.kind \in CommandKinds => c.answer[s] <= Len(cm2[s])
             /\ c.kind \notin CommandKinds => c.answer[s] <= Len(st2[s])
  <2>1. c.answer[s] \in Nat
    BY <1>5, <1>6
  <2> QED
    BY <1>2, <1>6, <2>1 DEF CallFits
<1> QED
  BY <1>3, <1>6 DEF CallFits

LEMMA TabFitsGrown ==
  ASSUME NEW t, NEW st, NEW cm, NEW mi \in SUBSET Scenarios, TabFits(t, st, cm, mi),
         Statuses(st), CommandsOf(cm),
         NEW st2, NEW cm2, NEW mi2, Statuses(st2), CommandsOf(cm2),
         Grown2(st, st2), Grown2(cm, cm2), mi \subseteq mi2
  PROVE  TabFits(t, st2, cm2, mi2)
<1>1. \A s \in Scenarios : /\ Len(st[s]) <= Len(st2[s]) /\ Len(cm[s]) <= Len(cm2[s])
                           /\ {Len(st[s]), Len(st2[s]), Len(cm[s]), Len(cm2[s])} \subseteq Nat
  BY DEF Grown2, Continues, Statuses, CommandsOf
<1>2. t \in Tab /\ t.scenarios \in [Scenarios -> Nat] /\ t.commands \in [Scenarios -> Nat]
      /\ t.candidate.seen \in Nat /\ t.linked \in Nat /\ t.url.candidate \in {0} \cup Scenarios
      /\ t.source \in {0} \cup Scenarios
  BY DEF TabFits, Tab, Copies, Url
<1>3. \A s \in Scenarios : t.scenarios[s] <= Len(st2[s]) /\ t.commands[s] <= Len(cm2[s])
  <2> TAKE s \in Scenarios
  <2>1. t.scenarios[s] \in Nat /\ t.commands[s] \in Nat
    BY <1>2
  <2> QED
    BY <1>1, <2>1 DEF TabFits
<1>4. t.candidate # NoCandidate =>
          t.candidate.of \in Scenarios /\ t.candidate.seen \in 1..Len(st2[t.candidate.of])
  BY <1>1, <1>2 DEF TabFits
<1>5. t.url.candidate # 0 => t.linked <= Len(st2[t.url.candidate])
  BY <1>1, <1>2 DEF TabFits
<1>6. t.source # 0 => t.source \in mi2 /\ Ended(st2[t.source], "REVISION_REQUESTED")
  <2> SUFFICES ASSUME t.source # 0
               PROVE  t.source \in mi2 /\ Ended(st2[t.source], "REVISION_REQUESTED")
    OBVIOUS
  <2>1. t.source \in mi /\ Ended(st[t.source], "REVISION_REQUESTED")
    BY DEF TabFits
  <2>2. st[t.source] \in Seq(ScenarioStatus) /\ st2[t.source] \in Seq(ScenarioStatus)
        /\ Ends(st2[t.source], FinalStatus) /\ Continues(st[t.source], st2[t.source])
    BY <2>1 DEF Statuses, Grown2
  <2> QED
    BY <2>1, <2>2, EndedStays DEF FinalStatus
<1>7. \A c \in t.calls : CallFits(c, st2, cm2, mi2)
  BY CallFitsGrown DEF TabFits
<1> QED
  BY <1>2, <1>3, <1>4, <1>5, <1>6, <1>7 DEF TabFits

-----------------------------------------------------------------------------
(* The tab, beside the backend as it is.                                   *)
Fits(t) == TabFits(t, status, command, mine)
FitsCalls(cs) == \A c \in cs : CallFits(c, status, command, mine)

(* Nothing that is known of commands is forgotten.                         *)
Knows(t, u) == \A s \in Scenarios : t.commands[s] <= u.commands[s]
(* The comparison is untouched, and waits for nothing new.                 *)
Looks(t, u) ==
    /\ u.open = t.open /\ u.compared = t.compared
    /\ \A d \in u.calls : d.kind = "compare" /\ d.live => d \in t.calls

Onward(t, u) == Fits(u) /\ Knows(t, u) /\ Looks(t, u)

LEMMA CommandsAreNat ==
  ASSUME NEW t, Fits(t), NEW s \in Scenarios
  PROVE  t.commands[s] \in Nat
  BY DEF Fits, TabFits, Tab, Copies

LEMMA KnowsSame ==
  ASSUME NEW t, NEW u, Fits(t), u.commands = t.commands
  PROVE  Knows(t, u)
  BY CommandsAreNat DEF Knows

LEMMA OnwardTrans ==
  ASSUME NEW t, NEW u, NEW v, Fits(t), Onward(t, u), Onward(u, v)
  PROVE  Onward(t, v)
<1>1. ASSUME NEW s \in Scenarios PROVE t.commands[s] <= v.commands[s]
  <2>1. t.commands[s] <= u.commands[s] /\ u.commands[s] <= v.commands[s]
    BY DEF Onward, Knows
  <2>2. Fits(u) /\ Fits(v)
    BY DEF Onward
  <2>3. t.commands[s] \in Nat /\ u.commands[s] \in Nat /\ v.commands[s] \in Nat
    BY <2>2, CommandsAreNat
  <2> QED
    BY <2>1, <2>3
<1> QED
  BY <1>1 DEF Onward, Knows, Looks

LEMMA OnwardSelf ==
  ASSUME NEW t, Fits(t)
  PROVE  Onward(t, t)
  BY KnowsSame DEF Onward, Looks

LEMMA AskIsCall ==
  ASSUME NEW kind \in Kinds, NEW of \in Nat
  PROVE  /\ Ask(kind, of) \in Call /\ Ask(kind, of).kind = kind
         /\ Ask(kind, of).of = of /\ Ask(kind, of).answer = <<>>
  BY DEF Ask, Call

LEMMA AskBaseIs ==
  ASSUME NEW kind \in Kinds, NEW of \in Nat, NEW base \in Nat, NEW b,
         b = [Ask(kind, of) EXCEPT !.base = base]
  PROVE  b = [kind |-> kind, of |-> of, base |-> base, live |-> TRUE, answer |-> <<>>]
  BY DEF Ask

LEMMA AskBaseIsCall ==
  ASSUME NEW kind \in Kinds, NEW of \in Nat, NEW base \in Nat, NEW b,
         b = [kind |-> kind, of |-> of, base |-> base, live |-> TRUE, answer |-> <<>>]
  PROVE  b \in Call /\ b.kind = kind /\ b.of = of /\ b.base = base /\ b.answer = <<>>
  BY DEF Call

(* Requests that are about no row, and those about one.                    *)
LEMMA AskFits ==
  ASSUME NEW of \in Nat, NEW base \in Nat, NEW kind \in Kinds,
         kind = "source" => of \in mine /\ Ended(status[of], "REVISION_REQUESTED"),
         kind \in {"layout", "select"} => of \in Layouts,
         kind \in {"run", "optimize"} => base \in Layouts,
         kind \in Reviews \cup {"apply", "retry"} => of \in Scenarios,
         kind = "run" => of \in {0} \cup Scenarios
  PROVE  /\ CallFits([Ask(kind, of) EXCEPT !.base = base], status, command, mine)
         /\ kind \notin {"run", "optimize"} => CallFits(Ask(kind, of), status, command, mine)
<1> DEFINE a == Ask(kind, of)
           b == [Ask(kind, of) EXCEPT !.base = base]
<1>1. a \in Call /\ a.kind = kind /\ a.of = of /\ a.answer = <<>>
  BY AskIsCall
<1>2. b \in Call /\ b.kind = kind /\ b.of = of /\ b.base = base /\ b.answer = <<>>
  <2>1. b = [kind |-> kind, of |-> of, base |-> base, live |-> TRUE, answer |-> <<>>]
    BY AskBaseIs
  <2> HIDE DEF b
  <2> QED
    BY <2>1, AskBaseIsCall
<1> HIDE DEF a, b
<1>3. CallFits(b, status, command, mine)
  BY <1>2 DEF CallFits
<1>4. kind \notin {"run", "optimize"} => CallFits(a, status, command, mine)
  BY <1>1 DEF CallFits
<1>5. a = Ask(kind, of) /\ b = [Ask(kind, of) EXCEPT !.base = base]
  BY DEF a, b
<1> QED
  BY <1>3, <1>4, <1>5

LEMMA CallsFit ==
  ASSUME NEW t, Fits(t), NEW cs, FitsCalls(cs)
  PROVE  Fits([t EXCEPT !.calls = cs])
<1>1. cs \in SUBSET Call
  BY DEF FitsCalls, CallFits
<1> DEFINE u == [t EXCEPT !.calls = cs]
<1>2. u \in Tab
  BY <1>1 DEF Fits, TabFits, Tab
<1>3. /\ u.scenarios = t.scenarios /\ u.commands = t.commands /\ u.candidate = t.candidate
      /\ u.url = t.url /\ u.linked = t.linked /\ u.source = t.source /\ u.calls = cs
  BY DEF Fits, TabFits, Tab
<1> HIDE DEF u
<1>4. Fits(u)
  BY <1>2, <1>3 DEF Fits, TabFits, FitsCalls
<1> QED
  BY <1>4 DEF u

LEMMA AbandonedFits ==
  ASSUME NEW cs, FitsCalls(cs), NEW kinds
  PROVE  /\ FitsCalls(Abandoned(cs, kinds))
         /\ \A d \in Abandoned(cs, kinds) : d.live => d \in cs /\ d.kind \notin kinds
<1> DEFINE f(c) == IF c.kind \in kinds THEN [c EXCEPT !.live = FALSE] ELSE c
<1>1. Abandoned(cs, kinds) = {f(c) : c \in cs}
  BY DEF Abandoned
<1>2. ASSUME NEW c \in cs
      PROVE  /\ CallFits(f(c), status, command, mine)
             /\ f(c).live => f(c) \in cs /\ f(c).kind \notin kinds
  <2>1. CASE c.kind \in kinds
    <3> DEFINE d == [c EXCEPT !.live = FALSE]
    <3>1. c \in Call
      BY DEF FitsCalls, CallFits
    <3>2. d \in Call
      BY <3>1 DEF Call
    <3>5. d.kind = c.kind /\ d.of = c.of /\ d.base = c.base /\ d.answer = c.answer
          /\ d.live = FALSE
      BY <3>1 DEF Call
    <3>3. f(c) = d
      BY <2>1
    <3> HIDE DEF d, f
    <3>4. CallFits(d, status, command, mine)
      BY <3>2, <3>5 DEF FitsCalls, CallFits
    <3> QED
      BY <3>3, <3>4, <3>5
  <2>2. CASE c.kind \notin kinds
    BY <2>2 DEF FitsCalls
  <2> QED
    BY <2>1, <2>2
<1> HIDE DEF f
<1> QED
  BY <1>1, <1>2 DEF FitsCalls

LEMMA SendOnward ==
  ASSUME NEW t, Fits(t), NEW kind \in Kinds \ {"compare"}, NEW of,
         CallFits(Ask(kind, of), status, command, mine)
  PROVE  /\ Onward(t, Send(t, kind, of))
         /\ Send(t, kind, of).candidate = t.candidate
         /\ Send(t, kind, of).scenarios = t.scenarios
         /\ Send(t, kind, of).commands = t.commands
<1> DEFINE cs == t.calls \cup {Ask(kind, of)}
           u == [t EXCEPT !.calls = cs]
<1>1. FitsCalls(cs)
  BY DEF FitsCalls, Fits, TabFits
<1>2. Fits(u)
  BY <1>1, CallsFit
<1>3. /\ u.open = t.open /\ u.compared = t.compared /\ u.calls = cs /\ u.commands = t.commands
      /\ u.candidate = t.candidate /\ u.scenarios = t.scenarios
  BY DEF Fits, TabFits, Tab
<1>4. Ask(kind, of).kind # "compare"
  BY DEF Ask
<1>5. Send(t, kind, of) = u
  BY DEF Send
<1> HIDE DEF u
<1> QED
  BY <1>2, <1>3, <1>4, <1>5, KnowsSame DEF Onward, Looks

-----------------------------------------------------------------------------
(* The newest of a set, and the layouts to compare.                        *)

LEMMA NewestIs ==
  ASSUME NEW N \in Nat, NEW S \in SUBSET (0..N), S # {}
  PROVE  Newest(S) \in S
<1>1. \E x \in S : \A y \in S : y <= x
  BY GreatestOf
<1> QED
  BY <1>1 DEF Newest

LEMMA ListedIn ==
  ASSUME NEW list, NEW st
  PROVE  Listed(list) \subseteq Scenarios /\ In(list, st) \subseteq Listed(list)
  BY DEF Listed, In

LEMMA LatestAppliedIs ==
  ASSUME Backend, NEW t, LatestApplied(t) # 0
  PROVE  LatestApplied(t) \in Scenarios /\ LatestApplied(t) \in In(t.scenarios, "APPLIED")
<1> DEFINE seen == {i \in DOMAIN applied : applied[i] \in In(t.scenarios, "APPLIED")}
<1>1. applied \in Seq(Scenarios) /\ Len(applied) \in Nat /\ DOMAIN applied = 1..Len(applied)
  BY DEF Backend
<1>2. LatestApplied(t) = IF seen = {} THEN 0 ELSE applied[Newest(seen)]
  BY DEF LatestApplied
<1>3. seen \in SUBSET (0..Len(applied))
  BY <1>1
<1>4. seen # {} => Newest(seen) \in seen
  <2> HIDE DEF seen
  <2> QED
    BY <1>1, <1>3, NewestIs
<1> QED
  BY <1>1, <1>2, <1>4

LEMMA LayoutsAreNumbers ==
  /\ Cardinality(Layouts) \in Nat \ {0} /\ Layouts = 1..Cardinality(Layouts)
  /\ Layouts \subseteq Nat \ {0} /\ 1 \in Layouts
<1>1. Cardinality(Layouts) \in Nat /\ Cardinality(Layouts) # 0
  BY PageAssumption, FS_CardinalityType, FS_EmptySet
<1> DEFINE n == Cardinality(Layouts)
<1>2. Layouts = 1..n
  BY PageAssumption
<1> HIDE DEF n
<1>3. n \in Nat /\ n # 0
  BY <1>1 DEF n
<1>4. Layouts \subseteq Nat \ {0} /\ 1 \in Layouts
  BY <1>2, <1>3
<1> QED
  BY <1>1, <1>2, <1>4 DEF n

LEMMA LayoutIsNat ==
  ASSUME Backend, NEW s \in Scenarios
  PROVE  layout[s] \in Nat /\ layout[s] \in {0} \cup Layouts
  BY LayoutsAreNumbers DEF Backend

LEMMA ComparedIsPair ==
  ASSUME Backend, NEW t, Fits(t), t.candidate # NoCandidate
  PROVE  /\ Compared(t) \in [of : Nat, base : Nat]
         /\ Compared(t).of \in Nat /\ Compared(t).base \in Nat
         /\ [of |-> Compared(t).of, base |-> Compared(t).base] = Compared(t)
<1> DEFINE live == LatestApplied(t)
           of == layout[t.candidate.of]
           base == IF live \in {0, t.candidate.of} THEN 0
                   ELSE IF layout[live] = of THEN 0 ELSE layout[live]
<1>1. Compared(t) = [of |-> of, base |-> base]
  BY DEF Compared
<1>2. of \in Nat
  BY LayoutIsNat DEF Fits, TabFits
<1>3. base \in Nat
  <2>1. live # 0 => layout[live] \in Nat
    BY LatestAppliedIs, LayoutIsNat
  <2> QED
    BY <2>1
<1> HIDE DEF of, base
<1> QED
  BY <1>1, <1>2, <1>3

(* What is compared depends on the candidate and the list.                 *)
LEMMA ComparedSame ==
  ASSUME NEW t, NEW u, u.candidate = t.candidate, u.scenarios = t.scenarios
  PROVE  Compared(u) = Compared(t)
  BY DEF Compared, LatestApplied

-----------------------------------------------------------------------------
(* Rendering.                                                              *)

LEMMA WatchOnward ==
  ASSUME Backend, NEW t, Fits(t)
  PROVE  /\ Onward(t, Watch(t)) /\ Watch(t).commands = t.commands
         /\ Watch(t).candidate = t.candidate /\ Watch(t).scenarios = t.scenarios
<1>1. CASE CommandSeen(t) = "COMPLETED"
  <2> DEFINE s == t.candidate.of
  <2>1. s \in Scenarios /\ s \in Nat
    BY <1>1, PageAssumption DEF CommandSeen, Fits, TabFits, Scenarios
  <2>2. "reload" \in Kinds \ {"compare"}
    BY DEF Kinds, Lists
  <2> HIDE DEF s
  <2>3. CallFits(Ask("reload", s), status, command, mine)
    BY <2>1, <2>2, 0 \in Nat, AskFits DEF Reviews
  <2> QED
    BY <2>2, <2>3, SendOnward, OnwardSelf DEF Watch, s
<1>2. CASE CommandSeen(t) # "COMPLETED"
  BY <1>2, OnwardSelf DEF Watch
<1> QED
  BY <1>1, <1>2

LEMMA CallsAlone ==
  ASSUME NEW t, Fits(t), NEW cs, FitsCalls(cs)
  PROVE  LET d == [t EXCEPT !.calls = cs]
         IN  /\ Fits(d) /\ d \in Tab /\ d.calls = cs /\ d.commands = t.commands
             /\ d.scenarios = t.scenarios /\ d.candidate = t.candidate /\ d.open = t.open
<1>1. t \in Tab /\ Fits([t EXCEPT !.calls = cs])
  BY CallsFit DEF Fits, TabFits
<1> QED
  BY <1>1, CallsFit DEF Tab, Fits, TabFits

(* The comparison shows, or waits for, what is to be compared.             *)
LEMMA CompareShows ==
  ASSUME Backend, NEW t, Fits(t),
         t.candidate # NoCandidate /\ t.open = tab.open /\ Compared(t) = Compared(tab)
            => Pictures(t, Compared(t))
  PROVE  /\ Fits(Compare(t)) /\ Compare(t).commands = t.commands
         /\ Pictures(Compare(t), Compared(Compare(t)))
<1> DEFINE cs == Abandoned(t.calls, {"compare"})
<1>1. FitsCalls(cs) /\ \A d \in cs : d.kind = "compare" => ~d.live
  BY AbandonedFits DEF Fits, TabFits, FitsCalls
<1> HIDE DEF cs
<1>2. CASE t.candidate = NoCandidate
  <2> DEFINE d == [t EXCEPT !.calls = cs]
             u == [d EXCEPT !.open = FALSE, !.compared = NoPair]
  <2>1. Fits(d) /\ d.commands = t.commands /\ d.calls = cs /\ d \in Tab
    BY <1>1, CallsAlone
  <2>2. Compare(t) = u
    <3>1. Compare(t) = [t EXCEPT !.open = FALSE, !.compared = NoPair, !.calls = cs]
      BY <1>2 DEF Compare, cs
    <3> QED
      BY <3>1
  <2> HIDE DEF d
  <2>3. u \in Tab
    BY <2>1 DEF Tab, NoPair
  <2>4. /\ u.scenarios = d.scenarios /\ u.commands = d.commands /\ u.candidate = d.candidate
        /\ u.url = d.url /\ u.linked = d.linked /\ u.source = d.source /\ u.calls = d.calls
        /\ u.open = FALSE
    BY <2>1 DEF Fits, TabFits, Tab
  <2> HIDE DEF u
  <2>5. Fits(u)
    BY <2>1, <2>3, <2>4 DEF Fits, TabFits
  <2>6. Pictures(u, Compared(u))
    BY <1>1, <2>1, <2>4 DEF Pictures
  <2> QED
    BY <2>1, <2>2, <2>4, <2>5, <2>6
<1>3. CASE t.candidate # NoCandidate /\ t.open = tab.open /\ Compared(t) = Compared(tab)
  BY <1>3 DEF Compare
<1>4. CASE t.candidate # NoCandidate /\ ~(t.open = tab.open /\ Compared(t) = Compared(tab))
  <2> DEFINE ask == [Ask("compare", Compared(t).of) EXCEPT !.base = Compared(t).base]
             d == [t EXCEPT !.calls = cs]
  <2>1. Compare(t) = IF t.open THEN [d EXCEPT !.compared = NoPair, !.calls = @ \cup {ask}] ELSE d
    BY <1>4 DEF Compare, cs
  <2>2. Fits(d) /\ d.commands = t.commands /\ d.calls = cs /\ d.open = t.open
        /\ d.candidate = t.candidate /\ d.scenarios = t.scenarios
    BY <1>1, CallsAlone
  <2> HIDE DEF d
  <2>3. Compared(d) = Compared(t)
    BY <2>2, ComparedSame
  <2>4. CASE ~t.open
    <3>1. Pictures(d, Compared(d))
      BY <1>1, <2>2, <2>4 DEF Pictures
    <3> QED
      BY <2>1, <2>2, <2>4, <3>1
  <2>5. CASE t.open
    <3>1. Compared(t).of \in Nat /\ Compared(t).base \in Nat
          /\ [of |-> Compared(t).of, base |-> Compared(t).base] = Compared(t)
      BY <1>4, ComparedIsPair
    <3>2. "compare" \in Kinds
      BY DEF Kinds, Reads
    <3>3. CallFits(ask, status, command, mine)
      BY <3>1, <3>2, AskFits DEF Reviews
    <3> DEFINE of == Compared(t).of
               base == Compared(t).base
    <3>4. ask.of = Compared(t).of /\ ask.base = Compared(t).base
      <4> HIDE DEF of, base
      <4>1. of \in Nat /\ base \in Nat
        BY <3>1 DEF of, base
      <4>2. ask = [Ask("compare", of) EXCEPT !.base = base]
        BY DEF of, base
      <4> HIDE DEF ask
      <4>3. ask = [kind |-> "compare", of |-> of, base |-> base, live |-> TRUE, answer |-> <<>>]
        BY <3>2, <4>1, <4>2, AskBaseIs
      <4>4. ask.of = of /\ ask.base = base
        BY <3>2, <4>1, <4>3, AskBaseIsCall
      <4> QED
        BY <4>4 DEF of, base
    <3> HIDE DEF ask
    <3> DEFINE e == [d EXCEPT !.calls = cs \cup {ask}]
               u == [e EXCEPT !.compared = NoPair]
    <3>5. Fits(e) /\ e.commands = d.commands /\ e.calls = cs \cup {ask} /\ e.open = d.open
          /\ e.candidate = d.candidate /\ e.scenarios = d.scenarios
      <4>1. FitsCalls(cs \cup {ask})
        BY <1>1, <3>3 DEF FitsCalls
      <4>2. Fits(e)
        BY <2>2, <4>1, CallsFit
      <4>3. d \in Tab
        BY <2>2 DEF Fits, TabFits
      <4> QED
        BY <4>2, <4>3 DEF Tab
    <3>6. Compare(t) = u
      BY <2>1, <2>2, <2>5
    <3> HIDE DEF e
    <3>7. u \in Tab
      BY <3>5 DEF Fits, TabFits, Tab, NoPair
    <3>8. /\ u.scenarios = e.scenarios /\ u.commands = e.commands /\ u.candidate = e.candidate
          /\ u.url = e.url /\ u.linked = e.linked /\ u.source = e.source /\ u.calls = e.calls
          /\ u.open = e.open /\ u.compared = NoPair
      BY <3>5 DEF Fits, TabFits, Tab
    <3> HIDE DEF u
    <3>9. Fits(u)
      BY <3>5, <3>7, <3>8 DEF Fits, TabFits
    <3>10. Compared(u) = Compared(t)
      BY <2>2, <3>5, <3>8, ComparedSame
    <3>11. Pictures(u, Compared(u))
      BY <1>1, <2>2, <2>5, <3>1, <3>4, <3>5, <3>8, <3>10 DEF Pictures
    <3> QED
      BY <2>2, <3>5, <3>6, <3>8, <3>9, <3>11
  <2> QED
    BY <2>4, <2>5
<1> QED
  BY <1>2, <1>3, <1>4

LEMMA PicturesOnward ==
  ASSUME NEW t, NEW u, NEW pair, Pictures(t, pair), Looks(t, u)
  PROVE  Pictures(u, pair)
  BY DEF Pictures, Looks

LEMMA RenderedShows ==
  ASSUME Backend, NEW t, Fits(t),
         t.candidate # NoCandidate /\ t.open = tab.open /\ Compared(t) = Compared(tab)
            => Pictures(t, Compared(t))
  PROVE  /\ Fits(Rendered(t)) /\ Rendered(t).commands = t.commands
         /\ Pictures(Rendered(t), Compared(Rendered(t)))
<1> DEFINE w == Watch(t)
<1>1. Onward(t, w) /\ w.commands = t.commands /\ w.candidate = t.candidate
      /\ w.scenarios = t.scenarios
  BY WatchOnward
<1>2. Rendered(t) = Compare(w)
  BY DEF Rendered
<1> HIDE DEF w
<1>3. Fits(w) /\ w.open = t.open /\ Compared(w) = Compared(t)
  BY <1>1, ComparedSame DEF Onward, Looks
<1>4. Pictures(t, Compared(t)) => Pictures(w, Compared(w))
  BY <1>1, <1>3, PicturesOnward DEF Onward
<1>5. w.candidate # NoCandidate /\ w.open = tab.open /\ Compared(w) = Compared(tab)
         => Pictures(w, Compared(w))
  BY <1>1, <1>3, <1>4
<1> QED
  BY <1>1, <1>2, <1>3, <1>5, CompareShows

(* What a handler makes of the tab, when it leaves the comparison alone.   *)
LEMMA RenderedOnward ==
  ASSUME Backend, Fits(tab), Pictures(tab, Compared(tab)), NEW t, Onward(tab, t)
  PROVE  /\ Fits(Rendered(t)) /\ Knows(tab, Rendered(t))
         /\ Pictures(Rendered(t), Compared(Rendered(t)))
<1>1. Compared(t) = Compared(tab) => Pictures(t, Compared(t))
  BY PicturesOnward DEF Onward
<1>2. /\ Fits(Rendered(t)) /\ Rendered(t).commands = t.commands
      /\ Pictures(Rendered(t), Compared(Rendered(t)))
  BY <1>1, RenderedShows DEF Onward
<1> QED
  BY <1>2 DEF Onward, Knows

-----------------------------------------------------------------------------
(* One step of a handler.                                                  *)

CandidateFits(k) ==
    /\ k \in [of : Nat, seen : Nat]
    /\ k # NoCandidate => k.of \in Scenarios /\ k.seen \in 1..Len(status[k.of])
SourceFits(s) == s # 0 => s \in mine /\ Ended(status[s], "REVISION_REQUESTED")
ListFits(list, histories) ==
    list \in [Scenarios -> Nat] /\ \A s \in Scenarios : list[s] <= Len(histories[s])

LEMMA OnwardIf ==
  ASSUME NEW t, Fits(t), NEW u \in Tab, u.url = t.url, u.open = t.open, u.compared = t.compared,
         ListFits(u.scenarios, status), ListFits(u.commands, command), Knows(t, u),
         CandidateFits(u.candidate), SourceFits(u.source),
         u.url.candidate # 0 => u.linked <= Len(status[u.url.candidate]),
         FitsCalls(u.calls), \A d \in u.calls : d.kind = "compare" /\ d.live => d \in t.calls
  PROVE  Onward(t, u)
<1>1. Fits(u)
  BY DEF Fits, TabFits, ListFits, CandidateFits, SourceFits, FitsCalls
<1>2. Looks(t, u)
  BY DEF Looks
<1> QED
  BY <1>1, <1>2 DEF Onward

LEMMA FitsMeans ==
  ASSUME NEW t, Fits(t)
  PROVE  /\ t \in Tab /\ ListFits(t.scenarios, status) /\ ListFits(t.commands, command)
         /\ CandidateFits(t.candidate) /\ SourceFits(t.source) /\ FitsCalls(t.calls)
         /\ t.url \in Url
         /\ t.url.candidate # 0 => t.linked <= Len(status[t.url.candidate])
<1>1. t \in Tab /\ t.scenarios \in [Scenarios -> Nat] /\ t.commands \in [Scenarios -> Nat]
      /\ t.candidate \in [of : Nat, seen : Nat] /\ t.url \in Url
  BY DEF Fits, TabFits, Tab, Copies
<1> QED
  BY <1>1 DEF Fits, TabFits, ListFits, CandidateFits, SourceFits, FitsCalls

(* Fields that nothing else depends on.                                    *)
Plain(t, u) ==
    /\ u \in Tab /\ u.url = t.url /\ u.open = t.open /\ u.compared = t.compared
    /\ u.scenarios = t.scenarios /\ u.commands = t.commands /\ u.candidate = t.candidate
    /\ u.linked = t.linked /\ u.source = t.source /\ u.calls = t.calls

LEMMA PlainOnward ==
  ASSUME NEW t, Fits(t), NEW u, Plain(t, u)
  PROVE  Onward(t, u)
<1>1. /\ ListFits(t.scenarios, status) /\ ListFits(t.commands, command)
      /\ CandidateFits(t.candidate) /\ SourceFits(t.source) /\ FitsCalls(t.calls)
      /\ t.url.candidate # 0 => t.linked <= Len(status[t.url.candidate])
  BY FitsMeans
<1>2. Knows(t, u)
  BY KnowsSame DEF Plain
<1> QED
  BY <1>1, <1>2, OnwardIf DEF Plain

LEMMA CallsOnward ==
  ASSUME NEW t, Fits(t), NEW cs, FitsCalls(cs),
         \A d \in cs : d.kind = "compare" /\ d.live => d \in t.calls
  PROVE  Onward(t, [t EXCEPT !.calls = cs])
<1>0. t \in Tab
  BY FitsMeans
<1> DEFINE u == [t EXCEPT !.calls = cs]
<1>1. Fits(u)
  BY CallsFit
<1>2. u.open = t.open /\ u.compared = t.compared /\ u.commands = t.commands /\ u.calls = cs
  BY <1>0 DEF Tab
<1> HIDE DEF u
<1>3. Onward(t, u)
  BY <1>1, <1>2, KnowsSame DEF Onward, Looks
<1> QED
  BY <1>3 DEF u

LEMMA CandidateOnward ==
  ASSUME NEW t, Fits(t), NEW k, CandidateFits(k)
  PROVE  Onward(t, [t EXCEPT !.candidate = k])
<1>0. t \in Tab
  BY FitsMeans
<1> DEFINE u == [t EXCEPT !.candidate = k]
<1>1. u \in Tab
  BY <1>0 DEF Tab, CandidateFits
<1>2. /\ u.url = t.url /\ u.open = t.open /\ u.compared = t.compared
      /\ u.scenarios = t.scenarios /\ u.commands = t.commands /\ u.candidate = k
      /\ u.linked = t.linked /\ u.source = t.source /\ u.calls = t.calls
  BY <1>0 DEF Tab
<1> HIDE DEF u
<1>3. Onward(t, u)
  BY <1>1, <1>2, FitsMeans, KnowsSame, OnwardIf
<1> QED
  BY <1>3 DEF u

LEMMA SourceOnward ==
  ASSUME NEW t, Fits(t), NEW s \in {0} \cup Scenarios, SourceFits(s)
  PROVE  Onward(t, [t EXCEPT !.source = s])
<1>0. t \in Tab
  BY FitsMeans
<1> DEFINE u == [t EXCEPT !.source = s]
<1>1. u \in Tab
  BY <1>0 DEF Tab
<1>2. /\ u.url = t.url /\ u.open = t.open /\ u.compared = t.compared
      /\ u.scenarios = t.scenarios /\ u.commands = t.commands /\ u.candidate = t.candidate
      /\ u.linked = t.linked /\ u.source = s /\ u.calls = t.calls
  BY <1>0 DEF Tab
<1> HIDE DEF u
<1>3. Onward(t, u)
  BY <1>1, <1>2, FitsMeans, KnowsSame, OnwardIf
<1> QED
  BY <1>3 DEF u

LEMMA LinkedOnward ==
  ASSUME NEW t, Fits(t), NEW n \in Nat, t.url.candidate # 0 => n <= Len(status[t.url.candidate])
  PROVE  Onward(t, [t EXCEPT !.linked = n])
<1>0. t \in Tab
  BY FitsMeans
<1> DEFINE u == [t EXCEPT !.linked = n]
<1>1. u \in Tab
  BY <1>0 DEF Tab
<1>2. /\ u.url = t.url /\ u.open = t.open /\ u.compared = t.compared
      /\ u.scenarios = t.scenarios /\ u.commands = t.commands /\ u.candidate = t.candidate
      /\ u.linked = n /\ u.source = t.source /\ u.calls = t.calls
  BY <1>0 DEF Tab
<1> HIDE DEF u
<1>3. Onward(t, u)
  BY <1>1, <1>2, FitsMeans, KnowsSame, OnwardIf
<1> QED
  BY <1>3 DEF u

LEMMA SetScenariosOnward ==
  ASSUME NEW t, Fits(t), NEW list, ListFits(list, status)
  PROVE  Onward(t, SetScenarios(t, list))
<1>0. t \in Tab
  BY FitsMeans
<1> DEFINE u == [t EXCEPT !.scenarios = list]
<1>1. u \in Tab
  BY <1>0 DEF Tab, ListFits, Copies
<1>2. /\ u.url = t.url /\ u.open = t.open /\ u.compared = t.compared
      /\ u.scenarios = list /\ u.commands = t.commands /\ u.candidate = t.candidate
      /\ u.linked = t.linked /\ u.source = t.source /\ u.calls = t.calls
  BY <1>0 DEF Tab
<1> HIDE DEF u
<1>3. Onward(t, u)
  BY <1>1, <1>2, FitsMeans, KnowsSame, OnwardIf
<1> QED
  BY <1>3 DEF u, SetScenarios

LEMMA SetCommandsOnward ==
  ASSUME NEW t, Fits(t), NEW list, ListFits(list, command)
  PROVE  Onward(t, SetCommands(t, list))
<1>0. t \in Tab
  BY FitsMeans
<1> DEFINE f == [s \in Scenarios |-> LatestCommand(t.commands[s], list[s])]
           u == [t EXCEPT !.commands = f]
<1>1. ASSUME NEW s \in Scenarios
      PROVE  f[s] \in Nat /\ f[s] <= Len(command[s]) /\ t.commands[s] <= f[s]
  <2>1. t.commands[s] \in Nat /\ list[s] \in Nat
        /\ t.commands[s] <= Len(command[s]) /\ list[s] <= Len(command[s])
    BY FitsMeans DEF ListFits
  <2> QED
    BY <2>1 DEF LatestCommand
<1>2. ListFits(f, command)
  BY <1>1 DEF ListFits
<1>3. SetCommands(t, list) = u
  BY DEF SetCommands
<1> HIDE DEF f
<1>4. u \in Tab
  BY <1>0, <1>2 DEF Tab, ListFits, Copies
<1>5. /\ u.url = t.url /\ u.open = t.open /\ u.compared = t.compared
      /\ u.scenarios = t.scenarios /\ u.commands = f /\ u.candidate = t.candidate
      /\ u.linked = t.linked /\ u.source = t.source /\ u.calls = t.calls
  BY <1>0 DEF Tab
<1> HIDE DEF u
<1>6. Knows(t, u)
  BY <1>1, <1>5 DEF Knows
<1>7. Onward(t, u)
  BY <1>2, <1>4, <1>5, <1>6, FitsMeans, OnwardIf
<1> QED
  BY <1>3, <1>7

-----------------------------------------------------------------------------
(* The pages' own callbacks.                                               *)

LEMMA SelectLayoutOnward ==
  ASSUME NEW t, Fits(t), NEW l \in {0} \cup Layouts
  PROVE  Onward(t, SelectLayout(t, l))
<1>1. CASE t.selected = l
  BY <1>1, OnwardSelf DEF SelectLayout
<1>2. CASE t.selected # l
  <2> DEFINE cs == Abandoned(t.calls, {"optimize"})
             u == [t EXCEPT !.selected = l, !.optimizing = FALSE, !.recommended = 0, !.calls = cs]
  <2>1. FitsCalls(cs) /\ \A d \in cs : d.live => d \in t.calls
    BY FitsMeans, AbandonedFits
  <2>2. SelectLayout(t, l) = u
    BY <1>2 DEF SelectLayout
  <2> HIDE DEF cs
  <2>3. t \in Tab /\ cs \in SUBSET Call
    BY <2>1, FitsMeans DEF FitsCalls, CallFits
  <2>4. u \in Tab
    BY <2>3 DEF Tab
  <2>5. /\ u.url = t.url /\ u.open = t.open /\ u.compared = t.compared
        /\ u.scenarios = t.scenarios /\ u.commands = t.commands /\ u.candidate = t.candidate
        /\ u.linked = t.linked /\ u.source = t.source /\ u.calls = cs
    BY <2>3 DEF Tab
  <2> HIDE DEF u
  <2> QED
    BY <2>1, <2>2, <2>4, <2>5, FitsMeans, KnowsSame, OnwardIf
<1> QED
  BY <1>1, <1>2

(* Requests that are about no row.                                         *)
LEMMA ListAskFits ==
  ASSUME NEW kind \in {"load", "commands", "strip", "again"}
  PROVE  kind \in Kinds \ {"compare"} /\ CallFits(Ask(kind, 0), status, command, mine)
<1>1. kind \in Kinds \ {"compare"}
  BY DEF Kinds, Lists, Reads
<1> QED
  BY <1>1, 0 \in Nat, AskFits DEF Reviews

LEMMA LoadPageOnward ==
  ASSUME NEW t, Fits(t)
  PROVE  /\ Onward(t, LoadPage(t)) /\ LoadPage(t).commands = t.commands
         /\ LoadPage(t).candidate = t.candidate /\ LoadPage(t).scenarios = t.scenarios
<1> DEFINE l == [t EXCEPT !.loading = TRUE]
           m == [l EXCEPT !.awaited = {"load", "commands"}]
           Keeps(r, u) == /\ u.commands = r.commands /\ u.candidate = r.candidate
                          /\ u.scenarios = r.scenarios
<1>1. t \in Tab
  BY FitsMeans
<1>2. Plain(t, l)
  BY <1>1 DEF Plain, Tab
<1>3. l \in Tab
  BY <1>2 DEF Plain
<1> HIDE DEF l
<1>4. Plain(l, m)
  BY <1>3 DEF Plain, Tab
<1> HIDE DEF m
<1>5. Onward(t, l) /\ Fits(l) /\ Keeps(t, l)
  BY <1>2, PlainOnward DEF Onward, Plain
<1>6. Onward(l, m) /\ Fits(m) /\ Keeps(t, m)
  BY <1>4, <1>5, PlainOnward DEF Onward, Plain
<1>7. CASE t.at = "commands"
  <2>1. LoadPage(t) = Send(l, "commands", 0)
    BY <1>7, <1>1 DEF LoadPage, l, Tab
  <2>2. Onward(l, Send(l, "commands", 0)) /\ Keeps(l, Send(l, "commands", 0))
    BY <1>5, ListAskFits, SendOnward
  <2> QED
    BY <1>5, <2>1, <2>2, OnwardTrans
<1>8. CASE t.at # "commands"
  <2> DEFINE v == Send(m, "load", 0)
  <2>1. LoadPage(t) = Send(v, "commands", 0)
    BY <1>8, <1>1 DEF LoadPage, l, m, Tab
  <2>2. Onward(m, v) /\ Keeps(m, v)
    BY <1>6, ListAskFits, SendOnward
  <2> HIDE DEF v
  <2>3. Fits(v)
    BY <2>2 DEF Onward
  <2>4. Onward(v, Send(v, "commands", 0)) /\ Keeps(v, Send(v, "commands", 0))
    BY <2>3, ListAskFits, SendOnward
  <2>5. Onward(t, m)
    BY <1>5, <1>6, OnwardTrans
  <2>6. Onward(t, v)
    BY <2>2, <2>5, OnwardTrans
  <2> QED
    BY <1>6, <2>1, <2>2, <2>4, <2>6, OnwardTrans
<1> QED
  BY <1>7, <1>8

(* A page that is mounted has nothing to compare.                          *)
LEMMA MountedFits ==
  ASSUME NEW t, Fits(t), NEW at \in {"scenarios", "commands"}, NEW url \in Url
  PROVE  /\ Fits(Mounted(t, at, url)) /\ Mounted(t, at, url).commands = t.commands
         /\ \A pair : Pictures(Mounted(t, at, url), pair)
<1> DEFINE cs == Abandoned(t.calls, Kinds \ {"strip"})
           h == [t EXCEPT !.at = at, !.url = url, !.candidate = NoCandidate, !.source = 0,
                          !.selected = 0, !.layouts = FALSE, !.queue = "all",
                          !.optimizing = FALSE, !.recommended = 0]
           i == [h EXCEPT !.loading = FALSE, !.awaited = {}, !.linked = 0, !.action = ""]
           m == [i EXCEPT !.dialog = FALSE, !.open = FALSE, !.compared = NoPair, !.calls = cs]
<1>1. FitsCalls(cs) /\ \A d \in cs : d.live => d.kind \notin Kinds \ {"strip"}
  BY FitsMeans, AbandonedFits
<1>2. Mounted(t, at, url) = LoadPage(m)
  BY DEF Mounted
<1> HIDE DEF cs
<1>3. t \in Tab /\ cs \in SUBSET Call
  BY <1>1, FitsMeans DEF FitsCalls, CallFits
<1>4. h \in Tab /\ h.scenarios = t.scenarios /\ h.commands = t.commands
      /\ h.candidate = NoCandidate /\ h.source = 0 /\ h.url = url
  <2>1. h \in Tab
    BY <1>3 DEF Tab, NoCandidate, QueueKeys
  <2> QED
    BY <1>3, <2>1 DEF Tab
<1> HIDE DEF h
<1>11. i \in Tab /\ i.scenarios = t.scenarios /\ i.commands = t.commands /\ i.linked = 0
       /\ i.candidate = NoCandidate /\ i.source = 0 /\ i.url = url
  <2>1. i \in Tab
    BY <1>4, ZenonT(40) DEF Tab
  <2> QED
    BY <1>4, <2>1 DEF Tab
<1> HIDE DEF i
<1>12. m \in Tab
  <2>1. NoPair \in [of : Nat, base : Nat]
    BY DEF NoPair
  <2> QED
    BY <1>3, <1>11, <2>1, ZenonT(40) DEF Tab
<1>5. /\ m.scenarios = t.scenarios /\ m.commands = t.commands /\ m.candidate = NoCandidate
      /\ m.linked = 0 /\ m.source = 0 /\ m.calls = cs /\ m.open = FALSE /\ m.url = url
  BY <1>11 DEF Tab
<1> HIDE DEF m
<1>6. url.candidate # 0 => 0 <= Len(status[url.candidate])
  <2>1. t.scenarios \in [Scenarios -> Nat]
    BY FitsMeans DEF ListFits
  <2>2. ASSUME NEW s \in Scenarios PROVE 0 <= Len(status[s])
    <3>1. t.scenarios[s] \in Nat /\ t.scenarios[s] <= Len(status[s])
      BY FitsMeans DEF ListFits
    <3> QED
      BY <3>1
  <2>3. url.candidate # 0 => url.candidate \in Scenarios
    BY DEF Url
  <2> QED
    BY <2>2, <2>3
<1>7. Fits(m)
  BY <1>1, <1>12, <1>5, <1>6, FitsMeans DEF Fits, TabFits, FitsCalls, ListFits
<1>8. Onward(m, LoadPage(m)) /\ LoadPage(m).commands = m.commands
  BY <1>7, LoadPageOnward
<1>9. \A d \in m.calls : d.kind = "compare" => ~d.live
  BY <1>1, <1>5 DEF Kinds, Reads
<1>10. ASSUME NEW pair PROVE Pictures(LoadPage(m), pair)
  BY <1>5, <1>8, <1>9 DEF Onward, Looks, Pictures
<1> QED
  BY <1>2, <1>5, <1>8, <1>10 DEF Onward

LEMMA OpenedFits ==
  ASSUME Backend, NEW at \in {"scenarios", "commands"}, NEW url \in Url,
         NEW role \in {"DESIGNER", "MONITOR"}
  PROVE  /\ Fits(Opened(at, role, url)) /\ Opened(at, role, url).commands = NoCopies
         /\ \A pair : Pictures(Opened(at, role, url), pair)
<1> DEFINE r == [at |-> at, url |-> url, role |-> role, scenarios |-> NoCopies,
                  commands |-> NoCopies, candidate |-> NoCandidate, source |-> 0,
                  selected |-> 0, layouts |-> FALSE, queue |-> "all", guided |-> FALSE,
                  optimizing |-> FALSE, recommended |-> 0, loading |-> FALSE, awaited |-> {}, linked |-> 0,
                  action |-> "", dialog |-> FALSE, open |-> FALSE, compared |-> NoPair,
                  calls |-> {}]
           m == Mounted(r, at, url)
<1>1. NoCopies \in Copies /\ \A s \in Scenarios : NoCopies[s] = 0
  BY DEF NoCopies, Copies
<1>2. r \in Tab
  BY <1>1 DEF Tab, NoCandidate, NoPair, QueueKeys
<1>3. /\ r.url = url /\ r.scenarios = NoCopies /\ r.commands = NoCopies
      /\ r.candidate = NoCandidate /\ r.linked = 0 /\ r.source = 0 /\ r.calls = {}
  OBVIOUS
<1>4. Opened(at, role, url) = Send(m, "strip", 0)
  BY DEF Opened
<1> HIDE DEF r
<1>5. \A s \in Scenarios : Len(status[s]) \in Nat /\ Len(command[s]) \in Nat
  BY DEF Backend, Statuses, CommandsOf
<1>6. url.candidate # 0 => url.candidate \in Scenarios
  BY DEF Url
<1>7. Fits(r)
  BY <1>1, <1>2, <1>3, <1>5, <1>6 DEF Fits, TabFits
<1>8. Fits(m) /\ m.commands = NoCopies /\ \A pair : Pictures(m, pair)
  BY <1>3, <1>7, MountedFits
<1> HIDE DEF m
<1>9. Onward(m, Send(m, "strip", 0)) /\ Send(m, "strip", 0).commands = m.commands
  BY <1>8, ListAskFits, SendOnward
<1> QED
  BY <1>4, <1>8, <1>9, PicturesOnward DEF Onward

(* The newest of the first queue that has any.                             *)
LEMMA NewestUsefulFits ==
  ASSUME NEW list, ListFits(list, status)
  PROVE  CandidateFits(NewestUseful(list))
<1> DEFINE listed == Listed(list)
           sets == <<In(list, "SUBMITTED"), In(list, "SIMULATED"), In(list, "APPROVED"), listed>>
           Good(i) == sets[i] # {} /\ \A j \in 1..(i - 1) : sets[j] = {}
           first == CHOOSE i \in 1..4 : Good(i)
           s == Newest(sets[first])
<1>1. NewestUseful(list) = IF listed = {} THEN NoCandidate ELSE Copy(s, list[s])
  BY DEF NewestUseful
<1>2. CASE listed = {}
  BY <1>1, <1>2 DEF CandidateFits, NoCandidate
<1>3. CASE listed # {}
  <2>1. \A i \in 1..4 : sets[i] \subseteq listed
    BY ListedIn
  <2>2. sets[4] = listed
    OBVIOUS
  <2> HIDE DEF sets, s
  <2>3. \E i \in 1..4 : Good(i)
    <3> DEFINE T == {i \in 1..4 : sets[i] # {}}
    <3>1. T \in SUBSET Nat /\ T # {}
      BY <1>3, <2>2
    <3>2. \A i \in T : i \in 1..4 /\ sets[i] # {}
      OBVIOUS
    <3>3. \A i \in 1..4 : sets[i] # {} => i \in T
      OBVIOUS
    <3> HIDE DEF T
    <3>4. PICK i \in T : \A j \in T : i <= j
      BY <3>1, LeastOf
    <3>5. \A j \in 1..(i - 1) : sets[j] = {}
      BY <3>2, <3>3, <3>4
    <3> QED
      BY <3>2, <3>5
  <2>4. first \in 1..4 /\ sets[first] # {}
    BY <2>3
  <2> HIDE DEF first
  <2>5. sets[first] \in SUBSET (0..MaxScenarios)
    <3>1. sets[first] \subseteq Scenarios
      BY <2>1, <2>4, ListedIn
    <3>2. Scenarios \subseteq 0..MaxScenarios
      BY PageAssumption DEF Scenarios
    <3> QED
      BY <3>1, <3>2
  <2>6. s \in sets[first]
    BY <2>4, <2>5, NewestIs, PageAssumption DEF s
  <2>7. s \in Scenarios /\ list[s] # 0
    BY <2>1, <2>4, <2>6 DEF Listed
  <2>8. s \in Nat /\ list[s] \in Nat /\ list[s] <= Len(status[s])
    BY <2>7, PageAssumption DEF ListFits, Scenarios
  <2> QED
    BY <1>1, <1>3, <2>7, <2>8 DEF CandidateFits, Copy
<1> QED
  BY <1>2, <1>3

-----------------------------------------------------------------------------
(* What is done with the answers.                                          *)

LEMMA LoadScenariosOnward ==
  ASSUME NEW t, Fits(t), NEW list, ListFits(list, status)
  PROVE  Onward(t, LoadScenarios(t, list)) /\ LoadScenarios(t, list).url = t.url
<1> DEFINE s == t.candidate.of
           k == IF s # 0 /\ list[s] # 0 THEN Copy(s, list[s]) ELSE NewestUseful(list)
           d == SetScenarios(t, list)
<1>1. CandidateFits(k)
  <2>1. CASE s # 0 /\ list[s] # 0
    <3>1. s \in Scenarios
      BY <2>1, FitsMeans DEF CandidateFits, NoCandidate
    <3>2. s \in Nat /\ list[s] \in Nat /\ list[s] <= Len(status[s])
      BY <3>1, PageAssumption DEF ListFits, Scenarios
    <3>3. k = Copy(s, list[s])
      BY <2>1
    <3> HIDE DEF s, k
    <3> QED
      BY <2>1, <3>1, <3>2, <3>3 DEF CandidateFits, Copy
  <2>2. CASE ~(s # 0 /\ list[s] # 0)
    BY <2>2, NewestUsefulFits
  <2> QED
    BY <2>1, <2>2
<1>2. Onward(t, d)
  BY SetScenariosOnward
<1>3. LoadScenarios(t, list) = [d EXCEPT !.candidate = k]
  BY DEF LoadScenarios
<1>4. t \in Tab
  BY FitsMeans
<1>8. d.url = t.url
  BY <1>4 DEF SetScenarios, Tab
<1> HIDE DEF d, k
<1>5. Fits(d) /\ d \in Tab
  BY <1>2, FitsMeans DEF Onward
<1>6. Onward(d, [d EXCEPT !.candidate = k])
  BY <1>1, <1>5, CandidateOnward
<1>7. [d EXCEPT !.candidate = k].url = d.url
  BY <1>5 DEF Tab
<1> QED
  BY <1>2, <1>3, <1>6, <1>7, <1>8, OnwardTrans

LEMMA JoinedOnward ==
  ASSUME NEW t, Fits(t), NEW part
  PROVE  Onward(t, Joined(t, part))
<1> DEFINE j == [t EXCEPT !.awaited = @ \ {part}]
           k == IF t.url.candidate = 0 \/ t.linked = 0 THEN t.candidate
                ELSE Copy(t.url.candidate, t.linked)
           q == IF t.url.queue = "" THEN t.queue ELSE t.url.queue
           l == IF t.url.layout = 0 THEN 1 ELSE t.url.layout
           d == [j EXCEPT !.layouts = TRUE, !.queue = q]
           e == [d EXCEPT !.candidate = k]
<1>0. t \in Tab
  BY FitsMeans
<1>1. /\ t \in Tab /\ t.url \in Url /\ t.linked \in Nat /\ CandidateFits(t.candidate)
      /\ t.url.candidate # 0 => t.linked <= Len(status[t.url.candidate])
  BY <1>0, FitsMeans DEF Tab
<1>2. l \in Layouts /\ l \in Nat
  BY <1>1, LayoutsAreNumbers DEF Url
<1>3. q \in QueueKeys
  BY <1>1 DEF Url, Tab
<1>4. CandidateFits(k)
  <2>1. CASE t.url.candidate = 0 \/ t.linked = 0
    BY <1>1, <2>1
  <2>2. CASE ~(t.url.candidate = 0 \/ t.linked = 0)
    <3>1. t.url.candidate \in Scenarios
      BY <1>1, <2>2 DEF Url
    <3>2. t.url.candidate \in Nat
      BY <3>1, PageAssumption DEF Scenarios
    <3>3. k = [of |-> t.url.candidate, seen |-> t.linked]
      BY <2>2 DEF Copy
    <3> HIDE DEF k
    <3> QED
      BY <1>1, <2>2, <3>1, <3>2, <3>3 DEF CandidateFits
  <2> QED
    BY <2>1, <2>2
<1>5. Plain(t, j)
  BY <1>1 DEF Plain, Tab
<1>6. /\ Joined(t, part) = IF t.awaited # {part} THEN j ELSE Send(e, "layout", l)
      /\ j.queue = t.queue
  BY <1>1 DEF Joined, Tab
<1> HIDE DEF j, k, q, l
<1>7. Onward(t, j) /\ Fits(j) /\ j \in Tab
  BY <1>5, PlainOnward DEF Onward, Plain
<1>8. Plain(j, d)
  BY <1>3, <1>7 DEF Plain, Tab
<1> HIDE DEF d
<1>9. Onward(j, d) /\ Fits(d)
  BY <1>7, <1>8, PlainOnward DEF Onward
<1>10. Onward(d, e) /\ Fits(e)
  BY <1>4, <1>9, CandidateOnward DEF Onward
<1> HIDE DEF e
<1>11. "layout" \in Kinds \ {"compare"}
  BY DEF Kinds, Reads
<1>12. CallFits(Ask("layout", l), status, command, mine)
  BY <1>2, <1>11, 0 \in Nat, AskFits DEF Reviews
<1>13. Onward(e, Send(e, "layout", l))
  BY <1>10, <1>11, <1>12, SendOnward
<1>14. Onward(t, d)
  BY <1>7, <1>9, OnwardTrans
<1>15. Onward(t, e)
  BY <1>10, <1>14, OnwardTrans
<1>16. Onward(t, Send(e, "layout", l))
  BY <1>13, <1>15, OnwardTrans
<1> QED
  BY <1>6, <1>7, <1>16

LEMMA LoadFailedOnward ==
  ASSUME NEW t, Fits(t)
  PROVE  Onward(t, LoadFailed(t))
<1> DEFINE cs == Abandoned(t.calls, {"load", "commands"})
           d == [t EXCEPT !.loading = FALSE, !.awaited = {}]
           u == [d EXCEPT !.calls = cs]
<1>1. FitsCalls(cs) /\ \A c \in cs : c.live => c \in t.calls
  BY FitsMeans, AbandonedFits
<1>2. LoadFailed(t) = u
  BY DEF LoadFailed
<1> HIDE DEF cs
<1>3. t \in Tab
  BY FitsMeans
<1>4. Plain(t, d)
  BY <1>3 DEF Plain, Tab
<1> HIDE DEF d
<1>5. Onward(t, d) /\ Fits(d) /\ d.calls = t.calls
  BY <1>4, PlainOnward DEF Onward, Plain
<1>6. Onward(d, u)
  BY <1>1, <1>5, CallsOnward
<1> QED
  BY <1>2, <1>5, <1>6, OnwardTrans

LEMMA NoCopiesFit ==
  ASSUME Backend
  PROVE  /\ NoCopies \in [Scenarios -> Nat] /\ \A s \in Scenarios : NoCopies[s] = 0
         /\ ListFits(NoCopies, status) /\ ListFits(NoCopies, command)
<1>1. \A s \in Scenarios : Len(status[s]) \in Nat /\ Len(command[s]) \in Nat
  BY DEF Backend, Statuses, CommandsOf
<1>2. NoCopies \in [Scenarios -> Nat] /\ \A s \in Scenarios : NoCopies[s] = 0
  BY DEF NoCopies
<1> QED
  BY <1>1, <1>2 DEF ListFits

LEMMA GotCommandsOnward ==
  ASSUME NEW t, Fits(t), NEW c, NEW list, ListFits(list, command)
  PROVE  Onward(t, GotCommands(t, c, list))
<1> DEFINE d == SetCommands(t, list)
           a == [d EXCEPT !.loading = FALSE, !.action = ""]
           b == [d EXCEPT !.loading = FALSE]
<1>1. Onward(t, d)
  BY SetCommandsOnward
<1>2. \/ GotCommands(t, c, list) = d \/ GotCommands(t, c, list) = a
      \/ GotCommands(t, c, list) = b \/ GotCommands(t, c, list) = Joined(d, "commands")
  BY DEF GotCommands
<1> HIDE DEF d
<1>3. Fits(d) /\ d \in Tab
  BY <1>1, FitsMeans DEF Onward
<1>4. Plain(d, a) /\ Plain(d, b)
  <2>1. Plain(d, a)
    BY <1>3 DEF Plain, Tab
  <2>2. Plain(d, b)
    BY <1>3 DEF Plain, Tab
  <2> QED
    BY <2>1, <2>2
<1> HIDE DEF a, b
<1>5. Onward(d, a) /\ Onward(d, b) /\ Onward(d, Joined(d, "commands"))
  BY <1>3, <1>4, PlainOnward, JoinedOnward
<1> QED
  BY <1>1, <1>2, <1>5, OnwardTrans

LEMMA ActionEndsOnward ==
  ASSUME NEW t, Fits(t), NEW c
  PROVE  Onward(t, ActionEnds(t, c))
<1> DEFINE u == [t EXCEPT !.action = ""]
<1>1. t \in Tab
  BY FitsMeans
<1>2. Plain(t, u)
  BY <1>1 DEF Plain, Tab
<1> HIDE DEF u
<1> QED
  BY <1>2, PlainOnward DEF ActionEnds, u

(* An answer that has a row has the one that was asked about.              *)
LEMMA RowIs ==
  ASSUME NEW answer \in [Scenarios -> Nat], answer # NoCopies
  PROVE  LET s == CHOOSE s \in Scenarios : answer[s] # 0
         IN  s \in Scenarios /\ answer[s] # 0
<1>1. \E s \in Scenarios : answer[s] # 0
  BY DEF NoCopies
<1> QED
  BY <1>1

LEMMA ChangedOnward ==
  ASSUME NEW t, Fits(t), NEW c, ListFits(c.answer, status)
  PROVE  Onward(t, Changed(t, c))
<1> DEFINE s == CHOOSE s \in Scenarios : c.answer[s] # 0
           f == [t.scenarios EXCEPT ![s] = c.answer[s]]
           u == UpdateScenario(t, s, c.answer[s])
           k == Copy(s, c.answer[s])
           o == IF c.kind = "run" THEN 0 ELSE t.source
           v == [u EXCEPT !.candidate = k]
           w == [v EXCEPT !.source = o]
<1>0. t \in Tab /\ c.answer \in [Scenarios -> Nat]
  BY FitsMeans DEF ListFits
<1>1. Changed(t, c) = IF c.answer = NoCopies THEN (IF c.live THEN ActionEnds(t, c) ELSE t)
                      ELSE IF c.live THEN ActionEnds(w, c) ELSE u
  <2>1. u.source = t.source
    BY <1>0 DEF UpdateScenario, Tab
  <2>2. [u EXCEPT !.candidate = k, !.source = IF c.kind = "run" THEN 0 ELSE @] = w
    BY <2>1
  <2> QED
    BY <2>2 DEF Changed
<1>2. CASE c.answer = NoCopies
  BY <1>1, <1>2, ActionEndsOnward, OnwardSelf
<1>3. CASE c.answer # NoCopies
  <2>1. s \in Scenarios /\ c.answer[s] # 0
    BY <1>0, <1>3, RowIs
  <2>2. u = SetScenarios(t, f)
    BY <1>0 DEF UpdateScenario, SetScenarios, Tab
  <2> HIDE DEF s
  <2>3. ListFits(f, status)
    BY <2>1, FitsMeans DEF ListFits
  <2>4. CandidateFits(k)
    <3>1. s \in Nat /\ c.answer[s] \in Nat /\ c.answer[s] <= Len(status[s])
      BY <2>1, PageAssumption DEF ListFits, Scenarios
    <3> QED
      BY <2>1, <3>1 DEF CandidateFits, Copy
  <2>5. o \in {0} \cup Scenarios /\ SourceFits(o)
    BY <1>0, FitsMeans DEF SourceFits, Tab
  <2> HIDE DEF f, k, o, u
  <2>6. Onward(t, u) /\ Fits(u)
    BY <2>2, <2>3, SetScenariosOnward DEF Onward
  <2>7. Onward(u, v) /\ Fits(v)
    BY <2>4, <2>6, CandidateOnward DEF Onward
  <2> HIDE DEF v
  <2>8. Onward(v, w) /\ Fits(w)
    BY <2>5, <2>7, SourceOnward DEF Onward
  <2> HIDE DEF w
  <2>9. Onward(t, v)
    BY <2>6, <2>7, OnwardTrans
  <2>10. Onward(t, w)
    BY <2>8, <2>9, OnwardTrans
  <2>11. Onward(t, ActionEnds(w, c))
    BY <2>8, <2>10, ActionEndsOnward, OnwardTrans
  <2> QED
    BY <1>1, <1>3, <2>6, <2>11
<1> QED
  BY <1>2, <1>3

LEMMA CommandedOnward ==
  ASSUME NEW t, Fits(t), NEW c, ListFits(c.answer, command), c.live \in BOOLEAN
  PROVE  Onward(t, Commanded(t, c))
<1> DEFINE u == SetCommands(t, c.answer)
           again == [Ask("again", 0) EXCEPT !.live = c.live]
           d == [t EXCEPT !.loading = @ \/ c.live]
           cs == d.calls \cup {again}
<1>1. CASE c.kind = "retry" /\ c.answer = NoCopies
  <2>1. t \in Tab
    BY FitsMeans
  <2>2. Plain(t, d)
    <3>1. t.loading \/ c.live \in BOOLEAN
      BY <2>1 DEF Tab
    <3> DEFINE b == t.loading \/ c.live
    <3>2. d = [t EXCEPT !.loading = b]
      BY <2>1 DEF Tab
    <3>3. b \in BOOLEAN
      OBVIOUS
    <3> HIDE DEF b, d
    <3> QED
      BY <2>1, <3>2, <3>3 DEF Plain, Tab
  <2>3. Commanded(t, c) = [d EXCEPT !.calls = cs]
    BY <1>1, <2>1 DEF Commanded, Tab
  <2>4. CallFits(again, status, command, mine) /\ again.kind = "again"
    <3>1. CallFits(Ask("again", 0), status, command, mine)
      BY ListAskFits
    <3>2. Ask("again", 0) \in Call /\ Ask("again", 0).kind = "again" /\ Ask("again", 0).answer = <<>>
      BY AskIsCall, ListAskFits
    <3> DEFINE a == Ask("again", 0)
    <3> HIDE DEF a
    <3>3. again \in Call /\ again.kind = "again" /\ again.answer = <<>>
      BY <3>2 DEF a, Call
    <3> HIDE DEF again
    <3> QED
      BY <3>3 DEF CallFits, Reviews
  <2> HIDE DEF again, d
  <2>5. Onward(t, d) /\ Fits(d) /\ d.calls = t.calls
    BY <2>2, PlainOnward DEF Onward, Plain
  <2>6. FitsCalls(cs) /\ \A e \in cs : e.kind = "compare" => e \in d.calls
    BY <2>4, <2>5, FitsMeans DEF FitsCalls
  <2> HIDE DEF cs
  <2>7. Onward(d, [d EXCEPT !.calls = cs])
    BY <2>5, <2>6, CallsOnward
  <2> QED
    BY <2>3, <2>5, <2>7, OnwardTrans
<1>2. CASE ~(c.kind = "retry" /\ c.answer = NoCopies)
  <2>1. Commanded(t, c) = IF c.live THEN ActionEnds(u, c) ELSE u
    BY <1>2 DEF Commanded
  <2> HIDE DEF u
  <2>2. Onward(t, u) /\ Fits(u)
    BY SetCommandsOnward DEF Onward, u
  <2>3. Onward(t, ActionEnds(u, c))
    BY <2>2, ActionEndsOnward, OnwardTrans
  <2> QED
    BY <2>1, <2>2, <2>3
<1> QED
  BY <1>1, <1>2

LEMMA PreparedOnward ==
  ASSUME Backend, NEW t, Fits(t), NEW c, c.of \in mine,
         Ended(status[c.of], "REVISION_REQUESTED")
  PROVE  Onward(t, Prepared(t, c))
<1> DEFINE d == SelectLayout(t, layout[c.of])
<1>1. c.of \in Scenarios /\ layout[c.of] \in {0} \cup Layouts
  BY DEF Backend
<1>2. Onward(t, d) /\ Fits(d)
  BY <1>1, SelectLayoutOnward DEF Onward
<1>3. SourceFits(c.of)
  BY DEF SourceFits
<1>4. Prepared(t, c) = [d EXCEPT !.source = c.of]
  BY DEF Prepared
<1> HIDE DEF d
<1>5. Onward(d, [d EXCEPT !.source = c.of])
  BY <1>1, <1>2, <1>3, SourceOnward
<1> QED
  BY <1>2, <1>4, <1>5, OnwardTrans

LEMMA OptimizedOnward ==
  ASSUME NEW t, Fits(t), NEW c, c.answer \in [Scenarios -> Nat]
  PROVE  Onward(t, Optimized(t, c))
<1> DEFINE r == IF c.answer = NoCopies THEN t.recommended
                ELSE CHOOSE s \in Scenarios : c.answer[s] # 0
           u == [t EXCEPT !.optimizing = FALSE, !.recommended = r]
<1>1. t \in Tab
  BY FitsMeans
<1>2. r \in {0} \cup Scenarios
  BY <1>1, RowIs DEF Tab
<1>3. Optimized(t, c) = IF c.live THEN u ELSE t
  BY DEF Optimized
<1> HIDE DEF r
<1>4. Plain(t, u)
  <2>1. u \in Tab
    BY <1>1, <1>2 DEF Tab
  <2> QED
    BY <1>1, <2>1 DEF Plain, Tab
<1> HIDE DEF u
<1> QED
  BY <1>3, <1>4, PlainOnward, OnwardSelf

LEMMA HandleOnward ==
  ASSUME Backend, NEW t, Fits(t), NEW c, CallFits(c, status, command, mine),
         c.answer # <<>>, c.kind # "compare"
  PROVE  Onward(t, Handle(t, c))
<1> DEFINE list == c.answer
<1>1. /\ list \in [Scenarios -> Nat] /\ c.live \in BOOLEAN /\ c.of \in Nat /\ c.kind \in Kinds
      /\ t \in Tab /\ t.url \in Url
  BY FitsMeans DEF CallFits, Call, Copies
<1>2. c.kind \in CommandKinds => ListFits(list, command)
  BY <1>1 DEF CallFits, ListFits
<1>3. c.kind \notin CommandKinds => ListFits(list, status)
  BY <1>1 DEF CallFits, ListFits
<1>4. CASE c.kind = "load"
  <2> DEFINE v == LoadScenarios(t, list)
             n == IF t.url.candidate = 0 THEN 0 ELSE list[t.url.candidate]
             w == [v EXCEPT !.linked = n]
  <2>1. ListFits(list, status)
    BY <1>3, <1>4 DEF CommandKinds
  <2>2. Handle(t, c) = IF c.live THEN Joined(w, "load") ELSE SetScenarios(t, list)
    BY <1>4 DEF Handle, Reviews
  <2>3. Onward(t, v) /\ Fits(v) /\ v.url = t.url
    BY <2>1, LoadScenariosOnward DEF Onward
  <2>4. n \in Nat /\ t.url.candidate # 0 => n <= Len(status[t.url.candidate])
    BY <1>1, <2>1 DEF Url, ListFits
  <2>7. n \in Nat
    BY <1>1 DEF Url
  <2> HIDE DEF v, n
  <2>5. Onward(v, w) /\ Fits(w)
    BY <2>3, <2>4, <2>7, LinkedOnward DEF Onward
  <2> HIDE DEF w
  <2>6. Onward(t, w)
    BY <2>3, <2>5, OnwardTrans
  <2> QED
    BY <2>1, <2>2, <2>5, <2>6, JoinedOnward, SetScenariosOnward, OnwardTrans
<1>5. CASE c.kind = "reload"
  <2>1. ListFits(list, status)
    BY <1>3, <1>5 DEF CommandKinds
  <2>2. Handle(t, c) = IF c.live THEN LoadScenarios(t, list) ELSE SetScenarios(t, list)
    BY <1>5 DEF Handle, Reviews
  <2> QED
    BY <2>1, <2>2, LoadScenariosOnward, SetScenariosOnward
<1>6. CASE c.kind = "strip"
  <2> DEFINE v == SetScenarios(t, list)
             w == [v EXCEPT !.guided = TRUE]
  <2>1. ListFits(list, status)
    BY <1>3, <1>6 DEF CommandKinds
  <2>2. Handle(t, c) = IF c.live THEN w ELSE t
    BY <1>6 DEF Handle, Reviews
  <2>3. Onward(t, v) /\ Fits(v) /\ v \in Tab
    BY <2>1, SetScenariosOnward, FitsMeans DEF Onward
  <2> HIDE DEF v
  <2>4. Plain(v, w)
    BY <2>3 DEF Plain, Tab
  <2> HIDE DEF w
  <2>5. Onward(t, w)
    BY <2>3, <2>4, PlainOnward, OnwardTrans
  <2> QED
    BY <2>2, <2>5, OnwardSelf
<1>7. CASE c.kind \in {"commands", "again"}
  <2>1. ListFits(list, command)
    BY <1>2, <1>7 DEF CommandKinds
  <2>2. Handle(t, c) = GotCommands(t, c, list)
    BY <1>7 DEF Handle, Reviews
  <2> QED
    BY <2>1, <2>2, GotCommandsOnward
<1>8. CASE c.kind \in {"run"} \cup Reviews
  <2>1. ListFits(list, status)
    BY <1>3, <1>8 DEF CommandKinds, Reviews
  <2>2. Handle(t, c) = Changed(t, c)
    BY <1>8 DEF Handle, Reviews
  <2> QED
    BY <2>1, <2>2, ChangedOnward
<1>9. CASE c.kind \in {"apply", "retry"}
  <2>1. ListFits(list, command)
    BY <1>2, <1>9 DEF CommandKinds
  <2>2. Handle(t, c) = Commanded(t, c)
    BY <1>9 DEF Handle, Reviews
  <2> QED
    BY <1>1, <2>1, <2>2, CommandedOnward
<1>10. CASE c.kind = "layout"
  <2> DEFINE v == SelectLayout(t, c.of)
             w == [v EXCEPT !.loading = FALSE]
  <2>1. c.of \in Layouts
    BY <1>10 DEF CallFits
  <2>2. Handle(t, c) = IF c.live THEN w ELSE t
    BY <1>10 DEF Handle, Reviews
  <2>3. Onward(t, v) /\ Fits(v) /\ v \in Tab
    BY <2>1, SelectLayoutOnward, FitsMeans DEF Onward
  <2> HIDE DEF v
  <2>4. Plain(v, w)
    BY <2>3 DEF Plain, Tab
  <2> HIDE DEF w
  <2>5. Onward(t, w)
    BY <2>3, <2>4, PlainOnward, OnwardTrans
  <2> QED
    BY <2>2, <2>5, OnwardSelf
<1>11. CASE c.kind = "select"
  <2>1. c.of \in Layouts
    BY <1>11 DEF CallFits
  <2>2. Handle(t, c) = IF c.live THEN SelectLayout(t, c.of) ELSE t
    BY <1>11 DEF Handle, Reviews
  <2> QED
    BY <2>1, <2>2, SelectLayoutOnward, OnwardSelf
<1>12. CASE c.kind = "optimize"
  <2>1. Handle(t, c) = Optimized(t, c)
    BY <1>12 DEF Handle, Reviews
  <2> QED
    BY <1>1, <2>1, OptimizedOnward
<1>13. CASE c.kind = "source"
  <2>1. c.of \in mine /\ Ended(status[c.of], "REVISION_REQUESTED")
    BY <1>13 DEF CallFits
  <2>2. Handle(t, c) = IF c.live THEN Prepared(t, c) ELSE t
    BY <1>13 DEF Handle, Reviews
  <2> QED
    BY <2>1, <2>2, PreparedOnward, OnwardSelf
<1> HIDE DEF list
<1>14. \/ c.kind \in {"load", "reload", "strip", "layout", "select", "optimize", "source"}
       \/ c.kind \in {"commands", "again"} \/ c.kind \in {"run"} \cup Reviews
       \/ c.kind \in {"apply", "retry"}
  BY <1>1 DEF Kinds, Actions, Lists, Reads, Reviews
<1> QED
  BY <1>4, <1>5, <1>6, <1>7, <1>8, <1>9, <1>10, <1>11, <1>12, <1>13, <1>14

LEMMA HandleFailureOnward ==
  ASSUME Backend, NEW t, Fits(t), NEW c \in Call
  PROVE  Onward(t, HandleFailure(t, c))
<1> DEFINE d == [c EXCEPT !.answer = NoCopies]
<1>1. d.answer = NoCopies /\ d.live = c.live /\ d.live \in BOOLEAN
  BY DEF Call
<1> HIDE DEF d
<1>2. /\ ListFits(d.answer, status) /\ ListFits(d.answer, command)
      /\ d.answer \in [Scenarios -> Nat]
      /\ ListFits(NoCopies, command)
  BY <1>1, NoCopiesFit
<1>3. CASE c.kind \in {"load", "layout"}
  <2>1. HandleFailure(t, c) = IF c.live THEN LoadFailed(t) ELSE t
    BY <1>3 DEF HandleFailure, Reviews
  <2> QED
    BY <2>1, LoadFailedOnward, OnwardSelf
<1>4. CASE c.kind \in {"commands", "again"}
  <2>1. HandleFailure(t, c) = GotCommands(t, c, NoCopies)
    BY <1>4 DEF HandleFailure, Reviews
  <2> QED
    BY <1>2, <2>1, GotCommandsOnward
<1>5. CASE c.kind \in {"run"} \cup Reviews
  <2>1. HandleFailure(t, c) = Changed(t, d)
    BY <1>5 DEF HandleFailure, Reviews, d
  <2> QED
    BY <1>2, <2>1, ChangedOnward
<1>6. CASE c.kind \in {"apply", "retry"}
  <2>1. HandleFailure(t, c) = Commanded(t, d)
    BY <1>6 DEF HandleFailure, Reviews, d
  <2> QED
    BY <1>1, <1>2, <2>1, CommandedOnward
<1>7. CASE c.kind = "optimize"
  <2>1. HandleFailure(t, c) = Optimized(t, d)
    BY <1>7 DEF HandleFailure, Reviews, d
  <2> QED
    BY <1>2, <2>1, OptimizedOnward
<1>8. CASE c.kind = "strip"
  <2> DEFINE u == [t EXCEPT !.guided = FALSE]
  <2>1. HandleFailure(t, c) = IF c.live THEN u ELSE t
    BY <1>8 DEF HandleFailure, Reviews
  <2>2. t \in Tab
    BY FitsMeans
  <2>3. Plain(t, u)
    BY <2>2 DEF Plain, Tab
  <2> HIDE DEF u
  <2> QED
    BY <2>1, <2>3, PlainOnward, OnwardSelf
<1>9. CASE c.kind \in {"reload", "select", "source", "compare"}
  <2>1. HandleFailure(t, c) = t
    BY <1>9 DEF HandleFailure, Reviews
  <2> QED
    BY <2>1, OnwardSelf
<1>10. \/ c.kind \in {"load", "layout"} \/ c.kind \in {"commands", "again"}
       \/ c.kind \in {"run"} \cup Reviews \/ c.kind \in {"apply", "retry"}
       \/ c.kind \in {"optimize", "strip"}
       \/ c.kind \in {"reload", "select", "source", "compare"}
  BY DEF Call, Kinds, Actions, Lists, Reads, Reviews
<1> QED
  BY <1>3, <1>4, <1>5, <1>6, <1>7, <1>8, <1>9, <1>10

LEMMA DoneOnward ==
  ASSUME Fits(tab), NEW c
  PROVE  Onward(tab, Done(c))
<1> DEFINE cs == tab.calls \ {c}
<1>1. FitsCalls(cs)
  BY FitsMeans DEF FitsCalls
<1>2. Done(c) = [tab EXCEPT !.calls = cs]
  BY DEF Done
<1> QED
  BY <1>1, <1>2, CallsOnward

(* The answer of the comparison that is still wanted is what it shows.     *)
LEMMA CompareLoadedShows ==
  ASSUME Backend, Fits(tab), Pictures(tab, Compared(tab)), NEW c \in tab.calls, c.kind = "compare"
  PROVE  /\ Fits(Rendered(Handle(Done(c), c))) /\ Knows(tab, Rendered(Handle(Done(c), c)))
         /\ Pictures(Rendered(Handle(Done(c), c)), Compared(Rendered(Handle(Done(c), c))))
<1> DEFINE d == Done(c)
           pair == [of |-> c.of, base |-> c.base]
           u == [d EXCEPT !.compared = pair]
<1>1. Onward(tab, d) /\ Fits(d) /\ d \in Tab
  BY DoneOnward, FitsMeans DEF Onward
<1>2. Handle(d, c) = IF c.live THEN u ELSE d
  BY DEF Handle, CompareLoaded, Reviews
<1> HIDE DEF d
<1>3. CASE ~c.live
  BY <1>1, <1>2, <1>3, RenderedOnward DEF d
<1>4. CASE c.live
  <2>1. pair \in [of : Nat, base : Nat]
    BY FitsMeans DEF FitsCalls, CallFits, Call
  <2>2. tab.open /\ pair = Compared(tab)
    BY <1>4 DEF Pictures
  <2> HIDE DEF pair
  <2>3. u \in Tab
    BY <1>1, <2>1 DEF Tab
  <2>4. /\ u.url = d.url /\ u.open = d.open /\ u.compared = pair
        /\ u.scenarios = d.scenarios /\ u.commands = d.commands /\ u.candidate = d.candidate
        /\ u.linked = d.linked /\ u.source = d.source /\ u.calls = d.calls
    BY <1>1 DEF Tab
  <2> HIDE DEF u
  <2>5. Fits(u)
    BY <1>1, <2>3, <2>4 DEF Fits, TabFits
  <2>6. Pictures(u, Compared(tab))
    BY <1>1, <2>2, <2>4 DEF Pictures, Onward, Looks
  <2>7. /\ Fits(Rendered(u)) /\ Rendered(u).commands = u.commands
        /\ Pictures(Rendered(u), Compared(Rendered(u)))
    BY <2>5, <2>6, RenderedShows
  <2>8. Knows(tab, Rendered(u))
    BY <1>1, <2>4, <2>7 DEF Onward, Knows
  <2> QED
    BY <1>2, <1>4, <2>7, <2>8 DEF d
<1> QED
  BY <1>3, <1>4

-----------------------------------------------------------------------------
(* The backend, beside the tab.                                            *)

CopiesFit ==
    /\ Backend /\ Fits(tab) /\ Pictures(tab, Compared(tab))
    /\ budget \in Budget

(* The backend goes on, and what was created stays as it was created.      *)
RowsGoOn ==
    /\ Grown2(command, command') /\ Grown2(updated, updated')
    /\ \A o \in Ops : command[o] # <<>> => target'[o] = target[o]
Proceeds ==
    /\ Backend' /\ Grown2(status, status') /\ RowsGoOn
    /\ mine \subseteq mine'
    /\ \A s \in Created : layout'[s] = layout[s]
    /\ \/ applied' = applied
       \/ \E s \in Scenarios : applied' = Append(applied, s) /\ ~Ended(status[s], "APPLIED")

StepFits ==
    /\ CopiesFit' /\ RowsGoOn
    /\ Knows(tab, tab') \/ tab'.commands = NoCopies

(* What the page knows to be applied was applied before.                   *)
LEMMA AppliedStays ==
  ASSUME Backend, Fits(tab), Proceeds, NEW s \in Scenarios
  PROVE  /\ s \in Listed(tab.scenarios) => s \in Created
         /\ s \in Listed(tab.scenarios) => status'[s][tab.scenarios[s]] = status[s][tab.scenarios[s]]
         /\ s \in In(tab.scenarios, "APPLIED") => Ended(status[s], "APPLIED")
<1> DEFINE n == tab.scenarios[s]
<1>1. /\ n \in Nat /\ n <= Len(status[s]) /\ status[s] \in Seq(ScenarioStatus)
      /\ Ends(status[s], FinalStatus)
  BY FitsMeans DEF ListFits, Backend, Statuses
<1>2. n # 0 => n \in 1..Len(status[s])
  BY <1>1
<1>3. n # 0 => status[s] # <<>>
  BY <1>1
<1>4. n # 0 => status'[s][n] = status[s][n]
  BY <1>2 DEF Proceeds, Grown2, Continues
<1>5. n # 0 /\ status[s][n] = "APPLIED" => Ended(status[s], "APPLIED")
  BY <1>1, <1>2, FinalIsLast DEF FinalStatus
<1> QED
  BY <1>3, <1>4, <1>5 DEF Listed, In, Created

LEMMA ComparedStays ==
  ASSUME Backend, Fits(tab), Proceeds, tab'.candidate = tab.candidate,
         tab'.scenarios = tab.scenarios
  PROVE  Compared(tab)' = Compared(tab)
<1> DEFINE in == In(tab.scenarios, "APPLIED")
           seen == {i \in DOMAIN applied : applied[i] \in in}
<1>1. Listed(tab.scenarios)' = Listed(tab.scenarios)
  BY DEF Listed
<1>2. in' = in
  <2>1. ASSUME NEW s \in Scenarios
        PROVE  s \in in' <=> s \in in
    BY <1>1, AppliedStays DEF In, Listed
  <2>2. in' \subseteq Scenarios /\ in \subseteq Scenarios
    BY <1>1 DEF In, Listed
  <2> QED
    BY <2>1, <2>2
<1>3. \A s \in in : s \in Scenarios /\ s \in Created /\ Ended(status[s], "APPLIED")
  BY AppliedStays DEF In, Listed
<1>4. applied \in Seq(Scenarios) /\ DOMAIN applied = 1..Len(applied) /\ Len(applied) \in Nat
  BY DEF Backend
<1> HIDE DEF in
<1>5. seen' = seen /\ \A i \in seen : applied'[i] = applied[i]
  <2>1. CASE applied' = applied
    BY <1>2, <2>1
  <2>2. CASE \E s \in Scenarios : applied' = Append(applied, s) /\ ~Ended(status[s], "APPLIED")
    <3>1. PICK s \in Scenarios : applied' = Append(applied, s) /\ ~Ended(status[s], "APPLIED")
      BY <2>2
    <3>2. /\ DOMAIN applied' = 1..(Len(applied) + 1)
          /\ \A i \in 1..Len(applied) : applied'[i] = applied[i]
          /\ applied'[Len(applied) + 1] = s
      BY <1>4, <3>1
    <3>3. s \notin in
      BY <1>3, <3>1
    <3>4. seen' = {i \in DOMAIN applied' : applied'[i] \in in}
      BY <1>2
    <3> QED
      BY <1>4, <3>2, <3>3, <3>4
  <2> QED
    BY <2>1, <2>2 DEF Proceeds
<1>6. LatestApplied(tab) = IF seen = {} THEN 0 ELSE applied[Newest(seen)]
  BY DEF LatestApplied, in
<1>7. LatestApplied(tab)' = IF seen' = {} THEN 0 ELSE applied'[Newest(seen')]
  BY DEF LatestApplied, in, Newest
<1>8. seen # {} => Newest(seen) \in seen
  <2>1. seen \in SUBSET (0..Len(applied))
    BY <1>4
  <2> HIDE DEF seen
  <2> QED
    BY <1>4, <2>1, NewestIs
<1>9. LatestApplied(tab)' = LatestApplied(tab)
  <2> HIDE DEF seen
  <2> QED
    BY <1>5, <1>6, <1>7, <1>8
<1>10. LatestApplied(tab) # 0 => layout'[LatestApplied(tab)] = layout[LatestApplied(tab)]
  <2>1. LatestApplied(tab) # 0 => LatestApplied(tab) \in in
    BY LatestAppliedIs DEF in
  <2> QED
    BY <1>3, <2>1 DEF Proceeds
<1>11. tab.candidate # NoCandidate => layout'[tab.candidate.of] = layout[tab.candidate.of]
  <2> SUFFICES ASSUME tab.candidate # NoCandidate
               PROVE  layout'[tab.candidate.of] = layout[tab.candidate.of]
    OBVIOUS
  <2>1. tab.candidate.of \in Scenarios /\ tab.candidate.seen \in 1..Len(status[tab.candidate.of])
    BY FitsMeans DEF CandidateFits
  <2>2. status[tab.candidate.of] \in Seq(ScenarioStatus)
    BY <2>1 DEF Backend, Statuses
  <2>3. tab.candidate.of \in Created
    BY <2>1, <2>2 DEF Created
  <2> QED
    BY <2>3 DEF Proceeds
<1> QED
  BY <1>9, <1>10, <1>11 DEF Compared

LEMMA ProceedsGrows ==
  ASSUME Backend, Proceeds, NEW t, Fits(t)
  PROVE  TabFits(t, status', command', mine')
<1>1. TabFits(t, status, command, mine) /\ mine \in SUBSET Scenarios
  BY DEF Fits, Backend
<1>2. Statuses(status) /\ CommandsOf(command) /\ Statuses(status') /\ CommandsOf(command')
  BY DEF Backend, Proceeds
<1>3. Grown2(status, status') /\ Grown2(command, command') /\ mine \subseteq mine'
  BY DEF Proceeds, RowsGoOn
<1> QED
  BY <1>1, <1>2, <1>3, TabFitsGrown

LEMMA TabWaits ==
  ASSUME CopiesFit, Proceeds, UNCHANGED tab, budget' \in Budget
  PROVE  StepFits
<1>1. TabFits(tab', status', command', mine')
  BY ProceedsGrows DEF CopiesFit
<1>2. Compared(tab)' = Compared(tab)
  BY ComparedStays DEF CopiesFit
<1>3. Pictures(tab', Compared(tab)')
  BY <1>2 DEF CopiesFit
<1>4. Knows(tab, tab')
  BY KnowsSame DEF CopiesFit
<1> QED
  BY <1>1, <1>3, <1>4 DEF StepFits, CopiesFit, Fits, Pictures, Proceeds

(* A request that is answered is the one that was sent.                    *)
LEMMA TabAnswered ==
  ASSUME CopiesFit, Proceeds, NEW c \in tab.calls, NEW answer \in Copies,
         tab' = Answered(c, answer), UNCHANGED budget,
         \A d : /\ d = [c EXCEPT !.answer = answer]
                /\ d \in Call /\ d.kind = c.kind /\ d.of = c.of /\ d.base = c.base
                /\ d.live = c.live /\ d.answer = answer
                => CallFits(d, status', command', mine')
  PROVE  StepFits
<1> DEFINE d == [c EXCEPT !.answer = answer]
           cs == (tab.calls \ {c}) \cup {d}
<1>1. tab \in Tab /\ c \in Call
  BY FitsMeans DEF CopiesFit, FitsCalls, CallFits
<1>2. d \in Call /\ d.kind = c.kind /\ d.of = c.of /\ d.base = c.base
      /\ d.live = c.live /\ d.answer = answer
  BY <1>1 DEF Call
<1>3. CallFits(d, status', command', mine')
  BY <1>2
<1>4. tab' = [tab EXCEPT !.calls = cs]
  BY DEF Answered
<1> HIDE DEF d
<1>5. TabFits(tab, status', command', mine')
  BY ProceedsGrows DEF CopiesFit
<1>6. tab' \in Tab
  <2>0. tab.calls \in SUBSET Call
    BY FitsMeans DEF CopiesFit, FitsCalls, CallFits
  <2>1. cs \in SUBSET Call
    BY <1>2, <2>0
  <2> HIDE DEF cs
  <2> QED
    BY <1>1, <1>4, <2>1, ZenonT(40) DEF Tab
<1>7. /\ tab'.scenarios = tab.scenarios /\ tab'.commands = tab.commands
      /\ tab'.candidate = tab.candidate /\ tab'.url = tab.url /\ tab'.linked = tab.linked
      /\ tab'.source = tab.source /\ tab'.calls = cs /\ tab'.open = tab.open
      /\ tab'.compared = tab.compared
  BY <1>1, <1>4 DEF Tab
<1>8. TabFits(tab', status', command', mine')
  BY <1>3, <1>5, <1>6, <1>7 DEF TabFits
<1>9. Compared(tab)' = Compared(tab)
  BY <1>7, ComparedStays DEF CopiesFit
<1>10. Pictures(tab', Compared(tab)')
  BY <1>2, <1>7, <1>9 DEF CopiesFit, Pictures
<1>11. Knows(tab, tab')
  BY <1>7, KnowsSame DEF CopiesFit
<1> QED
  BY <1>8, <1>10, <1>11 DEF StepFits, CopiesFit, Fits, Pictures, Proceeds

LEMMA RowsWait ==
  ASSUME Backend, UNCHANGED rows
  PROVE  CommandsOf(command') /\ Times' /\ RowsGoOn /\ UNCHANGED command
<1>1. UNCHANGED <<command, target, updated, clock>>
  BY DEF rows
<1>2. Grown2(command, command')
  BY <1>1, ContinuesItself DEF Backend, CommandsOf, Grown2
<1>3. Grown2(updated, updated')
  BY <1>1, ContinuesItself DEF Backend, Times, TimesOf, Grown2
<1>4. Times'
  <2>1. Times
    BY DEF Backend
  <2> QED
    BY <1>1, <2>1 DEF Times
<1>5. CommandsOf(command')
  BY <1>1 DEF Backend
<1> QED
  BY <1>1, <1>2, <1>3, <1>4, <1>5 DEF RowsGoOn

(* The tab takes a step while the backend waits.                           *)
LEMMA TabSteps ==
  ASSUME CopiesFit, UNCHANGED backend, budget' \in Budget, NEW u, tab' = u,
         Fits(u), Pictures(u, Compared(u)), Knows(tab, u) \/ u.commands = NoCopies
  PROVE  StepFits
<1>1. Backend' /\ RowsGoOn
  BY RowsWait DEF CopiesFit, backend, Backend
<1>2. Fits(tab)'
  BY DEF Fits, backend, rows
<1>3. Compared(tab)' = Compared(u)
  <2>1. Listed(tab.scenarios)' = Listed(u.scenarios)
    BY DEF Listed
  <2>2. In(tab.scenarios, "APPLIED")' = In(u.scenarios, "APPLIED")
    BY <2>1 DEF backend, In
  <2>3. LatestApplied(tab)' = LatestApplied(u)
    <3> DEFINE in == In(u.scenarios, "APPLIED")
               seen == {i \in DOMAIN applied : applied[i] \in in}
               pin == In(tab.scenarios, "APPLIED")
               pseen == {i \in DOMAIN applied : applied[i] \in pin}
    <3>1. LatestApplied(u) = IF seen = {} THEN 0 ELSE applied[Newest(seen)]
      BY DEF LatestApplied
    <3>2. LatestApplied(tab)' = IF pseen' = {} THEN 0 ELSE applied'[Newest(pseen')]
      BY DEF LatestApplied, Newest
    <3>3. pin' = in /\ applied' = applied
      BY <2>2 DEF backend
    <3> HIDE DEF in, pin
    <3>4. pseen' = seen
      BY <3>3
    <3> HIDE DEF seen, pseen
    <3> QED
      BY <3>1, <3>2, <3>3, <3>4
  <2> QED
    BY <2>3 DEF backend, Compared
<1>4. Pictures(tab, Compared(tab))'
  BY <1>3 DEF Pictures
<1> QED
  BY <1>1, <1>2, <1>4 DEF StepFits, CopiesFit

-----------------------------------------------------------------------------
(* Every step of the backend lets the histories go on.                     *)

LEMMA BackendWaits ==
  ASSUME Backend, UNCHANGED backend
  PROVE  Proceeds
<1>1. Backend' /\ RowsGoOn
  BY RowsWait DEF backend, Backend
<1>2. Grown2(status, status')
  BY ContinuesItself DEF Backend, Statuses, Grown2, backend
<1> QED
  BY <1>1, <1>2 DEF Proceeds, backend

LEMMA CreatedIs ==
  ASSUME Backend
  PROVE  NextId \in Nat \ {0} /\ Created = 1..(NextId - 1)
<1>1. Created \in SUBSET Scenarios /\ Scenarios = 1..MaxScenarios /\ MaxScenarios \in Nat
  BY PageAssumption DEF Created, Scenarios
<1>2. \E n \in Nat : Created = 1..n
  <2>1. CASE Created = {}
    BY <2>1
  <2>2. CASE Created # {}
    <3>1. Created \in SUBSET (0..MaxScenarios)
      BY <1>1
    <3>2. PICK n \in Created : \A s \in Created : s <= n
      BY <1>1, <2>2, <3>1, GreatestOf
    <3>3. n \in Nat /\ n \in Scenarios /\ status[n] # <<>>
      BY <1>1 DEF Created
    <3>4. ASSUME NEW s \in 1..n PROVE s \in Created
      <4>1. s \in Scenarios /\ s <= n
        BY <1>1, <3>3
      <4> QED
        BY <3>3, <4>1 DEF Backend, Created
    <3>5. ASSUME NEW s \in Created PROVE s \in 1..n
      BY <1>1, <3>2, <3>3
    <3> QED
      BY <3>3, <3>4, <3>5
  <2> QED
    BY <2>1, <2>2
<1>3. PICK n \in Nat : Created = 1..n
  BY <1>2
<1>4. Cardinality(1..n) = n
  <2>1. Cardinality(1..n) = IF 1 > n THEN 0 ELSE n - 1 + 1
    BY FS_Interval
  <2> QED
    BY <2>1
<1>5. NextId = n + 1
  BY <1>3, <1>4 DEF NextId
<1> QED
  BY <1>3, <1>5

LEMMA InsertProceeds ==
  ASSUME Backend, NEW n \in NextId..MaxScenarios, NEW l \in Layouts,
         Insert(NextId..n, l, TRUE) \/ Insert(NextId..n, l, FALSE)
  PROVE  Proceeds /\ \A s \in NextId..n : s \in Scenarios /\ status'[s] = <<"SIMULATED">>
<1> DEFINE new == NextId..n
           f == [s \in Scenarios |-> IF s \in new THEN <<"SIMULATED">> ELSE status[s]]
           g == [s \in Scenarios |-> IF s \in new THEN l ELSE layout[s]]
           own == <<"SIMULATED">>
<1>1. /\ status' = f /\ layout' = g /\ UNCHANGED <<rows, applied>>
      /\ mine' = mine \cup new \/ mine' = mine
  BY DEF Insert
<1>2. NextId \in Nat \ {0} /\ Created = 1..(NextId - 1) /\ n \in Nat
  BY CreatedIs, PageAssumption
<1>3. new \subseteq Scenarios /\ new \cap Created = {} /\ Scenarios \subseteq Nat
  BY <1>2, PageAssumption DEF Scenarios
<1>4. own \in Seq(ScenarioStatus) /\ Len(own) = 1 /\ own[1] = "SIMULATED" /\ own # <<>>
  BY DEF ScenarioStatus
<1>5. ASSUME NEW s \in new PROVE s \in Scenarios /\ f[s] = own /\ status[s] = <<>>
  BY <1>3 DEF Created
<1>6. ASSUME NEW s \in Scenarios, s \notin new PROVE f[s] = status[s]
  BY <1>6
<1>7. f \in [Scenarios -> Seq(ScenarioStatus)]
  BY <1>4 DEF Backend, Statuses
<1>14. /\ \A s \in Scenarios : status[s] \in Seq(ScenarioStatus) /\ Ends(status[s], FinalStatus)
       /\ status \in [Scenarios -> Seq(ScenarioStatus)]
  BY DEF Backend, Statuses
<1> HIDE DEF f, own
<1>8. ASSUME NEW s \in Scenarios
      PROVE  Ends(f[s], FinalStatus) /\ Continues(status[s], f[s])
  <2>1. CASE s \in new
    <3>1. Ends(own, FinalStatus)
      BY <1>4 DEF Ends
    <3>2. Continues(<<>>, own)
      BY <1>4 DEF Continues
    <3>3. f[s] = own /\ status[s] = <<>>
      BY <1>5, <2>1
    <3> QED
      BY <3>1, <3>2, <3>3
  <2>2. CASE s \notin new
    BY <1>6, <1>14, <2>2, ContinuesItself
  <2> QED
    BY <2>1, <2>2
<1>9. Statuses(status') /\ Grown2(status, status')
  BY <1>1, <1>7, <1>8 DEF Statuses, Grown2
<1>10. \A s \in Scenarios : Ended(status[s], "APPLIED") => Ended(status'[s], "APPLIED")
  BY <1>9, <1>14, EndedStays DEF Statuses, Grown2, FinalStatus
<1>11. g \in [Scenarios -> {0} \cup Layouts] /\ \A s \in Created : g[s] = layout[s]
  BY <1>3 DEF Backend, Created
<1>12. \A r, s \in Scenarios : r <= s /\ status'[s] # <<>> => status'[r] # <<>>
  <2> SUFFICES ASSUME NEW r \in Scenarios, NEW s \in Scenarios, r <= s, status'[s] # <<>>
               PROVE  status'[r] # <<>>
    OBVIOUS
  <2>1. CASE r \in new
    BY <1>1, <1>4, <1>5, <2>1
  <2>2. CASE r \notin new /\ s \notin new
    BY <1>1, <1>6, <2>2 DEF Backend
  <2>3. CASE r \notin new /\ s \in new
    <3>1. r \in 1..(NextId - 1)
      BY <1>2, <1>3, <2>3 DEF Scenarios
    <3> QED
      BY <1>1, <1>2, <1>6, <2>3, <3>1 DEF Created
  <2> QED
    BY <2>1, <2>2, <2>3
<1> HIDE DEF g
<1>13. Backend'
  <2>1. Statuses(status') /\ CommandsOf(command') /\ applied' \in Seq(Scenarios)
        /\ layout' \in [Scenarios -> {0} \cup Layouts] /\ mine' \subseteq Scenarios
    BY <1>1, <1>3, <1>9, <1>11, RowsWait DEF Backend
  <2>2. \A i \in DOMAIN applied' : Ended(status'[applied'[i]], "APPLIED")
    <3>1. \A i \in DOMAIN applied : applied[i] \in Scenarios /\ Ended(status[applied[i]], "APPLIED")
      BY DEF Backend
    <3> QED
      BY <1>1, <1>10, <3>1
  <2>3. Times'
    BY <1>1, RowsWait
  <2> QED
    BY <1>12, <2>1, <2>2, <2>3 DEF Backend
<1>15. RowsGoOn
  BY <1>1, RowsWait
<1>16. Proceeds
  BY <1>1, <1>9, <1>11, <1>13, <1>15 DEF Proceeds
<1> QED
  BY <1>1, <1>5, <1>16 DEF own

LEMMA BecomesProceeds ==
  ASSUME Backend, NEW s \in Scenarios, status[s] # <<>>, Last(status[s]) \notin FinalStatus,
         NEW st \in ScenarioStatus, status' = Grown(status, s, st),
         UNCHANGED <<layout, rows, mine>>,
         applied' = applied \/ (st = "APPLIED" /\ applied' = Append(applied, s))
  PROVE  Proceeds /\ Len(status'[s]) = Len(status[s]) + 1
<1> DEFINE h == status[s]
           g == Append(h, st)
<1>1. h \in Seq(ScenarioStatus) /\ Ends(h, FinalStatus) /\ h[Len(h)] \notin FinalStatus
  BY DEF Backend, Statuses, Last
<1>2. g \in Seq(ScenarioStatus) /\ Continues(h, g) /\ Ends(g, FinalStatus)
  BY <1>1, AppendContinues
<1>3. g # <<>> /\ Len(g) = Len(h) + 1 /\ g[Len(g)] = st
  BY <1>1
<1>4. status'[s] = g /\ \A r \in Scenarios \ {s} : status'[r] = status[r]
  BY DEF Grown, Backend, Statuses
<1>5. status' \in [Scenarios -> Seq(ScenarioStatus)]
  <2>1. status' = [status EXCEPT ![s] = g]
    BY DEF Grown
  <2> HIDE DEF g
  <2> QED
    BY <1>2, <2>1 DEF Backend, Statuses
<1>14. \A r \in Scenarios : status[r] \in Seq(ScenarioStatus) /\ Ends(status[r], FinalStatus)
  BY DEF Backend, Statuses
<1> HIDE DEF g, h
<1>6. ASSUME NEW r \in Scenarios
      PROVE  Ends(status'[r], FinalStatus) /\ Continues(status[r], status'[r])
  <2>1. CASE r = s
    BY <1>2, <1>4, <2>1 DEF h
  <2>2. CASE r # s
    BY <1>4, <1>14, <2>2, ContinuesItself
  <2> QED
    BY <2>1, <2>2
<1>7. Statuses(status') /\ Grown2(status, status')
  BY <1>5, <1>6 DEF Statuses, Grown2
<1>8. \A r \in Scenarios : Ended(status[r], "APPLIED") => Ended(status'[r], "APPLIED")
  BY <1>7, <1>14, EndedStays DEF Statuses, Grown2, FinalStatus
<1>9. \A i \in DOMAIN applied : applied[i] \in Scenarios /\ Ended(status'[applied[i]], "APPLIED")
  BY <1>8 DEF Backend
<1>10. ~Ended(status[s], "APPLIED")
  BY <1>1 DEF Ended, FinalStatus, h
<1>11. applied' \in Seq(Scenarios) /\ \A i \in DOMAIN applied' : Ended(status'[applied'[i]], "APPLIED")
  <2>1. CASE applied' = applied
    BY <1>9, <2>1 DEF Backend
  <2>2. CASE st = "APPLIED" /\ applied' = Append(applied, s)
    <3>1. applied \in Seq(Scenarios)
      BY DEF Backend
    <3>2. /\ applied' \in Seq(Scenarios) /\ DOMAIN applied' = 1..(Len(applied) + 1)
          /\ \A i \in 1..Len(applied) : applied'[i] = applied[i]
          /\ applied'[Len(applied) + 1] = s /\ DOMAIN applied = 1..Len(applied)
      BY <2>2, <3>1
    <3>3. Ended(status'[s], "APPLIED")
      BY <1>3, <1>4, <2>2 DEF Ended
    <3>4. Len(applied) \in Nat
      BY <3>1
    <3>5. ASSUME NEW i \in DOMAIN applied' PROVE Ended(status'[applied'[i]], "APPLIED")
      <4>1. i \in 1..Len(applied) \/ i = Len(applied) + 1
        <5>1. i \in 1..(Len(applied) + 1)
          BY <3>2
        <5> QED
          BY <3>4, <5>1
      <4> QED
        BY <1>9, <3>2, <3>3, <4>1
    <3> QED
      BY <3>2, <3>5
  <2> QED
    BY <2>1, <2>2
<1>12. \A q, r \in Scenarios : q <= r /\ status'[r] # <<>> => status'[q] # <<>>
  BY <1>3, <1>4 DEF Backend
<1>13. Backend'
  BY <1>7, <1>11, <1>12, RowsWait DEF Backend
<1>15. RowsGoOn
  BY RowsWait
<1>16. Proceeds
  BY <1>7, <1>10, <1>13, <1>15 DEF Proceeds
<1> QED
  BY <1>3, <1>4, <1>16 DEF h

LEMMA WritesProceeds ==
  ASSUME Backend, NEW o \in Ops, command[o] # <<>> => Last(command[o]) # "COMPLETED",
         NEW s \in Scenarios, command[o] # <<>> => s = target[o],
         NEW st \in CommandStatus, Writes(o, s, st)
  PROVE  Proceeds /\ Len(command'[o]) = Len(command[o]) + 1
<1> DEFINE h == command[o]
           g == Append(h, st)
           u == updated[o]
           now == clock + 1
           v == Append(u, now)
           final == {"COMPLETED"}
<1>1. h \in Seq(CommandStatus) /\ Ends(h, final) /\ (h # <<>> => h[Len(h)] \notin final)
  BY DEF Backend, CommandsOf, Last
<1>2. g \in Seq(CommandStatus) /\ Continues(h, g) /\ Ends(g, final)
  BY <1>1, AppendContinues
<1>3. Len(g) = Len(h) + 1
  BY <1>1
<1>4. /\ command' = [command EXCEPT ![o] = g] /\ updated' = [updated EXCEPT ![o] = v]
      /\ target' = [target EXCEPT ![o] = s] /\ clock' = now
      /\ UNCHANGED <<status, layout, applied, mine>>
  BY DEF Writes, Grown
<1>5. command \in [Ops -> Seq(CommandStatus)] /\ \A p \in Ops : Ends(command[p], final)
  BY DEF Backend, CommandsOf
<1>6. /\ u \in Seq(Nat) /\ Len(u) = Len(h) /\ clock \in Nat
      /\ \A i \in 1..Len(u) : u[i] <= clock /\ u[i] \in Nat
      /\ \A i, j \in 1..Len(u) : i < j => u[i] < u[j]
  BY DEF Backend, Times, TimesOf
<1>7. /\ updated \in [Ops -> Seq(Nat)] /\ target \in [Ops -> {0} \cup Scenarios]
      /\ \A p \in Ops : /\ Len(updated[p]) = Len(command[p])
                        /\ command[p] # <<>> => target[p] \in Scenarios
                        /\ \A i \in 1..Len(updated[p]) : updated[p][i] <= clock
                        /\ \A i, j \in 1..Len(updated[p]) : i < j => updated[p][i] < updated[p][j]
      /\ \A p, q \in Ops : p # q =>
             \A i \in 1..Len(updated[p]), j \in 1..Len(updated[q]) : updated[p][i] # updated[q][j]
  BY DEF Backend, Times, TimesOf
<1>8. /\ v \in Seq(Nat) /\ Len(v) = Len(g) /\ Continues(u, v) /\ now \in Nat /\ now > clock
      /\ Len(v) = Len(u) + 1 /\ Len(u) \in Nat
      /\ \A i \in 1..Len(v) : v[i] <= now /\ v[i] \in Nat /\ (v[i] = now \/ (i \in 1..Len(u) /\ v[i] = u[i]))
      /\ \A i, j \in 1..Len(v) : i < j => v[i] < v[j]
  <2>1. now \in Nat /\ now > clock
    BY <1>6
  <2> HIDE DEF now, u
  <2>2. /\ v \in Seq(Nat) /\ Len(v) = Len(u) + 1 /\ Len(u) \in Nat
        /\ v[Len(u) + 1] = now /\ \A i \in 1..Len(u) : v[i] = u[i]
    BY <1>6, <2>1
  <2> HIDE DEF v
  <2>3. Len(v) = Len(g)
    BY <1>3, <1>6, <2>2
  <2>4. Continues(u, v)
    BY <2>2 DEF Continues
  <2>5. \A i \in 1..Len(v) : v[i] <= now /\ v[i] \in Nat
                             /\ (v[i] = now \/ (i \in 1..Len(u) /\ v[i] = u[i]))
    <3> TAKE i \in 1..Len(v)
    <3>1. CASE i \in 1..Len(u)
      <4>1. v[i] = u[i] /\ u[i] <= clock /\ u[i] \in Nat
        BY <1>6, <2>2, <3>1
      <4> QED
        BY <1>6, <2>1, <3>1, <4>1
    <3>2. CASE i = Len(u) + 1
      BY <2>1, <2>2, <3>2
    <3> QED
      BY <2>2, <3>1, <3>2
  <2>6. ASSUME NEW i \in 1..Len(v), NEW j \in 1..Len(v), i < j PROVE v[i] < v[j]
    <3>1. i \in 1..Len(u) /\ v[i] = u[i] /\ u[i] <= clock /\ u[i] \in Nat
      BY <1>6, <2>2, <2>6
    <3>2. CASE j \in 1..Len(u)
      BY <1>6, <2>2, <2>6, <3>1, <3>2
    <3>3. CASE j = Len(u) + 1
      BY <1>6, <2>1, <2>2, <3>1, <3>3
    <3> QED
      BY <2>2, <3>2, <3>3
  <2> QED
    BY <2>1, <2>2, <2>3, <2>4, <2>5, <2>6
<1> HIDE DEF g, v, now
<1>9. /\ command'[o] = g /\ \A p \in Ops \ {o} : command'[p] = command[p]
      /\ command' \in [Ops -> Seq(CommandStatus)]
  BY <1>2, <1>4, <1>5
<1>10. /\ updated'[o] = v /\ \A p \in Ops \ {o} : updated'[p] = updated[p]
       /\ updated' \in [Ops -> Seq(Nat)]
  BY <1>4, <1>7, <1>8
<1>11. /\ target'[o] = s /\ \A p \in Ops \ {o} : target'[p] = target[p]
       /\ target' \in [Ops -> {0} \cup Scenarios]
  BY <1>4, <1>7
<1> HIDE DEF final, u, h
<1>12. ASSUME NEW p \in Ops
       PROVE  /\ Ends(command'[p], final) /\ Continues(command[p], command'[p])
              /\ Continues(updated[p], updated'[p])
  <2>1. CASE p = o
    BY <1>2, <1>8, <1>9, <1>10, <2>1 DEF h, u
  <2>2. CASE p # o
    BY <1>5, <1>7, <1>9, <1>10, <2>2, ContinuesItself
  <2> QED
    BY <2>1, <2>2
<1>13. CommandsOf(command') /\ Grown2(command, command') /\ Grown2(updated, updated')
  BY <1>9, <1>12 DEF CommandsOf, Grown2, final
<1>14. RowsGoOn
  BY <1>11, <1>13 DEF RowsGoOn
<1>15. ASSUME NEW p \in Ops
       PROVE  /\ Len(updated'[p]) = Len(command'[p])
              /\ command'[p] # <<>> => target'[p] \in Scenarios
              /\ \A i \in 1..Len(updated'[p]) : updated'[p][i] <= clock'
              /\ \A i, j \in 1..Len(updated'[p]) : i < j => updated'[p][i] < updated'[p][j]
  <2>1. CASE p = o
    <3>1. command'[p] = g /\ updated'[p] = v /\ target'[p] = s /\ clock' = now
      BY <1>4, <1>9, <1>10, <1>11, <2>1
    <3> QED
      BY <1>8, <3>1
  <2>2. CASE p # o
    <3>1. command'[p] = command[p] /\ updated'[p] = updated[p] /\ target'[p] = target[p]
          /\ clock' = now
      BY <1>4, <1>9, <1>10, <1>11, <2>2
    <3>2. /\ Len(updated[p]) = Len(command[p]) /\ (command[p] # <<>> => target[p] \in Scenarios)
          /\ \A i, j \in 1..Len(updated[p]) : i < j => updated[p][i] < updated[p][j]
      BY <1>7
    <3>3. ASSUME NEW i \in 1..Len(updated[p]) PROVE updated[p][i] <= now
      <4>1. updated[p] \in Seq(Nat)
        BY <1>7
      <4>2. updated[p][i] \in Nat /\ updated[p][i] <= clock
        BY <1>7, <4>1
      <4> QED
        BY <1>6, <1>8, <4>2
    <3> QED
      BY <3>1, <3>2, <3>3
  <2> QED
    BY <2>1, <2>2
<1>16. ASSUME NEW p \in Ops, p # o, NEW i \in 1..Len(v), NEW j \in 1..Len(updated[p])
       PROVE  v[i] # updated[p][j]
  <2>1. updated[p] \in Seq(Nat)
    BY <1>7
  <2>2. updated[p][j] \in Nat /\ updated[p][j] <= clock
    BY <1>7, <2>1
  <2>3. CASE v[i] = now
    BY <1>6, <1>8, <2>2, <2>3
  <2>4. CASE i \in 1..Len(u) /\ v[i] = u[i]
    BY <1>7, <1>16, <2>4 DEF u
  <2> QED
    BY <1>8, <2>3, <2>4
<1>17. ASSUME NEW p \in Ops, NEW q \in Ops, p # q,
              NEW i \in 1..Len(updated'[p]), NEW j \in 1..Len(updated'[q])
       PROVE  updated'[p][i] # updated'[q][j]
  <2>1. CASE p = o
    BY <1>10, <1>16, <1>17, <2>1
  <2>2. CASE q = o
    BY <1>10, <1>16, <1>17, <2>2
  <2>3. CASE p # o /\ q # o
    BY <1>7, <1>10, <1>17, <2>3
  <2> QED
    BY <2>1, <2>2, <2>3
<1>18. Times'
  BY <1>4, <1>8, <1>10, <1>11, <1>15, <1>17 DEF Times, TimesOf
<1>19. Backend'
  BY <1>4, <1>13, <1>18 DEF Backend
<1>20. Grown2(status, status')
  BY <1>4, ContinuesItself DEF Backend, Statuses, Grown2
<1>21. Proceeds
  BY <1>4, <1>14, <1>19, <1>20 DEF Proceeds
<1> QED
  BY <1>3, <1>9, <1>21 DEF h

(* A command that there is goes on.                                        *)
LEMMA CommandsProceeds ==
  ASSUME Backend, NEW o \in Ops, command[o] # <<>>, Last(command[o]) # "COMPLETED",
         NEW st \in CommandStatus, Commands(o, st)
  PROVE  Proceeds /\ Len(command'[o]) = Len(command[o]) + 1
<1>1. target[o] \in Scenarios
  BY DEF Backend, Times, TimesOf
<1> QED
  BY <1>1, WritesProceeds DEF Commands

LEMMA NextOpIs ==
  ASSUME NEW s, Applicable(s)
  PROVE  NextOp \in Ops /\ command[NextOp] = <<>>
<1>1. Unused # {}
  BY DEF Applicable
<1>2. NextOp \in Unused
  BY <1>1 DEF NextOp
<1> QED
  BY <1>2 DEF Unused

-----------------------------------------------------------------------------
(* The steps of requests that are served.                                  *)

LEMMA AnsweredFits ==
  ASSUME CopiesFit, Proceeds, NEW c \in tab.calls, NEW answer \in Copies,
         tab' = Answered(c, answer), UNCHANGED budget,
         c.kind \in CommandKinds => \A s \in Scenarios : answer[s] <= Len(command'[s]),
         c.kind \notin CommandKinds => \A s \in Scenarios : answer[s] <= Len(status'[s])
  PROVE  StepFits
<1>1. CallFits(c, status', command', mine')
  BY ProceedsGrows DEF CopiesFit, TabFits
<1>2. ASSUME NEW d, d \in Call, d.kind = c.kind, d.of = c.of, d.base = c.base, d.answer = answer
      PROVE  CallFits(d, status', command', mine')
  BY <1>1, <1>2 DEF CallFits
<1> QED
  BY <1>2, TabAnswered

LEMMA RowFits ==
  ASSUME NEW s \in Scenarios, NEW n \in Nat, NEW histories,
         \A r \in Scenarios : Len(histories[r]) \in Nat, n <= Len(histories[s])
  PROVE  Row(s, n) \in Copies /\ ListFits(Row(s, n), histories)
<1>1. NoCopies \in [Scenarios -> Nat] /\ \A r \in Scenarios : NoCopies[r] = 0
  BY DEF NoCopies
<1> DEFINE f == [NoCopies EXCEPT ![s] = n]
<1>2. f \in [Scenarios -> Nat] /\ f[s] = n /\ \A r \in Scenarios : r # s => f[r] = 0
  BY <1>1
<1>3. Row(s, n) = f
  BY DEF Row
<1> HIDE DEF f
<1>4. ASSUME NEW r \in Scenarios PROVE f[r] <= Len(histories[r])
  BY <1>2
<1> QED
  BY <1>2, <1>3, <1>4 DEF ListFits, Copies

LEMMA LengthsAreNat ==
  ASSUME Backend, NEW s \in Scenarios
  PROVE  Len(status[s]) \in Nat /\ Len(command[s]) \in Nat
  BY DEF Backend, Statuses, CommandsOf

LEMMA RefusedFits ==
  ASSUME CopiesFit, UNCHANGED <<backend, budget>>, NEW c \in tab.calls,
         c.kind \in Actions \cup {"optimize"}, tab' = Answered(c, NoCopies)
  PROVE  StepFits
<1>1. Proceeds /\ UNCHANGED <<status, command>>
  BY BackendWaits DEF CopiesFit, backend, rows
<1>2. /\ NoCopies \in Copies
      /\ \A s \in Scenarios : NoCopies[s] <= Len(status[s]) /\ NoCopies[s] <= Len(command[s])
  BY NoCopiesFit DEF CopiesFit, ListFits, Copies
<1> QED
  BY <1>1, <1>2, AnsweredFits

LEMMA ServeActionFits ==
  ASSUME CopiesFit, NEW c \in tab.calls, ServeAction(c)
  PROVE  StepFits
<1>1. /\ c.kind \in Actions /\ UNCHANGED budget /\ CallFits(c, status, command, mine)
      /\ Backend
  BY FitsMeans DEF ServeAction, CopiesFit, FitsCalls
<1>2. CASE ~Allowed(c)
  BY <1>1, <1>2, RefusedFits DEF ServeAction
<1>3. CASE Allowed(c) /\ c.kind = "run" /\ Insert({NextId}, c.base, TRUE)
           /\ tab' = Answered(c, Row(NextId, 1))
  <2>1. NextId \in Nat \ {0} /\ NextId \in Scenarios /\ MaxScenarios \in Nat
    BY <1>1, <1>3, CreatedIs, PageAssumption DEF Allowed, Reviews
  <2>2. NextId \in NextId..MaxScenarios /\ {NextId} = NextId..NextId
    BY <2>1 DEF Scenarios
  <2>3. c.base \in Layouts
    BY <1>1, <1>3 DEF CallFits
  <2>4. Proceeds /\ status'[NextId] = <<"SIMULATED">>
    BY <1>1, <1>3, <2>2, <2>3, InsertProceeds
  <2>5. \A s \in Scenarios : Len(status'[s]) \in Nat
    BY <2>4 DEF Proceeds, Backend, Statuses
  <2>6. Row(NextId, 1) \in Copies /\ ListFits(Row(NextId, 1), status')
    BY <2>1, <2>4, <2>5, RowFits
  <2> QED
    BY <1>1, <1>3, <2>4, <2>6, AnsweredFits DEF ListFits, CommandKinds
<1>4. CASE Allowed(c) /\ c.kind \in Reviews /\ Becomes(c.of, To(c.kind))
           /\ tab' = Answered(c, Row(c.of, Len(status[c.of]) + 1))
  <2>1. c.of \in Scenarios /\ Is(c.of, From(c.kind))
    BY <1>1, <1>4 DEF Allowed, CallFits, Reviews
  <2>2. status[c.of] # <<>> /\ Last(status[c.of]) \notin FinalStatus
    BY <2>1 DEF Is, Created, From, FinalStatus
  <2>3. To(c.kind) \in ScenarioStatus
    BY <1>4 DEF To, Reviews, ScenarioStatus
  <2>4. Proceeds /\ Len(status'[c.of]) = Len(status[c.of]) + 1
    BY <1>1, <1>4, <2>1, <2>2, <2>3, BecomesProceeds DEF Becomes
  <2>5. \A s \in Scenarios : Len(status'[s]) \in Nat
    BY <2>4 DEF Proceeds, Backend, Statuses
  <2> DEFINE n == Len(status[c.of]) + 1
  <2>6. n \in Nat /\ n <= Len(status'[c.of])
    BY <1>1, <2>1, <2>4, LengthsAreNat
  <2> HIDE DEF n
  <2>7. Row(c.of, n) \in Copies /\ ListFits(Row(c.of, n), status')
    BY <2>1, <2>5, <2>6, RowFits
  <2>8. c.kind \notin CommandKinds
    BY <1>4 DEF CommandKinds, Reviews
  <2>9. tab' = Answered(c, Row(c.of, n))
    BY <1>4 DEF n
  <2> QED
    BY <1>1, <2>4, <2>7, <2>8, <2>9, AnsweredFits DEF ListFits
<1>5. ASSUME NEW o \in Ops, NEW n, n = Len(command[o]) + 1, c.kind \in {"apply", "retry"},
             Proceeds, Len(command'[o]) = n, tab' = Answered(c, Row(o, n))
      PROVE  StepFits
  <2>1. \A s \in Scenarios : Len(command'[s]) \in Nat
    BY <1>5 DEF Proceeds, Backend, CommandsOf
  <2>2. n \in Nat /\ n <= Len(command'[o])
    BY <1>1, <1>5, LengthsAreNat
  <2>3. Row(o, n) \in Copies /\ ListFits(Row(o, n), command')
    BY <2>1, <2>2, RowFits
  <2>4. c.kind \in CommandKinds
    BY <1>5 DEF CommandKinds
  <2> QED
    BY <1>1, <1>5, <2>3, <2>4, AnsweredFits DEF ListFits
<1>6. CASE Allowed(c) /\ c.kind = "apply" /\ Writes(NextOp, c.of, "PENDING")
           /\ tab' = Answered(c, Row(NextOp, 1))
  <2>1. c.of \in Scenarios /\ Applicable(c.of) /\ "PENDING" \in CommandStatus
    BY <1>1, <1>6 DEF CallFits, Allowed, Reviews, CommandStatus
  <2> DEFINE o == NextOp
  <2>2. o \in Ops /\ command[o] = <<>> /\ Len(command[o]) + 1 = 1
    BY <2>1, NextOpIs
  <2> HIDE DEF o
  <2>3. Proceeds /\ Len(command'[o]) = 1
    BY <1>1, <1>6, <2>1, <2>2, WritesProceeds DEF o
  <2> QED
    BY <1>5, <1>6, <2>2, <2>3 DEF o
<1>7. CASE Allowed(c) /\ c.kind = "retry" /\ Commands(c.of, "PENDING")
           /\ tab' = Answered(c, Row(c.of, Len(command[c.of]) + 1))
  <2>1. c.of \in Ops /\ Retryable(c.of) /\ "PENDING" \in CommandStatus
    BY <1>1, <1>7 DEF CallFits, Allowed, Reviews, CommandStatus
  <2>2. command[c.of] # <<>> /\ Last(command[c.of]) # "COMPLETED"
    BY <2>1 DEF Retryable, MayRetry
  <2>3. Proceeds /\ Len(command'[c.of]) = Len(command[c.of]) + 1
    BY <1>1, <1>7, <2>1, <2>2, CommandsProceeds
  <2> QED
    BY <1>5, <1>7, <2>1, <2>3
<1> QED
  BY <1>2, <1>3, <1>4, <1>6, <1>7 DEF ServeAction

LEMMA ServeOptimizationFits ==
  ASSUME CopiesFit, NEW c \in tab.calls, ServeOptimization(c)
  PROVE  StepFits
<1>1. /\ c.kind = "optimize" /\ UNCHANGED budget /\ CallFits(c, status, command, mine)
      /\ Backend
  BY FitsMeans DEF ServeOptimization, CopiesFit, FitsCalls
<1>2. CASE tab' = Answered(c, NoCopies) /\ UNCHANGED backend
  BY <1>1, <1>2, RefusedFits
<1>3. CASE \E n \in NextId..MaxScenarios, answer \in BOOLEAN :
              /\ Insert(NextId..n, c.base, TRUE)
              /\ tab' = Answered(c, IF answer THEN Rows(NextId..n) ELSE NoCopies)
  <2>1. PICK n \in NextId..MaxScenarios :
              /\ Insert(NextId..n, c.base, TRUE)
              /\ tab' = Answered(c, Rows(NextId..n)) \/ tab' = Answered(c, NoCopies)
    BY <1>3
  <2>2. c.base \in Layouts
    BY <1>1 DEF CallFits
  <2>3. /\ Proceeds
        /\ \A s \in NextId..n : s \in Scenarios /\ status'[s] = <<"SIMULATED">>
    BY <1>1, <2>1, <2>2, InsertProceeds
  <2>4. \A s \in Scenarios : Len(status'[s]) \in Nat
    BY <2>3 DEF Proceeds, Backend, Statuses
  <2> DEFINE new == Rows(NextId..n)
  <2>5. new \in Copies /\ \A s \in Scenarios : new[s] <= Len(status'[s])
    <3>1. new = [s \in Scenarios |-> IF s \in NextId..n THEN 1 ELSE 0]
      BY DEF Rows
    <3> HIDE DEF new
    <3>2. new \in Copies
      BY <3>1 DEF Copies
    <3>3. ASSUME NEW s \in Scenarios PROVE new[s] <= Len(status'[s])
      <4>1. CASE s \in NextId..n
        <5>1. Len(status'[s]) = 1 /\ new[s] = 1
          BY <2>3, <3>1, <4>1
        <5> QED
          BY <5>1
      <4>2. CASE s \notin NextId..n
        <5>1. new[s] = 0
          BY <3>1, <4>2
        <5> QED
          BY <2>4, <5>1
      <4> QED
        BY <4>1, <4>2
    <3> QED
      BY <3>2, <3>3
  <2>6. NoCopies \in Copies /\ \A s \in Scenarios : NoCopies[s] <= Len(status'[s])
    BY <2>4 DEF NoCopies, Copies
  <2>7. c.kind \notin CommandKinds
    BY <1>1 DEF CommandKinds
  <2> HIDE DEF new
  <2>8. tab' = Answered(c, new) \/ tab' = Answered(c, NoCopies)
    BY <2>1 DEF new
  <2> QED
    BY <1>1, <2>3, <2>5, <2>6, <2>7, <2>8, AnsweredFits
<1> QED
  BY <1>2, <1>3 DEF ServeOptimization

LEMMA ServeReadFits ==
  ASSUME CopiesFit, NEW c \in tab.calls, ServeRead(c)
  PROVE  StepFits
<1>1. /\ c.kind \in Lists \cup Reads /\ UNCHANGED <<backend, budget>>
      /\ CallFits(c, status, command, mine) /\ Backend
  BY FitsMeans DEF ServeRead, CopiesFit, FitsCalls
<1>2. Proceeds /\ UNCHANGED <<status, command>>
  BY <1>1, BackendWaits DEF backend, rows
<1>3. ASSUME NEW histories, \A s \in Scenarios : Len(histories[s]) \in Nat
      PROVE  /\ Lengths(histories) \in Copies
             /\ \A s \in Scenarios : Lengths(histories)[s] = Len(histories[s])
                                     /\ Lengths(histories)[s] <= Len(histories[s])
  BY <1>3 DEF Lengths, Copies
<1>4. \A s \in Scenarios : Len(status[s]) \in Nat /\ Len(command[s]) \in Nat
  BY <1>1, LengthsAreNat
<1>5. CASE c.kind \in {"commands", "again"}
  <2>1. c.kind \in CommandKinds /\ tab' = Answered(c, Lengths(command))
    BY <1>5 DEF ServeRead, CommandKinds
  <2> QED
    BY <1>1, <1>2, <1>3, <1>4, <2>1, AnsweredFits
<1>6. CASE c.kind \notin {"commands", "again"}
  <2>1. c.kind \notin CommandKinds /\ tab' = Answered(c, Lengths(status))
    BY <1>1, <1>6 DEF ServeRead, CommandKinds, Lists, Reads
  <2> QED
    BY <1>1, <1>2, <1>3, <1>4, <2>1, AnsweredFits
<1> QED
  BY <1>5, <1>6

LEMMA BridgeFits ==
  ASSUME CopiesFit, NEW o \in Ops, Bridge(o)
  PROVE  StepFits
<1>1. Backend /\ UNCHANGED tab /\ budget' \in Budget
  BY DEF Bridge, CopiesFit
<1>2. ASSUME NEW st \in CommandStatus, Commands(o, st),
             NEW states, IsAt(o, states), "COMPLETED" \notin states
      PROVE  StepFits
  <2>1. command[o] # <<>> /\ Last(command[o]) # "COMPLETED"
    BY <1>2 DEF IsAt
  <2>2. Proceeds
    BY <1>1, <1>2, <2>1, CommandsProceeds
  <2> QED
    BY <1>1, <2>2, TabWaits
<1>3. CASE /\ IsAt(o, {"COMPLETED"}) /\ Is(target[o], "APPROVED")
           /\ status' = Grown(status, target[o], "APPLIED")
           /\ applied' = Append(applied, target[o]) /\ UNCHANGED <<layout, rows, mine>>
  <2> DEFINE s == target[o]
  <2>1. s \in Scenarios /\ status[s] # <<>> /\ Last(status[s]) \notin FinalStatus
    BY <1>3 DEF Is, Created, FinalStatus
  <2> HIDE DEF s
  <2>2. Proceeds
    BY <1>1, <1>3, <2>1, BecomesProceeds DEF ScenarioStatus, s
  <2> QED
    BY <1>1, <2>2, TabWaits
<1>4. \/ IsAt(o, {"PENDING"}) /\ Commands(o, "ACKNOWLEDGED")
      \/ IsAt(o, {"PENDING", "ACKNOWLEDGED"}) /\ Commands(o, "TIMED_OUT")
      \/ IsAt(o, {"ACKNOWLEDGED"}) /\ Commands(o, "FAILED")
      \/ IsAt(o, {"ACKNOWLEDGED"}) /\ Commands(o, "COMPLETED")
      \/ /\ IsAt(o, {"COMPLETED"}) /\ Is(target[o], "APPROVED")
         /\ status' = Grown(status, target[o], "APPLIED")
         /\ applied' = Append(applied, target[o]) /\ UNCHANGED <<layout, rows, mine>>
  BY DEF Bridge
<1>5. {"ACKNOWLEDGED", "TIMED_OUT", "FAILED", "COMPLETED"} \subseteq CommandStatus
  BY DEF CommandStatus
<1> QED
  BY <1>2, <1>3, <1>4, <1>5

LEMMA SpendsBudget ==
  ASSUME CopiesFit, NEW what \in {"clicks", "choices", "outside", "failures"}, Spend(what)
  PROVE  budget' \in Budget
<1>1. budget \in Budget /\ budget[what] > 0 /\ budget' = [budget EXCEPT ![what] = @ - 1]
  BY DEF CopiesFit, Spend
<1>2. CASE what = "clicks"
  BY <1>1, <1>2 DEF Budget
<1>3. CASE what = "choices"
  BY <1>1, <1>3 DEF Budget
<1>4. CASE what = "outside"
  BY <1>1, <1>4 DEF Budget
<1>5. CASE what = "failures"
  BY <1>1, <1>5 DEF Budget
<1> QED
  BY <1>2, <1>3, <1>4, <1>5

LEMMA OthersFits ==
  ASSUME CopiesFit, Others
  PROVE  StepFits
<1>1. Backend /\ UNCHANGED tab /\ budget' \in Budget
  BY SpendsBudget DEF Others, CopiesFit
<1>2. ASSUME NextId \in Scenarios, NEW l \in Layouts, Insert({NextId}, l, FALSE)
      PROVE  Proceeds
  <2>1. NextId \in Nat \ {0} /\ MaxScenarios \in Nat
    BY <1>1, CreatedIs, PageAssumption
  <2>2. NextId \in NextId..MaxScenarios /\ {NextId} = NextId..NextId
    BY <1>2, <2>1 DEF Scenarios
  <2> QED
    BY <1>1, <1>2, <2>2, InsertProceeds
<1>3. ASSUME NEW s \in Created, NEW review \in Reviews, Is(s, From(review)), Becomes(s, To(review))
      PROVE  Proceeds
  <2>1. s \in Scenarios /\ status[s] # <<>> /\ Last(status[s]) \notin FinalStatus
    BY <1>3 DEF Is, Created, From, FinalStatus
  <2>2. To(review) \in ScenarioStatus
    BY DEF To, Reviews, ScenarioStatus
  <2> QED
    BY <1>1, <1>3, <2>1, <2>2, BecomesProceeds DEF Becomes
<1>4. ASSUME NEW s \in Created, Applicable(s), Writes(NextOp, s, "PENDING")
      PROVE  Proceeds
  <2>1. s \in Scenarios /\ "PENDING" \in CommandStatus
    BY DEF Created, CommandStatus
  <2>2. NextOp \in Ops /\ command[NextOp] = <<>>
    BY <1>4, NextOpIs
  <2> QED
    BY <1>1, <1>4, <2>1, <2>2, WritesProceeds
<1>5. ASSUME NEW o \in Ops, Retryable(o), Commands(o, "PENDING")
      PROVE  Proceeds
  <2>1. command[o] # <<>> /\ Last(command[o]) # "COMPLETED" /\ "PENDING" \in CommandStatus
    BY <1>5 DEF Retryable, MayRetry, CommandStatus
  <2> QED
    BY <1>1, <1>5, <2>1, CommandsProceeds
<1>6. Proceeds
  BY <1>2, <1>3, <1>4, <1>5 DEF Others
<1> QED
  BY <1>1, <1>6, TabWaits

-----------------------------------------------------------------------------
(* The steps of the tab.                                                   *)

LEMMA CalmStep ==
  ASSUME CopiesFit, UNCHANGED backend, budget' \in Budget, NEW u, tab' = u,
         Onward(tab, u), u.candidate = tab.candidate, u.scenarios = tab.scenarios
  PROVE  StepFits
<1>1. Compared(u) = Compared(tab)
  BY ComparedSame
<1>2. Pictures(u, Compared(u))
  BY <1>1, PicturesOnward DEF CopiesFit, Onward
<1> QED
  BY <1>2, TabSteps DEF Onward

LEMMA RenderedStep ==
  ASSUME CopiesFit, UNCHANGED backend, budget' \in Budget, NEW t, tab' = Rendered(t),
         Onward(tab, t)
  PROVE  StepFits
<1> DEFINE u == Rendered(t)
<1>1. Fits(u) /\ Knows(tab, u) /\ Pictures(u, Compared(u))
  BY RenderedOnward DEF CopiesFit
<1> HIDE DEF u
<1> QED
  BY <1>1, TabSteps DEF u

LEMMA PlainStep ==
  ASSUME CopiesFit, UNCHANGED backend, budget' \in Budget, Plain(tab, tab')
  PROVE  StepFits
<1> DEFINE u == tab'
<1>1. Onward(tab, u) /\ u.candidate = tab.candidate /\ u.scenarios = tab.scenarios
  BY PlainOnward DEF CopiesFit, Plain
<1> HIDE DEF u
<1> QED
  BY <1>1, CalmStep DEF u

LEMMA SendStep ==
  ASSUME CopiesFit, UNCHANGED backend, budget' \in Budget, NEW t, Plain(tab, t),
         NEW kind \in Kinds \ {"compare"}, NEW of,
         CallFits(Ask(kind, of), status, command, mine), tab' = Send(t, kind, of)
  PROVE  StepFits
<1> DEFINE u == Send(t, kind, of)
<1>1. Onward(tab, t) /\ Fits(t) /\ t.candidate = tab.candidate /\ t.scenarios = tab.scenarios
  BY PlainOnward DEF CopiesFit, Plain, Onward
<1>2. Onward(t, u) /\ u.candidate = t.candidate /\ u.scenarios = t.scenarios
  BY <1>1, SendOnward
<1> HIDE DEF u
<1>3. Onward(tab, u)
  BY <1>1, <1>2, OnwardTrans DEF CopiesFit
<1> QED
  BY <1>1, <1>2, <1>3, CalmStep DEF u

LEMMA PlainSelf ==
  ASSUME CopiesFit
  PROVE  Plain(tab, tab) /\ tab \in Tab
  BY FitsMeans DEF CopiesFit, Plain

LEMMA DeliverFits ==
  ASSUME CopiesFit, NEW c \in tab.calls, Deliver(c)
  PROVE  StepFits
<1> DEFINE d == Done(c)
           t == Handle(d, c)
<1>1. /\ UNCHANGED backend /\ budget' \in Budget /\ tab' = Rendered(t) /\ c.answer # <<>>
      /\ CallFits(c, status, command, mine) /\ Onward(tab, d) /\ Fits(d) /\ Backend /\ Fits(tab)
      /\ Pictures(tab, Compared(tab))
  BY FitsMeans, DoneOnward DEF Deliver, CopiesFit, FitsCalls, Onward
<1> HIDE DEF d
<1>2. CASE c.kind # "compare"
  <2>1. Onward(d, t)
    BY <1>1, <1>2, HandleOnward
  <2> HIDE DEF t
  <2>2. Onward(tab, t)
    BY <1>1, <2>1, OnwardTrans
  <2> QED
    BY <1>1, <2>2, RenderedStep
<1>3. CASE c.kind = "compare"
  <2> DEFINE u == Rendered(t)
  <2>1. Fits(u) /\ Knows(tab, u) /\ Pictures(u, Compared(u))
    BY <1>1, <1>3, CompareLoadedShows DEF d
  <2> HIDE DEF t
  <2>2. tab' = u
    BY <1>1
  <2> HIDE DEF u
  <2> QED
    BY <1>1, <2>1, <2>2, TabSteps
<1> QED
  BY <1>2, <1>3

LEMMA CallFailsFits ==
  ASSUME CopiesFit, NEW c \in tab.calls, CallFails(c)
  PROVE  StepFits
<1> DEFINE d == Done(c)
           t == HandleFailure(d, c)
<1>1. /\ UNCHANGED backend /\ budget' \in Budget /\ tab' = Rendered(t)
      /\ c \in Call /\ Onward(tab, d) /\ Fits(d) /\ Backend /\ Fits(tab)
  BY FitsMeans, DoneOnward, SpendsBudget DEF CallFails, CopiesFit, FitsCalls, CallFits, Onward
<1> HIDE DEF d
<1>2. Onward(d, t)
  BY <1>1, HandleFailureOnward
<1> HIDE DEF t
<1>3. Onward(tab, t)
  BY <1>1, <1>2, OnwardTrans
<1> QED
  BY <1>1, <1>3, RenderedStep

LEMMA CommandUpdatedFits ==
  ASSUME CopiesFit, NEW s \in Ops, NEW n \in 1..Len(command[s]), CommandUpdated(s, n)
  PROVE  StepFits
<1> DEFINE t == SetCommands(tab, Row(s, n))
<1>1. /\ UNCHANGED backend /\ budget' \in Budget /\ tab' = Rendered(t) /\ Backend /\ Fits(tab)
  BY DEF CommandUpdated, CopiesFit
<1>2. n \in Nat /\ n <= Len(command[s]) /\ \A r \in Scenarios : Len(command[r]) \in Nat
  BY <1>1, LengthsAreNat
<1>3. ListFits(Row(s, n), command)
  BY <1>2, RowFits
<1>4. Onward(tab, t)
  BY <1>1, <1>3, SetCommandsOnward
<1> HIDE DEF t
<1> QED
  BY <1>1, <1>4, RenderedStep

LEMMA FactoryResetFits ==
  ASSUME CopiesFit, FactoryReset
  PROVE  StepFits
<1> DEFINE cs == Abandoned(tab.calls, {"strip"})
           d == [tab EXCEPT !.calls = cs]
           u == Send(d, "strip", 0)
<1>1. UNCHANGED backend /\ budget' \in Budget /\ tab' = u /\ Fits(tab)
  BY SpendsBudget DEF FactoryReset, CopiesFit
<1>2. FitsCalls(cs) /\ \A c \in cs : c.live => c \in tab.calls
  BY <1>1, FitsMeans, AbandonedFits
<1> HIDE DEF cs
<1>3. Onward(tab, d)
  BY <1>1, <1>2, CallsOnward
<1>4. d.candidate = tab.candidate /\ d.scenarios = tab.scenarios
  BY PlainSelf DEF Tab
<1> HIDE DEF d
<1>5. Onward(d, u) /\ u.candidate = d.candidate /\ u.scenarios = d.scenarios
  BY <1>3, ListAskFits, SendOnward DEF Onward
<1> HIDE DEF u
<1>6. Onward(tab, u)
  BY <1>1, <1>3, <1>5, OnwardTrans
<1> QED
  BY <1>1, <1>4, <1>5, <1>6, CalmStep

LEMMA RefreshFits ==
  ASSUME CopiesFit, Refresh
  PROVE  StepFits
<1> DEFINE u == LoadPage(tab)
<1>1. UNCHANGED backend /\ budget' \in Budget /\ tab' = u /\ Fits(tab)
  BY SpendsBudget DEF Refresh, Click, Undisturbed, CopiesFit
<1>2. Onward(tab, u) /\ u.candidate = tab.candidate /\ u.scenarios = tab.scenarios
  BY <1>1, LoadPageOnward
<1> HIDE DEF u
<1> QED
  BY <1>1, <1>2, CalmStep

(* The tab goes to another page, or is loaded anew.                        *)
LEMMA MountedStep ==
  ASSUME CopiesFit, UNCHANGED backend, budget' \in Budget,
         NEW at \in {"scenarios", "commands"}, NEW url \in Url,
         tab' = Rendered(Mounted(tab, at, url))
  PROVE  StepFits
<1> DEFINE t == Mounted(tab, at, url)
           u == Rendered(t)
<1>1. Fits(t) /\ t.commands = tab.commands /\ \A pair : Pictures(t, pair)
  BY MountedFits DEF CopiesFit
<1> HIDE DEF t
<1>2. Fits(u) /\ u.commands = t.commands /\ Pictures(u, Compared(u))
  BY <1>1, RenderedShows DEF CopiesFit
<1>3. tab' = u
  BY DEF t
<1> HIDE DEF u
<1>4. Knows(tab, u)
  BY <1>1, <1>2, KnowsSame DEF CopiesFit
<1> QED
  BY <1>2, <1>3, <1>4, TabSteps

LEMMA NavigateFits ==
  ASSUME CopiesFit, NEW at \in {"scenarios", "commands"}, Navigate(at)
  PROVE  StepFits
<1>1. UNCHANGED backend /\ budget' \in Budget /\ tab' = Rendered(Mounted(tab, at, NoQuery))
  BY SpendsBudget DEF Navigate, Click, Undisturbed
<1>2. NoQuery \in Url
  BY DEF NoQuery, Url
<1> QED
  BY <1>1, <1>2, MountedStep

LEMMA FollowStripFits ==
  ASSUME CopiesFit, FollowStrip
  PROVE  StepFits
<1> DEFINE q == NextAction(tab)
           url == [NoQuery EXCEPT !.queue = q]
           u == [tab EXCEPT !.url = url]
<1>1. /\ UNCHANGED backend /\ budget' \in Budget
      /\ tab' = IF OnPage("scenarios") THEN u ELSE Rendered(Mounted(tab, "scenarios", url))
      /\ Fits(tab)
  BY SpendsBudget DEF FollowStrip, Choice, Undisturbed, CopiesFit
<1>2. q \in {"", "mine", "awaiting", "approved"}
  BY DEF FollowStrip, NextAction, DesignerAction, MonitorAction
<1> HIDE DEF q
<1>3. url \in Url /\ url.candidate = 0
  BY <1>2 DEF NoQuery, Url, QueueKeys
<1> HIDE DEF url
<1>4. CASE OnPage("scenarios")
  <2>1. tab \in Tab
    BY PlainSelf
  <2>2. u \in Tab
    BY <1>3, <2>1, ZenonT(40) DEF Tab
  <2>3. /\ u.url = url /\ u.open = tab.open /\ u.compared = tab.compared
        /\ u.scenarios = tab.scenarios /\ u.commands = tab.commands /\ u.candidate = tab.candidate
        /\ u.linked = tab.linked /\ u.source = tab.source /\ u.calls = tab.calls
    BY <2>1 DEF Tab
  <2> HIDE DEF u
  <2>4. Fits(u)
    BY <1>1, <1>3, <2>2, <2>3 DEF Fits, TabFits
  <2>5. Compared(u) = Compared(tab)
    BY <2>3, ComparedSame
  <2>6. Pictures(u, Compared(u)) /\ Knows(tab, u)
    BY <1>1, <2>3, <2>5, KnowsSame DEF Pictures, CopiesFit
  <2> QED
    BY <1>1, <1>4, <2>4, <2>6, TabSteps
<1>5. CASE ~OnPage("scenarios")
  BY <1>1, <1>3, <1>5, MountedStep
<1> QED
  BY <1>4, <1>5

LEMMA OpenRecommendedFits ==
  ASSUME CopiesFit, OpenRecommended
  PROVE  StepFits
<1> DEFINE n == tab.recommended
           role == tab.role
           url == [NoQuery EXCEPT !.candidate = n]
           u == Opened("scenarios", role, url)
<1>1. UNCHANGED backend /\ budget' \in Budget /\ tab' = u
  BY SpendsBudget DEF OpenRecommended, Choice, Undisturbed
<1>2. n \in {0} \cup Scenarios /\ role \in {"DESIGNER", "MONITOR"}
  BY PlainSelf DEF Tab
<1> HIDE DEF n, role
<1>3. url \in Url
  BY <1>2 DEF NoQuery, Url
<1> HIDE DEF url
<1>4. Fits(u) /\ u.commands = NoCopies /\ Pictures(u, Compared(u))
  BY <1>2, <1>3, OpenedFits DEF CopiesFit
<1> HIDE DEF u
<1> QED
  BY <1>1, <1>4, TabSteps

LEMMA SetQueueFits ==
  ASSUME CopiesFit, NEW queue \in QueueKeys, SetQueue(queue)
  PROVE  StepFits
<1>1. UNCHANGED backend /\ budget' \in Budget /\ tab' = [tab EXCEPT !.queue = queue]
  BY SpendsBudget DEF SetQueue, Choice, Undisturbed
<1>2. tab \in Tab
  BY PlainSelf
<1>3. Plain(tab, tab')
  BY <1>1, <1>2 DEF Plain, Tab
<1> QED
  BY <1>1, <1>3, PlainStep

LEMMA SelectFits ==
  ASSUME CopiesFit, NEW s \in Scenarios, Select(s)
  PROVE  StepFits
<1> DEFINE k == Copy(s, tab.scenarios[s])
           d == [tab EXCEPT !.candidate = k]
           t == [d EXCEPT !.source = 0]
<1>1. UNCHANGED backend /\ budget' \in Budget /\ Fits(tab)
      /\ tab' = Rendered([tab EXCEPT !.candidate = k, !.source = 0])
  BY SpendsBudget DEF Select, Click, Undisturbed, CopiesFit
<1>2. [tab EXCEPT !.candidate = k, !.source = 0] = t
  OBVIOUS
<1>3. s \in Listed(tab.scenarios)
  <2>1. s \in FilterQueue(tab.scenarios, tab.queue) /\ tab.queue \in QueueKeys
    BY PlainSelf DEF Select, Tab
  <2> QED
    BY <2>1, ListedIn DEF FilterQueue, QueueKeys
<1>4. CandidateFits(k)
  <2>1. /\ tab.scenarios[s] \in Nat /\ tab.scenarios[s] <= Len(status[s])
        /\ tab.scenarios[s] # 0 /\ s \in Nat
    BY <1>1, <1>3, FitsMeans, PageAssumption DEF ListFits, Listed, Scenarios
  <2> QED
    BY <2>1 DEF CandidateFits, Copy
<1> HIDE DEF k
<1>5. Onward(tab, d) /\ Fits(d)
  BY <1>1, <1>4, CandidateOnward DEF Onward
<1> HIDE DEF d
<1>6. Onward(d, t)
  BY <1>5, SourceOnward DEF SourceFits
<1>7. Onward(tab, t) /\ tab' = Rendered(t)
  BY <1>1, <1>2, <1>5, <1>6, OnwardTrans
<1> HIDE DEF t
<1> QED
  BY <1>1, <1>7, RenderedStep

LEMMA ChooseLayoutFits ==
  ASSUME CopiesFit, NEW l \in Layouts, ChooseLayout(l)
  PROVE  StepFits
<1>1. UNCHANGED backend /\ budget' \in Budget /\ tab' = Send(tab, "select", l)
  BY SpendsBudget DEF ChooseLayout, Choice, Undisturbed
<1>2. "select" \in Kinds \ {"compare"} /\ l \in Nat
  BY LayoutsAreNumbers DEF Kinds, Reads
<1>3. CallFits(Ask("select", l), status, command, mine)
  BY <1>2, 0 \in Nat, AskFits DEF Reviews
<1> QED
  BY <1>1, <1>2, <1>3, PlainSelf, SendStep

(* A request with a layout: to run a scenario, or to optimise.             *)
LEMMA BasedStep ==
  ASSUME CopiesFit, UNCHANGED backend, budget' \in Budget, NEW t, Plain(tab, t),
         NEW kind \in {"run", "optimize"}, NEW of \in {0} \cup Scenarios, NEW base \in Layouts,
         NEW a, a = [Ask(kind, of) EXCEPT !.base = base], tab' = [t EXCEPT !.calls = @ \cup {a}]
  PROVE  StepFits
<1> DEFINE cs == t.calls \cup {a}
           u == [t EXCEPT !.calls = cs]
<1>1. of \in Nat /\ base \in Nat /\ kind \in Kinds
  BY LayoutsAreNumbers, PageAssumption DEF Scenarios, Kinds, Actions
<1>2. CallFits(a, status, command, mine)
  BY <1>1, AskFits DEF Reviews
<1>3. a.kind = kind
  <2>1. a = [kind |-> kind, of |-> of, base |-> base, live |-> TRUE, answer |-> <<>>]
    BY <1>1, AskBaseIs
  <2> QED
    BY <1>1, <2>1, AskBaseIsCall
<1>4. tab' = u
  OBVIOUS
<1>5. Onward(tab, t) /\ Fits(t) /\ t.candidate = tab.candidate /\ t.scenarios = tab.scenarios
      /\ t \in Tab
  BY PlainOnward DEF CopiesFit, Plain, Onward
<1>6. FitsCalls(cs) /\ \A d \in cs : d.kind = "compare" => d \in t.calls
  BY <1>2, <1>3, <1>5, FitsMeans DEF FitsCalls
<1> HIDE DEF cs
<1>7. Onward(t, u)
  BY <1>5, <1>6, CallsOnward
<1>8. u.candidate = t.candidate /\ u.scenarios = t.scenarios
  BY <1>5 DEF Tab
<1> HIDE DEF u
<1>9. Onward(tab, u)
  BY <1>5, <1>7, OnwardTrans DEF CopiesFit
<1> QED
  BY <1>4, <1>5, <1>8, <1>9, CalmStep

LEMMA RunScenarioFits ==
  ASSUME CopiesFit, RunScenario
  PROVE  StepFits
<1> DEFINE t == [tab EXCEPT !.action = "run"]
           of == tab.source
           base == tab.selected
           a == [Ask("run", of) EXCEPT !.base = base]
<1>1. UNCHANGED backend /\ budget' \in Budget
      /\ tab' = [tab EXCEPT !.action = "run", !.calls = @ \cup {RunRequest(tab)}]
  BY SpendsBudget DEF RunScenario, Click, Undisturbed
<1>2. tab \in Tab
  BY PlainSelf
<1>3. Plain(tab, t)
  BY <1>2 DEF Plain, Tab, Actions
<1>4. of \in {0} \cup Scenarios /\ base \in Layouts
  BY <1>2 DEF Tab, RunScenario, MayRun
<1>5. RunRequest(tab) = [Ask("run", of) EXCEPT !.base = base]
  BY DEF RunRequest
<1>6. tab' = [t EXCEPT !.calls = @ \cup {a}]
  BY <1>1, <1>2, <1>5
<1> HIDE DEF t, of, base
<1>7. a = [Ask("run", of) EXCEPT !.base = base]
  BY DEF a
<1> HIDE DEF a
<1>8. UNCHANGED backend /\ budget' \in Budget
  BY <1>1
<1> QED
  BY <1>3, <1>4, <1>6, <1>7, <1>8, BasedStep

LEMMA OptimizeFits ==
  ASSUME CopiesFit, Optimize
  PROVE  StepFits
<1> DEFINE t == [tab EXCEPT !.optimizing = TRUE]
           base == tab.selected
           a == [Ask("optimize", 0) EXCEPT !.base = base]
<1>1. UNCHANGED backend /\ budget' \in Budget
      /\ tab' = [tab EXCEPT !.optimizing = TRUE,
                            !.calls = @ \cup {[Ask("optimize", 0) EXCEPT !.base = tab.selected]}]
  BY SpendsBudget DEF Optimize, Choice, Undisturbed
<1>2. tab \in Tab
  BY PlainSelf
<1>3. Plain(tab, t)
  BY <1>2 DEF Plain, Tab
<1>4. base \in Layouts
  BY <1>2 DEF Tab, Optimize, MayOptimize
<1>6. tab' = [t EXCEPT !.calls = @ \cup {a}]
  BY <1>1, <1>2
<1> HIDE DEF t, base
<1>7. a = [Ask("optimize", 0) EXCEPT !.base = base]
  BY DEF a
<1> HIDE DEF a
<1>8. UNCHANGED backend /\ budget' \in Budget
  BY <1>1
<1> QED
  BY <1>3, <1>4, <1>6, <1>7, <1>8, BasedStep

LEMMA ActStep ==
  ASSUME CopiesFit, UNCHANGED backend, budget' \in Budget,
         NEW kind \in Reviews \cup {"retry"}, NEW of \in Scenarios, Act(kind, of)
  PROVE  StepFits
<1> DEFINE t == [tab EXCEPT !.action = kind]
<1>1. tab \in Tab /\ kind \in Actions /\ kind \in Kinds \ {"compare"} /\ of \in Nat
  BY PlainSelf, PageAssumption DEF Actions, Kinds, Reviews, Scenarios
<1>2. Plain(tab, t)
  BY <1>1 DEF Plain, Tab
<1>3. tab' = Send(t, kind, of)
  BY DEF Act
<1> HIDE DEF t
<1>4. CallFits(Ask(kind, of), status, command, mine)
  BY <1>1, 0 \in Nat, AskFits DEF Reviews
<1> QED
  BY <1>1, <1>2, <1>3, <1>4, SendStep

LEMMA ShownIs ==
  ASSUME CopiesFit, NEW st, Shown(st)
  PROVE  /\ tab.candidate.of \in Scenarios
         /\ st \in FinalStatus => Ended(status[tab.candidate.of], st)
<1> DEFINE s == tab.candidate.of
           n == tab.candidate.seen
<1>1. s \in Scenarios /\ n \in 1..Len(status[s]) /\ status[s][n] = st
  BY FitsMeans DEF Shown, StatusSeen, CopiesFit, CandidateFits
<1>2. status[s] \in Seq(ScenarioStatus) /\ Ends(status[s], FinalStatus)
  BY <1>1 DEF CopiesFit, Backend, Statuses
<1> HIDE DEF s, n
<1>3. st \in FinalStatus => Ended(status[s], st)
  BY <1>1, <1>2, FinalIsLast
<1> QED
  BY <1>1, <1>3 DEF s

LEMMA SubmitScenarioFits ==
  ASSUME CopiesFit, SubmitScenario
  PROVE  StepFits
<1>1. UNCHANGED backend /\ budget' \in Budget /\ Act("submit", tab.candidate.of)
      /\ tab.candidate.of \in Scenarios
  BY SpendsBudget, ShownIs DEF SubmitScenario, Click, Undisturbed
<1> QED
  BY <1>1, ActStep DEF Reviews

LEMMA ReviewScenarioFits ==
  ASSUME CopiesFit, NEW review \in Reviews, ReviewScenario(review)
  PROVE  StepFits
<1>1. UNCHANGED backend /\ budget' \in Budget /\ Act(review, tab.candidate.of)
      /\ tab.candidate.of \in Scenarios
  BY SpendsBudget, ShownIs DEF ReviewScenario, Click, Undisturbed
<1> QED
  BY <1>1, ActStep

LEMMA RetryFits ==
  ASSUME CopiesFit, NEW o \in Ops, Retry(o)
  PROVE  StepFits
<1>1. UNCHANGED backend /\ budget' \in Budget /\ Act("retry", o)
  BY SpendsBudget DEF Retry, Click, Undisturbed
<1> QED
  BY <1>1, ActStep

LEMMA StartRevisionFits ==
  ASSUME CopiesFit, StartRevision
  PROVE  StepFits
<1> DEFINE s == tab.candidate.of
<1>1. /\ UNCHANGED backend /\ budget' \in Budget /\ tab' = Send(tab, "source", s)
      /\ s \in mine /\ Shown("REVISION_REQUESTED")
  BY SpendsBudget DEF StartRevision, Click, Undisturbed
<1>2. s \in Scenarios /\ Ended(status[s], "REVISION_REQUESTED")
  BY <1>1, ShownIs DEF FinalStatus
<1>3. s \in Nat /\ "source" \in Kinds \ {"compare"}
  BY <1>2, PageAssumption DEF Scenarios, Kinds, Reads
<1> HIDE DEF s
<1>4. CallFits(Ask("source", s), status, command, mine)
  BY <1>1, <1>2, <1>3, 0 \in Nat, AskFits DEF Reviews
<1> QED
  BY <1>1, <1>3, <1>4, PlainSelf, SendStep

LEMMA DialogFits ==
  ASSUME CopiesFit, RequestApply \/ CancelApply
  PROVE  StepFits
<1>1. /\ UNCHANGED backend /\ budget' \in Budget
      /\ tab' = [tab EXCEPT !.dialog = TRUE] \/ tab' = [tab EXCEPT !.dialog = FALSE]
  BY SpendsBudget DEF RequestApply, CancelApply, Click, Undisturbed, CopiesFit
<1>2. tab \in Tab
  BY PlainSelf
<1>3. Plain(tab, tab')
  <2>1. CASE tab' = [tab EXCEPT !.dialog = TRUE]
    BY <1>2, <2>1 DEF Plain, Tab
  <2>2. CASE tab' = [tab EXCEPT !.dialog = FALSE]
    BY <1>2, <2>2 DEF Plain, Tab
  <2> QED
    BY <1>1, <2>1, <2>2
<1> QED
  BY <1>1, <1>3, PlainStep

LEMMA ApplyScenarioFits ==
  ASSUME CopiesFit, ApplyScenario
  PROVE  StepFits
<1> DEFINE t == [tab EXCEPT !.dialog = FALSE, !.action = "apply"]
           s == tab.candidate.of
<1>1. /\ UNCHANGED backend /\ budget' \in Budget /\ tab' = Send(t, "apply", s)
      /\ s \in Scenarios /\ tab \in Tab
  BY ShownIs, PlainSelf DEF ApplyScenario, CopiesFit
<1>2. Plain(tab, t)
  <2>1. t \in Tab
    BY <1>1 DEF Tab, Actions
  <2> QED
    BY <1>1, <2>1 DEF Plain, Tab
<1>3. s \in Nat /\ "apply" \in Kinds \ {"compare"}
  BY <1>1, PageAssumption DEF Scenarios, Kinds, Actions
<1> HIDE DEF t, s
<1>4. CallFits(Ask("apply", s), status, command, mine)
  BY <1>1, <1>3, 0 \in Nat, AskFits DEF Reviews
<1> QED
  BY <1>1, <1>2, <1>3, <1>4, SendStep

LEMMA ToggleComparisonFits ==
  ASSUME CopiesFit, ToggleComparison
  PROVE  StepFits
<1> DEFINE o == ~tab.open
           t == [tab EXCEPT !.open = o]
           u == Rendered(t)
<1>1. UNCHANGED backend /\ budget' \in Budget /\ tab' = u /\ tab \in Tab /\ Fits(tab) /\ Backend
  BY SpendsBudget, PlainSelf DEF ToggleComparison, Click, Undisturbed, CopiesFit
<1>2. o \in BOOLEAN /\ o # tab.open
  BY <1>1 DEF Tab
<1> HIDE DEF o
<1>3. t \in Tab
  BY <1>1, <1>2 DEF Tab
<1>4. /\ t.url = tab.url /\ t.open = o /\ t.scenarios = tab.scenarios
      /\ t.commands = tab.commands /\ t.candidate = tab.candidate
      /\ t.linked = tab.linked /\ t.source = tab.source /\ t.calls = tab.calls
  BY <1>1 DEF Tab
<1> HIDE DEF t
<1>5. Fits(t)
  BY <1>1, <1>3, <1>4 DEF Fits, TabFits
<1>6. Fits(u) /\ u.commands = t.commands /\ Pictures(u, Compared(u))
  BY <1>1, <1>2, <1>4, <1>5, RenderedShows
<1> HIDE DEF u
<1>7. Knows(tab, u)
  BY <1>1, <1>4, <1>6, KnowsSame
<1> QED
  BY <1>1, <1>6, <1>7, TabSteps

LEMMA AllSteps ==
  ASSUME CopiesFit, [Next]_vars
  PROVE  StepFits
<1>1. CASE UNCHANGED vars
  <2>1. UNCHANGED backend /\ UNCHANGED tab /\ budget' \in Budget /\ Backend
    BY <1>1 DEF vars, CopiesFit
  <2> QED
    BY <2>1, BackendWaits, TabWaits
<1>2. CASE Answer
  BY <1>2, ServeActionFits, ServeOptimizationFits, ServeReadFits, DeliverFits, CallFailsFits
     DEF Answer
<1>3. CASE Others \/ \E o \in Ops : Bridge(o)
  BY <1>3, OthersFits, BridgeFits
<1>4. CASE \E o \in Ops : \E n \in 1..Len(command[o]) : CommandUpdated(o, n)
  BY <1>4, CommandUpdatedFits
<1>5. CASE FactoryReset
  BY <1>5, FactoryResetFits
<1>6. CASE User
  <2>1. CASE Refresh \/ RunScenario \/ StartRevision \/ RequestApply \/ CancelApply
             \/ ApplyScenario \/ ToggleComparison \/ Optimize \/ OpenRecommended \/ FollowStrip
    BY <2>1, RefreshFits, RunScenarioFits, StartRevisionFits, DialogFits, ApplyScenarioFits,
       ToggleComparisonFits, OptimizeFits, OpenRecommendedFits, FollowStripFits
  <2>2. CASE \E l \in Layouts : ChooseLayout(l)
    BY <2>2, ChooseLayoutFits
  <2>3. CASE \E queue \in QueueKeys : SetQueue(queue)
    BY <2>3, SetQueueFits
  <2>4. CASE \E at \in {"scenarios", "commands"} : Navigate(at)
    BY <2>4, NavigateFits
  <2>5. CASE (\E s \in Scenarios : Select(s)) \/ (\E o \in Ops : Retry(o))
    BY <2>5, SelectFits, RetryFits
  <2>6. CASE SubmitScenario \/ \E review \in Reviews \ {"submit"} : ReviewScenario(review)
    BY <2>6, SubmitScenarioFits, ReviewScenarioFits
  <2> QED
    BY <1>6, <2>1, <2>2, <2>3, <2>4, <2>5, <2>6 DEF User
<1> QED
  BY <1>1, <1>2, <1>3, <1>4, <1>5, <1>6 DEF Next

LEMMA InitFits ==
  ASSUME Init
  PROVE  CopiesFit
<1>1. /\ status \in Histories /\ command = [o \in Ops |-> <<>>] /\ applied = <<>>
      /\ updated = [o \in Ops |-> <<>>] /\ target = [o \in Ops |-> 0] /\ clock = 0
      /\ mine \in {{}, Created} /\ budget \in Budgets
      /\ layout = [s \in Scenarios |-> IF s \in Created THEN (s % Cardinality(Layouts)) + 1 ELSE 0]
  BY DEF Init
<1>2. /\ status \in [Scenarios -> Seq(ScenarioStatus \ {"APPLIED"})]
      /\ \A s \in Scenarios : Ends(status[s], {"REVISION_REQUESTED"})
      /\ \A r, s \in Scenarios : r <= s /\ status[s] # <<>> => status[r] # <<>>
  BY <1>1, StartAssumption
<1>3. Statuses(status)
  <2>1. ASSUME NEW s \in Scenarios
        PROVE  status[s] \in Seq(ScenarioStatus) /\ Ends(status[s], FinalStatus)
    <3>1. status[s] \in Seq(ScenarioStatus \ {"APPLIED"})
      BY <1>2
    <3>2. \A i \in 1..Len(status[s]) : status[s][i] \in ScenarioStatus \ {"APPLIED"}
      BY <3>1
    <3>3. status[s] \in Seq(ScenarioStatus) /\ Len(status[s]) \in Nat
      BY <3>1
    <3> QED
      BY <1>2, <3>2, <3>3 DEF Ends, FinalStatus
  <2> QED
    BY <1>2, <2>1 DEF Statuses
<1>4. CommandsOf(command) /\ Times
  BY <1>1 DEF CommandsOf, Times, TimesOf, Ends
<1>5. layout \in [Scenarios -> {0} \cup Layouts]
  <2> DEFINE n == Cardinality(Layouts)
  <2>1. n \in Nat \ {0} /\ Layouts = 1..n
    BY LayoutsAreNumbers
  <2> HIDE DEF n
  <2>2. ASSUME NEW s \in Scenarios PROVE (s % n) + 1 \in Layouts
    <3>1. s \in Nat
      BY PageAssumption DEF Scenarios
    <3>2. s % n \in 0..(n - 1)
      BY <2>1, <3>1
    <3> QED
      BY <2>1, <3>2
  <2> QED
    BY <1>1, <2>2 DEF n
<1>6. mine \subseteq Scenarios
  BY <1>1 DEF Created
<1>7. Backend
  BY <1>1, <1>2, <1>3, <1>4, <1>5, <1>6 DEF Backend
<1>8. PICK at \in {"scenarios", "commands"}, role \in {"DESIGNER", "MONITOR"}, url \in Links :
          tab = Opened(at, role, IF at = "scenarios" THEN url ELSE NoQuery)
  BY DEF Init
<1> DEFINE query == IF at = "scenarios" THEN url ELSE NoQuery
<1>9. query \in Url
  BY StartAssumption DEF NoQuery, Url
<1> HIDE DEF query
<1>10. tab = Opened(at, role, query)
  BY <1>8 DEF query
<1>11. Fits(tab) /\ Pictures(tab, Compared(tab))
  BY <1>7, <1>9, <1>10, OpenedFits
<1> QED
  BY <1>1, <1>7, <1>11, StartAssumption DEF CopiesFit

-----------------------------------------------------------------------------
(* What the pages conclude.                                                *)

LEMMA TypesHold ==
  ASSUME CopiesFit
  PROVE  TypeOK
<1>1. Fits(tab) /\ Backend /\ budget \in Budget
  BY DEF CopiesFit
<1> QED
  BY <1>1 DEF Backend, Statuses, CommandsOf, Times, TimesOf, Fits, TabFits, TypeOK

LEMMA EndedIs ==
  ASSUME Backend, NEW s \in Scenarios, NEW st, Ended(status[s], st)
  PROVE  Is(s, st)
  BY DEF Ended, Is, Created, Last

LEMMA SourceIsReturned ==
  ASSUME CopiesFit
  PROVE  RevisesReturned
<1>1. SourceFits(tab.source) /\ mine \subseteq Scenarios /\ Backend
  BY FitsMeans DEF CopiesFit, Backend
<1> QED
  BY <1>1, EndedIs DEF SourceFits, RevisesReturned

LEMMA ComparisonFits ==
  ASSUME CopiesFit
  PROVE  ComparesCandidate
  BY DEF CopiesFit, Pictures, ComparesCandidate

(* What the timeline is drawn from: the command as it is seen.             *)
Seen(h, n, st) == \E i \in 1..n : h[i] = st

(* Progress, of the first n entries of the history h.                      *)
Phases(h, n) ==
    LET seen == SubSeq(h, 1, n)
    IN IF Last(seen) = "COMPLETED" THEN 3
       ELSE IF \E i \in DOMAIN seen : seen[i] = "ACKNOWLEDGED" THEN 2 ELSE 1

LEMMA PhasesAre ==
  ASSUME NEW h \in Seq(CommandStatus), NEW n \in 1..Len(h)
  PROVE  Phases(h, n) = IF h[n] = "COMPLETED" THEN 3
                        ELSE IF Seen(h, n, "ACKNOWLEDGED") THEN 2 ELSE 1
<1> DEFINE seen == SubSeq(h, 1, n)
<1>1. Len(seen) = n /\ DOMAIN seen = 1..n /\ n \in 1..n /\ \A i \in 1..n : seen[i] = h[i]
  OBVIOUS
<1>2. Phases(h, n) = IF Last(seen) = "COMPLETED" THEN 3
                     ELSE IF \E i \in DOMAIN seen : seen[i] = "ACKNOWLEDGED" THEN 2 ELSE 1
  BY DEF Phases
<1> HIDE DEF seen
<1>3. Last(seen) = h[n]
  BY <1>1 DEF Last
<1>4. (\E i \in DOMAIN seen : seen[i] = "ACKNOWLEDGED") <=> Seen(h, n, "ACKNOWLEDGED")
  BY <1>1 DEF Seen
<1> QED
  BY <1>2, <1>3, <1>4

(* A later entry of a history is of the same phase or of a later one.      *)
LEMMA PhasesGrow ==
  ASSUME NEW h \in Seq(CommandStatus), NEW g \in Seq(CommandStatus), Continues(h, g),
         Ends(g, {"COMPLETED"}), NEW n \in 1..Len(h), NEW m \in 1..Len(g), n <= m
  PROVE  Phases(h, n) <= Phases(g, m)
<1>1. Len(h) \in Nat /\ Len(g) \in Nat /\ Len(h) <= Len(g)
  BY DEF Continues
<1>2. \A i \in 1..n : i \in 1..m /\ g[i] = h[i]
  BY <1>1 DEF Continues
<1>3. Seen(h, n, "ACKNOWLEDGED") => Seen(g, m, "ACKNOWLEDGED")
  BY <1>2 DEF Seen
<1>4. h[n] = "COMPLETED" => m = n /\ g[m] = "COMPLETED"
  <2> SUFFICES ASSUME h[n] = "COMPLETED" PROVE m = n /\ g[m] = "COMPLETED"
    OBVIOUS
  <2>1. n \in 1..Len(g) /\ g[n] = "COMPLETED"
    BY <1>1, <1>2
  <2>2. n = Len(g)
    BY <2>1, FinalIsLast
  <2> QED
    BY <1>1, <2>1, <2>2
<1> QED
  BY <1>3, <1>4, PhasesAre

LEMMA PhasesAreSome ==
  ASSUME NEW h, NEW n
  PROVE  Phases(h, n) \in 1..3
  BY DEF Phases

(* The commands known of a scenario, and the latest of them: of copies cs, *)
(* commands that apply tg, and times up.                                   *)
KnownIn(cs, tg, s) == {o \in Ops : cs[o] # 0 /\ tg[o] = s}
LatestIn(cs, tg, up, s) ==
    LET known == KnownIn(cs, tg, s)
    IN IF known = {} THEN 0 ELSE CHOOSE o \in known : \A p \in known : up[p][cs[p]] <= up[o][cs[o]]

LEMMA LatestInIs ==
  ASSUME NEW cs, NEW tg, NEW up, NEW s, NEW now \in Nat,
         \A o \in Ops : cs[o] # 0 => up[o][cs[o]] \in 0..now
  PROVE  LET o == LatestIn(cs, tg, up, s)
             known == KnownIn(cs, tg, s)
         IN  /\ known # {} => o \in known /\ o \in Ops
             /\ known = {} => o = 0
             /\ 0 \notin Ops
             /\ o # 0 => \A p \in known : up[p][cs[p]] <= up[o][cs[o]]
<1> DEFINE known == KnownIn(cs, tg, s)
           f(o) == up[o][cs[o]]
           times == {f(o) : o \in known}
           best(o) == o \in known /\ \A p \in known : f(p) <= f(o)
<1>1. known \subseteq Ops /\ 0 \notin Ops
  BY PageAssumption DEF KnownIn, Scenarios
<1>2. \A o \in known : f(o) \in 0..now
  BY DEF KnownIn
<1>3. LatestIn(cs, tg, up, s) = IF known = {} THEN 0
                                ELSE CHOOSE o \in known : \A p \in known : f(p) <= f(o)
  BY DEF LatestIn
<1> HIDE DEF known, f
<1>4. known # {} => \E o \in known : \A p \in known : f(p) <= f(o)
  <2> SUFFICES ASSUME known # {} PROVE \E o \in known : \A p \in known : f(p) <= f(o)
    OBVIOUS
  <2>1. times # {} /\ times \in SUBSET (0..now)
    BY <1>2
  <2> HIDE DEF times
  <2>2. \E x \in times : \A y \in times : y <= x
    BY <2>1, GreatestOf
  <2> QED
    BY <2>2 DEF times
<1>5. known # {} => best(LatestIn(cs, tg, up, s))
  BY <1>3, <1>4
<1>6. known = {} => LatestIn(cs, tg, up, s) = 0
  BY <1>3
<1> QED
  BY <1>1, <1>5, <1>6 DEF known, f

(* What is known of commands is what the backend had of them, now and then.*)
LEMMA KnownIsRight ==
  ASSUME CopiesFit
  PROVE  /\ \A o \in Ops : /\ tab.commands[o] \in Nat /\ tab.commands[o] <= Len(command[o])
                           /\ command[o] \in Seq(CommandStatus) /\ Ends(command[o], {"COMPLETED"})
         /\ Times
<1>1. /\ tab \in Tab /\ CommandsOf(command) /\ Times
      /\ \A o \in Ops : tab.commands[o] <= Len(command[o])
  BY DEF CopiesFit, Fits, TabFits, Backend
<1>2. tab.commands \in [Scenarios -> Nat]
  BY <1>1 DEF Tab, Copies
<1> QED
  BY <1>1, <1>2 DEF CommandsOf

LEMMA KnownWillBeRight ==
  ASSUME CopiesFit'
  PROVE  /\ \A o \in Ops : /\ tab'.commands[o] \in Nat /\ tab'.commands[o] <= Len(command'[o])
                           /\ command'[o] \in Seq(CommandStatus) /\ Ends(command'[o], {"COMPLETED"})
         /\ Times'
<1>1. /\ tab' \in Tab /\ CommandsOf(command') /\ Times'
      /\ \A o \in Ops : tab'.commands[o] <= Len(command'[o])
  BY DEF CopiesFit, Fits, TabFits, Backend
<1>2. tab'.commands \in [Scenarios -> Nat]
  BY <1>1 DEF Tab, Copies
<1> QED
  BY <1>1, <1>2 DEF CommandsOf

LEMMA LatestOfIs ==
  ASSUME NEW s
  PROVE  /\ LatestOf(tab, s) = LatestIn(tab.commands, target, updated, s)
         /\ LatestOf(tab, s)' = LatestIn(tab'.commands, target', updated', s)
  BY DEF LatestOf, LatestIn, Known, KnownIn, UpdatedAt

LEMMA EnteredIs ==
  ASSUME NEW s, NEW o, NEW p, o = LatestOf(tab, s), p = LatestOf(tab, s)'
  PROVE  /\ Entered(s) = IF o = 0 THEN 0 ELSE Phases(command[o], tab.commands[o])
         /\ Entered(s)' = IF p = 0 THEN 0 ELSE Phases(command'[p], tab'.commands[p])
  BY DEF Entered, Progress, Phases

(* Nothing that is known is forgotten: the command that is shown goes on,  *)
(* or one with a later time replaces it.                                   *)
LEMMA ProgressGrows ==
  ASSUME CopiesFit, StepFits, Knows(tab, tab'), NEW s \in Scenarios
  PROVE  Entered(s) <= Entered(s)' \/ ReplacedByNewer(s)
<1> DEFINE cs == tab.commands
           cs2 == tab'.commands
           o == LatestOf(tab, s)
           p == LatestOf(tab, s)'
           known == KnownIn(cs, target, s)
           known2 == KnownIn(cs2, target', s)
<1>1. /\ \A r \in Ops : /\ cs[r] \in Nat /\ cs[r] <= Len(command[r])
                        /\ command[r] \in Seq(CommandStatus) /\ Len(updated[r]) = Len(command[r])
                        /\ \A i \in 1..Len(updated[r]) : updated[r][i] <= clock
      /\ updated \in [Ops -> Seq(Nat)] /\ clock \in Nat
  BY KnownIsRight DEF Times, TimesOf
<1>2. /\ \A r \in Ops : /\ cs2[r] \in Nat /\ cs2[r] <= Len(command'[r])
                        /\ command'[r] \in Seq(CommandStatus) /\ Len(updated'[r]) = Len(command'[r])
                        /\ Ends(command'[r], {"COMPLETED"})
                        /\ \A i \in 1..Len(updated'[r]) : updated'[r][i] <= clock'
                        /\ \A i, j \in 1..Len(updated'[r]) : i < j => updated'[r][i] < updated'[r][j]
      /\ updated' \in [Ops -> Seq(Nat)] /\ clock' \in Nat
      /\ \A q, r \in Ops : q # r =>
             \A i \in 1..Len(updated'[q]), j \in 1..Len(updated'[r]) : updated'[q][i] # updated'[r][j]
  BY KnownWillBeRight DEF StepFits, Times, TimesOf
<1>3. \A r \in Ops : /\ cs[r] <= cs2[r] /\ Continues(command[r], command'[r])
                     /\ Continues(updated[r], updated'[r])
                     /\ command[r] # <<>> => target'[r] = target[r]
  BY DEF Knows, StepFits, RowsGoOn, Grown2
<1>4. \A r \in Ops : cs[r] # 0 => cs[r] \in 1..Len(updated[r]) /\ updated[r][cs[r]] \in 0..clock
  <2> SUFFICES ASSUME NEW r \in Ops, cs[r] # 0
               PROVE  cs[r] \in 1..Len(updated[r]) /\ updated[r][cs[r]] \in 0..clock
    OBVIOUS
  <2>1. cs[r] \in 1..Len(updated[r]) /\ updated[r] \in Seq(Nat)
    BY <1>1
  <2>2. updated[r][cs[r]] \in Nat
    BY <2>1
  <2> QED
    BY <1>1, <2>1, <2>2
<1>5. \A r \in Ops : cs2[r] # 0 => cs2[r] \in 1..Len(updated'[r]) /\ updated'[r][cs2[r]] \in 0..clock'
  <2> SUFFICES ASSUME NEW r \in Ops, cs2[r] # 0
               PROVE  cs2[r] \in 1..Len(updated'[r]) /\ updated'[r][cs2[r]] \in 0..clock'
    OBVIOUS
  <2>1. cs2[r] \in 1..Len(updated'[r]) /\ updated'[r] \in Seq(Nat)
    BY <1>2
  <2>2. updated'[r][cs2[r]] \in Nat
    BY <2>1
  <2> QED
    BY <1>2, <2>1, <2>2
<1>6. o = LatestIn(cs, target, updated, s) /\ p = LatestIn(cs2, target', updated', s)
  BY LatestOfIs
<1>7. /\ Entered(s) = IF o = 0 THEN 0 ELSE Phases(command[o], cs[o])
      /\ Entered(s)' = IF p = 0 THEN 0 ELSE Phases(command'[p], cs2[p])
  BY EnteredIs
<1>8. ReplacedByNewer(s) <=> p # o /\ updated'[p][cs2[p]] > updated[o][cs[o]]
  BY DEF ReplacedByNewer, UpdatedAt
<1> HIDE DEF cs, cs2, o, p
<1>9. /\ known # {} => o \in known /\ o \in Ops
      /\ known = {} => o = 0
      /\ 0 \notin Ops
  BY <1>1, <1>4, <1>6, LatestInIs
<1>10. /\ known2 # {} => p \in known2 /\ p \in Ops
       /\ p # 0 => \A r \in known2 : updated'[r][cs2[r]] <= updated'[p][cs2[p]]
  BY <1>2, <1>5, <1>6, LatestInIs
<1>11. CASE o = 0
  BY <1>7, <1>11, PhasesAreSome
<1>12. CASE o # 0
  <2>1. o \in Ops /\ cs[o] # 0 /\ target[o] = s
    BY <1>9, <1>12 DEF KnownIn
  <2>2. cs[o] \in 1..Len(command[o]) /\ cs2[o] \in 1..Len(command'[o]) /\ cs2[o] # 0
    BY <1>1, <1>2, <1>3, <2>1
  <2>3. command[o] # <<>> /\ o \in known2
    BY <1>1, <1>3, <2>1, <2>2 DEF KnownIn
  <2>4. p \in Ops /\ p # 0 /\ cs2[p] # 0 /\ updated'[o][cs2[o]] <= updated'[p][cs2[p]]
    BY <1>9, <1>10, <2>3 DEF KnownIn
  <2>5. /\ updated[o][cs[o]] \in Nat /\ updated'[o][cs2[o]] \in Nat /\ updated'[p][cs2[p]] \in Nat
        /\ cs2[p] \in 1..Len(updated'[p]) /\ cs2[o] \in 1..Len(updated'[o])
        /\ cs[o] \in 1..Len(updated[o])
    <3>1. cs[o] \in 1..Len(updated[o]) /\ updated[o][cs[o]] \in 0..clock
      BY <1>4, <2>1
    <3>2. cs2[o] \in 1..Len(updated'[o]) /\ updated'[o][cs2[o]] \in 0..clock'
      BY <1>5, <2>1, <2>2
    <3>3. cs2[p] \in 1..Len(updated'[p]) /\ updated'[p][cs2[p]] \in 0..clock'
      BY <1>5, <2>4
    <3> QED
      BY <3>1, <3>2, <3>3
  <2>6. updated[o][cs[o]] <= updated'[o][cs2[o]]
    <3>1. /\ cs[o] \in 1..Len(updated'[o]) /\ updated'[o][cs[o]] = updated[o][cs[o]]
          /\ cs[o] <= cs2[o]
      <4>1. cs[o] \in Nat /\ cs2[o] \in Nat /\ cs[o] <= cs2[o] /\ Continues(updated[o], updated'[o])
        BY <1>1, <1>2, <1>3, <2>1
      <4> QED
        BY <2>5, <4>1 DEF Continues
    <3>2. CASE cs[o] = cs2[o]
      BY <2>5, <3>1, <3>2
    <3>3. CASE cs[o] < cs2[o]
      <4>1. updated'[o][cs[o]] < updated'[o][cs2[o]]
        BY <1>2, <2>1, <2>5, <3>1, <3>3
      <4> QED
        BY <2>5, <3>1, <4>1
    <3> QED
      BY <2>5, <3>1, <3>2, <3>3
  <2>7. CASE p = o
    <3>1. Phases(command[o], cs[o]) <= Phases(command'[o], cs2[o])
      BY <1>1, <1>2, <1>3, <2>1, <2>2, PhasesGrow
    <3> QED
      BY <1>7, <1>12, <2>7, <3>1
  <2>8. CASE p # o
    <3>1. updated'[o][cs2[o]] # updated'[p][cs2[p]]
      BY <1>2, <2>1, <2>4, <2>5, <2>8
    <3> QED
      BY <1>8, <2>4, <2>5, <2>6, <2>8, <3>1
  <2> QED
    BY <2>7, <2>8
<1> QED
  BY <1>11, <1>12

LEMMA ProgressStays ==
  ASSUME CopiesFit, StepFits
  PROVE  \A s \in Scenarios :
             Entered(s) <= Entered(s)' \/ tab'.commands = NoCopies \/ ReplacedByNewer(s)
  BY ProgressGrows DEF StepFits

-----------------------------------------------------------------------------
(* The theorems.                                                           *)

(* What the tab holds of scenarios and commands (page.tsx of scenarios and *)
(* commands, the factory store), and what its requests bring, is a part of *)
(* the backend's histories, in every order of answers and events.          *)
THEOREM CopiesAreHistory == Spec => []CopiesFit
<1>1. Init => CopiesFit
  BY InitFits
<1>2. CopiesFit /\ [Next]_vars => CopiesFit'
  BY AllSteps DEF StepFits
<1> QED
  BY <1>1, <1>2, PTL DEF Spec

(* Every variable has its type, and no copy is ahead of its row.           *)
THEOREM TypeCorrect == Spec => []TypeOK
<1>1. CopiesFit => TypeOK
  BY TypesHold
<1> QED
  BY <1>1, CopiesAreHistory, PTL

(* The revision that startRevision prepares is of a scenario of this user  *)
(* that was returned for revision, whatever was selected meanwhile.        *)
THEOREM RevisesReturnedHolds == Spec => []RevisesReturned
<1>1. CopiesFit => RevisesReturned
  BY SourceIsReturned
<1> QED
  BY <1>1, CopiesAreHistory, PTL

(* LayoutComparison never shows other maps than those of the candidate and *)
(* of the scenario applied last, however late its answers come.            *)
THEOREM ComparesCandidateHolds == Spec => []ComparesCandidate
<1>1. CopiesFit => ComparesCandidate
  BY ComparisonFits
<1> QED
  BY <1>1, CopiesAreHistory, PTL

(* The timeline of an apply never goes back to an earlier phase, unless    *)
(* another command of the scenario was updated later than the one that it  *)
(* showed, or the application is loaded anew.                              *)
THEOREM ProgressNeverGoesBackHolds == Spec => ProgressNeverGoesBack
<1>1. ASSUME CopiesFit, [Next]_vars
      PROVE  [\A s \in Scenarios :
                 Entered(s) <= Entered(s)' \/ tab'.commands = NoCopies \/ ReplacedByNewer(s)]_vars
  BY <1>1, AllSteps, ProgressStays
<1> QED
  BY <1>1, CopiesAreHistory, PTL DEF Spec, ProgressNeverGoesBack
=============================================================================
