------------------------- MODULE ClientSync_proofs -------------------------
(* Proofs about ClientSync: types, the contract, and that nothing received *)
(* is lost.                                                                *)
EXTENDS ClientSync, NumberFacts, TLAPS

-----------------------------------------------------------------------------
(* Types that say more than those of TypeOK: every value shown or kept is  *)
(* one that its key has had.                                               *)
Past(k) == {0} \cup {i \in 1..Len(log) : log[i] \in {k, Reset}}
Events == 1..Len(log)
Views == {v \in [Keys -> 0..Len(log)] : \A k \in Keys : v[k] \in Past(k)}
Reads == {v \in [Keys -> (0..Len(log)) \cup {Unread}] :
             \A k \in Keys : v[k] \in Past(k) \cup {Unread}}
Waiters == {"page", "auth", "recover"}
Fetches == [waiting : SUBSET Waiters, parts : Reads] \cup {NoFetch}

Clients ==
    [view : Views, status : {"CONNECTING", "LIVE", "OFFLINE"}, paused : BOOLEAN,
     socket : {"none", "opening", "registered", "syncing", "live", "closing"},
     pos : 0..Len(log), pending : Seq(Events), timer : BOOLEAN, fetch : Fetches,
     buffered : Seq(Events), held : Seq(Events), incomplete : BOOLEAN,
     snapshot : Views \cup {NoSnapshot}, recovery : BOOLEAN, attempted : BOOLEAN,
     refreshing : BOOLEAN]

Fits(c) == Len(c.pending) <= SocketLimit /\ Len(c.held) <= PauseLimit

Typed ==
    /\ log \in Seq(Keys \cup {Reset}) /\ Len(log) <= MaxEvents
    /\ page \in {"loading", "error", "ready", "restoring", "ended"}
    /\ client \in Clients /\ Fits(client)
    /\ budget \in Budget

-----------------------------------------------------------------------------
(* The folds over buffers need the greatest element of a set.              *)

LEMMA MaxOf ==
  ASSUME NEW N \in Nat, NEW S \in SUBSET (0..N), S # {}
  PROVE  Max(S) \in S /\ \A y \in S : y <= Max(S)
<1>1. PICK x \in S : \A y \in S : y <= x
  BY GreatestOf
<1>2. \E z \in S : \A y \in S : z >= y
  <2>1. \A y \in S : x >= y
    BY <1>1
  <2> QED
    BY <2>1
<1>3. Max(S) \in S /\ \A y \in S : Max(S) >= y
  BY <1>2 DEF Max
<1> QED
  BY <1>3

-----------------------------------------------------------------------------
(* ReceiveAll and HoldAll receive, and hold, one event after the other.    *)

Received(f, c, es, n) == [i \in 0..n |-> IF i = 0 THEN c ELSE Receive(f[i - 1], es[i])]
Heldback(f, c, es, n) == [i \in 0..n |-> IF i = 0 THEN c ELSE Hold(f[i - 1], es[i])]

LEMMA ReceivesAll ==
  ASSUME NEW c, NEW es, Len(es) \in Nat
  PROVE  \E f : /\ f[0] = c
                /\ \A i \in 1..Len(es) : f[i] = Receive(f[i - 1], es[i])
                /\ ReceiveAll(c, es) = f[Len(es)]
<1> DEFINE N == Len(es)
           S == {n \in 0..N : \E f : f = Received(f, c, es, n)}
<1>1. 0 \in S
  <2> DEFINE g == [i \in 0..0 |-> c]
  <2>1. g = Received(g, c, es, 0)
    BY DEF Received
  <2> QED
    BY <2>1
<1>2. ASSUME NEW n \in 1..N, n - 1 \in S PROVE n \in S
  <2>1. PICK f : f = Received(f, c, es, n - 1)
    BY <1>2
  <2> DEFINE g == [i \in 0..n |-> IF i = n THEN Receive(f[n - 1], es[n]) ELSE f[i]]
  <2>2. ASSUME NEW i \in 0..n
        PROVE  g[i] = IF i = 0 THEN c ELSE Receive(g[i - 1], es[i])
    <3>1. CASE i = n
      BY <3>1
    <3>2. CASE i # n
      <4>1. i \in 0..(n - 1) /\ g[i] = f[i]
        BY <3>2
      <4>2. f[i] = IF i = 0 THEN c ELSE Receive(f[i - 1], es[i])
        BY <2>1, <4>1 DEF Received
      <4>3. i # 0 => g[i - 1] = f[i - 1]
        BY <4>1
      <4> QED
        BY <4>1, <4>2, <4>3
    <3> QED
      BY <3>1, <3>2
  <2> HIDE DEF g
  <2>3. g = [i \in 0..n |-> g[i]]
    BY DEF g
  <2>4. g = Received(g, c, es, n)
    BY <2>2, <2>3 DEF Received
  <2> QED
    BY <2>4
<1> HIDE DEF S
<1>3. N \in S
  BY <1>1, <1>2, UpTo
<1>4. PICK h : h = Received(h, c, es, N)
  BY <1>3 DEF S
<1> DEFINE f == CHOOSE g : g = [i \in 0..Len(es) |-> IF i = 0 THEN c ELSE Receive(g[i - 1], es[i])]
<1>5. f = [i \in 0..Len(es) |-> IF i = 0 THEN c ELSE Receive(f[i - 1], es[i])]
  BY <1>4 DEF Received
<1>6. ReceiveAll(c, es) = f[Len(es)]
  BY DEF ReceiveAll
<1> HIDE DEF f
<1> QED
  BY <1>5, <1>6

LEMMA HoldsAll ==
  ASSUME NEW c, NEW es, Len(es) \in Nat
  PROVE  \E f : /\ f[0] = c
                /\ \A i \in 1..Len(es) : f[i] = Hold(f[i - 1], es[i])
                /\ HoldAll(c, es) = f[Len(es)]
<1> DEFINE N == Len(es)
           S == {n \in 0..N : \E f : f = Heldback(f, c, es, n)}
<1>1. 0 \in S
  <2> DEFINE g == [i \in 0..0 |-> c]
  <2>1. g = Heldback(g, c, es, 0)
    BY DEF Heldback
  <2> QED
    BY <2>1
<1>2. ASSUME NEW n \in 1..N, n - 1 \in S PROVE n \in S
  <2>1. PICK f : f = Heldback(f, c, es, n - 1)
    BY <1>2
  <2> DEFINE g == [i \in 0..n |-> IF i = n THEN Hold(f[n - 1], es[n]) ELSE f[i]]
  <2>2. ASSUME NEW i \in 0..n
        PROVE  g[i] = IF i = 0 THEN c ELSE Hold(g[i - 1], es[i])
    <3>1. CASE i = n
      BY <3>1
    <3>2. CASE i # n
      <4>1. i \in 0..(n - 1) /\ g[i] = f[i]
        BY <3>2
      <4>2. f[i] = IF i = 0 THEN c ELSE Hold(f[i - 1], es[i])
        BY <2>1, <4>1 DEF Heldback
      <4>3. i # 0 => g[i - 1] = f[i - 1]
        BY <4>1
      <4> QED
        BY <4>1, <4>2, <4>3
    <3> QED
      BY <3>1, <3>2
  <2> HIDE DEF g
  <2>3. g = [i \in 0..n |-> g[i]]
    BY DEF g
  <2>4. g = Heldback(g, c, es, n)
    BY <2>2, <2>3 DEF Heldback
  <2> QED
    BY <2>4
<1> HIDE DEF S
<1>3. N \in S
  BY <1>1, <1>2, UpTo
<1>4. PICK h : h = Heldback(h, c, es, N)
  BY <1>3 DEF S
<1> DEFINE f == CHOOSE g : g = [i \in 0..Len(es) |-> IF i = 0 THEN c ELSE Hold(g[i - 1], es[i])]
<1>5. f = [i \in 0..Len(es) |-> IF i = 0 THEN c ELSE Hold(f[i - 1], es[i])]
  BY <1>4 DEF Heldback
<1>6. HoldAll(c, es) = f[Len(es)]
  BY DEF HoldAll
<1> HIDE DEF f
<1> QED
  BY <1>5, <1>6

-----------------------------------------------------------------------------
(* Every function of the hook and of the socket keeps the types, and the   *)
(* view of who has paused it.                                              *)

Good(c) == c \in Clients /\ Fits(c)
Frozen(c, d) == d.paused = c.paused /\ (c.paused => d.view = c.view)

LEMMA ValueIsPast ==
  ASSUME NEW k \in Keys, NEW n \in 0..Len(log), log \in Seq(Keys \cup {Reset})
  PROVE  /\ ValueAt(k, n) \in Past(k) /\ ValueAt(k, n) \in 0..n
         /\ \A i \in 1..n : log[i] \in {k, Reset} => i <= ValueAt(k, n)
<1> DEFINE S == {0} \cup {i \in 1..n : log[i] \in {k, Reset}}
<1>1. S \in SUBSET (0..n) /\ S # {} /\ n \in Nat
  OBVIOUS
<1>2. Max(S) \in S /\ \A y \in S : y <= Max(S)
  <2> HIDE DEF S
  <2> QED
    BY <1>1, MaxOf
<1>3. ValueAt(k, n) = Max(S)
  BY DEF ValueAt
<1>4. S \subseteq Past(k)
  BY DEF Past
<1> QED
  BY <1>1, <1>2, <1>3, <1>4

(* What applying events does to the value of a key.                        *)
LEMMA AppliedValue ==
  ASSUME NEW v, NEW es, Len(es) \in Nat, DOMAIN es = 1..Len(es), NEW k \in Keys
  PROVE  \/ Apply(v, es)[k] = v[k] /\ \A i \in DOMAIN es : log[es[i]] # k
         \/ \E j \in DOMAIN es :
               /\ Apply(v, es)[k] = es[j] /\ log[es[j]] = k
               /\ \A i \in DOMAIN es : log[es[i]] = k => i <= j
<1> DEFINE hits == {i \in DOMAIN es : log[es[i]] = k}
<1>1. Apply(v, es)[k] = IF hits = {} THEN v[k] ELSE es[Max(hits)]
  BY DEF Apply
<1>2. CASE hits = {}
  BY <1>1, <1>2
<1>3. CASE hits # {}
  <2>1. hits \in SUBSET (0..Len(es))
    OBVIOUS
  <2>2. Max(hits) \in hits /\ \A y \in hits : y <= Max(hits)
    <3> HIDE DEF hits
    <3> QED
      BY <1>3, <2>1, MaxOf
  <2> QED
    BY <1>1, <1>3, <2>2
<1> QED
  BY <1>2, <1>3

LEMMA AppliedView ==
  ASSUME NEW v \in Views, NEW es \in Seq(Events)
  PROVE  Apply(v, es) \in Views
<1>1. ASSUME NEW k \in Keys PROVE Apply(v, es)[k] \in Past(k)
  <2>1. \A i \in DOMAIN es : es[i] \in Events
    OBVIOUS
  <2>2. \A i \in DOMAIN es : log[es[i]] = k => es[i] \in Past(k)
    BY <2>1 DEF Events, Past
  <2>3. v[k] \in Past(k)
    BY DEF Views
  <2> QED
    BY <2>2, <2>3, AppliedValue
<1>2. \A k \in Keys : Past(k) \subseteq 0..Len(log)
  BY DEF Past
<1>3. Apply(v, es) = [k \in Keys |-> Apply(v, es)[k]]
  BY DEF Apply
<1> QED
  BY <1>1, <1>2, <1>3 DEF Views

LEMMA NothingRead == NoSnapshot \in Reads
  BY DEF NoSnapshot, Reads

LEMMA HoldGood ==
  ASSUME NEW c, Good(c), NEW e \in Events
  PROVE  Good(Hold(c, e)) /\ Hold(c, e).view = c.view /\ Hold(c, e).paused = c.paused
<1>1. PauseLimit \in Nat /\ PauseLimit > 0
  BY SyncAssumption
<1>2. c \in Clients /\ Fits(c) /\ c.held \in Seq(Events) /\ Len(c.held) \in Nat
  BY DEF Good, Clients
<1>3. CASE Len(c.held) >= PauseLimit
  <2> DEFINE h == Append(Tail(c.held), e)
  <2>1. Len(c.held) = PauseLimit /\ c.held # <<>>
    BY <1>1, <1>2, <1>3 DEF Fits
  <2>2. h \in Seq(Events) /\ Len(h) = PauseLimit
    BY <1>1, <1>2, <2>1
  <2>3. Hold(c, e) = [c EXCEPT !.held = h, !.incomplete = TRUE]
    BY <1>3 DEF Hold
  <2> HIDE DEF h
  <2>4. Hold(c, e) \in Clients
    BY <1>2, <2>2, <2>3 DEF Clients
  <2>5. Hold(c, e).held = h /\ Hold(c, e).pending = c.pending /\ Hold(c, e).view = c.view
        /\ Hold(c, e).paused = c.paused
    BY <1>2, <2>3 DEF Clients
  <2> QED
    BY <1>1, <1>2, <2>2, <2>4, <2>5 DEF Good, Fits
<1>4. CASE ~(Len(c.held) >= PauseLimit)
  <2> DEFINE h == Append(c.held, e)
  <2>2. h \in Seq(Events) /\ Len(h) <= PauseLimit
    BY <1>1, <1>2, <1>4
  <2>3. Hold(c, e) = [c EXCEPT !.held = h]
    BY <1>4 DEF Hold
  <2> HIDE DEF h
  <2>4. Hold(c, e) \in Clients
    BY <1>2, <2>2, <2>3 DEF Clients
  <2>5. Hold(c, e).held = h /\ Hold(c, e).pending = c.pending /\ Hold(c, e).view = c.view
        /\ Hold(c, e).paused = c.paused
    BY <1>2, <2>3 DEF Clients
  <2> QED
    BY <1>1, <1>2, <2>2, <2>4, <2>5 DEF Good, Fits
<1> QED
  BY <1>3, <1>4

LEMMA HoldAllGood ==
  ASSUME NEW c, Good(c), NEW es \in Seq(Events)
  PROVE  Good(HoldAll(c, es)) /\ HoldAll(c, es).view = c.view /\ HoldAll(c, es).paused = c.paused
<1>1. Len(es) \in Nat /\ \A i \in 1..Len(es) : es[i] \in Events
  OBVIOUS
<1>2. PICK f : /\ f[0] = c
               /\ \A i \in 1..Len(es) : f[i] = Hold(f[i - 1], es[i])
               /\ HoldAll(c, es) = f[Len(es)]
  BY <1>1, HoldsAll
<1> DEFINE S == {n \in 0..Len(es) : Good(f[n]) /\ f[n].view = c.view /\ f[n].paused = c.paused}
<1>3. 0 \in S
  BY <1>1, <1>2
<1>4. ASSUME NEW n \in 1..Len(es), n - 1 \in S PROVE n \in S
  <2>1. Good(f[n - 1]) /\ f[n - 1].view = c.view /\ f[n - 1].paused = c.paused
        /\ f[n] = Hold(f[n - 1], es[n])
    BY <1>2, <1>4
  <2>2. Good(f[n]) /\ f[n].view = f[n - 1].view /\ f[n].paused = f[n - 1].paused
    BY <1>1, <2>1, HoldGood
  <2> QED
    BY <2>1, <2>2
<1>5. Len(es) \in S
  <2> HIDE DEF S
  <2> QED
    BY <1>1, <1>3, <1>4, UpTo
<1> QED
  BY <1>2, <1>5

LEMMA SynchronizeGood ==
  ASSUME NEW c, Good(c), NEW who \in Waiters
  PROVE  Good(Synchronize(c, who)) /\ Frozen(c, Synchronize(c, who))
<1>1. c \in Clients /\ Fits(c)
  BY DEF Good
<1>2. CASE Synchronizing(c)
  <2>1. c.fetch \in [waiting : SUBSET Waiters, parts : Reads]
    BY <1>1, <1>2 DEF Clients, Fetches, Synchronizing
  <2> DEFINE g == [c.fetch EXCEPT !.waiting = c.fetch.waiting \cup {who}]
  <2>2. g \in Fetches
    BY <2>1 DEF Fetches
  <2>3. Synchronize(c, who) = [c EXCEPT !.fetch = g]
    BY <1>1, <1>2 DEF Synchronize, Clients
  <2> HIDE DEF g
  <2> QED
    BY <1>1, <2>2, <2>3 DEF Good, Frozen, Clients, Fits
<1>3. CASE ~Synchronizing(c)
  <2> DEFINE g == [waiting |-> {who}, parts |-> NoSnapshot]
  <2>2. g \in Fetches
    BY NothingRead DEF Fetches
  <2>3. Synchronize(c, who) = [c EXCEPT !.fetch = g, !.status = "CONNECTING"]
    BY <1>3 DEF Synchronize
  <2> HIDE DEF g
  <2> QED
    BY <1>1, <2>2, <2>3 DEF Good, Frozen, Clients, Fits
<1> QED
  BY <1>2, <1>3

LEMMA CloseSocketGood ==
  ASSUME NEW c, Good(c)
  PROVE  Good(CloseSocket(c)) /\ Frozen(c, CloseSocket(c))
<1>1. c \in Clients /\ Fits(c) /\ SocketLimit \in Nat
  BY SyncAssumption DEF Good
<1>2. <<>> \in Seq(Events) /\ Len(<<>>) = 0
  OBVIOUS
<1>3. CASE c.socket = "none"
  BY <1>3 DEF CloseSocket, Frozen
<1>4. CASE c.socket # "none"
  <2>1. CloseSocket(c) = [c EXCEPT !.socket = "closing", !.pending = <<>>]
    BY <1>4 DEF CloseSocket
  <2>2. CloseSocket(c) \in Clients
    BY <1>1, <1>2, <2>1 DEF Clients
  <2> QED
    BY <1>1, <1>2, <2>1, <2>2 DEF Good, Frozen, Clients, Fits
<1> QED
  BY <1>3, <1>4

LEMMA RequestRecoveryGood ==
  ASSUME NEW c, Good(c)
  PROVE  Good(RequestRecovery(c)) /\ Frozen(c, RequestRecovery(c))
<1> DEFINE d == [c EXCEPT !.recovery = TRUE, !.fetch = NoFetch, !.buffered = <<>>,
                          !.status = "OFFLINE"]
<1>1. c \in Clients /\ Fits(c)
  BY DEF Good
<1>2. <<>> \in Seq(Events) /\ NoFetch \in Fetches
  BY DEF Fetches
<1>3. Good(d) /\ d.view = c.view /\ d.paused = c.paused
  BY <1>1, <1>2 DEF Good, Clients, Fits
<1>4. RequestRecovery(c) = IF c.recovery THEN c ELSE CloseSocket(d)
  BY DEF RequestRecovery
<1> HIDE DEF d
<1>5. Good(CloseSocket(d)) /\ Frozen(d, CloseSocket(d))
  BY <1>3, CloseSocketGood
<1> QED
  BY <1>3, <1>4, <1>5 DEF Frozen

LEMMA ReceiveGood ==
  ASSUME NEW c, Good(c), NEW e \in Events
  PROVE  Good(Receive(c, e)) /\ Frozen(c, Receive(c, e))
<1>1. c \in Clients /\ Fits(c) /\ c.paused \in BOOLEAN
  BY DEF Good, Clients
<1>2. CASE c.paused
  BY <1>2, HoldGood DEF Receive, Frozen
<1>3. CASE ~c.paused /\ Synchronizing(c)
  <2>1. CASE Len(c.buffered) >= SocketLimit
    BY <1>3, <2>1, RequestRecoveryGood DEF Receive
  <2>2. CASE ~(Len(c.buffered) >= SocketLimit)
    <3>1. Receive(c, e) = [c EXCEPT !.buffered = Append(c.buffered, e)]
      BY <1>1, <1>3, <2>2 DEF Receive
    <3>2. Append(c.buffered, e) \in Seq(Events)
      BY <1>1 DEF Clients
    <3> QED
      BY <1>1, <3>1, <3>2 DEF Good, Frozen, Clients, Fits
  <2> QED
    BY <2>1, <2>2
<1>4. CASE ~c.paused /\ ~Synchronizing(c) /\ log[e] = Reset
  <2>1. Receive(c, e) = Synchronize(c, "recover")
    BY <1>4 DEF Receive
  <2> QED
    BY <2>1, SynchronizeGood DEF Waiters
<1>5. CASE ~c.paused /\ ~Synchronizing(c) /\ log[e] # Reset
  <2> DEFINE v == Apply(c.view, <<e>>)
  <2>1. Receive(c, e) = [c EXCEPT !.view = v]
    BY <1>5 DEF Receive
  <2>2. v \in Views
    <3>1. <<e>> \in Seq(Events) /\ c.view \in Views
      BY <1>1 DEF Clients
    <3> QED
      BY <3>1, AppliedView
  <2> HIDE DEF v
  <2> QED
    BY <1>1, <1>5, <2>1, <2>2 DEF Good, Frozen, Clients, Fits
<1> QED
  BY <1>2, <1>3, <1>4, <1>5

LEMMA ReceiveAllGood ==
  ASSUME NEW c, Good(c), NEW es \in Seq(Events)
  PROVE  Good(ReceiveAll(c, es)) /\ Frozen(c, ReceiveAll(c, es))
<1>1. Len(es) \in Nat /\ \A i \in 1..Len(es) : es[i] \in Events
  OBVIOUS
<1>2. PICK f : /\ f[0] = c
               /\ \A i \in 1..Len(es) : f[i] = Receive(f[i - 1], es[i])
               /\ ReceiveAll(c, es) = f[Len(es)]
  BY <1>1, ReceivesAll
<1> DEFINE S == {n \in 0..Len(es) : Good(f[n]) /\ Frozen(c, f[n])}
<1>3. 0 \in S
  BY <1>1, <1>2 DEF Frozen
<1>4. ASSUME NEW n \in 1..Len(es), n - 1 \in S PROVE n \in S
  <2>1. Good(f[n - 1]) /\ Frozen(c, f[n - 1]) /\ f[n] = Receive(f[n - 1], es[n])
    BY <1>2, <1>4
  <2>2. Good(f[n]) /\ Frozen(f[n - 1], f[n])
    BY <1>1, <2>1, ReceiveGood
  <2> QED
    BY <2>1, <2>2 DEF Frozen
<1>5. Len(es) \in S
  <2> HIDE DEF S
  <2> QED
    BY <1>1, <1>3, <1>4, UpTo
<1> QED
  BY <1>2, <1>5

LEMMA ConnectGood ==
  ASSUME NEW c, Good(c)
  PROVE  Good(Connect(c)) /\ Frozen(c, Connect(c))
<1>1. c \in Clients /\ Fits(c) /\ SocketLimit \in Nat
  BY SyncAssumption DEF Good
<1>2. <<>> \in Seq(Events) /\ Len(<<>>) = 0
  OBVIOUS
<1>3. CASE c.socket \notin {"none", "closing"}
  BY <1>3 DEF Connect, Frozen
<1>4. CASE c.socket \in {"none", "closing"}
  <2>1. Connect(c) = [c EXCEPT !.socket = "opening", !.pending = <<>>, !.status = "CONNECTING"]
    BY <1>4 DEF Connect
  <2>2. Connect(c) \in Clients
    BY <1>1, <1>2, <2>1 DEF Clients
  <2> QED
    BY <1>1, <1>2, <2>1, <2>2 DEF Good, Frozen, Clients, Fits
<1> QED
  BY <1>3, <1>4

LEMMA DisconnectGood ==
  ASSUME NEW c, Good(c)
  PROVE  Good(Disconnect(c)) /\ Disconnect(c).view = c.view /\ Disconnect(c).paused = c.paused
<1>1. c \in Clients /\ Fits(c) /\ SocketLimit \in Nat
  BY SyncAssumption DEF Good
<1>2. <<>> \in Seq(Events) /\ Len(<<>>) = 0
  OBVIOUS
<1>3. Disconnect(c) \in Clients
  BY <1>1, <1>2 DEF Clients, Disconnect
<1> QED
  BY <1>1, <1>2, <1>3 DEF Good, Clients, Fits, Disconnect

LEMMA EndLifecycleGood ==
  ASSUME NEW c, Good(c)
  PROVE  Good(EndLifecycle(c)) /\ EndLifecycle(c).view = c.view /\ EndLifecycle(c).paused = c.paused
<1> DEFINE d == Disconnect(c)
<1>1. Good(d) /\ d.view = c.view /\ d.paused = c.paused /\ PauseLimit \in Nat
  BY DisconnectGood, SyncAssumption
<1>2. <<>> \in Seq(Events) /\ Len(<<>>) = 0 /\ NoFetch \in Fetches
  BY DEF Fetches
<1>3. EndLifecycle(c) = [d EXCEPT !.fetch = NoFetch, !.buffered = <<>>, !.held = <<>>,
                                  !.incomplete = FALSE, !.snapshot = NoSnapshot, !.recovery = FALSE]
  BY DEF EndLifecycle
<1> HIDE DEF d
<1> DEFINE e == [d EXCEPT !.fetch = NoFetch, !.buffered = <<>>, !.held = <<>>,
                          !.incomplete = FALSE, !.snapshot = NoSnapshot, !.recovery = FALSE]
<1>4. d \in Clients
  BY <1>1 DEF Good
<1>5. e \in Clients
  BY <1>2, <1>4 DEF Clients
<1>6. e.pending = d.pending /\ e.held = <<>> /\ e.view = d.view /\ e.paused = d.paused
  BY <1>4 DEF Clients
<1>7. EndLifecycle(c) = e
  BY <1>3
<1> HIDE DEF e
<1>8. Good(e)
  BY <1>1, <1>2, <1>5, <1>6 DEF Good, Fits
<1> QED
  BY <1>1, <1>6, <1>7, <1>8

LEMMA NewLifecycleGood ==
  ASSUME NEW c, Good(c)
  PROVE  Good(NewLifecycle(c)) /\ Frozen(c, NewLifecycle(c))
<1> DEFINE d == EndLifecycle(c)
           f == [d EXCEPT !.attempted = FALSE]
<1>1. Good(d) /\ d.view = c.view /\ d.paused = c.paused
  BY EndLifecycleGood
<1>2. NewLifecycle(c) = Connect(f)
  BY DEF NewLifecycle
<1> HIDE DEF d
<1>3. Good(f) /\ f.view = c.view /\ f.paused = c.paused
  BY <1>1 DEF Good, Clients, Fits
<1> HIDE DEF f
<1>4. Good(Connect(f)) /\ Frozen(f, Connect(f))
  BY <1>3, ConnectGood
<1> QED
  BY <1>2, <1>3, <1>4 DEF Frozen

LEMMA OfflineGood ==
  ASSUME NEW c, Good(c)
  PROVE  Good(Offline(c)) /\ Offline(c).view = c.view /\ Offline(c).paused = c.paused
<1> DEFINE r == c.recovery \/ "recover" \in c.fetch.waiting
<1>1. c \in Clients /\ Fits(c) /\ SocketLimit \in Nat /\ PauseLimit \in Nat
  BY SyncAssumption DEF Good
<1>2. <<>> \in Seq(Events) /\ Len(<<>>) = 0 /\ NoFetch \in Fetches /\ r \in BOOLEAN
  BY DEF Fetches
<1>3. Offline(c) = [c EXCEPT !.socket = "none", !.pending = <<>>, !.status = "OFFLINE",
                             !.recovery = r, !.fetch = NoFetch, !.buffered = <<>>,
                             !.held = <<>>, !.snapshot = NoSnapshot, !.incomplete = FALSE]
  BY <1>1 DEF Offline, Clients
<1> HIDE DEF r
<1> DEFINE e == [c EXCEPT !.socket = "none", !.pending = <<>>, !.status = "OFFLINE",
                          !.recovery = r, !.fetch = NoFetch, !.buffered = <<>>,
                          !.held = <<>>, !.snapshot = NoSnapshot, !.incomplete = FALSE]
        h == [c EXCEPT !.socket = "none", !.pending = <<>>, !.status = "OFFLINE",
                       !.recovery = r]
<1>4. h \in Clients /\ h.view = c.view /\ h.paused = c.paused /\ h.pending = <<>>
  BY <1>1, <1>2 DEF Clients
<1>5. e = [h EXCEPT !.fetch = NoFetch, !.buffered = <<>>,
                    !.held = <<>>, !.snapshot = NoSnapshot, !.incomplete = FALSE]
  BY <1>1 DEF Clients
<1>6. Offline(c) = e
  BY <1>3
<1> HIDE DEF e, h
<1>7. e \in Clients
  BY <1>2, <1>4, <1>5 DEF Clients
<1>8. e.pending = <<>> /\ e.held = <<>> /\ e.view = c.view /\ e.paused = c.paused
  BY <1>4, <1>5 DEF Clients
<1> QED
  BY <1>1, <1>2, <1>6, <1>7, <1>8 DEF Good, Fits

LEMMA FinishAuthenticationGood ==
  ASSUME NEW c, Good(c)
  PROVE  Good(FinishAuthentication(c)) /\ Frozen(c, FinishAuthentication(c))
<1> DEFINE d == [c EXCEPT !.socket = "live", !.status = "LIVE", !.pending = <<>>]
<1>1. c \in Clients /\ Fits(c) /\ SocketLimit \in Nat /\ c.pending \in Seq(Events)
  BY SyncAssumption DEF Good, Clients
<1>2. <<>> \in Seq(Events) /\ Len(<<>>) = 0
  OBVIOUS
<1>3. d \in Clients
  BY <1>1, <1>2 DEF Clients
<1>4. Good(d) /\ d.view = c.view /\ d.paused = c.paused
  BY <1>1, <1>2, <1>3 DEF Good, Clients, Fits
<1>5. FinishAuthentication(c) = IF c.socket # "syncing" THEN c ELSE ReceiveAll(d, c.pending)
  BY DEF FinishAuthentication
<1> HIDE DEF d
<1>6. Good(ReceiveAll(d, c.pending)) /\ Frozen(d, ReceiveAll(d, c.pending))
  BY <1>1, <1>4, ReceiveAllGood
<1> QED
  BY <1>4, <1>5, <1>6 DEF Frozen

LEMMA SynchronizedGood ==
  ASSUME NEW c, Good(c)
  PROVE  Good(Synchronized(c)) /\ Frozen(c, Synchronized(c))
<1> DEFINE done == [c EXCEPT !.fetch = NoFetch, !.buffered = <<>>, !.status = "LIVE"]
<1>1. c \in Clients /\ Fits(c)
  BY DEF Good
<1>2. <<>> \in Seq(Events) /\ NoFetch \in Fetches
  BY DEF Fetches
<1>3. Good(done) /\ done.view = c.view /\ done.paused = c.paused
  BY <1>1, <1>2 DEF Good, Clients, Fits
<1>4. Synchronized(c) = IF "auth" \in c.fetch.waiting THEN FinishAuthentication(done) ELSE done
  BY DEF Synchronized
<1> HIDE DEF done
<1>5. Good(FinishAuthentication(done)) /\ Frozen(done, FinishAuthentication(done))
  BY <1>3, FinishAuthenticationGood
<1> QED
  BY <1>3, <1>4, <1>5 DEF Frozen

-----------------------------------------------------------------------------
(* Types and contract: what a step may show.                               *)

Shown == page = "ready" /\ client.paused
Pages == {"loading", "error", "ready", "restoring", "ended"}

(* The step of a handler: nothing new is published, the types are kept,    *)
(* and nothing changes on a page that is, and stays, paused.               *)
Handled ==
    /\ log' = log /\ page' \in Pages /\ budget' \in Budget
    /\ Good(client')
    /\ Shown /\ Shown' => client'.view = client.view

LEMMA SpendTyped ==
  ASSUME budget \in Budget,
         NEW what \in {"resets", "pauses", "closes", "failures", "refreshes"}, Spend(what)
  PROVE  budget' \in Budget /\ (what # "pauses" => budget'.pauses = budget.pauses)
  BY DEF Budget, Spend

LEMMA SameLog ==
  ASSUME log' = log
  PROVE  Clients' = Clients
  BY DEF Clients, Views, Reads, Past, Events, Fetches

LEMMA HandledTyped ==
  ASSUME Typed, Handled
  PROVE  Typed'
  BY SameLog DEF Typed, Handled, Pages, Good, Fits

LEMMA GrownLog ==
  ASSUME log \in Seq(Keys \cup {Reset}), NEW k \in Keys \cup {Reset}, log' = Append(log, k)
  PROVE  Clients \subseteq Clients'
<1>1. Len(log') = Len(log) + 1 /\ \A i \in 1..Len(log) : log'[i] = log[i]
  OBVIOUS
<1>2. \A l \in Keys : Past(l) \subseteq Past(l)'
  BY <1>1 DEF Past
<1>3. Events \subseteq Events' /\ 0..Len(log) \subseteq 0..Len(log')
  BY <1>1 DEF Events
<1>4. Views \subseteq Views'
  BY <1>2, <1>3 DEF Views
<1>5. Reads \subseteq Reads'
  BY <1>2, <1>3 DEF Reads
<1>6. Fetches \subseteq Fetches'
  BY <1>5 DEF Fetches
<1>7. Seq(Events) \subseteq Seq(Events')
  BY <1>3
<1> QED
  BY <1>3, <1>4, <1>6, <1>7 DEF Clients

LEMMA PublishTyped ==
  ASSUME Typed, NEW k \in Keys \cup {Reset}, Publish(k)
  PROVE  Typed'
<1>1. log' = Append(log, k) /\ Len(log) < MaxEvents /\ client' = client /\ page' = page
  BY DEF Publish
<1>2. budget' \in Budget /\ budget'.pauses = budget.pauses
  BY SpendTyped DEF Publish, Typed
<1>3. Clients \subseteq Clients'
  BY <1>1, GrownLog DEF Typed
<1>4. log' \in Seq(Keys \cup {Reset}) /\ Len(log') <= MaxEvents
  BY <1>1, SyncAssumption DEF Typed
<1> QED
  BY <1>1, <1>2, <1>3, <1>4 DEF Typed, Fits

LEMMA TypedIs ==
  ASSUME Typed
  PROVE  /\ Good(client) /\ client \in Clients /\ page \in Pages /\ budget \in Budget
         /\ log \in Seq(Keys \cup {Reset}) /\ Len(log) \in Nat
  BY DEF Typed, Good, Pages

LEMMA RegisterHandled ==
  ASSUME Typed, Register
  PROVE  Handled
<1>1. Good(client) /\ client \in Clients /\ page \in Pages /\ budget \in Budget /\ Len(log) \in Nat
  BY TypedIs
<1> DEFINE n == Len(log)
<1>2. client' = [client EXCEPT !.socket = "registered", !.pos = n] /\ n \in 0..Len(log)
  BY <1>1 DEF Register
<1> HIDE DEF n
<1>3. Good(client') /\ client'.view = client.view
  BY <1>1, <1>2 DEF Good, Clients, Fits
<1> QED
  BY <1>1, <1>3 DEF Handled, Register

LEMMA ServeHandled ==
  ASSUME Typed, NEW k \in Keys, Serve(k)
  PROVE  Handled
<1>1. /\ Good(client) /\ client \in Clients /\ page \in Pages /\ budget \in Budget
      /\ Len(log) \in Nat /\ log \in Seq(Keys \cup {Reset})
  BY TypedIs
<1> DEFINE v == ValueAt(k, Len(log))
           r == [client.fetch.parts EXCEPT ![k] = v]
           f == [client.fetch EXCEPT !.parts = r]
<1>2. v \in Past(k) /\ v \in 0..Len(log)
  BY <1>1, ValueIsPast
<1>3. client.fetch \in [waiting : SUBSET Waiters, parts : Reads]
  BY <1>1 DEF Serve, Synchronizing, Clients, Fetches
<1> HIDE DEF v
<1>4. r \in Reads
  BY <1>2, <1>3 DEF Reads
<1>5. client' = [client EXCEPT !.fetch = f]
  BY <1>1 DEF Serve, v
<1> HIDE DEF r
<1>6. f \in Fetches
  BY <1>3, <1>4 DEF Fetches
<1> HIDE DEF f
<1>7. Good(client') /\ client'.view = client.view
  BY <1>1, <1>5, <1>6 DEF Good, Clients, Fits
<1> QED
  BY <1>1, <1>7 DEF Handled, Serve

LEMMA FrozenHandled ==
  ASSUME Typed, Good(client'), Frozen(client, client'), log' = log, page' \in Pages,
         budget' \in Budget
  PROVE  Handled
  BY DEF Handled, Shown, Frozen

LEMMA AuthOkHandled ==
  ASSUME Typed, AuthOk
  PROVE  Handled
<1>1. Good(client) /\ client \in Clients /\ page \in Pages /\ budget \in Budget
  BY TypedIs
<1> DEFINE c == [client EXCEPT !.socket = "syncing", !.recovery = FALSE]
<1>2. client' = Synchronize(c, "auth")
  BY DEF AuthOk
<1>3. Good(c) /\ c.view = client.view /\ c.paused = client.paused
  BY <1>1 DEF Good, Clients, Fits
<1> HIDE DEF c
<1>4. Good(client') /\ Frozen(c, client')
  BY <1>2, <1>3, SynchronizeGood DEF Waiters
<1> QED
  BY <1>1, <1>3, <1>4, FrozenHandled DEF AuthOk, Frozen

LEMMA DeliverHandled ==
  ASSUME Typed, Deliver
  PROVE  Handled
<1>1. /\ Good(client) /\ client \in Clients /\ page \in Pages /\ budget \in Budget
      /\ Len(log) \in Nat /\ SocketLimit \in Nat
  BY TypedIs, SyncAssumption
<1> DEFINE e == client.pos + 1
           c == [client EXCEPT !.pos = e]
<1>2. e \in Events /\ e \in 0..Len(log)
  BY <1>1 DEF Deliver, Clients, Events
<1>3. client' = IF c.socket = "live" THEN Receive(c, e)
                ELSE IF Len(c.pending) >= SocketLimit THEN CloseSocket(c)
                ELSE [c EXCEPT !.pending = Append(c.pending, e)]
  <2>1. c \in Clients
    BY <1>1, <1>2 DEF Clients
  <2>2. [c EXCEPT !.pending = Append(@, e)] = [c EXCEPT !.pending = Append(c.pending, e)]
    BY <2>1 DEF Clients
  <2> QED
    BY <2>2 DEF Deliver
<1> HIDE DEF e
<1>4. Good(c) /\ c.view = client.view /\ c.paused = client.paused
  BY <1>1, <1>2 DEF Good, Clients, Fits
<1> HIDE DEF c
<1>5. Good(client') /\ Frozen(c, client')
  <2>1. CASE c.socket = "live"
    BY <1>2, <1>3, <1>4, <2>1, ReceiveGood
  <2>2. CASE c.socket # "live" /\ Len(c.pending) >= SocketLimit
    BY <1>3, <1>4, <2>2, CloseSocketGood
  <2>3. CASE c.socket # "live" /\ ~(Len(c.pending) >= SocketLimit)
    <3> DEFINE p == Append(c.pending, e)
    <3>1. c.pending \in Seq(Events)
      BY <1>4 DEF Good, Clients
    <3>2. p \in Seq(Events) /\ Len(p) <= SocketLimit
      BY <1>1, <1>2, <2>3, <3>1
    <3>3. client' = [c EXCEPT !.pending = p]
      BY <1>3, <2>3
    <3> HIDE DEF p
    <3> QED
      BY <1>4, <3>2, <3>3 DEF Good, Clients, Fits, Frozen
  <2> QED
    BY <2>1, <2>2, <2>3
<1> QED
  BY <1>1, <1>4, <1>5, FrozenHandled DEF Deliver, Frozen

(* The handlers that close a connection.                                   *)
LEMMA ClosingHandled ==
  ASSUME Typed, AuthTimeout \/ Dropped \/ ProfileChanged \/ \E refreshes \in BOOLEAN : Rejected(refreshes)
  PROVE  Handled
<1>1. Good(client) /\ client \in Clients /\ page \in Pages /\ budget \in Budget
  BY TypedIs
<1>2. log' = log /\ page' \in Pages /\ budget' \in Budget
  BY <1>1, SpendTyped DEF AuthTimeout, Dropped, ProfileChanged, Rejected, Pages
<1> DEFINE off == Offline(client)
<1>3. Good(off) /\ off.view = client.view /\ off.paused = client.paused
  BY <1>1, OfflineGood
<1> HIDE DEF off
<1>4. CASE AuthTimeout
  BY <1>1, <1>2, <1>4, CloseSocketGood, FrozenHandled DEF AuthTimeout
<1>5. CASE Dropped
  <2>1. client' = [off EXCEPT !.timer = TRUE]
    BY <1>5 DEF Dropped, off
  <2>2. Good(client') /\ client'.view = client.view
    BY <1>3, <2>1 DEF Good, Clients, Fits
  <2> QED
    BY <1>2, <2>2 DEF Handled
<1>6. CASE ProfileChanged
  <2>1. client' = EndLifecycle(off)
    BY <1>6 DEF ProfileChanged, off
  <2>2. Good(client') /\ client'.view = client.view
    BY <1>3, <2>1, EndLifecycleGood
  <2> QED
    BY <1>2, <2>2 DEF Handled
<1>7. CASE \E refreshes \in BOOLEAN : Rejected(refreshes)
  <2>1. \/ client' = [off EXCEPT !.attempted = TRUE, !.refreshing = TRUE]
        \/ client' = off
    BY <1>7 DEF Rejected, off
  <2>2. Good(client') /\ client'.view = client.view
    BY <1>3, <2>1 DEF Good, Clients, Fits
  <2> QED
    BY <1>2, <2>2 DEF Handled
<1> QED
  BY <1>4, <1>5, <1>6, <1>7

LEMMA ConnectingHandled ==
  ASSUME Typed, ReconnectTimer \/ Reconnect
  PROVE  Handled
<1>1. Good(client) /\ client \in Clients /\ page \in Pages /\ budget \in Budget
  BY TypedIs
<1> DEFINE c == [client EXCEPT !.timer = FALSE]
           d == [client EXCEPT !.socket = "none", !.timer = FALSE]
<1>2. client' = Connect(c) \/ client' = Connect(d)
  BY DEF ReconnectTimer, Reconnect
<1>3. Good(c) /\ c.view = client.view /\ c.paused = client.paused
  BY <1>1 DEF Good, Clients, Fits
<1>4. Good(d) /\ d.view = client.view /\ d.paused = client.paused
  BY <1>1 DEF Good, Clients, Fits
<1> HIDE DEF c, d
<1>5. Good(client') /\ Frozen(client, client')
  BY <1>2, <1>3, <1>4, ConnectGood DEF Frozen
<1> QED
  BY <1>1, <1>5, FrozenHandled DEF ReconnectTimer, Reconnect

LEMMA AnsweredRead ==
  ASSUME Typed, Answered
  PROVE  client.fetch.parts \in Views
<1>1. client.fetch \in [waiting : SUBSET Waiters, parts : Reads]
  BY TypedIs DEF Answered, Synchronizing, Clients, Fetches
<1> QED
  BY <1>1 DEF Answered, Reads, Views

LEMMA LoadedHandled ==
  ASSUME Typed, Loaded
  PROVE  Handled
<1>1. Good(client) /\ client \in Clients /\ page \in Pages /\ budget \in Budget
  BY TypedIs
<1> DEFINE v == client.fetch.parts
           c == [client EXCEPT !.view = v]
<1>2. v \in Views /\ client' = NewLifecycle(c)
  BY AnsweredRead DEF Loaded
<1> HIDE DEF v
<1>3. Good(c)
  BY <1>1, <1>2 DEF Good, Clients, Fits
<1> HIDE DEF c
<1>4. Good(client') /\ ~Shown
  BY <1>2, <1>3, NewLifecycleGood DEF Loaded, Shown
<1> QED
  BY <1>1, <1>4 DEF Handled, Loaded, Pages

LEMMA ReadAgainHandled ==
  ASSUME Typed, ReadAgain
  PROVE  Handled
<1>1. Good(client) /\ client \in Clients /\ page \in Pages /\ budget \in Budget
  BY TypedIs
<1> DEFINE b == SubSeq(client.buffered, LatestReset + 1, Len(client.buffered))
           f == [client.fetch EXCEPT !.parts = NoSnapshot]
<1>2. client.fetch \in [waiting : SUBSET Waiters, parts : Reads]
  BY <1>1 DEF ReadAgain, Answered, Synchronizing, Clients, Fetches
<1>3. f \in Fetches
  BY <1>2, NothingRead DEF Fetches
<1>4. b \in Seq(Events)
  <2>1. client.buffered \in Seq(Events) /\ Len(client.buffered) \in Nat
    BY <1>1 DEF Clients
  <2>2. LatestReset \in 0..Len(client.buffered)
    <3> DEFINE S == {0} \cup {i \in DOMAIN client.buffered : log[client.buffered[i]] = Reset}
    <3>1. S \in SUBSET (0..Len(client.buffered)) /\ S # {}
      BY <2>1
    <3>2. LatestReset = Max(S)
      BY DEF LatestReset
    <3> HIDE DEF S
    <3> QED
      BY <2>1, <3>1, <3>2, MaxOf
  <2> QED
    BY <2>1, <2>2
<1>5. client' = [client EXCEPT !.fetch = f, !.buffered = b]
  BY <1>1 DEF ReadAgain, Clients
<1> HIDE DEF b, f
<1>6. Good(client') /\ client'.view = client.view
  BY <1>1, <1>3, <1>4, <1>5 DEF Good, Clients, Fits
<1> QED
  BY <1>1, <1>6 DEF Handled, ReadAgain

LEMMA CommitHandled ==
  ASSUME Typed, Commit
  PROVE  Handled
<1>1. Good(client) /\ client \in Clients /\ page \in Pages /\ budget \in Budget
  BY TypedIs
<1> DEFINE v == Apply(client.fetch.parts, client.buffered)
           c == [client EXCEPT !.view = v]
<1>2. v \in Views
  BY <1>1, AnsweredRead, AppliedView DEF Commit, Clients
<1>3. client' = Synchronized(c) /\ ~client.paused
  BY DEF Commit
<1> HIDE DEF v
<1>4. Good(c) /\ c.paused = client.paused
  BY <1>1, <1>2 DEF Good, Clients, Fits
<1> HIDE DEF c
<1>5. Good(client') /\ Frozen(client, client')
  BY <1>3, <1>4, SynchronizedGood DEF Frozen
<1> QED
  BY <1>1, <1>5, FrozenHandled DEF Commit

LEMMA DeferHandled ==
  ASSUME Typed, Defer
  PROVE  Handled
<1>1. Good(client) /\ client \in Clients /\ page \in Pages /\ budget \in Budget
      /\ client.buffered \in Seq(Events)
  BY TypedIs DEF Clients
<1> DEFINE s == client.fetch.parts
           c == [client EXCEPT !.snapshot = s]
           d == HoldAll(c, client.buffered)
<1>2. s \in Views
  BY AnsweredRead DEF Defer
<1>3. client' = Synchronized(d)
  BY DEF Defer
<1> HIDE DEF s
<1>4. Good(c) /\ c.paused = client.paused /\ c.view = client.view
  BY <1>1, <1>2 DEF Good, Clients, Fits
<1> HIDE DEF c
<1>5. Good(d) /\ d.paused = client.paused /\ d.view = client.view
  BY <1>1, <1>4, HoldAllGood
<1> HIDE DEF d
<1>6. Good(client') /\ Frozen(client, client')
  BY <1>3, <1>5, SynchronizedGood DEF Frozen
<1> QED
  BY <1>1, <1>6, FrozenHandled DEF Defer

LEMMA FetchFailsHandled ==
  ASSUME Typed, FetchFails
  PROVE  Handled
<1>1. Good(client) /\ client \in Clients /\ page \in Pages /\ budget \in Budget
      /\ <<>> \in Seq(Events) /\ NoFetch \in Fetches
  BY TypedIs DEF Fetches
<1> DEFINE c == [client EXCEPT !.fetch = NoFetch, !.buffered = <<>>]
           off == [c EXCEPT !.status = "OFFLINE"]
<1>2. client' \in {c, RequestRecovery(off), CloseSocket(off)}
  BY DEF FetchFails
<1>3. log' = log /\ page' \in Pages /\ budget' \in Budget
  BY <1>1, SpendTyped DEF FetchFails, Pages
<1>4. Good(c) /\ c.view = client.view /\ c.paused = client.paused
  BY <1>1 DEF Good, Clients, Fits
<1> HIDE DEF c
<1>5. Good(off) /\ off.view = client.view /\ off.paused = client.paused
  BY <1>4 DEF Good, Clients, Fits
<1> HIDE DEF off
<1>6. Good(client') /\ Frozen(client, client')
  BY <1>2, <1>4, <1>5, RequestRecoveryGood, CloseSocketGood DEF Frozen
<1> QED
  BY <1>3, <1>6, FrozenHandled

(* The pages load anew.                                                    *)
LEMMA LoadingHandled ==
  ASSUME Typed, RetryLoad \/ Restored
  PROVE  Handled
<1>1. Good(client) /\ client \in Clients /\ page \in Pages /\ budget \in Budget
  BY TypedIs
<1> DEFINE f == [waiting |-> {"page"}, parts |-> NoSnapshot]
<1>2. f \in Fetches
  BY NothingRead DEF Fetches, Waiters
<1>3. client' = [client EXCEPT !.fetch = f]
  BY DEF RetryLoad, Restored
<1> HIDE DEF f
<1>4. Good(client') /\ client'.view = client.view
  BY <1>1, <1>2, <1>3 DEF Good, Clients, Fits
<1> QED
  BY <1>1, <1>4 DEF Handled, RetryLoad, Restored, Pages

LEMMA PauseHandled ==
  ASSUME Typed, Pause
  PROVE  Handled
<1>1. Good(client) /\ client \in Clients /\ page \in Pages /\ budget \in Budget
  BY TypedIs
<1>2. Good(client') /\ client'.view = client.view
  BY <1>1 DEF Pause, Good, Clients, Fits
<1>3. budget' \in Budget
  BY <1>1, SpendTyped DEF Pause
<1> QED
  BY <1>1, <1>2, <1>3 DEF Handled, Pause

LEMMA ResumeHandled ==
  ASSUME Typed, Resume
  PROVE  Handled
<1>1. Good(client) /\ client \in Clients /\ page \in Pages /\ budget \in Budget
      /\ client.held \in Seq(Events) /\ client.snapshot \in Views \cup {NoSnapshot}
      /\ <<>> \in Seq(Events) /\ Len(<<>>) = 0 /\ PauseLimit \in Nat
  BY TypedIs, SyncAssumption DEF Clients
<1> DEFINE c == [client EXCEPT !.paused = FALSE, !.snapshot = NoSnapshot,
                               !.held = <<>>, !.incomplete = FALSE]
           v == client.snapshot
           shown == IF v = NoSnapshot THEN c ELSE [c EXCEPT !.view = v]
<1>2. client' \in {c, Synchronize(c, "recover"), ReceiveAll(shown, client.held)}
  BY DEF Resume
<1>3. Good(c) /\ c.paused = FALSE
  <2>1. c \in Clients
    BY <1>1 DEF Clients
  <2>2. c.paused = FALSE /\ c.held = <<>> /\ c.pending = client.pending
    BY <1>1 DEF Clients
  <2> QED
    BY <1>1, <2>1, <2>2 DEF Good, Fits
<1> HIDE DEF c
<1>4. v \in Views \cup {NoSnapshot}
  BY <1>1
<1> HIDE DEF v
<1>5. Good(shown) /\ shown.paused = FALSE
  <2>1. CASE v = NoSnapshot
    BY <1>3, <2>1
  <2>2. CASE v # NoSnapshot
    <3> DEFINE d == [c EXCEPT !.view = v]
    <3>1. c \in Clients /\ v \in Views
      BY <1>3, <1>4, <2>2 DEF Good
    <3>2. d \in Clients
      BY <3>1 DEF Clients
    <3>3. d.paused = c.paused /\ d.pending = c.pending /\ d.held = c.held
      BY <3>1 DEF Clients
    <3>4. shown = d
      BY <2>2
    <3> HIDE DEF d, shown
    <3> QED
      BY <1>3, <3>2, <3>3, <3>4 DEF Good, Fits
  <2> QED
    BY <2>1, <2>2
<1> HIDE DEF shown
<1>6. Good(client') /\ ~client'.paused
  BY <1>1, <1>2, <1>3, <1>5, SynchronizeGood, ReceiveAllGood DEF Frozen, Waiters
<1>7. ~Shown'
  BY <1>6 DEF Shown
<1> QED
  BY <1>1, <1>6, <1>7 DEF Handled, Resume

LEMMA NewTokenHandled ==
  ASSUME Typed, NewToken
  PROVE  Handled
<1>1. Good(client) /\ client \in Clients /\ page \in Pages /\ budget \in Budget
  BY TypedIs
<1> DEFINE n == NewLifecycle(client)
<1>2. Good(n) /\ Frozen(client, n)
  BY <1>1, NewLifecycleGood
<1>3. client' = [n EXCEPT !.refreshing = FALSE]
  BY DEF NewToken
<1> HIDE DEF n
<1>4. Good(client') /\ Frozen(client, client')
  BY <1>2, <1>3 DEF Good, Clients, Fits, Frozen
<1>5. budget' \in Budget
  BY <1>1, SpendTyped DEF NewToken
<1> QED
  BY <1>1, <1>4, <1>5, FrozenHandled DEF NewToken

LEMMA EndSessionHandled ==
  ASSUME Typed, EndSession
  PROVE  Handled
<1>1. Good(client) /\ client \in Clients /\ page \in Pages /\ budget \in Budget
  BY TypedIs
<1> DEFINE n == EndLifecycle(client)
           v == [k \in Keys |-> 0]
<1>2. Good(n) /\ v \in Views
  BY <1>1, EndLifecycleGood, TypedIs DEF Views, Past
<1>3. client' = [n EXCEPT !.view = v, !.status = "OFFLINE", !.paused = FALSE, !.refreshing = FALSE]
  BY DEF EndSession
<1> HIDE DEF n, v
<1>4. Good(client') /\ ~Shown'
  BY <1>2, <1>3 DEF Good, Clients, Fits, Shown
<1> QED
  BY <1>1, <1>4 DEF Handled, EndSession, Pages

LEMMA StepHandled ==
  ASSUME Typed, [Next]_vars
  PROVE  Handled \/ \E k \in Keys \cup {Reset} : Publish(k)
<1>1. CASE UNCHANGED vars
  <2>1. Good(client) /\ page \in Pages /\ budget \in Budget
    BY TypedIs
  <2> QED
    BY <1>1, <2>1 DEF vars, Handled
<1>2. CASE Next
  BY <1>2, RegisterHandled, ServeHandled, AuthOkHandled, DeliverHandled, ClosingHandled,
     ConnectingHandled, LoadedHandled, ReadAgainHandled, CommitHandled, DeferHandled,
     FetchFailsHandled, LoadingHandled, PauseHandled, ResumeHandled, NewTokenHandled,
     EndSessionHandled DEF Next
<1> QED
  BY <1>1, <1>2

LEMMA InitTyped == Init => Typed
<1> SUFFICES ASSUME Init PROVE Typed
  OBVIOUS
<1> DEFINE v == [k \in Keys |-> 0]
           f == [waiting |-> {"page"}, parts |-> NoSnapshot]
<1>1. log = <<>> /\ Len(log) = 0 /\ Len(<<>>) = 0 /\ <<>> \in Seq(Events) /\ 0 \in 0..Len(log)
      /\ log \in Seq(Keys \cup {Reset})
  BY DEF Init
<1>2. v \in Views /\ f \in Fetches
  BY <1>1, NothingRead DEF Views, Past, Fetches, Waiters
<1>3. {MaxEvents, SocketLimit, PauseLimit} \subseteq Nat
  BY SyncAssumption
<1>4. client = [view |-> v, status |-> "CONNECTING", paused |-> FALSE,
                socket |-> "none", pos |-> 0, pending |-> <<>>, timer |-> FALSE,
                fetch |-> f, buffered |-> <<>>, held |-> <<>>, incomplete |-> FALSE,
                snapshot |-> NoSnapshot, recovery |-> FALSE, attempted |-> FALSE,
                refreshing |-> FALSE]
  BY DEF Init
<1> HIDE DEF v, f
<1>5. client \in Clients /\ client.pending = <<>> /\ client.held = <<>>
  BY <1>1, <1>2, <1>4 DEF Clients
<1>6. budget \in Budget /\ page = "loading"
  BY BudgetAssumption DEF Init
<1> QED
  BY <1>1, <1>3, <1>5, <1>6 DEF Typed, Fits

LEMMA TypedKept == Typed /\ [Next]_vars => Typed'
  BY StepHandled, HandledTyped, PublishTyped

LEMMA TypedAlways == Spec => []Typed
  BY InitTyped, TypedKept, PTL DEF Spec

(* What a step does to the history.                                        *)
LEMMA StepAstray ==
  ASSUME Next
  PROVE  \/ astray' = astray /\ (page = "ready" => page' = page)
         \/ astray' = FALSE /\ (Dropped \/ (\E refreshes \in BOOLEAN : Rejected(refreshes))
                                 \/ ProfileChanged \/ NewToken \/ EndSession)
         \/ page = "ready" /\ page' = page /\ \E so \in BOOLEAN : astray' = (astray \/ so)
<1>1. CASE \E k \in Keys \cup {Reset} : Publish(k)
  BY <1>1 DEF Publish
<1>2. CASE Register \/ AuthOk \/ Deliver \/ AuthTimeout \/ ReconnectTimer \/ Loaded \/ ReadAgain
           \/ Commit \/ FetchFails \/ RetryLoad \/ Pause \/ Restored \/ \E k \in Keys : Serve(k)
  BY <1>2 DEF Register, AuthOk, Deliver, AuthTimeout, ReconnectTimer, Loaded, ReadAgain,
     Commit, FetchFails, RetryLoad, Pause, Restored, Serve
<1>3. CASE Dropped \/ ProfileChanged \/ NewToken \/ EndSession
           \/ \E refreshes \in BOOLEAN : Rejected(refreshes)
  BY <1>3 DEF Dropped, ProfileChanged, NewToken, EndSession, Rejected
<1>4. CASE Defer
  <2> DEFINE so == client.held # <<>> /\ client.buffered # <<>>
  <2>1. so \in BOOLEAN /\ astray' = (astray \/ so) /\ page = "ready" /\ page' = page
    BY <1>4 DEF Defer, Strays
  <2> QED
    BY <2>1
<1>5. CASE Reconnect
  <2> DEFINE so == client.held # <<>> \/ client.incomplete
  <2>1. (so <=> TRUE) \in BOOLEAN /\ astray' = (astray \/ so) /\ page = "ready" /\ page' = page
    BY <1>5 DEF Reconnect, Strays, Banner
  <2>2. astray' = (astray \/ (so <=> TRUE))
    BY <2>1
  <2> QED
    BY <2>1, <2>2
<1>6. CASE Resume
  <2> DEFINE so == client.incomplete /\ Synchronizing(client)
  <2>1. so \in BOOLEAN /\ astray' = (astray \/ so) /\ page = "ready" /\ page' = page
    BY <1>6 DEF Resume, Strays
  <2> QED
    BY <2>1
<1> QED
  BY <1>1, <1>2, <1>3, <1>4, <1>5, <1>6 DEF Next

LEMMA TypedIsTypeOK == Typed /\ astray \in BOOLEAN => TypeOK
<1> SUFFICES ASSUME Typed, astray \in BOOLEAN PROVE TypeOK
  OBVIOUS
<1>1. Len(log) \in Nat /\ Len(log) <= MaxEvents /\ MaxEvents \in Nat
  BY TypedIs, SyncAssumption DEF Typed
<1>2. Events \subseteq Positions /\ 0..Len(log) \subseteq Positions
  BY <1>1 DEF Events, Positions
<1>3. Seq(Events) \subseteq Seq(Positions)
  BY <1>2
<1>4. Views \subseteq [Keys -> Positions]
  BY <1>2 DEF Views
<1>5. Reads \subseteq [Keys -> Positions \cup {Unread}]
  BY <1>2 DEF Reads
<1>6. Views \cup {NoSnapshot} \subseteq [Keys -> Positions \cup {Unread}]
  BY <1>4 DEF NoSnapshot
<1>7. Fetches \subseteq Fetch \cup {NoFetch}
  BY <1>5 DEF Fetches, Fetch, Waiters
<1>8. Clients \subseteq Client
  BY <1>2, <1>3, <1>4, <1>6, <1>7 DEF Clients, Client
<1> QED
  BY <1>8 DEF Typed, TypeOK, Fits

(* Types of what a browser keeps: no buffer grows past its limit (the      *)
(* pendingEvents of FactorySocket, bufferPausedEvent), for any keys and    *)
(* limits.                                                                 *)
THEOREM TypeCorrect == Spec => []TypeOK
<1>1. Init => astray \in BOOLEAN
  BY DEF Init
<1>2. astray \in BOOLEAN /\ [Next]_vars => (astray \in BOOLEAN)'
  BY StepAstray DEF vars
<1> QED
  BY <1>1, <1>2, TypedAlways, TypedIsTypeOK, PTL DEF Spec

LEMMA StepOfContract ==
  ASSUME Typed, Typed', [Next]_vars
  PROVE  [Contract!Next]_(Contract!vars)
<1>1. CASE Handled
  <2>1. log' = log /\ client'.view \in Views'
    BY <1>1 DEF Handled, Typed, Clients
  <2>2. /\ client'.view \in [Keys -> 0..Len(log)]
        /\ \A k \in Keys : client'.view[k] \in Contract!Past(k)
    BY <2>1 DEF Views, Past, Contract!Past
  <2>3. (page' = "ready" /\ client'.paused) \in BOOLEAN
    OBVIOUS
  <2>4. (page = "ready" /\ client.paused) /\ (page' = "ready" /\ client'.paused)
        => client'.view = client.view
    BY <1>1 DEF Handled, Shown
  <2>5. Contract!Show
    BY <2>1, <2>2, <2>3, <2>4 DEF Contract!Show
  <2> QED
    BY <2>5 DEF Contract!Next
<1>2. CASE \E k \in Keys \cup {Reset} : Publish(k)
  <2>1. PICK k \in Keys \cup {Reset} : Publish(k)
    BY <1>2
  <2>2. Contract!Change(k)
    BY <2>1 DEF Publish, Contract!Change
  <2> QED
    BY <2>2 DEF Contract!Next
<1> QED
  BY <1>1, <1>2, StepHandled

(* However connections break and snapshots, events and buffers race, the   *)
(* page shows values that its keys have had, and nothing changes on it     *)
(* while it is paused (useFactorySocket implements LiveViewContract).      *)
THEOREM ContractImplemented == Spec => ImplementsContract
<1>1. Init => Contract!Init
  BY DEF Init, Contract!Init
<1>2. Typed /\ Typed' /\ [Next]_vars => [Contract!Next]_(Contract!vars)
  BY StepOfContract
<1> QED
  BY <1>1, <1>2, TypedAlways, PTL DEF Spec, ImplementsContract, Contract!Spec

-----------------------------------------------------------------------------
(* What has been received.                                                 *)

(* The value of k after the first n changes of the log l: ValueAt.         *)
Upto(l, k, n) == Max({0} \cup {i \in 1..n : l[i] \in {k, Reset}})

(* The events es are those that follow the first n.                        *)
Follow(es, n) == \A i \in 1..Len(es) : es[i] = n + i
(* What has been read is no older than the first n events.                 *)
Covers(c, l, n) ==
    \A k \in Keys : c.fetch.parts[k] # Unread => c.fetch.parts[k] >= Upto(l, k, n)

(* The snapshot, and what is buffered after it, will show the first n.     *)
Reading(c, l, n) ==
    Follow(c.buffered, n - Len(c.buffered)) /\ Covers(c, l, n - Len(c.buffered))
(* The first n events are shown, or will be when the snapshot is there.    *)
TakenIn(c, l, n) ==
    /\ Synchronizing(c) => Reading(c, l, n)
    /\ ~Synchronizing(c) => \A k \in Keys : c.view[k] >= Upto(l, k, n)

-----------------------------------------------------------------------------
(* The connection, whether the view is paused or not.                      *)

Syncing(c, l) ==
    c.socket = "syncing" =>
        /\ Synchronizing(c) /\ c.fetch.waiting = {"auth"} /\ c.buffered = <<>>
        /\ Follow(c.pending, c.pos - Len(c.pending))
        /\ Covers(c, l, c.pos - Len(c.pending))
Opening(c) == c.socket \in {"opening", "registered"} => c.pending = <<>>
Hearing(c) == c.socket \in {"syncing", "live"} => ~c.recovery
Status(c) ==
    /\ c.status = "LIVE" => c.socket \in {"live", "closing"}
    /\ ~Synchronizing(c) => c.buffered = <<>>
Mounted(c) ==
    /\ Synchronizing(c) => c.socket \in {"syncing", "live", "closing"} /\ c.status = "CONNECTING"
    /\ c.timer => c.socket = "none"
Unmounted(c) == c.socket = "none" /\ c.status # "LIVE" /\ ~c.timer

Stands(c, l, p) ==
    /\ Syncing(c, l) /\ Opening(c) /\ Hearing(c) /\ Status(c)
    /\ p = "ready" => Mounted(c)
    /\ p # "ready" => Unmounted(c)

(* Nothing is live, so nothing is claimed of the view.                     *)
Apart(c, l, p) == Stands(c, l, p) /\ c.socket # "live"

-----------------------------------------------------------------------------
(* The view.  One that is not paused has taken in what the socket got, and *)
(* keeps nothing for later.                                                *)
Clear(c) == c.held = <<>> /\ c.snapshot = NoSnapshot /\ ~c.incomplete
Hooked(c) == Synchronizing(c) \/ c.status = "LIVE"
Sound(c, l, p) ==
    /\ ~c.paused /\ Stands(c, l, p) /\ Clear(c)
    /\ c.socket = "live" => TakenIn(c, l, c.pos) /\ Hooked(c)

(* A view that is paused holds back the last of the n events, unless some  *)
(* are lost and Resume reads again.  What came before them Resume would    *)
(* show first, or the snapshot that is still read will.                    *)
Replayed(c) == IF c.snapshot = NoSnapshot THEN c.view ELSE c.snapshot
Behind(c, l, n) ==
    /\ Follow(c.held, n - Len(c.held))
    /\ Synchronizing(c) => Reading(c, l, n - Len(c.held))
    /\ ~Synchronizing(c) => \A k \in Keys : Replayed(c)[k] >= Upto(l, k, n - Len(c.held))
Holding(c, l, n) ==
    /\ c.paused /\ ~c.timer /\ c.socket = "live" /\ ~c.recovery
    /\ Synchronizing(c) => c.status = "CONNECTING"
    /\ ~Synchronizing(c) => c.status = "LIVE" /\ c.buffered = <<>>
    /\ c.snapshot # NoSnapshot => c.status = "LIVE"
    /\ ~c.incomplete => Behind(c, l, n)

Waits(c, l, p) ==
    /\ c.paused /\ Stands(c, l, p)
    /\ c.socket = "live" => Holding(c, l, c.pos)
    /\ c.socket \notin {"live", "closing"} => c.held = <<>> /\ ~c.incomplete
    /\ c.snapshot # NoSnapshot => c.socket \in {"live", "closing"} /\ c.status = "LIVE"

(* Either the view is astray, until its connection ends, or it is one of   *)
(* the two.                                                                *)
Followed ==
    /\ page # "ready" => ~astray
    /\ ~astray => Sound(client, log, page) \/ Waits(client, log, page)

-----------------------------------------------------------------------------
(* The events a socket has received.                                       *)

LEMMA ValuesUpto ==
  ASSUME log \in Seq(Keys \cup {Reset}), NEW k \in Keys, NEW n \in 0..Len(log)
  PROVE  /\ Upto(log, k, n) \in 0..n
         /\ Upto(log, k, n) # 0 => log[Upto(log, k, n)] \in {k, Reset}
         /\ \A i \in 1..n : log[i] \in {k, Reset} => i <= Upto(log, k, n)
<1>1. Upto(log, k, n) = ValueAt(k, n)
  BY DEF Upto, ValueAt
<1>2. Upto(log, k, n) \in Past(k)
  BY <1>1, ValueIsPast
<1> QED
  BY <1>1, <1>2, ValueIsPast DEF Past

LEMMA UptoGrows ==
  ASSUME log \in Seq(Keys \cup {Reset}), NEW k \in Keys, NEW n \in 0..Len(log), NEW m \in 0..n
  PROVE  /\ Upto(log, k, m) <= Upto(log, k, n)
         /\ Upto(log, k, n) <= m => Upto(log, k, n) <= Upto(log, k, m)
<1>1. m \in 0..Len(log) /\ Len(log) \in Nat
  OBVIOUS
<1> DEFINE u == Upto(log, k, n)
           v == Upto(log, k, m)
<1>2. /\ u \in 0..n /\ (u # 0 => log[u] \in {k, Reset})
      /\ \A i \in 1..n : log[i] \in {k, Reset} => i <= u
  BY ValuesUpto
<1>3. /\ v \in 0..m /\ (v # 0 => log[v] \in {k, Reset})
      /\ \A i \in 1..m : log[i] \in {k, Reset} => i <= v
  BY <1>1, ValuesUpto
<1> HIDE DEF u, v
<1> SUFFICES v <= u /\ (u <= m => u <= v)
  BY DEF u, v
<1> QED
  BY <1>1, <1>2, <1>3

(* A snapshot, and the events after it, are everything.                    *)
LEMMA CaughtUp ==
  ASSUME log \in Seq(Keys \cup {Reset}), NEW n \in 0..Len(log), NEW c, c \in Clients,
         Synchronizing(c), TakenIn(c, log, n),
         \A k \in Keys : c.fetch.parts[k] # Unread,
         \A i \in 1..Len(c.buffered) : log[c.buffered[i]] # Reset
  PROVE  \A k \in Keys : Apply(c.fetch.parts, c.buffered)[k] >= Upto(log, k, n)
<1> TAKE k \in Keys
<1> DEFINE b == c.buffered
           m == n - Len(b)
           u == Upto(log, k, n)
           part == c.fetch.parts[k]
           shown == Apply(c.fetch.parts, b)[k]
<1>1. b \in Seq(Events) /\ Len(b) \in Nat /\ DOMAIN b = 1..Len(b) /\ Len(log) \in Nat
  BY DEF Clients
<1>2. \A i \in 1..Len(b) : b[i] = m + i /\ b[i] \in 1..Len(log)
  <2>1. Follow(b, m)
    BY DEF TakenIn, Reading
  <2>2. ASSUME NEW i \in 1..Len(b) PROVE b[i] \in Events
    BY <1>1
  <2> HIDE DEF b, m
  <2> QED
    BY <2>1, <2>2 DEF Follow, Events
<1>3. m \in 0..n
  <2>1. CASE Len(b) = 0
    BY <2>1
  <2>2. CASE Len(b) # 0
    <3>1. 1 \in 1..Len(b)
      BY <1>1, <2>2
    <3>2. b[1] = m + 1 /\ b[1] \in 1..Len(log)
      BY <1>2, <3>1
    <3> HIDE DEF b
    <3> QED
      BY <1>1, <3>2
  <2> QED
    BY <2>1, <2>2
<1>4. part >= Upto(log, k, m)
  BY DEF TakenIn, Reading, Covers
<1>5. u \in 0..n /\ (u # 0 => log[u] \in {k, Reset})
  BY ValuesUpto
<1>6. u <= m => u <= Upto(log, k, m)
  BY <1>3, UptoGrows
<1>7. Upto(log, k, m) \in 0..m
  BY <1>1, <1>3, ValuesUpto
<1>8. \/ shown = part /\ \A i \in 1..Len(b) : log[b[i]] # k
      \/ \E j \in 1..Len(b) :
            /\ shown = b[j]
            /\ \A i \in 1..Len(b) : log[b[i]] = k => i <= j
  <2>1. Len(b) \in Nat /\ DOMAIN b = 1..Len(b) /\ k \in Keys
    BY <1>1
  <2> DEFINE w == Apply(c.fetch.parts, b)[k]
  <2>2. \/ w = c.fetch.parts[k] /\ \A i \in DOMAIN b : log[b[i]] # k
        \/ \E j \in DOMAIN b : /\ w = b[j] /\ log[b[j]] = k
                                /\ \A i \in DOMAIN b : log[b[i]] = k => i <= j
    <3> HIDE DEF b
    <3> QED
      BY <2>1, AppliedValue
  <2>3. shown = w /\ part = c.fetch.parts[k]
    OBVIOUS
  <2> HIDE DEF b, w, shown, part
  <2> QED
    BY <2>1, <2>2, <2>3
<1>9. part \in Int
  <2>1. c.fetch \in [waiting : SUBSET Waiters, parts : Reads]
    BY DEF Clients, Fetches, Synchronizing
  <2> QED
    BY <1>1, <2>1 DEF Reads, Unread
<1>10. \A i \in 1..Len(b) : log[b[i]] # Reset
  OBVIOUS
<1>11. SUFFICES shown >= u
  OBVIOUS
<1> HIDE DEF b, u, part, shown
<1>12. CASE u <= m
  <2>1. CASE shown = part
    BY <1>3, <1>4, <1>5, <1>6, <1>7, <1>9, <1>12, <2>1
  <2>2. CASE \E j \in 1..Len(b) : shown = b[j]
    BY <1>1, <1>2, <1>3, <1>5, <1>12, <2>2
  <2> QED
    BY <1>8, <2>1, <2>2
<1>13. CASE u > m
  <2> DEFINE i == u - m
  <2>1. i \in 1..Len(b) /\ b[i] = u
    BY <1>1, <1>2, <1>3, <1>5, <1>13
  <2>2. log[u] \in {k, Reset}
    BY <1>3, <1>5, <1>13
  <2>3. log[b[i]] = k
    BY <1>10, <2>1, <2>2
  <2> HIDE DEF i
  <2>4. PICK j \in 1..Len(b) : shown = b[j] /\ i <= j
    BY <1>8, <2>1, <2>3
  <2>5. b[j] = m + j /\ b[i] = m + i
    BY <1>2, <2>1
  <2> QED
    BY <1>1, <1>3, <2>1, <2>4, <2>5
<1> QED
  BY <1>3, <1>5, <1>12, <1>13

(* A socket that receives, or is being closed; it has taken in n events    *)
(* and read p.                                                             *)
Taking(c, l, n, p) ==
    /\ ~c.paused /\ ~c.timer /\ c.pos = p /\ Clear(c)
    /\ c.socket \in {"live", "closing"}
    /\ ~Synchronizing(c) => c.buffered = <<>>
    /\ Synchronizing(c) => c.status = "CONNECTING"
    /\ c.socket = "live" => ~c.recovery /\ TakenIn(c, l, n) /\ Hooked(c)

LEMMA TakingSound ==
  ASSUME NEW c, NEW l, NEW p, Taking(c, l, p, p)
  PROVE  Sound(c, l, "ready")
  BY DEF Taking, Sound, Stands, Syncing, Opening, Hearing, Status, Mounted

LEMMA ReceiveTaking ==
  ASSUME log \in Seq(Keys \cup {Reset}), NEW c, Good(c), NEW p, NEW n \in Nat, n + 1 \in Events,
         Taking(c, log, n, p)
  PROVE  /\ Taking(Receive(c, n + 1), log, n + 1, p)
         /\ c.socket = "closing" => Receive(c, n + 1).socket = "closing"
<1> DEFINE e == n + 1
           d == Receive(c, e)
           b == c.buffered
<1>1. c \in Clients /\ b \in Seq(Events) /\ Len(b) \in Nat /\ ~c.paused /\ Len(log) \in Nat
  BY DEF Good, Clients, Taking
<1>2. n \in 0..Len(log) /\ e \in 0..Len(log) /\ e \in 1..Len(log)
  BY DEF Events
<1>3. CASE Synchronizing(c) /\ Len(b) >= SocketLimit
  <2>1. d = RequestRecovery(c)
    BY <1>1, <1>3 DEF Receive
  <2>2. CASE c.recovery
    <3>1. d = c /\ c.socket # "live"
      BY <2>1, <2>2 DEF RequestRecovery, Taking
    <3> QED
      BY <3>1 DEF Taking
  <2>3. CASE ~c.recovery
    <3> DEFINE f == [c EXCEPT !.recovery = TRUE, !.fetch = NoFetch, !.buffered = <<>>,
                              !.status = "OFFLINE"]
    <3>1. d = CloseSocket(f)
      BY <2>1, <2>3 DEF RequestRecovery
    <3>2. /\ f.socket = c.socket /\ f.fetch = NoFetch /\ f.buffered = <<>> /\ f.paused = c.paused
          /\ f.timer = c.timer /\ f.pos = c.pos
          /\ f.held = c.held /\ f.snapshot = c.snapshot /\ f.incomplete = c.incomplete
      BY <1>1 DEF Clients
    <3>5. f \in Clients
      <4>1. <<>> \in Seq(Events) /\ NoFetch \in Fetches
        BY DEF Fetches
      <4> QED
        BY <1>1, <4>1 DEF Clients
    <3> HIDE DEF f
    <3>3. d = [f EXCEPT !.socket = "closing", !.pending = <<>>]
      BY <3>1, <3>2 DEF CloseSocket, Taking
    <3>4. /\ d.socket = "closing" /\ d.fetch = NoFetch /\ d.buffered = <<>> /\ d.paused = c.paused
          /\ d.timer = c.timer /\ d.pos = c.pos
          /\ d.held = c.held /\ d.snapshot = c.snapshot /\ d.incomplete = c.incomplete
      BY <3>2, <3>3, <3>5 DEF Clients
    <3> HIDE DEF d
    <3>6. Taking(d, log, e, p)
      BY <3>4, <1>1 DEF Taking, Clear, Synchronizing
    <3> QED
      BY <3>4, <3>6 DEF d
  <2> QED
    BY <2>2, <2>3
<1>4. CASE Synchronizing(c) /\ ~(Len(b) >= SocketLimit)
  <2> DEFINE a == Append(b, e)
  <2>1. d = [c EXCEPT !.buffered = a]
    BY <1>1, <1>4 DEF Receive
  <2>2. Len(a) = Len(b) + 1 /\ e - Len(a) = n - Len(b)
    <3>1. Len(a) = Len(b) + 1
      BY <1>1
    <3> HIDE DEF a, b
    <3> QED
      BY <1>1, <3>1
  <2>3. Follow(b, n - Len(b)) => Follow(a, e - Len(a))
    <3> SUFFICES ASSUME Follow(b, n - Len(b)), NEW i \in 1..Len(a) PROVE a[i] = n - Len(b) + i
      BY <2>2 DEF Follow
    <3>1. CASE i = Len(a)
      BY <1>1, <2>2, <3>1
    <3>2. CASE i # Len(a)
      <4>1. i \in 1..Len(b) /\ a[i] = b[i]
        BY <1>1, <2>2, <3>2
      <4> QED
        BY <4>1 DEF Follow
    <3> QED
      BY <3>1, <3>2
  <2> HIDE DEF a, e
  <2>4. /\ d.buffered = a /\ d.paused = c.paused /\ d.timer = c.timer /\ d.pos = c.pos
        /\ d.socket = c.socket /\ d.fetch = c.fetch /\ d.status = c.status
        /\ d.recovery = c.recovery
        /\ d.held = c.held /\ d.snapshot = c.snapshot /\ d.incomplete = c.incomplete
    BY <1>1, <2>1 DEF Clients
  <2> HIDE DEF d
  <2>5. TakenIn(c, log, n) => TakenIn(d, log, e)
    BY <1>4, <2>2, <2>3, <2>4 DEF TakenIn, Reading, Covers, Synchronizing
  <2>6. Taking(d, log, e, p)
    BY <1>4, <2>4, <2>5 DEF Taking, Clear, Hooked, Synchronizing
  <2> QED
    BY <2>4, <2>6 DEF d, e
<1>5. CASE ~Synchronizing(c) /\ log[e] = Reset
  <2> DEFINE g == [waiting |-> {"recover"}, parts |-> NoSnapshot]
  <2>1. d = [c EXCEPT !.fetch = g, !.status = "CONNECTING"]
    BY <1>1, <1>5 DEF Receive, Synchronize
  <2>2. g # NoFetch /\ g.parts = NoSnapshot
    BY DEF NoFetch
  <2> HIDE DEF g, e
  <2>3. /\ d.buffered = b /\ d.paused = c.paused /\ d.timer = c.timer /\ d.pos = c.pos
        /\ d.socket = c.socket /\ d.fetch = g /\ d.status = "CONNECTING"
        /\ d.recovery = c.recovery
        /\ d.held = c.held /\ d.snapshot = c.snapshot /\ d.incomplete = c.incomplete
    BY <1>1, <2>1 DEF Clients
  <2> HIDE DEF d
  <2>4. b = <<>> /\ Synchronizing(d)
    BY <1>5, <2>2, <2>3 DEF Taking, Synchronizing
  <2>5. Covers(d, log, e) /\ Follow(d.buffered, e) /\ e - Len(d.buffered) = e
    BY <1>2, <2>2, <2>3, <2>4 DEF Covers, NoSnapshot, Follow
  <2>6. TakenIn(d, log, e)
    BY <2>4, <2>5 DEF TakenIn, Reading
  <2>7. Taking(d, log, e, p)
    BY <2>3, <2>4, <2>6 DEF Taking, Clear, Hooked
  <2> QED
    BY <2>3, <2>7 DEF d, e
<1>6. CASE ~Synchronizing(c) /\ log[e] # Reset
  <2> DEFINE v == Apply(c.view, <<e>>)
  <2>1. d = [c EXCEPT !.view = v]
    BY <1>1, <1>6 DEF Receive
  <2>2. ASSUME NEW k \in Keys, c.view[k] >= Upto(log, k, n) PROVE v[k] >= Upto(log, k, e)
    <3>1. \/ v[k] = c.view[k] /\ log[e] # k
          \/ v[k] = e
      <4>1. Len(<<e>>) = 1 /\ DOMAIN <<e>> = 1..1 /\ <<e>>[1] = e
        OBVIOUS
      <4> HIDE DEF e
      <4> QED
        BY <4>1, AppliedValue
    <3>2. /\ Upto(log, k, e) \in 0..e
          /\ Upto(log, k, e) # 0 => log[Upto(log, k, e)] \in {k, Reset}
      BY <1>2, ValuesUpto
    <3>3. Upto(log, k, e) <= n => Upto(log, k, e) <= Upto(log, k, n)
      BY <1>2, UptoGrows
    <3>4. Upto(log, k, n) \in 0..n
      BY <1>2, ValuesUpto
    <3>5. c.view[k] \in Int
      BY <1>1 DEF Clients, Views
    <3> HIDE DEF v
    <3> QED
      BY <1>2, <1>6, <2>2, <3>1, <3>2, <3>3, <3>4, <3>5
  <2> HIDE DEF v, e
  <2>3. /\ d.buffered = b /\ d.paused = c.paused /\ d.timer = c.timer /\ d.pos = c.pos
        /\ d.socket = c.socket /\ d.fetch = c.fetch /\ d.view = v
        /\ d.recovery = c.recovery /\ d.status = c.status
        /\ d.held = c.held /\ d.snapshot = c.snapshot /\ d.incomplete = c.incomplete
    BY <1>1, <2>1 DEF Clients
  <2> HIDE DEF d
  <2>4. TakenIn(c, log, n) => TakenIn(d, log, e)
    BY <1>6, <2>2, <2>3 DEF TakenIn, Synchronizing
  <2>5. Taking(d, log, e, p)
    BY <1>6, <2>3, <2>4 DEF Taking, Clear, Hooked, Synchronizing
  <2> QED
    BY <2>3, <2>5 DEF d, e
<1> QED
  BY <1>3, <1>4, <1>5, <1>6

LEMMA ReceiveAllTaking ==
  ASSUME log \in Seq(Keys \cup {Reset}), NEW c, Good(c), NEW p, NEW n \in Nat,
         NEW es \in Seq(Events), Follow(es, n), Taking(c, log, n, p)
  PROVE  Taking(ReceiveAll(c, es), log, n + Len(es), p)
<1>1. Len(es) \in Nat /\ \A i \in 1..Len(es) : es[i] = n + i /\ es[i] \in Events
  BY DEF Follow
<1>2. PICK f : /\ f[0] = c
               /\ \A i \in 1..Len(es) : f[i] = Receive(f[i - 1], es[i])
               /\ ReceiveAll(c, es) = f[Len(es)]
  BY <1>1, ReceivesAll
<1> DEFINE S == {i \in 0..Len(es) : Good(f[i]) /\ Taking(f[i], log, n + i, p)}
<1>3. 0 \in S
  BY <1>1, <1>2
<1>4. ASSUME NEW i \in 1..Len(es), i - 1 \in S PROVE i \in S
  <2> DEFINE m == n + (i - 1)
  <2>1. /\ Good(f[i - 1]) /\ Taking(f[i - 1], log, m, p) /\ m \in Nat /\ m + 1 = n + i
        /\ f[i] = Receive(f[i - 1], m + 1) /\ m + 1 \in Events
    BY <1>1, <1>2, <1>4
  <2> HIDE DEF m
  <2>2. Good(f[i]) /\ Taking(f[i], log, m + 1, p)
    BY <2>1, ReceiveGood, ReceiveTaking
  <2> QED
    BY <2>1, <2>2
<1>5. Len(es) \in S
  <2> HIDE DEF S
  <2> QED
    BY <1>1, <1>3, <1>4, UpTo
<1> QED
  BY <1>2, <1>5

(* Events of an earlier connection do a socket no harm that is closing.    *)
LEMMA ReceiveAllClosing ==
  ASSUME log \in Seq(Keys \cup {Reset}), NEW c, Good(c), NEW p, NEW n,
         NEW es \in Seq(Events), c.socket = "closing", Taking(c, log, n, p)
  PROVE  Taking(ReceiveAll(c, es), log, n, p) /\ ReceiveAll(c, es).socket = "closing"
<1>1. Len(es) \in Nat /\ Len(log) \in Nat /\ \A i \in 1..Len(es) : es[i] \in Events
  OBVIOUS
<1>2. PICK f : /\ f[0] = c
               /\ \A i \in 1..Len(es) : f[i] = Receive(f[i - 1], es[i])
               /\ ReceiveAll(c, es) = f[Len(es)]
  BY <1>1, ReceivesAll
<1> DEFINE S == {i \in 0..Len(es) : Good(f[i]) /\ Taking(f[i], log, n, p)
                                     /\ f[i].socket = "closing"}
<1>3. 0 \in S
  BY <1>1, <1>2
<1>4. ASSUME NEW i \in 1..Len(es), i - 1 \in S PROVE i \in S
  <2> DEFINE m == es[i] - 1
             g == f[i - 1]
  <2>1. /\ Good(g) /\ Taking(g, log, n, p) /\ g.socket = "closing"
        /\ f[i] = Receive(g, m + 1) /\ m \in Nat /\ m + 1 \in Events
    BY <1>1, <1>2, <1>4 DEF Events
  <2> HIDE DEF m, g
  <2>2. Taking(g, log, m, p)
    BY <2>1 DEF Taking
  <2>3. Good(f[i]) /\ Taking(f[i], log, m + 1, p) /\ f[i].socket = "closing"
    BY <2>1, <2>2, ReceiveGood, ReceiveTaking
  <2>4. Taking(f[i], log, n, p)
    BY <2>3 DEF Taking
  <2> QED
    BY <2>3, <2>4
<1>5. Len(es) \in S
  <2> HIDE DEF S
  <2> QED
    BY <1>1, <1>3, <1>4, UpTo
<1> QED
  BY <1>2, <1>5

-----------------------------------------------------------------------------
(* The states between two connections.                                     *)

Idle(c) == c.socket = "none" /\ c.status # "LIVE" /\ c.fetch = NoFetch /\ c.buffered = <<>>
Closed(c) ==
    /\ c.socket = "closing" /\ ~c.timer
    /\ ~Synchronizing(c) => c.buffered = <<>>
    /\ Synchronizing(c) => c.status = "CONNECTING"
Opened(c) ==
    /\ c.socket \in {"opening", "registered"} /\ ~c.timer /\ c.pending = <<>>
    /\ c.status # "LIVE" /\ c.fetch = NoFetch /\ c.buffered = <<>>
Between(c, p) ==
    \/ p = "ready" /\ (Idle(c) \/ Closed(c) \/ Opened(c))
    \/ p # "ready" /\ Idle(c) /\ ~c.timer

LEMMA BetweenApart ==
  ASSUME NEW c, NEW l, NEW p, Between(c, p)
  PROVE  Apart(c, l, p)
  BY DEF Between, Idle, Closed, Opened, Apart, Stands, Syncing, Opening, Hearing, Status,
         Mounted, Unmounted, Synchronizing

LEMMA OfflineIdle ==
  ASSUME NEW c, Good(c)
  PROVE  /\ Idle(Offline(c)) /\ Clear(Offline(c)) /\ Offline(c).timer = c.timer
         /\ Offline(c).paused = c.paused
  BY DEF Good, Clients, Offline, Idle, Clear

LEMMA CloseSocketCloses ==
  ASSUME NEW c, Good(c), c.socket # "none", ~c.timer,
         ~Synchronizing(c) => c.buffered = <<>>,
         Synchronizing(c) => c.status = "CONNECTING"
  PROVE  Closed(CloseSocket(c))
<1> DEFINE d == CloseSocket(c)
<1>1. /\ d.socket = "closing" /\ d.timer = c.timer /\ d.fetch = c.fetch
      /\ d.buffered = c.buffered /\ d.status = c.status
  BY DEF Good, Clients, CloseSocket
<1> HIDE DEF d
<1>2. Closed(d)
  BY <1>1 DEF Closed, Synchronizing
<1> QED
  BY <1>2 DEF d

(* What the connection does not touch.                                     *)
Keeps(c, d) ==
    /\ d.held = c.held /\ d.snapshot = c.snapshot /\ d.incomplete = c.incomplete
    /\ d.paused = c.paused

LEMMA KeepsClear ==
  ASSUME NEW c, NEW d, Keeps(c, d), Clear(c)
  PROVE  Clear(d)
  BY DEF Keeps, Clear

LEMMA CloseSocketKeeps ==
  ASSUME NEW c, Good(c)
  PROVE  Keeps(c, CloseSocket(c))
  BY DEF Good, Clients, CloseSocket, Keeps

LEMMA ConnectOpens ==
  ASSUME NEW c, Good(c), c.socket \in {"none", "closing"}, ~c.timer,
         c.fetch = NoFetch, c.buffered = <<>>
  PROVE  Opened(Connect(c)) /\ Keeps(c, Connect(c))
<1> DEFINE d == Connect(c)
<1>1. d = [c EXCEPT !.socket = "opening", !.pending = <<>>, !.status = "CONNECTING"]
  BY DEF Connect
<1>2. /\ d.socket = "opening" /\ d.paused = c.paused /\ d.timer = c.timer /\ d.fetch = c.fetch
      /\ d.buffered = c.buffered /\ d.status = "CONNECTING" /\ d.pending = <<>>
      /\ d.held = c.held /\ d.snapshot = c.snapshot /\ d.incomplete = c.incomplete
  BY <1>1 DEF Good, Clients
<1> HIDE DEF d
<1>3. Opened(d) /\ Keeps(c, d)
  BY <1>2 DEF Opened, Keeps
<1> QED
  BY <1>3 DEF d

LEMMA EndLifecycleEnds ==
  ASSUME NEW c, Good(c)
  PROVE  /\ EndLifecycle(c).socket = "none" /\ ~EndLifecycle(c).timer
         /\ EndLifecycle(c).fetch = NoFetch /\ EndLifecycle(c).buffered = <<>>
         /\ Clear(EndLifecycle(c))
         /\ EndLifecycle(c).status = c.status /\ EndLifecycle(c).paused = c.paused
<1> DEFINE d == Disconnect(c)
           e == EndLifecycle(c)
<1>1. d \in Clients
  BY DisconnectGood DEF Good
<1>2. d.socket = "none" /\ d.timer = FALSE /\ d.status = c.status /\ d.paused = c.paused
  BY DEF Good, Clients, Disconnect
<1>3. e = [d EXCEPT !.fetch = NoFetch, !.buffered = <<>>, !.held = <<>>,
                    !.incomplete = FALSE, !.snapshot = NoSnapshot, !.recovery = FALSE]
  BY DEF EndLifecycle
<1> HIDE DEF d
<1>4. /\ e.socket = d.socket /\ e.timer = d.timer /\ e.fetch = NoFetch /\ e.buffered = <<>>
      /\ e.status = d.status /\ e.paused = d.paused
      /\ e.held = <<>> /\ e.incomplete = FALSE /\ e.snapshot = NoSnapshot
  BY <1>1, <1>3 DEF Clients
<1> HIDE DEF e
<1>5. Clear(e)
  BY <1>4 DEF Clear
<1> QED
  BY <1>2, <1>4, <1>5 DEF e

LEMMA NewLifecycleOpens ==
  ASSUME NEW c, Good(c)
  PROVE  /\ Opened(NewLifecycle(c)) /\ Clear(NewLifecycle(c))
         /\ NewLifecycle(c).paused = c.paused
<1> DEFINE d == EndLifecycle(c)
           f == [d EXCEPT !.attempted = FALSE]
<1>1. /\ Good(d) /\ d.socket = "none" /\ ~d.timer /\ d.fetch = NoFetch /\ Clear(d)
      /\ d.buffered = <<>> /\ d.paused = c.paused
  BY EndLifecycleGood, EndLifecycleEnds
<1>2. NewLifecycle(c) = Connect(f)
  BY DEF NewLifecycle
<1> HIDE DEF d
<1>3. /\ Good(f) /\ f.socket = "none" /\ f.timer = d.timer /\ f.fetch = NoFetch
      /\ Keeps(d, f) /\ f.buffered = d.buffered
  BY <1>1 DEF Good, Clients, Fits, Keeps
<1> HIDE DEF f
<1>4. Opened(Connect(f)) /\ Keeps(f, Connect(f))
  BY <1>1, <1>3, ConnectOpens
<1> QED
  BY <1>1, <1>2, <1>3, <1>4, KeepsClear DEF Keeps

-----------------------------------------------------------------------------
(* The steps that do not depend on whether the view is paused: they leave  *)
(* no live socket, and what is kept for later as it was, or nothing.       *)

Standing == Stands(client, log, page)

(* No snapshot is kept for later by a view that is paused, and no event is *)
(* held back.                                                              *)
Unshown ==
    \/ client.socket \notin {"live", "closing"}
    \/ Synchronizing(client)
    \/ client.status # "LIVE"
Bare ==
    \/ client.socket \notin {"live", "closing"}
    \/ client.held = <<>> /\ ~client.incomplete

Apartly ==
    /\ Apart(client', log, page')
    /\ \/ Clear(client') /\ (client'.paused => client.paused)
       \/ Unshown /\ Keeps(client, client') /\ (Bare \/ client'.socket = "closing")

LEMMA StandingIs ==
  ASSUME Typed, Standing
  PROVE  /\ Syncing(client, log) /\ Opening(client) /\ Hearing(client) /\ Status(client)
         /\ page = "ready" => Mounted(client)
         /\ page # "ready" => Unmounted(client)
         /\ client.socket # "none" => page = "ready" /\ ~client.timer
         /\ client \in Clients /\ Good(client)
  BY TypedIs DEF Standing, Stands, Mounted, Unmounted

LEMMA RegisterApart ==
  ASSUME Typed, Standing, Register
  PROVE  Apartly
<1>1. /\ client'.socket = "registered" /\ client'.paused = client.paused
      /\ client'.timer = client.timer /\ client'.fetch = client.fetch
      /\ client'.buffered = client.buffered /\ client'.status = client.status
      /\ client'.pending = client.pending /\ page' = page
      /\ Keeps(client, client')
  BY StandingIs DEF Register, Clients, Keeps
<1>2. Opened(client') /\ page' = "ready"
  BY <1>1, StandingIs DEF Register, Opened, Opening, Status, Mounted, Synchronizing
<1>3. Apart(client', log, page')
  BY <1>2, BetweenApart DEF Between
<1> QED
  BY <1>1, <1>3 DEF Apartly, Unshown, Bare, Register

LEMMA AuthTimeoutApart ==
  ASSUME Typed, Standing, AuthTimeout
  PROVE  Apartly
<1>1. client.socket # "none" /\ page = "ready" /\ ~client.timer
  BY StandingIs DEF AuthTimeout
<1>2. client' = CloseSocket(client) /\ page' = page /\ Unshown /\ Bare
  BY DEF AuthTimeout, Unshown, Bare
<1>3. Closed(client') /\ Keeps(client, client')
  BY <1>1, <1>2, StandingIs, CloseSocketCloses, CloseSocketKeeps DEF Status, Mounted
<1> QED
  BY <1>1, <1>2, <1>3, BetweenApart DEF Between, Apartly

(* A connection ends, whatever the view was.                               *)
Ends == Apart(client', log, page') /\ Clear(client')

LEMMA ClosingEnds ==
  ASSUME Typed, page = "ready",
         Dropped \/ ProfileChanged \/ \E refreshes \in BOOLEAN : Rejected(refreshes)
  PROVE  Ends
<1> DEFINE off == Offline(client)
<1>1. Idle(off) /\ Clear(off) /\ Good(off)
  BY TypedIs, OfflineIdle, OfflineGood
<1> HIDE DEF off
<1>2. CASE Dropped
  <2>1. client' = [off EXCEPT !.timer = TRUE] /\ page' = page
    BY <1>2 DEF Dropped, off
  <2>2. Idle(client') /\ Clear(client')
    BY <1>1, <2>1 DEF Idle, Clear, Good, Clients
  <2> QED
    BY <2>1, <2>2, BetweenApart DEF Between, Ends
<1>3. CASE ProfileChanged
  <2>1. client' = EndLifecycle(off) /\ page' = "restoring"
    BY <1>3 DEF ProfileChanged, off
  <2>2. Idle(client') /\ ~client'.timer /\ Clear(client')
    BY <1>1, <2>1, EndLifecycleEnds DEF Idle
  <2> QED
    BY <2>1, <2>2, BetweenApart DEF Between, Ends
<1>4. CASE \E refreshes \in BOOLEAN : Rejected(refreshes)
  <2>1. /\ \/ client' = [off EXCEPT !.attempted = TRUE, !.refreshing = TRUE]
           \/ client' = off
        /\ page' = page
    BY <1>4 DEF Rejected, off
  <2>2. Idle(client') /\ Clear(client')
    BY <1>1, <2>1 DEF Idle, Clear, Good, Clients
  <2> QED
    BY <2>1, <2>2, BetweenApart DEF Between, Ends
<1> QED
  BY <1>2, <1>3, <1>4

LEMMA ConnectingApart ==
  ASSUME Typed, Standing, ReconnectTimer \/ Reconnect, ~astray'
  PROVE  Apartly
<1> DEFINE c == [client EXCEPT !.timer = FALSE]
           d == [client EXCEPT !.socket = "none", !.timer = FALSE]
<1>1. client' \in {Connect(c), Connect(d)} /\ page' = page /\ (ReconnectTimer => client' = Connect(c))
  BY DEF ReconnectTimer, Reconnect
<1>2. page = "ready" /\ client.fetch = NoFetch /\ client.buffered = <<>> /\ Unshown /\ Bare
  <2>1. CASE ReconnectTimer
    BY <2>1, StandingIs
    DEF ReconnectTimer, Mounted, Unmounted, Status, Synchronizing, Unshown, Bare
  <2>2. CASE Reconnect
    <3>1. page = "ready" /\ client.status \notin {"CONNECTING", "LIVE"}
      BY <2>2 DEF Reconnect, Banner
    <3>2. ~client.incomplete /\ client.held = <<>>
      BY <2>2 DEF Reconnect, Strays
    <3> QED
      BY <3>1, <3>2, StandingIs DEF Mounted, Status, Synchronizing, Unshown, Bare
  <2> QED
    BY <2>1, <2>2
<1>3. /\ Good(c) /\ c.socket = client.socket /\ ~c.timer /\ Keeps(client, c)
      /\ c.fetch = client.fetch /\ c.buffered = client.buffered
  BY StandingIs DEF Good, Clients, Fits, Keeps
<1>4. /\ Good(d) /\ d.socket = "none" /\ ~d.timer /\ Keeps(client, d)
      /\ d.fetch = client.fetch /\ d.buffered = client.buffered
  BY StandingIs DEF Good, Clients, Fits, Keeps
<1>5. ReconnectTimer => client.socket = "none"
  BY <1>2, StandingIs DEF ReconnectTimer, Mounted
<1>6. Reconnect /\ ~ReconnectTimer => client' = Connect(d)
  BY DEF Reconnect
<1> HIDE DEF c, d
<1>7. Opened(client') /\ Keeps(client, client')
  <2>1. Opened(Connect(d)) /\ Keeps(d, Connect(d))
    BY <1>2, <1>4, ConnectOpens
  <2>2. ReconnectTimer => Opened(Connect(c)) /\ Keeps(c, Connect(c))
    BY <1>2, <1>3, <1>5, ConnectOpens
  <2> QED
    BY <1>1, <1>3, <1>4, <1>6, <2>1, <2>2 DEF Keeps
<1> QED
  BY <1>1, <1>2, <1>7, BetweenApart DEF Between, Apartly

LEMMA LoadedApart ==
  ASSUME Typed, Standing, Loaded
  PROVE  Apartly
<1> DEFINE v == client.fetch.parts
           c == [client EXCEPT !.view = v]
<1>1. v \in Views /\ client' = NewLifecycle(c) /\ page' = "ready"
  BY AnsweredRead DEF Loaded
<1> HIDE DEF v
<1>2. Good(c) /\ c.paused = client.paused
  BY <1>1, StandingIs DEF Good, Clients, Fits
<1> HIDE DEF c
<1>3. Opened(client') /\ Clear(client') /\ client'.paused = client.paused
  BY <1>1, <1>2, NewLifecycleOpens
<1> QED
  BY <1>1, <1>3, BetweenApart DEF Between, Apartly

LEMMA NewTokenEnds ==
  ASSUME Typed, NewToken
  PROVE  Ends
<1> DEFINE n == NewLifecycle(client)
<1>1. Opened(n) /\ Good(n) /\ Clear(n)
  BY TypedIs, NewLifecycleOpens, NewLifecycleGood
<1>2. client' = [n EXCEPT !.refreshing = FALSE] /\ page' = "ready"
  BY DEF NewToken
<1> HIDE DEF n
<1>3. Opened(client') /\ Clear(client')
  BY <1>1, <1>2 DEF Opened, Good, Clients, Clear
<1> QED
  BY <1>2, <1>3, BetweenApart DEF Between, Ends

LEMMA EndSessionEnds ==
  ASSUME Typed, EndSession
  PROVE  Ends
<1> DEFINE n == EndLifecycle(client)
           v == [k \in Keys |-> 0]
<1>1. /\ Good(n) /\ n.socket = "none" /\ ~n.timer /\ n.fetch = NoFetch /\ n.buffered = <<>>
      /\ Clear(n)
  BY TypedIs, EndLifecycleEnds, EndLifecycleGood
<1>2. client' = [n EXCEPT !.view = v, !.status = "OFFLINE", !.paused = FALSE, !.refreshing = FALSE]
      /\ page' = "ended"
  BY DEF EndSession
<1> HIDE DEF n, v
<1>3. Idle(client') /\ ~client'.timer /\ Clear(client')
  BY <1>1, <1>2 DEF Idle, Good, Clients, Clear
<1> QED
  BY <1>2, <1>3, BetweenApart DEF Between, Ends

LEMMA LoadingApart ==
  ASSUME Typed, Standing, RetryLoad \/ Restored
  PROVE  Apartly
<1> DEFINE f == [waiting |-> {"page"}, parts |-> NoSnapshot]
<1>1. client' = [client EXCEPT !.fetch = f] /\ page' = "loading" /\ page # "ready"
  BY DEF RetryLoad, Restored
<1>2. f # NoFetch
  BY DEF NoFetch
<1> HIDE DEF f
<1>3. /\ client'.paused = client.paused /\ client'.socket = client.socket /\ client'.fetch = f
      /\ client'.timer = client.timer /\ client'.status = client.status /\ Keeps(client, client')
  BY <1>1, StandingIs DEF Clients, Keeps
<1>4. Apart(client', log, page')
  BY <1>1, <1>2, <1>3, StandingIs DEF Apart, Stands, Syncing, Opening, Hearing, Status,
     Unmounted, Synchronizing
<1> QED
  BY <1>1, <1>3, <1>4, StandingIs DEF Apartly, Unshown, Bare, Unmounted

(* What is read is never older than what the events say.                   *)
LEMMA ServeCovers ==
  ASSUME Typed, NEW k \in Keys, Serve(k), NEW n \in 0..Len(log), Covers(client, log, n)
  PROVE  Covers(client', log, n)
<1> DEFINE v == ValueAt(k, Len(log))
           r == [client.fetch.parts EXCEPT ![k] = v]
           f == [client.fetch EXCEPT !.parts = r]
<1>1. log \in Seq(Keys \cup {Reset}) /\ Len(log) \in Nat /\ client \in Clients
  BY TypedIs
<1>2. v >= Upto(log, k, n)
  <2>1. v = Upto(log, k, Len(log)) /\ Len(log) \in 0..Len(log)
    BY <1>1 DEF ValueAt, Upto
  <2>2. Upto(log, k, n) <= Upto(log, k, Len(log)) /\ Upto(log, k, n) \in 0..n
    BY <1>1, <2>1, UptoGrows, ValuesUpto
  <2>3. Upto(log, k, Len(log)) \in 0..Len(log)
    BY <1>1, <2>1, ValuesUpto
  <2> QED
    BY <2>1, <2>2, <2>3
<1>3. client.fetch \in [waiting : SUBSET Waiters, parts : Reads]
  BY <1>1 DEF Serve, Synchronizing, Clients, Fetches
<1>4. client' = [client EXCEPT !.fetch = f]
  BY <1>1 DEF Serve, Clients
<1> HIDE DEF v
<1>5. r[k] = v /\ \A l \in Keys : l # k => r[l] = client.fetch.parts[l]
  BY <1>3 DEF Reads
<1> HIDE DEF r
<1>6. client'.fetch.parts = r
  BY <1>1, <1>3, <1>4 DEF Clients
<1> QED
  BY <1>2, <1>5, <1>6 DEF Covers

(* The events that were buffered follow a first n of them.                 *)
LEMMA BaseOf ==
  ASSUME Len(log) \in Nat, NEW es \in Seq(Events), NEW n \in 0..Len(log),
         Follow(es, n - Len(es))
  PROVE  n - Len(es) \in 0..n
<1>1. Len(es) \in Nat
  OBVIOUS
<1>2. CASE Len(es) = 0
  BY <1>2
<1>3. CASE Len(es) # 0
  <2>1. 1 \in 1..Len(es) /\ es[1] \in Events
    BY <1>1, <1>3
  <2>2. es[1] = n - Len(es) + 1
    BY <2>1 DEF Follow
  <2> QED
    BY <1>1, <2>1, <2>2 DEF Events
<1> QED
  BY <1>2, <1>3

(* One more event after those that follow the first n.                     *)
LEMMA FollowsOn ==
  ASSUME NEW es \in Seq(Events), NEW n \in Nat, n + 1 \in Events, Follow(es, n - Len(es)),
         NEW a, a = Append(es, n + 1)
  PROVE  /\ a \in Seq(Events) /\ Len(a) = Len(es) + 1
         /\ n + 1 - Len(a) = n - Len(es) /\ Follow(a, n + 1 - Len(a))
<1>1. /\ a \in Seq(Events) /\ Len(es) \in Nat /\ Len(a) = Len(es) + 1 /\ a[Len(a)] = n + 1
      /\ \A i \in 1..Len(es) : a[i] = es[i]
  OBVIOUS
<1>2. n + 1 - Len(a) = n - Len(es)
  BY <1>1
<1>3. ASSUME NEW i \in 1..Len(a) PROVE a[i] = n - Len(es) + i
  <2>1. CASE i = Len(a)
    BY <1>1, <2>1
  <2>2. CASE i # Len(a)
    BY <1>1, <2>2 DEF Follow
  <2> QED
    BY <2>1, <2>2
<1>4. Follow(a, n + 1 - Len(a))
  BY <1>2, <1>3 DEF Follow
<1> QED
  BY <1>1, <1>2, <1>4

LEMMA AuthOkApart ==
  ASSUME Typed, Standing, AuthOk
  PROVE  Apartly
<1> DEFINE c == [client EXCEPT !.socket = "syncing", !.recovery = FALSE]
           g == [waiting |-> {"auth"}, parts |-> NoSnapshot]
<1>1. /\ client \in Clients /\ client.pos \in Nat /\ page = "ready" /\ page' = page
      /\ client.pending = <<>> /\ client.fetch = NoFetch /\ client.buffered = <<>>
      /\ ~client.timer /\ Unshown /\ Bare
  BY StandingIs DEF AuthOk, Opening, Mounted, Status, Synchronizing, Clients, Unshown, Bare
<1>2. /\ c \in Clients /\ c.fetch = NoFetch /\ c.pending = <<>> /\ c.buffered = <<>> /\ ~c.timer
      /\ c.socket = "syncing" /\ ~c.recovery /\ Keeps(client, c)
  BY <1>1 DEF Clients, Keeps
<1>3. client' = Synchronize(c, "auth")
  BY DEF AuthOk
<1> HIDE DEF c
<1>4. client' = [c EXCEPT !.fetch = g, !.status = "CONNECTING"]
  BY <1>2, <1>3 DEF Synchronize, Synchronizing
<1>5. g # NoFetch /\ g.waiting = {"auth"} /\ g.parts = NoSnapshot
  BY DEF NoFetch
<1> HIDE DEF g
<1>6. /\ client'.fetch = g /\ client'.pending = <<>> /\ client'.buffered = <<>>
      /\ ~client'.timer /\ client'.socket = "syncing" /\ ~client'.recovery
      /\ client'.status = "CONNECTING" /\ Keeps(client, client')
  BY <1>2, <1>4 DEF Clients, Keeps
<1>7. Covers(client', log, client'.pos - Len(client'.pending))
  BY <1>5, <1>6 DEF Covers, NoSnapshot
<1>8. Follow(client'.pending, client'.pos - Len(client'.pending))
  BY <1>6 DEF Follow
<1>9. Apart(client', log, "ready")
  BY <1>5, <1>6, <1>7, <1>8
  DEF Apart, Stands, Syncing, Opening, Hearing, Status, Mounted, Synchronizing
<1> QED
  BY <1>1, <1>6, <1>9 DEF Apartly

LEMMA DeliverApart ==
  ASSUME Typed, Standing, Deliver, client.socket # "live"
  PROVE  Apartly
<1> DEFINE e == client.pos + 1
           c == [client EXCEPT !.pos = e]
           p == client.pending
           a == Append(p, e)
<1>1. /\ client \in Clients /\ client.pos \in 0..Len(log) /\ Len(log) \in Nat
      /\ p \in Seq(Events) /\ client.socket = "syncing" /\ Unshown /\ Bare
      /\ page = "ready" /\ page' = page /\ ~client.timer
  BY TypedIs, StandingIs DEF Deliver, Clients, Unshown, Bare
<1>2. e \in Events /\ e \in 0..Len(log) /\ client.pos \in Nat
  BY <1>1 DEF Deliver, Events
<1>3. client' = IF Len(c.pending) >= SocketLimit THEN CloseSocket(c) ELSE [c EXCEPT !.pending = a]
  <2>1. c \in Clients /\ c.socket = client.socket
    BY <1>1, <1>2 DEF Clients
  <2>2. [c EXCEPT !.pending = Append(@, e)] = [c EXCEPT !.pending = a]
    BY <2>1 DEF Clients
  <2> QED
    BY <1>1, <2>1, <2>2 DEF Deliver
<1>4. /\ Synchronizing(client) /\ client.fetch.waiting = {"auth"} /\ ~client.recovery
      /\ client.buffered = <<>> /\ Follow(p, client.pos - Len(p))
      /\ Covers(client, log, client.pos - Len(p))
      /\ client.status = "CONNECTING"
  BY <1>1, StandingIs DEF Syncing, Hearing, Mounted
<1>5. Len(a) = Len(p) + 1 /\ e - Len(a) = client.pos - Len(p) /\ Follow(a, e - Len(a))
  <2> DEFINE n == client.pos
  <2>1. /\ p \in Seq(Events) /\ n \in Nat /\ n + 1 \in Events /\ Follow(p, n - Len(p))
        /\ a = Append(p, n + 1) /\ e = n + 1
    BY <1>1, <1>2, <1>4
  <2> HIDE DEF a, p, e, n
  <2>2. Len(a) = Len(p) + 1 /\ n + 1 - Len(a) = n - Len(p) /\ Follow(a, n + 1 - Len(a))
    BY <2>1, FollowsOn
  <2>3. Len(a) = Len(p) + 1 /\ e - Len(a) = n - Len(p) /\ Follow(a, e - Len(a))
    BY <2>1, <2>2
  <2> QED
    BY <2>3 DEF n
<1> HIDE DEF a, e
<1>6. /\ Good(c) /\ c.pos = e /\ c.socket = client.socket
      /\ c.timer = client.timer /\ c.fetch = client.fetch /\ c.buffered = client.buffered
      /\ c.status = client.status /\ c.recovery = client.recovery
      /\ Keeps(client, c)
  BY <1>1, <1>2, StandingIs DEF Good, Clients, Fits, Keeps
<1> HIDE DEF c
<1>7. CASE Len(c.pending) >= SocketLimit
  <2>1. client' = CloseSocket(c)
    BY <1>3, <1>7
  <2>2. Closed(client') /\ Keeps(c, client')
    BY <1>1, <1>4, <1>6, <2>1, CloseSocketCloses, CloseSocketKeeps DEF Synchronizing
  <2> QED
    BY <1>1, <1>6, <2>2, BetweenApart DEF Between, Apartly, Keeps
<1>8. CASE ~(Len(c.pending) >= SocketLimit)
  <2>1. client' = [c EXCEPT !.pending = a]
    BY <1>3, <1>8
  <2>2. /\ client'.pending = a /\ client'.pos = e /\ client'.socket = "syncing"
        /\ client'.timer = client.timer
        /\ client'.fetch = client.fetch /\ client'.buffered = client.buffered
        /\ client'.status = client.status /\ client'.recovery = client.recovery
        /\ Keeps(client, client')
    BY <1>1, <1>6, <2>1 DEF Good, Clients, Keeps
  <2>3. Covers(client', log, e - Len(a))
    BY <1>4, <1>5, <2>2 DEF Covers
  <2>4. Apart(client', log, "ready")
    BY <1>1, <1>4, <1>5, <2>2, <2>3
    DEF Apart, Stands, Syncing, Opening, Hearing, Status, Mounted, Synchronizing
  <2> QED
    BY <1>1, <2>2, <2>4 DEF Apartly
<1> QED
  BY <1>7, <1>8

(* A request of a snapshot is answered.                                    *)
LEMMA ServeStands ==
  ASSUME Typed, Standing, NEW k \in Keys, Serve(k)
  PROVE  /\ Stands(client', log, page') /\ Keeps(client, client') /\ page' = page
         /\ Synchronizing(client) /\ Synchronizing(client')
         /\ client'.socket = client.socket /\ client'.pos = client.pos
         /\ client'.buffered = client.buffered
<1>1. /\ client \in Clients /\ Len(log) \in Nat /\ client.pos \in 0..Len(log)
      /\ client.pending \in Seq(Events)
  BY TypedIs DEF Clients
<1>2. Synchronizing(client) /\ page' = page
  BY DEF Serve
<1> DEFINE f == [client.fetch EXCEPT !.parts[k] = ValueAt(k, Len(log))]
<1>3. client' = [client EXCEPT !.fetch = f]
  BY <1>1 DEF Serve, Clients
<1>4. f # NoFetch /\ f.waiting = client.fetch.waiting
  <2>1. client.fetch \in [waiting : SUBSET Waiters, parts : Reads]
    BY <1>1, <1>2 DEF Synchronizing, Clients, Fetches
  <2> QED
    BY <2>1 DEF NoFetch
<1> HIDE DEF f
<1>5. /\ client'.fetch = f /\ client'.buffered = client.buffered /\ client'.socket = client.socket
      /\ client'.timer = client.timer /\ client'.pos = client.pos
      /\ client'.pending = client.pending /\ client'.status = client.status
      /\ client'.recovery = client.recovery /\ Keeps(client, client')
  BY <1>1, <1>3 DEF Clients, Keeps
<1>6. Synchronizing(client')
  BY <1>4, <1>5 DEF Synchronizing
<1>7. Syncing(client', log)
  <2> SUFFICES ASSUME client.socket = "syncing" PROVE Syncing(client', log)
    BY <1>5 DEF Syncing
  <2> DEFINE n == client.pos - Len(client.pending)
  <2>1. /\ Follow(client.pending, n) /\ Covers(client, log, n)
        /\ client.fetch.waiting = {"auth"} /\ client.buffered = <<>>
    BY StandingIs DEF Syncing
  <2>2. n \in 0..client.pos
    BY <1>1, <2>1, BaseOf
  <2>3. n \in 0..Len(log)
    BY <1>1, <2>2
  <2> HIDE DEF n
  <2>4. Covers(client', log, n)
    BY <2>1, <2>3, ServeCovers
  <2> QED
    BY <1>4, <1>5, <1>6, <2>1, <2>4 DEF Syncing, n
<1>8. Opening(client') /\ Hearing(client') /\ Status(client')
  BY <1>5, <1>6, StandingIs DEF Opening, Hearing, Status
<1>9. page = "ready" => Mounted(client')
  BY <1>2, <1>5, <1>6, StandingIs DEF Mounted
<1>10. page # "ready" => Unmounted(client')
  BY <1>5, StandingIs DEF Unmounted
<1> QED
  BY <1>2, <1>5, <1>6, <1>7, <1>8, <1>9, <1>10 DEF Stands

LEMMA ServeApart ==
  ASSUME Typed, Standing, NEW k \in Keys, Serve(k), client.socket # "live"
  PROVE  Apartly
  BY ServeStands DEF Apartly, Apart, Unshown, Bare

LEMMA FetchFailsApart ==
  ASSUME Typed, Standing, FetchFails
  PROVE  Apartly
<1> DEFINE c == [client EXCEPT !.fetch = NoFetch, !.buffered = <<>>]
           off == [c EXCEPT !.status = "OFFLINE"]
<1>1. client \in Clients /\ Good(client) /\ Synchronizing(client) /\ Unshown
  BY TypedIs DEF FetchFails, Unshown
<1>2. <<>> \in Seq(Events) /\ NoFetch \in Fetches
  BY DEF Fetches
<1>3. /\ page = "loading" => page' = "error" /\ client' = c
      /\ page # "loading" => page' = page /\ client' \in {RequestRecovery(off), CloseSocket(off)}
  BY DEF FetchFails
<1>4. /\ Good(c) /\ c.fetch = NoFetch /\ c.buffered = <<>> /\ c.socket = client.socket
      /\ c.timer = client.timer /\ c.recovery = client.recovery
      /\ c.status = client.status /\ Keeps(client, c)
  BY <1>1, <1>2 DEF Good, Clients, Fits, Keeps
<1> HIDE DEF c
<1>5. /\ Good(off) /\ off.fetch = NoFetch /\ off.buffered = <<>> /\ off.socket = client.socket
      /\ off.timer = client.timer /\ off.recovery = client.recovery
      /\ off.status = "OFFLINE" /\ Keeps(client, off)
  BY <1>4 DEF Good, Clients, Fits, Keeps
<1> HIDE DEF off
<1>6. CASE page = "loading"
  <2>1. Idle(client') /\ ~client'.timer /\ page' # "ready"
    BY <1>3, <1>4, <1>6, StandingIs DEF Idle, Unmounted
  <2> QED
    BY <1>1, <1>3, <1>4, <1>6, <2>1, BetweenApart, StandingIs
    DEF Between, Apartly, Bare, Unmounted
<1> DEFINE f == [off EXCEPT !.recovery = TRUE, !.fetch = NoFetch, !.buffered = <<>>,
                            !.status = "OFFLINE"]
<1>7. /\ Good(f) /\ f.fetch = NoFetch /\ f.buffered = <<>> /\ f.socket = client.socket
      /\ f.timer = client.timer /\ f.status = "OFFLINE" /\ Keeps(client, f)
  BY <1>2, <1>5 DEF Good, Clients, Fits, Keeps
<1>8. RequestRecovery(off) = IF client.recovery THEN off ELSE CloseSocket(f)
  BY <1>5 DEF RequestRecovery
<1> HIDE DEF f
<1>9. Keeps(off, CloseSocket(off)) /\ Keeps(f, CloseSocket(f))
  BY <1>5, <1>7, CloseSocketKeeps
<1>10. page # "loading" => Keeps(client, client')
  BY <1>3, <1>5, <1>7, <1>8, <1>9 DEF Keeps
<1>11. CASE page = "ready"
  <2>1. client.socket \in {"syncing", "live", "closing"} /\ ~client.timer
    BY <1>1, <1>11, StandingIs DEF Mounted
  <2>2. Closed(CloseSocket(off)) /\ Closed(CloseSocket(f))
    BY <1>5, <1>7, <2>1, CloseSocketCloses DEF Synchronizing
  <2>3. client.recovery => client.socket = "closing"
    BY <2>1, StandingIs DEF Hearing
  <2>4. client.recovery => Closed(off)
    BY <1>5, <2>1, <2>3 DEF Closed, Synchronizing
  <2>5. Closed(client') /\ page' = "ready"
    BY <1>3, <1>8, <1>11, <2>2, <2>4
  <2> QED
    BY <1>1, <1>10, <1>11, <2>5, BetweenApart DEF Between, Apartly, Closed
<1>12. CASE page \notin {"loading", "ready"}
  <2>1. client.socket = "none" /\ ~client.timer
    BY <1>12, StandingIs DEF Unmounted
  <2>2. CloseSocket(off) = off /\ CloseSocket(f) = f
    BY <1>5, <1>7, <2>1 DEF CloseSocket
  <2>3. Idle(off) /\ ~off.timer /\ Idle(f) /\ ~f.timer
    BY <1>5, <1>7, <2>1 DEF Idle
  <2>4. Idle(client') /\ ~client'.timer /\ page' # "ready"
    BY <1>3, <1>8, <1>12, <2>2, <2>3
  <2> QED
    BY <1>1, <1>10, <1>12, <2>1, <2>4, BetweenApart DEF Between, Apartly, Bare
<1> QED
  BY <1>6, <1>11, <1>12

-----------------------------------------------------------------------------
(* A live socket hands events to a view that is paused ...                 *)

LEMMA ReceiveHolding ==
  ASSUME log \in Seq(Keys \cup {Reset}), NEW c, Good(c), NEW n \in Nat,
         n + 1 \in Events, Holding(c, log, n)
  PROVE  Holding(Receive(c, n + 1), log, n + 1) /\ Receive(c, n + 1).pos = c.pos
<1> DEFINE e == n + 1
           h == c.held
           d == Receive(c, e)
<1>1. /\ c \in Clients /\ h \in Seq(Events) /\ Len(h) \in Nat /\ Len(log) \in Nat
  BY DEF Good, Clients
<1>2. d = Hold(c, e)
  BY DEF Receive, Holding
<1>3. CASE Len(h) >= PauseLimit
  <2> DEFINE a == Append(Tail(h), e)
  <2>1. d = [c EXCEPT !.held = a, !.incomplete = TRUE]
    BY <1>2, <1>3 DEF Hold
  <2> HIDE DEF a
  <2>2. /\ d.paused = c.paused /\ d.timer = c.timer /\ d.socket = c.socket /\ d.status = c.status
        /\ d.fetch = c.fetch /\ d.buffered = c.buffered /\ d.recovery = c.recovery
        /\ d.incomplete /\ d.pos = c.pos /\ d.snapshot = c.snapshot
    BY <1>1, <2>1 DEF Clients
  <2> HIDE DEF d, e
  <2>3. Holding(d, log, e) /\ d.pos = c.pos
    BY <2>2 DEF Holding, Synchronizing
  <2> QED
    BY <2>3 DEF d, e
<1>4. CASE ~(Len(h) >= PauseLimit)
  <2> DEFINE a == Append(h, e)
  <2>1. d = [c EXCEPT !.held = a]
    BY <1>1, <1>2, <1>4 DEF Hold, Clients
  <2>2. ASSUME Follow(h, n - Len(h))
        PROVE  e - Len(a) = n - Len(h) /\ Follow(a, e - Len(a))
    <3>1. a = Append(h, n + 1) /\ e = n + 1
      OBVIOUS
    <3> HIDE DEF a, h, e
    <3>2. n + 1 - Len(a) = n - Len(h) /\ Follow(a, n + 1 - Len(a))
      BY <1>1, <2>2, <3>1, FollowsOn
    <3> QED
      BY <3>1, <3>2
  <2> HIDE DEF a
  <2>3. /\ d.paused = c.paused /\ d.timer = c.timer /\ d.socket = c.socket /\ d.status = c.status
        /\ d.fetch = c.fetch /\ d.buffered = c.buffered /\ d.recovery = c.recovery
        /\ d.incomplete = c.incomplete /\ d.pos = c.pos /\ d.held = a /\ d.view = c.view
        /\ d.snapshot = c.snapshot
    BY <1>1, <2>1 DEF Clients
  <2> HIDE DEF d, e
  <2>4. Behind(c, log, n) => Behind(d, log, e)
    BY <2>2, <2>3 DEF Behind, Replayed, Reading, Covers, Synchronizing
  <2>5. Holding(d, log, e) /\ d.pos = c.pos
    BY <2>3, <2>4 DEF Holding, Synchronizing
  <2> QED
    BY <2>5 DEF d, e
<1> QED
  BY <1>3, <1>4

LEMMA ReceiveAllHolding ==
  ASSUME log \in Seq(Keys \cup {Reset}), NEW c, Good(c), NEW n \in Nat,
         NEW es \in Seq(Events), Follow(es, n), Holding(c, log, n)
  PROVE  Holding(ReceiveAll(c, es), log, n + Len(es)) /\ ReceiveAll(c, es).pos = c.pos
<1>1. Len(es) \in Nat /\ \A i \in 1..Len(es) : es[i] = n + i /\ es[i] \in Events
  BY DEF Follow
<1>2. PICK f : /\ f[0] = c
               /\ \A i \in 1..Len(es) : f[i] = Receive(f[i - 1], es[i])
               /\ ReceiveAll(c, es) = f[Len(es)]
  BY <1>1, ReceivesAll
<1> DEFINE S == {i \in 0..Len(es) : Good(f[i]) /\ Holding(f[i], log, n + i) /\ f[i].pos = c.pos}
<1>3. 0 \in S
  BY <1>1, <1>2
<1>4. ASSUME NEW i \in 1..Len(es), i - 1 \in S PROVE i \in S
  <2> DEFINE m == n + (i - 1)
  <2>1. /\ Good(f[i - 1]) /\ Holding(f[i - 1], log, m) /\ m \in Nat /\ m + 1 = n + i
        /\ f[i] = Receive(f[i - 1], m + 1) /\ m + 1 \in Events /\ f[i - 1].pos = c.pos
    BY <1>1, <1>2, <1>4
  <2> HIDE DEF m
  <2>2. Good(f[i]) /\ Holding(f[i], log, m + 1) /\ f[i].pos = c.pos
    BY <2>1, ReceiveGood, ReceiveHolding
  <2> QED
    BY <2>1, <2>2
<1>5. Len(es) \in S
  <2> HIDE DEF S
  <2> QED
    BY <1>1, <1>3, <1>4, UpTo
<1> QED
  BY <1>2, <1>5

LEMMA HoldingWaits ==
  ASSUME NEW c, NEW l, Holding(c, l, c.pos)
  PROVE  Waits(c, l, "ready")
  BY DEF Holding, Waits, Stands, Syncing, Opening, Hearing, Status, Mounted

LEMMA HoldNothing ==
  ASSUME NEW c
  PROVE  HoldAll(c, <<>>) = c
<1>1. Len(<<>>) = 0 /\ Len(<<>>) \in Nat
  OBVIOUS
<1>2. PICK f : f[0] = c /\ HoldAll(c, <<>>) = f[Len(<<>>)]
  BY <1>1, HoldsAll
<1> QED
  BY <1>1, <1>2

LEMMA ReceiveNothing ==
  ASSUME NEW c
  PROVE  ReceiveAll(c, <<>>) = c
<1>1. Len(<<>>) = 0 /\ Len(<<>>) \in Nat
  OBVIOUS
<1>2. PICK f : f[0] = c /\ ReceiveAll(c, <<>>) = f[Len(<<>>)]
  BY <1>1, ReceivesAll
<1> QED
  BY <1>1, <1>2

(* ... or they were buffered before, and are put behind what is held.      *)
Beside(c, d) ==
    /\ d.view = c.view /\ d.status = c.status /\ d.paused = c.paused /\ d.socket = c.socket
    /\ d.pos = c.pos /\ d.pending = c.pending /\ d.timer = c.timer /\ d.fetch = c.fetch
    /\ d.buffered = c.buffered /\ d.snapshot = c.snapshot /\ d.recovery = c.recovery
Held(c, n) == ~c.incomplete => Follow(c.held, n - Len(c.held))

LEMMA HoldBeside ==
  ASSUME NEW c, Good(c), NEW n \in Nat, n + 1 \in Events
  PROVE  /\ Beside(c, Hold(c, n + 1)) /\ (c.incomplete => Hold(c, n + 1).incomplete)
         /\ ~Hold(c, n + 1).incomplete => Len(Hold(c, n + 1).held) = Len(c.held) + 1
         /\ Held(c, n) => Held(Hold(c, n + 1), n + 1)
<1> DEFINE e == n + 1
           h == c.held
           d == Hold(c, e)
<1>1. c \in Clients /\ h \in Seq(Events) /\ Len(h) \in Nat
  BY DEF Good, Clients
<1>2. CASE Len(h) >= PauseLimit
  <2> DEFINE a == Append(Tail(h), e)
  <2>1. d = [c EXCEPT !.held = a, !.incomplete = TRUE]
    BY <1>2 DEF Hold
  <2> HIDE DEF a
  <2>2. Beside(c, d) /\ d.incomplete
    BY <1>1, <2>1 DEF Clients, Beside
  <2> QED
    BY <2>2 DEF Held
<1>3. CASE ~(Len(h) >= PauseLimit)
  <2> DEFINE a == Append(h, e)
  <2>1. d = [c EXCEPT !.held = a]
    BY <1>1, <1>3 DEF Hold, Clients
  <2>2. Len(a) = Len(h) + 1
    BY <1>1
  <2>3. ASSUME Follow(h, n - Len(h)) PROVE Follow(a, e - Len(a))
    <3>1. a = Append(h, n + 1) /\ e = n + 1
      OBVIOUS
    <3> HIDE DEF a, h, e
    <3>2. Follow(a, n + 1 - Len(a))
      BY <1>1, <2>3, <3>1, FollowsOn
    <3> QED
      BY <3>1, <3>2
  <2> HIDE DEF a
  <2>4. Beside(c, d) /\ d.incomplete = c.incomplete /\ d.held = a
    BY <1>1, <2>1 DEF Clients, Beside
  <2> HIDE DEF d, e
  <2>5. Held(c, n) => Held(d, e)
    BY <2>3, <2>4 DEF Held
  <2> QED
    BY <2>2, <2>4, <2>5 DEF d, e
<1> QED
  BY <1>2, <1>3

LEMMA HoldAllKeeps ==
  ASSUME NEW c, Good(c), NEW es \in Seq(Events)
  PROVE  Beside(c, HoldAll(c, es)) /\ (c.incomplete => HoldAll(c, es).incomplete)
<1>1. Len(es) \in Nat /\ \A i \in 1..Len(es) : es[i] \in Events /\ es[i] - 1 \in Nat
  BY DEF Events
<1>2. PICK f : /\ f[0] = c
               /\ \A i \in 1..Len(es) : f[i] = Hold(f[i - 1], es[i])
               /\ HoldAll(c, es) = f[Len(es)]
  BY <1>1, HoldsAll
<1> DEFINE S == {i \in 0..Len(es) :
                    Good(f[i]) /\ Beside(c, f[i]) /\ (c.incomplete => f[i].incomplete)}
<1>3. 0 \in S
  BY <1>1, <1>2 DEF Beside
<1>4. ASSUME NEW i \in 1..Len(es), i - 1 \in S PROVE i \in S
  <2> DEFINE m == es[i] - 1
             g == f[i - 1]
  <2>1. /\ Good(g) /\ Beside(c, g) /\ (c.incomplete => g.incomplete)
        /\ f[i] = Hold(g, es[i]) /\ es[i] \in Events /\ m \in Nat /\ m + 1 = es[i]
    BY <1>1, <1>2, <1>4 DEF Events
  <2> HIDE DEF m, g
  <2>2. Beside(g, f[i]) /\ (g.incomplete => f[i].incomplete)
    BY <2>1, HoldBeside
  <2>3. Good(f[i])
    BY <2>1, HoldGood
  <2>4. Beside(c, f[i])
    BY <2>1, <2>2 DEF Beside
  <2> QED
    BY <2>1, <2>2, <2>3, <2>4
<1>5. Len(es) \in S
  <2> HIDE DEF S
  <2> QED
    BY <1>1, <1>3, <1>4, UpTo
<1> QED
  BY <1>2, <1>5

LEMMA HoldAllBeside ==
  ASSUME NEW c, Good(c), NEW n \in Nat, NEW es \in Seq(Events), Follow(es, n), Held(c, n)
  PROVE  /\ ~HoldAll(c, es).incomplete => Len(HoldAll(c, es).held) = Len(c.held) + Len(es)
         /\ Held(HoldAll(c, es), n + Len(es))
<1>1. Len(es) \in Nat /\ \A i \in 1..Len(es) : es[i] = n + i /\ es[i] \in Events
  BY DEF Follow
<1>2. PICK f : /\ f[0] = c
               /\ \A i \in 1..Len(es) : f[i] = Hold(f[i - 1], es[i])
               /\ HoldAll(c, es) = f[Len(es)]
  BY <1>1, HoldsAll
<1> DEFINE S == {i \in 0..Len(es) :
                    /\ Good(f[i])
                    /\ ~f[i].incomplete => Len(f[i].held) = Len(c.held) + i
                    /\ Held(f[i], n + i)}
<1>3. 0 \in S
  <2>1. Len(c.held) \in Nat /\ n + 0 = n
    BY DEF Good, Clients
  <2> QED
    BY <1>1, <1>2, <2>1
<1>4. ASSUME NEW i \in 1..Len(es), i - 1 \in S PROVE i \in S
  <2> DEFINE m == n + (i - 1)
             g == f[i - 1]
  <2>1. /\ Good(g) /\ Held(g, m)
        /\ ~g.incomplete => Len(g.held) = Len(c.held) + (i - 1)
        /\ f[i] = Hold(g, m + 1) /\ m \in Nat /\ m + 1 \in Events /\ m + 1 = n + i
    <3>1. m \in Nat /\ m + 1 = n + i /\ es[i] = m + 1 /\ es[i] \in Events
      BY <1>1
    <3>2. f[i] = Hold(g, es[i])
      BY <1>2
    <3>3. /\ Good(g) /\ Held(g, m)
          /\ ~g.incomplete => Len(g.held) = Len(c.held) + (i - 1)
      BY <1>4
    <3> HIDE DEF m, g
    <3> QED
      BY <3>1, <3>2, <3>3
  <2> HIDE DEF m, g
  <2>2. Len(c.held) \in Nat
    BY DEF Good, Clients
  <2>3. /\ (g.incomplete => f[i].incomplete) /\ Held(f[i], m + 1)
        /\ ~f[i].incomplete => Len(f[i].held) = Len(g.held) + 1
    BY <2>1, HoldBeside
  <2>4. Good(f[i])
    BY <2>1, HoldGood
  <2>5. ~f[i].incomplete => Len(f[i].held) = Len(c.held) + i
    BY <2>1, <2>2, <2>3
  <2> QED
    BY <2>1, <2>3, <2>4, <2>5
<1>5. Len(es) \in S
  <2> HIDE DEF S
  <2> QED
    BY <1>1, <1>3, <1>4, UpTo
<1> QED
  BY <1>2, <1>5

-----------------------------------------------------------------------------
(* The steps of a live connection, and the end of a snapshot.              *)

Sounding == Sound(client, log, page)
Waiting == Waits(client, log, page)
Tracked == Sounding \/ Waiting

LEMMA SoundingIs ==
  ASSUME Typed, Sounding
  PROVE  /\ Standing /\ ~client.paused /\ Clear(client)
         /\ client.socket = "live" => TakenIn(client, log, client.pos) /\ Hooked(client)
  BY DEF Sounding, Sound, Standing

LEMMA WaitingIs ==
  ASSUME Typed, Waiting
  PROVE  /\ Standing /\ client.paused
         /\ client.socket = "live" => Holding(client, log, client.pos)
         /\ client.socket \notin {"live", "closing"} => client.held = <<>> /\ ~client.incomplete
         /\ client.snapshot # NoSnapshot =>
               client.socket \in {"live", "closing"} /\ client.status = "LIVE"
  BY DEF Waiting, Waits, Standing

LEMMA DeliverLive ==
  ASSUME Typed, Standing, Deliver, client.socket = "live",
         NEW c, c = [client EXCEPT !.pos = client.pos + 1]
  PROVE  /\ client' = Receive(c, client.pos + 1) /\ client.pos + 1 \in Events
         /\ client.pos \in Nat /\ client.pos \in 0..Len(log)
         /\ page = "ready" /\ page' = page /\ Good(c) /\ c.pos = client.pos + 1
         /\ c.socket = client.socket /\ c.paused = client.paused
         /\ c.timer = client.timer /\ c.fetch = client.fetch /\ c.buffered = client.buffered
         /\ c.status = client.status /\ c.recovery = client.recovery /\ c.view = client.view
         /\ c.held = client.held /\ c.snapshot = client.snapshot /\ c.incomplete = client.incomplete
<1>1. client \in Clients /\ client.pos \in 0..Len(log) /\ Len(log) \in Nat /\ page = "ready"
  BY TypedIs, StandingIs DEF Clients
<1>2. client.pos + 1 \in Events /\ client.pos \in Nat /\ client.pos + 1 \in 0..Len(log)
  BY <1>1 DEF Deliver, Events
<1> DEFINE e == client.pos + 1
<1>3. e \in Events /\ e \in 0..Len(log) /\ c = [client EXCEPT !.pos = e]
  BY <1>2
<1>4. client' = IF c.socket = "live" THEN Receive(c, e)
                ELSE IF Len(c.pending) >= SocketLimit THEN CloseSocket(c)
                ELSE [c EXCEPT !.pending = Append(@, e)]
  BY DEF Deliver
<1> HIDE DEF e
<1>5. /\ c \in Clients /\ c.pos = e /\ c.socket = client.socket /\ c.paused = client.paused
      /\ c.timer = client.timer /\ c.fetch = client.fetch /\ c.buffered = client.buffered
      /\ c.status = client.status /\ c.recovery = client.recovery /\ c.view = client.view
      /\ c.held = client.held /\ c.snapshot = client.snapshot /\ c.incomplete = client.incomplete
      /\ c.pending = client.pending
  BY <1>1, <1>3 DEF Clients
<1>6. Good(c)
  BY <1>5, TypedIs DEF Good, Fits
<1>7. page' = page /\ client' = Receive(c, e)
  BY <1>4, <1>5 DEF Deliver
<1> QED
  BY <1>1, <1>2, <1>5, <1>6, <1>7 DEF e

LEMMA DeliverSound ==
  ASSUME Typed, Sounding, Deliver, client.socket = "live"
  PROVE  Sound(client', log, page')
<1> DEFINE c == [client EXCEPT !.pos = client.pos + 1]
           e == client.pos + 1
<1>1. /\ client' = Receive(c, e) /\ e \in Events /\ client.pos \in Nat
      /\ page = "ready" /\ page' = page /\ Good(c) /\ c.pos = e
      /\ c.socket = client.socket /\ c.paused = client.paused
      /\ c.timer = client.timer /\ c.fetch = client.fetch /\ c.buffered = client.buffered
      /\ c.status = client.status /\ c.recovery = client.recovery /\ c.view = client.view
      /\ c.held = client.held /\ c.snapshot = client.snapshot /\ c.incomplete = client.incomplete
  BY SoundingIs, DeliverLive
<1>2. log \in Seq(Keys \cup {Reset}) /\ ~client.timer /\ ~client.recovery /\ ~client.paused
      /\ (~Synchronizing(client) => client.buffered = <<>>)
      /\ (Synchronizing(client) => client.status = "CONNECTING")
      /\ TakenIn(client, log, client.pos) /\ Hooked(client) /\ Clear(client)
  BY <1>1, TypedIs, SoundingIs, StandingIs DEF Hearing, Status, Mounted
<1>3. client.pos + 1 = e
  OBVIOUS
<1> HIDE DEF c, e
<1>4. TakenIn(c, log, client.pos)
  BY <1>1, <1>2 DEF TakenIn, Reading, Covers, Synchronizing
<1>5. Taking(c, log, client.pos, e)
  BY <1>1, <1>2, <1>4 DEF Taking, Clear, Hooked, Synchronizing
<1>6. Taking(Receive(c, e), log, e, e)
  BY <1>1, <1>2, <1>3, <1>5, ReceiveTaking
<1> QED
  BY <1>1, <1>6, TakingSound

LEMMA DeliverWaits ==
  ASSUME Typed, Waiting, Deliver, client.socket = "live"
  PROVE  Waits(client', log, page')
<1> DEFINE c == [client EXCEPT !.pos = client.pos + 1]
           e == client.pos + 1
<1>1. /\ client' = Receive(c, e) /\ e \in Events /\ client.pos \in Nat
      /\ page = "ready" /\ page' = page /\ Good(c) /\ c.pos = e
      /\ c.socket = client.socket /\ c.paused = client.paused
      /\ c.timer = client.timer /\ c.fetch = client.fetch /\ c.buffered = client.buffered
      /\ c.status = client.status /\ c.recovery = client.recovery /\ c.view = client.view
      /\ c.held = client.held /\ c.snapshot = client.snapshot /\ c.incomplete = client.incomplete
  BY WaitingIs, DeliverLive
<1>2. log \in Seq(Keys \cup {Reset}) /\ Holding(client, log, client.pos)
  BY WaitingIs DEF Typed
<1>3. client.pos + 1 = e
  OBVIOUS
<1> HIDE DEF c, e
<1>4. Holding(c, log, client.pos)
  BY <1>1, <1>2 DEF Holding, Behind, Replayed, Reading, Covers, Synchronizing
<1>5. Holding(Receive(c, e), log, e) /\ Receive(c, e).pos = e
  BY <1>1, <1>2, <1>3, <1>4, ReceiveHolding
<1>6. Holding(client', log, client'.pos)
  BY <1>1, <1>5
<1> QED
  BY <1>1, <1>6, HoldingWaits

(* What a read in flight will show, it will show after one more answer.    *)
LEMMA ServeReads ==
  ASSUME Typed, NEW k \in Keys, Serve(k), NEW n \in 0..Len(log), Reading(client, log, n),
         client'.buffered = client.buffered
  PROVE  Reading(client', log, n)
<1>1. Len(log) \in Nat /\ client.buffered \in Seq(Events)
  BY TypedIs DEF Clients
<1> DEFINE m == n - Len(client.buffered)
<1>2. Follow(client.buffered, m) /\ Covers(client, log, m)
  BY DEF Reading
<1>3. m \in 0..n
  BY <1>1, <1>2, BaseOf
<1>4. m \in 0..Len(log)
  BY <1>1, <1>3
<1> HIDE DEF m
<1>5. Covers(client', log, m)
  BY <1>2, <1>4, ServeCovers
<1> QED
  BY <1>2, <1>5 DEF Reading, m

LEMMA ServeSound ==
  ASSUME Typed, Sounding, NEW k \in Keys, Serve(k)
  PROVE  Sound(client', log, page')
<1>1. /\ Stands(client', log, page') /\ Keeps(client, client')
      /\ Synchronizing(client) /\ Synchronizing(client')
      /\ client'.socket = client.socket /\ client'.pos = client.pos
      /\ client'.buffered = client.buffered
  BY SoundingIs, ServeStands
<1>2. Clear(client') /\ ~client'.paused
  BY <1>1, SoundingIs, KeepsClear DEF Keeps
<1>3. ASSUME client.socket = "live" PROVE Reading(client', log, client.pos)
  <2>1. client.pos \in 0..Len(log) /\ Reading(client, log, client.pos)
    BY <1>1, <1>3, TypedIs, SoundingIs DEF Clients, TakenIn
  <2> QED
    BY <1>1, <2>1, ServeReads
<1> QED
  BY <1>1, <1>2, <1>3 DEF Sound, TakenIn, Hooked

LEMMA ServeWaits ==
  ASSUME Typed, Waiting, NEW k \in Keys, Serve(k), client.socket = "live"
  PROVE  Waits(client', log, page')
<1>1. /\ Stands(client', log, page') /\ Keeps(client, client') /\ page' = page
      /\ Synchronizing(client) /\ Synchronizing(client')
      /\ client'.socket = client.socket /\ client'.pos = client.pos
      /\ client'.buffered = client.buffered
  BY WaitingIs, ServeStands
<1>2. page = "ready" /\ client.status = "CONNECTING" /\ Holding(client, log, client.pos)
  BY <1>1, WaitingIs, StandingIs DEF Mounted
<1>3. client'.status = "CONNECTING" /\ ~client'.timer /\ ~client'.recovery
  BY <1>1, <1>2 DEF Stands, Mounted, Hearing
<1>4. client'.snapshot = NoSnapshot /\ client'.paused
  BY <1>1, <1>2, WaitingIs DEF Keeps
<1>5. ASSUME ~client'.incomplete PROVE Behind(client', log, client'.pos)
  <2> DEFINE n == client.pos - Len(client.held)
  <2>1. client.pos \in 0..Len(log) /\ Len(log) \in Nat /\ client.held \in Seq(Events)
    BY TypedIs DEF Clients
  <2>2. Follow(client.held, n) /\ Reading(client, log, n)
    BY <1>1, <1>2, <1>5 DEF Holding, Behind, Keeps
  <2>3. n \in 0..client.pos
    BY <2>1, <2>2, BaseOf
  <2>4. n \in 0..Len(log)
    BY <2>1, <2>3
  <2> HIDE DEF n
  <2>5. Reading(client', log, n)
    BY <1>1, <2>2, <2>4, ServeReads
  <2> QED
    BY <1>1, <2>2, <2>5 DEF Behind, Keeps, n
<1>6. Holding(client', log, client'.pos)
  BY <1>1, <1>3, <1>4, <1>5 DEF Holding
<1> QED
  BY <1>1, <1>2, <1>6, HoldingWaits

LEMMA LatestResetIs ==
  ASSUME Typed
  PROVE  /\ LatestReset \in 0..Len(client.buffered)
         /\ LatestReset = 0 =>
               \A i \in 1..Len(client.buffered) : log[client.buffered[i]] # Reset
<1> DEFINE S == {0} \cup {i \in DOMAIN client.buffered : log[client.buffered[i]] = Reset}
<1>1. client.buffered \in Seq(Events) /\ Len(client.buffered) \in Nat
      /\ DOMAIN client.buffered = 1..Len(client.buffered)
  BY TypedIs DEF Clients
<1>2. S \in SUBSET (0..Len(client.buffered)) /\ S # {} /\ LatestReset = Max(S)
  BY <1>1 DEF LatestReset
<1>3. Max(S) \in S /\ \A y \in S : y <= Max(S)
  <2> HIDE DEF S
  <2> QED
    BY <1>1, <1>2, MaxOf
<1>4. \A i \in 1..Len(client.buffered) : log[client.buffered[i]] = Reset => i \in S
  BY <1>1
<1> HIDE DEF S
<1>5. LatestReset \in 0..Len(client.buffered)
  BY <1>2, <1>3
<1>6. ASSUME LatestReset = 0, NEW i \in 1..Len(client.buffered)
      PROVE  log[client.buffered[i]] # Reset
  <2>1. SUFFICES ASSUME i \in S PROVE FALSE
    BY <1>4
  <2>2. i <= 0
    BY <1>2, <1>3, <1>6, <2>1
  <2> QED
    BY <1>1, <2>2
<1> QED
  BY <1>5, <1>6

(* What is read again will show as much, the reset included.               *)
LEMMA ReadAgainIs ==
  ASSUME Typed, Standing, ReadAgain
  PROVE  /\ Stands(client', log, page') /\ Keeps(client, client')
         /\ page = "ready" /\ page' = page /\ Synchronizing(client) /\ Synchronizing(client')
         /\ client'.socket = client.socket /\ client'.pos = client.pos
         /\ client.socket \in {"live", "closing"}
         /\ \A n \in 0..Len(log) : Reading(client, log, n) => Reading(client', log, n)
<1> DEFINE old == client.buffered
           b == SubSeq(old, LatestReset + 1, Len(old))
           f == [client.fetch EXCEPT !.parts = NoSnapshot]
<1>1. /\ client \in Clients /\ Len(log) \in Nat
      /\ old \in Seq(Events) /\ Len(old) \in Nat
      /\ page = "ready" /\ page' = page /\ Synchronizing(client)
  BY TypedIs DEF ReadAgain, Answered, Clients
<1>2. LatestReset \in 1..Len(old)
  BY LatestResetIs DEF ReadAgain
<1>3. /\ Len(b) = Len(old) - LatestReset
      /\ \A i \in 1..Len(b) : b[i] = old[LatestReset + i]
  BY <1>1, <1>2
<1>4. f # NoFetch /\ f.parts = NoSnapshot
  <2>1. client.fetch \in [waiting : SUBSET Waiters, parts : Reads]
    BY <1>1 DEF Synchronizing, Clients, Fetches
  <2> QED
    BY <2>1 DEF NoFetch
<1>5. client' = [client EXCEPT !.fetch = f, !.buffered = b]
  BY <1>1 DEF ReadAgain, Clients
<1> HIDE DEF b, f
<1>6. /\ client'.fetch = f /\ client'.buffered = b /\ client'.socket = client.socket
      /\ client'.paused = client.paused /\ client'.timer = client.timer /\ client'.pos = client.pos
      /\ client'.pending = client.pending /\ client'.status = client.status
      /\ client'.recovery = client.recovery /\ Keeps(client, client')
  BY <1>1, <1>5 DEF Clients, Keeps
<1>7. Synchronizing(client') /\ \A m \in Int : Covers(client', log, m)
  BY <1>4, <1>6 DEF Synchronizing, Covers, NoSnapshot
<1>8. ASSUME NEW n \in 0..Len(log), Follow(old, n - Len(old)) PROVE Follow(b, n - Len(b))
  <2> SUFFICES ASSUME NEW i \in 1..Len(b) PROVE b[i] = n - Len(b) + i
    BY DEF Follow
  <2>1. LatestReset + i \in 1..Len(old)
    BY <1>1, <1>2, <1>3
  <2>2. old[LatestReset + i] = n - Len(old) + (LatestReset + i)
    BY <1>8, <2>1 DEF Follow
  <2> HIDE DEF old
  <2> QED
    BY <1>1, <1>2, <1>3, <2>1, <2>2
<1>9. ASSUME NEW n \in 0..Len(log), Reading(client, log, n) PROVE Reading(client', log, n)
  <2>1. n - Len(b) \in Int
    BY <1>1, <1>2, <1>3
  <2>2. Follow(old, n - Len(old))
    BY <1>9 DEF Reading
  <2> QED
    BY <1>6, <1>7, <1>8, <2>1, <2>2 DEF Reading
<1>10. client.socket # "syncing"
  BY <1>1, <1>2, StandingIs DEF Syncing
<1>11. Opening(client) /\ Hearing(client) /\ Mounted(client) /\ Status(client)
  BY <1>1, StandingIs
<1>12. Syncing(client', log) /\ Opening(client') /\ Hearing(client')
  BY <1>6, <1>10, <1>11 DEF Syncing, Opening, Hearing
<1>13. Status(client') /\ Mounted(client')
  BY <1>1, <1>6, <1>7, <1>11 DEF Status, Mounted
<1> QED
  BY <1>1, <1>6, <1>7, <1>9, <1>10, <1>11, <1>12, <1>13 DEF Stands, Mounted

LEMMA ReadAgainTracked ==
  ASSUME Typed, Tracked, ReadAgain
  PROVE  Sound(client', log, page') \/ Waits(client', log, page')
<1>1. /\ Stands(client', log, page') /\ Keeps(client, client')
      /\ page = "ready" /\ page' = page /\ Synchronizing(client) /\ Synchronizing(client')
      /\ client'.socket = client.socket /\ client'.pos = client.pos
      /\ client.socket \in {"live", "closing"}
      /\ \A n \in 0..Len(log) : Reading(client, log, n) => Reading(client', log, n)
  BY ReadAgainIs, SoundingIs, WaitingIs DEF Tracked
<1>2. client.pos \in 0..Len(log) /\ Len(log) \in Nat /\ client.held \in Seq(Events)
  BY TypedIs DEF Clients
<1>3. CASE Sounding
  <2>1. Clear(client') /\ ~client'.paused
    BY <1>1, <1>3, SoundingIs, KeepsClear DEF Keeps
  <2>2. client.socket = "live" => Reading(client', log, client.pos)
    BY <1>1, <1>2, <1>3, SoundingIs DEF TakenIn
  <2>3. Sound(client', log, page')
    BY <1>1, <2>1, <2>2 DEF Sound, TakenIn, Hooked
  <2> QED
    BY <2>3
<1>4. CASE Waiting
  <2>1. /\ client.status = "CONNECTING" /\ client'.status = "CONNECTING" /\ ~client'.timer
        /\ client'.paused /\ client'.snapshot = NoSnapshot
    BY <1>1, <1>4, WaitingIs, StandingIs DEF Stands, Mounted, Keeps
  <2>2. ASSUME client.socket = "live", ~client'.incomplete
        PROVE  Behind(client', log, client'.pos)
    <3> DEFINE n == client.pos - Len(client.held)
    <3>1. Follow(client.held, n) /\ Reading(client, log, n)
      BY <1>1, <1>4, <2>2, WaitingIs DEF Holding, Behind, Keeps
    <3>2. n \in 0..client.pos
      BY <1>2, <3>1, BaseOf
    <3>3. n \in 0..Len(log)
      BY <1>2, <3>2
    <3> HIDE DEF n
    <3>4. Reading(client', log, n)
      BY <1>1, <3>1, <3>3
    <3> QED
      BY <1>1, <3>1, <3>4 DEF Behind, Keeps, n
  <2>3. client.socket = "live" => Holding(client', log, client'.pos)
    BY <1>1, <2>1, <2>2 DEF Holding, Stands, Hearing
  <2>4. Waits(client', log, page')
    BY <1>1, <2>1, <2>3 DEF Waits
  <2> QED
    BY <2>4
<1> QED
  BY <1>3, <1>4 DEF Tracked

(* What is left of a read that has ended, and of one that has              *)
(* authenticated: FinishAuthentication.                                    *)
Done(c) == [c EXCEPT !.fetch = NoFetch, !.buffered = <<>>, !.status = "LIVE"]
Handed(c) == [Done(c) EXCEPT !.socket = "live", !.status = "LIVE", !.pending = <<>>]

LEMMA DoneIs ==
  ASSUME NEW c, Good(c)
  PROVE  /\ Good(Done(c)) /\ Done(c).fetch = NoFetch /\ Done(c).buffered = <<>>
         /\ Done(c).status = "LIVE" /\ Done(c).socket = c.socket /\ Done(c).timer = c.timer
         /\ Done(c).pos = c.pos /\ Done(c).pending = c.pending
         /\ Done(c).recovery = c.recovery /\ Done(c).view = c.view /\ Keeps(c, Done(c))
<1> DEFINE d == Done(c)
<1>1. <<>> \in Seq(Events) /\ NoFetch \in Fetches
  BY DEF Fetches
<1>2. /\ d \in Clients /\ d.fetch = NoFetch /\ d.buffered = <<>>
      /\ d.status = "LIVE" /\ d.socket = c.socket /\ d.timer = c.timer
      /\ d.pos = c.pos /\ d.pending = c.pending
      /\ d.recovery = c.recovery /\ d.view = c.view
      /\ d.held = c.held /\ d.snapshot = c.snapshot /\ d.incomplete = c.incomplete
      /\ d.paused = c.paused
  BY <1>1 DEF Done, Good, Clients
<1> HIDE DEF d
<1>3. Good(d) /\ Keeps(c, d)
  BY <1>2 DEF Good, Fits, Keeps
<1> QED
  BY <1>2, <1>3 DEF d

LEMMA HandedIs ==
  ASSUME NEW c, Good(c)
  PROVE  /\ Good(Handed(c)) /\ Handed(c).fetch = NoFetch /\ Handed(c).buffered = <<>>
         /\ Handed(c).status = "LIVE" /\ Handed(c).socket = "live" /\ Handed(c).timer = c.timer
         /\ Handed(c).pos = c.pos /\ Handed(c).recovery = c.recovery
         /\ Handed(c).view = c.view /\ Keeps(c, Handed(c))
<1> DEFINE b == Done(c)
           d == Handed(c)
<1>1. <<>> \in Seq(Events) /\ Len(<<>>) = 0 /\ SocketLimit \in Nat
  BY SyncAssumption
<1>2. /\ b \in Clients /\ Fits(b) /\ b.fetch = NoFetch /\ b.buffered = <<>> /\ b.timer = c.timer
      /\ b.pos = c.pos /\ b.recovery = c.recovery /\ b.view = c.view /\ Keeps(c, b)
  BY DoneIs DEF Good
<1>3. d = [b EXCEPT !.socket = "live", !.status = "LIVE", !.pending = <<>>]
  BY DEF Handed
<1> HIDE DEF b, d
<1>4. /\ d \in Clients /\ d.fetch = b.fetch /\ d.buffered = b.buffered
      /\ d.status = "LIVE" /\ d.socket = "live" /\ d.timer = b.timer
      /\ d.pos = b.pos /\ d.pending = <<>>
      /\ d.recovery = b.recovery /\ d.view = b.view
      /\ d.held = b.held /\ d.snapshot = b.snapshot /\ d.incomplete = b.incomplete
      /\ d.paused = b.paused
  BY <1>1, <1>2, <1>3 DEF Clients
<1>5. Good(d) /\ Keeps(c, d)
  BY <1>1, <1>2, <1>4 DEF Good, Fits, Keeps
<1> QED
  BY <1>2, <1>4, <1>5 DEF d

LEMMA SynchronizedIs ==
  ASSUME NEW c, Good(c), c.socket = "syncing" => c.fetch.waiting = {"auth"}
  PROVE  Synchronized(c) = IF c.socket = "syncing" THEN ReceiveAll(Handed(c), c.pending)
                           ELSE Done(c)
<1> DEFINE d == Done(c)
<1>1. d.socket = c.socket /\ d.pending = c.pending
  BY DoneIs
<1>2. Synchronized(c) = IF "auth" \in c.fetch.waiting THEN FinishAuthentication(d) ELSE d
  BY DEF Synchronized, Done
<1>3. FinishAuthentication(d) = IF c.socket # "syncing" THEN d ELSE ReceiveAll(Handed(c), c.pending)
  BY <1>1 DEF FinishAuthentication, Handed
<1> HIDE DEF d
<1> QED
  BY <1>2, <1>3 DEF d

(* The end of a snapshot.                                                  *)
LEMMA CommitIs ==
  ASSUME Typed, Sounding, Commit,
         NEW c, c = [client EXCEPT !.view = Apply(client.fetch.parts, client.buffered)]
  PROVE  /\ client' = IF client.socket = "syncing" THEN ReceiveAll(Handed(c), client.pending)
                      ELSE Done(c)
         /\ Good(c) /\ page = "ready" /\ page' = page /\ Keeps(client, c)
         /\ client.pos \in 0..Len(log) /\ Len(log) \in Nat /\ client.pending \in Seq(Events)
         /\ c.pos = client.pos /\ c.timer = client.timer /\ c.socket = client.socket
         /\ c.recovery = client.recovery /\ c.buffered = client.buffered
         /\ Synchronizing(client) /\ client.socket \in {"syncing", "live", "closing"}
         /\ ~client.timer
         /\ \A n \in 0..Len(log) : TakenIn(client, log, n) =>
               \A k \in Keys : c.view[k] >= Upto(log, k, n)
<1> DEFINE old == client.buffered
           v == Apply(client.fetch.parts, old)
<1>1. /\ client \in Clients /\ Good(client) /\ client.pos \in 0..Len(log) /\ Len(log) \in Nat
      /\ log \in Seq(Keys \cup {Reset}) /\ client.pending \in Seq(Events)
      /\ page = "ready" /\ page' = page /\ Synchronizing(client) /\ old \in Seq(Events)
      /\ \A k \in Keys : client.fetch.parts[k] # Unread
  BY TypedIs DEF Commit, Answered, Clients
<1>2. v \in Views
  BY <1>1, AnsweredRead, AppliedView DEF Commit
<1>3. \A i \in 1..Len(old) : log[old[i]] # Reset
  BY LatestResetIs DEF Commit
<1>4. ASSUME NEW n \in 0..Len(log), TakenIn(client, log, n)
      PROVE  \A k \in Keys : v[k] >= Upto(log, k, n)
  <2> HIDE DEF v
  <2> QED
    BY <1>1, <1>3, <1>4, CaughtUp DEF v
<1>5. client' = Synchronized(c)
  BY DEF Commit
<1>6. c = [client EXCEPT !.view = v]
  OBVIOUS
<1> HIDE DEF v
<1>7. /\ c \in Clients /\ c.fetch = client.fetch /\ c.socket = client.socket
      /\ c.paused = client.paused /\ c.timer = client.timer /\ c.pos = client.pos
      /\ c.pending = client.pending /\ c.recovery = client.recovery /\ c.view = v
      /\ c.held = client.held /\ c.snapshot = client.snapshot
      /\ c.incomplete = client.incomplete /\ c.buffered = client.buffered
  BY <1>1, <1>2, <1>6 DEF Clients
<1>8. Good(c) /\ Keeps(client, c)
  BY <1>1, <1>7 DEF Good, Fits, Keeps
<1>9. client.socket = "syncing" => client.fetch.waiting = {"auth"}
  BY SoundingIs, StandingIs DEF Syncing
<1>10. client.socket \in {"syncing", "live", "closing"} /\ ~client.timer
  BY <1>1, SoundingIs, StandingIs DEF Mounted
<1>11. client' = IF client.socket = "syncing" THEN ReceiveAll(Handed(c), client.pending)
                 ELSE Done(c)
  BY <1>5, <1>7, <1>8, <1>9, SynchronizedIs
<1> QED
  BY <1>1, <1>4, <1>7, <1>8, <1>10, <1>11

(* The first events of a socket are those it kept while it authenticated.  *)
LEMMA KeptFirst ==
  ASSUME Typed, Standing, client.socket = "syncing"
  PROVE  /\ client.pos - Len(client.pending) \in 0..Len(log)
         /\ client.pos - Len(client.pending) \in Nat
         /\ client.pos - Len(client.pending) + Len(client.pending) = client.pos
         /\ TakenIn(client, log, client.pos - Len(client.pending))
         /\ Follow(client.pending, client.pos - Len(client.pending))
         /\ Covers(client, log, client.pos - Len(client.pending))
         /\ client.buffered = <<>> /\ ~client.recovery
<1> DEFINE p == client.pending
           n == client.pos - Len(p)
<1>1. /\ client.pos \in 0..Len(log) /\ Len(log) \in Nat /\ p \in Seq(Events) /\ Len(p) \in Nat
  BY TypedIs DEF Clients
<1>2. /\ ~client.recovery /\ client.buffered = <<>> /\ Synchronizing(client)
      /\ Follow(p, n) /\ Covers(client, log, n)
  BY StandingIs DEF Syncing, Hearing
<1>3. n \in 0..client.pos
  BY <1>1, <1>2, BaseOf
<1>4. n \in 0..Len(log) /\ n \in Nat /\ n + Len(p) = client.pos
  BY <1>1, <1>3
<1> HIDE DEF n
<1>5. TakenIn(client, log, n)
  BY <1>2, <1>4 DEF TakenIn, Reading, Follow
<1> QED
  BY <1>2, <1>4, <1>5 DEF n

LEMMA CommitSound ==
  ASSUME Typed, Sounding, Commit
  PROVE  Sound(client', log, page')
<1> DEFINE c == [client EXCEPT !.view = Apply(client.fetch.parts, client.buffered)]
<1>1. /\ client' = IF client.socket = "syncing" THEN ReceiveAll(Handed(c), client.pending)
                   ELSE Done(c)
      /\ Good(c) /\ page = "ready" /\ page' = page /\ Keeps(client, c)
      /\ client.pos \in 0..Len(log) /\ Len(log) \in Nat /\ client.pending \in Seq(Events)
      /\ c.pos = client.pos /\ c.timer = client.timer /\ c.socket = client.socket
      /\ c.recovery = client.recovery
      /\ Synchronizing(client) /\ client.socket \in {"syncing", "live", "closing"}
      /\ ~client.timer
      /\ \A n \in 0..Len(log) : TakenIn(client, log, n) =>
            \A k \in Keys : c.view[k] >= Upto(log, k, n)
  BY CommitIs
<1>2. log \in Seq(Keys \cup {Reset}) /\ ~client.paused
  BY TypedIs, SoundingIs
<1> HIDE DEF c
<1>3. Clear(c)
  BY <1>1, SoundingIs, KeepsClear
<1>4. CASE client.socket = "syncing"
  <2> DEFINE p == client.pending
             n == client.pos - Len(p)
             d == Handed(c)
  <2>1. /\ n \in 0..Len(log) /\ n \in Nat /\ n + Len(p) = client.pos
        /\ TakenIn(client, log, n) /\ Follow(p, n) /\ ~client.recovery
    BY <1>4, SoundingIs, KeptFirst
  <2>2. client' = ReceiveAll(d, p) /\ p \in Seq(Events)
    BY <1>1, <1>4
  <2> HIDE DEF n
  <2>3. \A k \in Keys : c.view[k] >= Upto(log, k, n)
    BY <1>1, <2>1
  <2>4. /\ Good(d) /\ d.socket = "live" /\ d.fetch = NoFetch /\ d.buffered = <<>> /\ ~d.paused
        /\ ~d.timer /\ d.pos = client.pos /\ ~d.recovery /\ d.view = c.view
        /\ d.status = "LIVE" /\ Clear(d)
    BY <1>1, <1>2, <1>3, <2>1, HandedIs, KeepsClear DEF Keeps
  <2> HIDE DEF d, p
  <2>5. Taking(d, log, n, client.pos)
    BY <2>3, <2>4 DEF Taking, TakenIn, Hooked, Synchronizing
  <2>6. Taking(ReceiveAll(d, p), log, n + Len(p), client.pos)
    BY <1>2, <2>1, <2>2, <2>4, <2>5, ReceiveAllTaking
  <2>7. Taking(client', log, client.pos, client.pos)
    BY <2>1, <2>2, <2>6
  <2> QED
    BY <1>1, <2>7, TakingSound
<1>5. CASE client.socket # "syncing"
  <2> DEFINE d == Done(c)
  <2>1. client' = d
    BY <1>1, <1>5
  <2>2. /\ d.fetch = NoFetch /\ d.buffered = <<>> /\ d.socket = client.socket /\ ~d.paused
        /\ ~d.timer /\ d.pos = client.pos /\ d.recovery = client.recovery /\ d.view = c.view
        /\ d.status = "LIVE" /\ Clear(d)
    BY <1>1, <1>2, <1>3, DoneIs, KeepsClear DEF Keeps
  <2> HIDE DEF d
  <2>3. CASE client.socket = "live"
    <3>1. ~client.recovery /\ TakenIn(client, log, client.pos)
      BY <2>3, SoundingIs, StandingIs DEF Hearing
    <3>2. \A k \in Keys : c.view[k] >= Upto(log, k, client.pos)
      BY <1>1, <3>1
    <3>3. Taking(d, log, client.pos, client.pos)
      BY <2>2, <2>3, <3>1, <3>2 DEF Taking, TakenIn, Hooked, Synchronizing
    <3> QED
      BY <1>1, <2>1, <3>3, TakingSound
  <2>4. CASE client.socket = "closing"
    <3>1. Closed(client')
      BY <2>1, <2>2, <2>4 DEF Closed, Synchronizing
    <3>2. Apart(client', log, page')
      BY <1>1, <3>1, BetweenApart DEF Between
    <3> QED
      BY <2>1, <2>2, <3>2 DEF Apart, Sound
  <2> QED
    BY <1>1, <1>5, <2>3, <2>4
<1> QED
  BY <1>4, <1>5

(* The snapshot of a view that is paused is kept with what follows it.     *)
LEMMA DeferIs ==
  ASSUME Typed, Waiting, Defer, ~astray',
         NEW c, c = [client EXCEPT !.snapshot = client.fetch.parts],
         NEW g, g = HoldAll(c, client.buffered)
  PROVE  /\ client' = IF client.socket = "syncing" THEN ReceiveAll(Handed(g), client.pending)
                      ELSE Done(g)
         /\ Good(g) /\ Beside(c, g) /\ (client.buffered = <<>> => g = c)
         /\ page = "ready" /\ page' = page /\ Synchronizing(client)
         /\ client.socket \in {"syncing", "live", "closing"} /\ ~client.timer
         /\ client.held = <<>> \/ client.buffered = <<>>
         /\ c.paused /\ c.socket = client.socket /\ c.timer = client.timer /\ c.pos = client.pos
         /\ c.pending = client.pending /\ c.recovery = client.recovery
         /\ c.held = client.held /\ c.incomplete = client.incomplete /\ Good(c)
         /\ c.snapshot = client.fetch.parts
         /\ \A n : Covers(client, log, n) => \A k \in Keys : Replayed(c)[k] >= Upto(log, k, n)
<1> DEFINE s == client.fetch.parts
           b == client.buffered
<1>1. /\ client \in Clients /\ Good(client) /\ page = "ready" /\ page' = page
      /\ Synchronizing(client) /\ (\A k \in Keys : s[k] # Unread) /\ b \in Seq(Events)
  BY TypedIs DEF Defer, Answered, Clients
<1>2. s \in Views
  BY AnsweredRead DEF Defer
<1>3. client' = Synchronized(g)
  BY DEF Defer
<1>4. client.held = <<>> \/ b = <<>>
  BY DEF Defer, Strays
<1>5. s = NoSnapshot => Keys = {}
  BY <1>1 DEF NoSnapshot
<1>6. c = [client EXCEPT !.snapshot = s] /\ g = HoldAll(c, b)
  OBVIOUS
<1> HIDE DEF s, b
<1>7. /\ c \in Clients /\ c.fetch = client.fetch /\ c.socket = client.socket
      /\ c.paused = client.paused /\ c.timer = client.timer /\ c.pos = client.pos
      /\ c.pending = client.pending /\ c.recovery = client.recovery
      /\ c.held = client.held /\ c.incomplete = client.incomplete
      /\ c.snapshot = s
  BY <1>1, <1>2, <1>6 DEF Clients
<1>8. Good(c)
  BY <1>1, <1>7 DEF Good, Fits
<1>9. ASSUME NEW n, Covers(client, log, n), NEW k \in Keys
      PROVE  Replayed(c)[k] >= Upto(log, k, n)
  BY <1>1, <1>5, <1>7, <1>9 DEF Replayed, Covers, s
<1>10. Good(g) /\ Beside(c, g) /\ (b = <<>> => g = c)
  <2>1. b = <<>> => g = c
    BY <1>6, HoldNothing
  <2>2. Beside(c, c)
    BY DEF Beside
  <2>3. Good(g)
    BY <1>1, <1>6, <1>8, HoldAllGood
  <2>4. Beside(c, g)
    BY <1>1, <1>6, <1>8, HoldAllKeeps
  <2> QED
    BY <2>1, <2>3, <2>4
<1>11. client.socket \in {"syncing", "live", "closing"} /\ ~client.timer /\ client.paused
       /\ (client.socket = "syncing" => client.fetch.waiting = {"auth"})
  BY <1>1, WaitingIs, StandingIs DEF Mounted, Syncing
<1>12. client' = IF client.socket = "syncing" THEN ReceiveAll(Handed(g), client.pending)
                 ELSE Done(g)
  <2>1. g.socket = client.socket /\ g.fetch = client.fetch /\ g.pending = client.pending
    BY <1>7, <1>10 DEF Beside
  <2> QED
    BY <1>3, <1>10, <1>11, <2>1, SynchronizedIs
<1> QED
  BY <1>1, <1>4, <1>7, <1>8, <1>9, <1>10, <1>11, <1>12 DEF b, s

LEMMA DeferWaits ==
  ASSUME Typed, Waiting, Defer, ~astray'
  PROVE  Waits(client', log, page')
<1> DEFINE c == [client EXCEPT !.snapshot = client.fetch.parts]
           b == client.buffered
           g == HoldAll(c, b)
<1>1. /\ client' = IF client.socket = "syncing" THEN ReceiveAll(Handed(g), client.pending)
                   ELSE Done(g)
      /\ Good(g) /\ Beside(c, g) /\ (b = <<>> => g = c)
      /\ page = "ready" /\ page' = page /\ Synchronizing(client)
      /\ client.socket \in {"syncing", "live", "closing"} /\ ~client.timer
      /\ client.held = <<>> \/ b = <<>>
      /\ c.paused /\ c.socket = client.socket /\ c.timer = client.timer /\ c.pos = client.pos
      /\ c.pending = client.pending /\ c.recovery = client.recovery
      /\ c.held = client.held /\ c.incomplete = client.incomplete /\ Good(c)
      /\ \A n : Covers(client, log, n) => \A k \in Keys : Replayed(c)[k] >= Upto(log, k, n)
  BY DeferIs
<1>2. /\ log \in Seq(Keys \cup {Reset}) /\ Len(log) \in Nat /\ client.pos \in 0..Len(log)
      /\ b \in Seq(Events) /\ client.held \in Seq(Events) /\ client.pending \in Seq(Events)
      /\ Len(b) \in Nat /\ Len(client.held) \in Nat /\ Standing
  BY TypedIs, WaitingIs DEF Clients
<1>3. /\ Replayed(g) = Replayed(c) /\ g.paused /\ g.socket = client.socket /\ ~g.timer
      /\ g.pos = client.pos /\ g.recovery = client.recovery
  BY <1>1 DEF Beside, Replayed
<1>4. g = HoldAll(c, b)
  OBVIOUS
<1> HIDE DEF c, b, g
<1>5. CASE client.socket = "syncing"
  <2> DEFINE p == client.pending
             n == client.pos - Len(p)
             d == Handed(g)
  <2>1. /\ n \in 0..Len(log) /\ n \in Nat /\ n + Len(p) = client.pos
        /\ Covers(client, log, n) /\ Follow(p, n) /\ ~client.recovery /\ b = <<>>
    BY <1>2, <1>5, KeptFirst DEF b
  <2>2. client' = ReceiveAll(d, p) /\ p \in Seq(Events)
    BY <1>1, <1>2, <1>5
  <2>3. client.held = <<>> /\ ~client.incomplete
    BY <1>5, WaitingIs
  <2> HIDE DEF n
  <2>4. \A k \in Keys : Replayed(g)[k] >= Upto(log, k, n)
    BY <1>1, <1>3, <2>1
  <2>5. /\ Good(d) /\ d.socket = "live" /\ d.fetch = NoFetch /\ d.buffered = <<>> /\ d.paused
        /\ ~d.timer /\ d.pos = client.pos /\ ~d.recovery /\ d.status = "LIVE"
        /\ d.held = <<>> /\ ~d.incomplete /\ Replayed(d) = Replayed(g)
    BY <1>1, <1>3, <2>1, <2>3, HandedIs DEF Keeps, Replayed
  <2> HIDE DEF d, p
  <2>6. Follow(d.held, n - Len(d.held)) /\ n - Len(d.held) = n
    BY <2>1, <2>5 DEF Follow
  <2>7. Holding(d, log, n)
    BY <2>4, <2>5, <2>6 DEF Holding, Behind, Synchronizing
  <2>8. Holding(ReceiveAll(d, p), log, n + Len(p)) /\ ReceiveAll(d, p).pos = d.pos
    BY <1>2, <2>1, <2>2, <2>5, <2>7, ReceiveAllHolding
  <2>9. Holding(client', log, client'.pos)
    BY <2>1, <2>2, <2>5, <2>8
  <2> QED
    BY <1>1, <2>9, HoldingWaits
<1> DEFINE d == Done(g)
<1>6. /\ d.fetch = NoFetch /\ d.buffered = <<>> /\ d.socket = client.socket /\ d.paused
      /\ ~d.timer /\ d.status = "LIVE" /\ d.pos = client.pos /\ d.recovery = client.recovery
      /\ d.held = g.held /\ d.incomplete = g.incomplete /\ Replayed(d) = Replayed(g)
  BY <1>1, <1>3, DoneIs DEF Keeps, Replayed
<1>7. client.socket # "syncing" => client' = d
  BY <1>1
<1> HIDE DEF d
<1>8. CASE client.socket = "closing"
  <2>1. Closed(d)
    BY <1>6, <1>8 DEF Closed, Synchronizing
  <2>2. Apart(d, log, page')
    BY <1>1, <2>1, BetweenApart DEF Between
  <2>3. Waits(d, log, page')
    BY <1>6, <1>8, <2>2 DEF Apart, Waits
  <2> QED
    BY <1>7, <1>8, <2>3
<1>9. CASE client.socket = "live"
  <2> DEFINE n == client.pos - Len(client.held)
             m == n - Len(b)
  <2>1. Holding(client, log, client.pos) /\ ~client.recovery
    BY <1>2, <1>9, WaitingIs, StandingIs DEF Hearing
  <2>2. ASSUME ~client.incomplete
        PROVE  Follow(client.held, n) /\ Follow(b, m) /\ Covers(client, log, m)
    BY <1>1, <2>1, <2>2 DEF Holding, Behind, Reading, b
  <2>3. ASSUME ~g.incomplete
        PROVE  /\ Follow(g.held, client.pos - Len(g.held))
               /\ \A k \in Keys : Replayed(g)[k] >= Upto(log, k, client.pos - Len(g.held))
    <3>1. CASE b = <<>>
      <4>1. g.held = client.held /\ ~client.incomplete
        BY <1>1, <2>3, <3>1
      <4>2. m = n /\ n = client.pos - Len(g.held)
        BY <1>2, <3>1, <4>1
      <4> HIDE DEF m, n
      <4> QED
        BY <1>1, <1>3, <2>2, <4>1, <4>2
    <3>2. CASE client.held = <<>>
      <4>1. n = client.pos /\ m = client.pos - Len(b)
        BY <1>2, <3>2
      <4>2. ~client.incomplete => m \in Nat /\ m + Len(b) = client.pos
        <5>1. ~client.incomplete => client.pos - Len(b) \in 0..client.pos
          BY <1>2, <2>2, <4>1, BaseOf
        <5> QED
          BY <1>2, <4>1, <5>1
      <4>3. ~client.incomplete => Held(c, m)
        BY <1>1, <3>2 DEF Held, Follow
      <4>4. ~client.incomplete =>
               /\ ~g.incomplete => Len(g.held) = Len(c.held) + Len(b)
               /\ Held(g, m + Len(b))
        <5> HIDE DEF m, n
        <5> QED
          BY <1>1, <1>2, <1>4, <2>2, <4>2, <4>3, HoldAllBeside
      <4>5. ~client.incomplete
        BY <1>1, <1>2, <1>4, <2>3, HoldAllKeeps
      <4>6. Len(g.held) = Len(b) /\ Follow(g.held, client.pos - Len(g.held))
        <5>1. Len(c.held) = 0
          BY <1>1, <3>2
        <5> QED
          BY <1>2, <2>3, <4>2, <4>4, <4>5, <5>1 DEF Held
      <4>7. client.pos - Len(g.held) = m
        BY <4>1, <4>6
      <4> HIDE DEF m, n
      <4> QED
        BY <1>1, <1>3, <2>2, <4>5, <4>6, <4>7
    <3> QED
      BY <1>1, <3>1, <3>2
  <2>4. Holding(d, log, client.pos)
    BY <1>6, <1>9, <2>1, <2>3 DEF Holding, Behind, Synchronizing
  <2>5. Holding(client', log, client'.pos)
    BY <1>6, <1>7, <1>9, <2>4
  <2> QED
    BY <1>1, <2>5, HoldingWaits
<1> QED
  BY <1>1, <1>5, <1>8, <1>9

-----------------------------------------------------------------------------
(* The user pauses the view, and goes on.                                  *)

LEMMA PauseWaits ==
  ASSUME Typed, Sounding, Pause
  PROVE  Waits(client', log, page')
<1>1. /\ client' = [client EXCEPT !.paused = TRUE, !.incomplete = FALSE]
      /\ page = "ready" /\ page' = page /\ client \in Clients
  BY TypedIs DEF Pause
<1>2. client.held = <<>> /\ client.snapshot = NoSnapshot
  BY SoundingIs DEF Clear
<1>3. /\ client'.paused /\ ~client'.incomplete
      /\ client'.held = <<>> /\ client'.snapshot = NoSnapshot
      /\ client'.buffered = client.buffered
      /\ client'.socket = client.socket /\ client'.status = client.status
      /\ client'.fetch = client.fetch /\ client'.timer = client.timer
      /\ client'.recovery = client.recovery /\ client'.pos = client.pos
      /\ client'.pending = client.pending /\ client'.view = client.view
  BY <1>1, <1>2 DEF Clients
<1>4. Syncing(client', log) /\ Opening(client') /\ Hearing(client') /\ Status(client')
  BY <1>3, SoundingIs, StandingIs
  DEF Syncing, Opening, Hearing, Status, Covers, Synchronizing
<1>5. Mounted(client')
  BY <1>1, <1>3, SoundingIs, StandingIs DEF Mounted, Synchronizing
<1>6. ASSUME client.socket = "live" PROVE Holding(client', log, client'.pos)
  <2>1. /\ Hooked(client) /\ TakenIn(client, log, client.pos) /\ ~client.recovery
        /\ Mounted(client) /\ Status(client)
    BY <1>1, <1>6, SoundingIs, StandingIs DEF Hearing
  <2>2. client.pos \in Int /\ Len(<<>>) = 0
    BY <1>1 DEF Clients
  <2>3. Follow(client'.held, client'.pos - Len(client'.held))
        /\ client'.pos - Len(client'.held) = client.pos
    BY <1>3, <2>2 DEF Follow
  <2>4. Reading(client, log, client.pos) => Reading(client', log, client.pos)
    BY <1>3 DEF Reading, Covers
  <2>5. Behind(client', log, client'.pos)
    BY <1>3, <2>1, <2>3, <2>4 DEF Behind, Replayed, TakenIn, Synchronizing
  <2> QED
    BY <1>3, <1>6, <2>1, <2>5 DEF Holding, Hooked, Mounted, Status, Synchronizing
<1> QED
  BY <1>1, <1>3, <1>4, <1>5, <1>6 DEF Waits, Stands

(* What Resume begins with.                                                *)
Resumed(c) == [c EXCEPT !.paused = FALSE, !.snapshot = NoSnapshot, !.held = <<>>,
                        !.incomplete = FALSE]
Revealed(c) == IF c.snapshot = NoSnapshot THEN Resumed(c)
               ELSE [Resumed(c) EXCEPT !.view = c.snapshot]

LEMMA ResumedIs ==
  ASSUME Typed, NEW c, c \in {Resumed(client), Revealed(client)}
  PROVE  /\ Good(c) /\ ~c.paused /\ c.snapshot = NoSnapshot /\ c.held = <<>> /\ ~c.incomplete
         /\ c.socket = client.socket /\ c.status = client.status /\ c.fetch = client.fetch
         /\ c.timer = client.timer /\ c.recovery = client.recovery /\ c.pos = client.pos
         /\ c.pending = client.pending /\ c.buffered = client.buffered
         /\ c = Revealed(client) => c.view = Replayed(client)
<1> DEFINE d == Resumed(client)
           s == client.snapshot
<1>1. client \in Clients /\ Good(client) /\ PauseLimit \in Nat /\ s \in Views \cup {NoSnapshot}
  BY TypedIs, SyncAssumption DEF Clients
<1>2. <<>> \in Seq(Events) /\ Len(<<>>) = 0
  OBVIOUS
<1>3. /\ d \in Clients /\ ~d.paused /\ d.snapshot = NoSnapshot /\ d.held = <<>> /\ ~d.incomplete
      /\ d.socket = client.socket /\ d.status = client.status /\ d.fetch = client.fetch
      /\ d.timer = client.timer /\ d.recovery = client.recovery /\ d.pos = client.pos
      /\ d.pending = client.pending /\ d.buffered = client.buffered /\ d.view = client.view
  BY <1>1, <1>2 DEF Resumed, Clients
<1>4. Good(d)
  BY <1>1, <1>2, <1>3 DEF Good, Fits
<1>5. Revealed(client) = IF s = NoSnapshot THEN d ELSE [d EXCEPT !.view = s]
  BY DEF Revealed
<1>6. Replayed(client) = IF s = NoSnapshot THEN client.view ELSE s
  BY DEF Replayed
<1> HIDE DEF d, s
<1>7. CASE c = d
  BY <1>3, <1>4, <1>5, <1>6, <1>7 DEF Clients
<1>8. CASE c # d
  <2>1. c = [d EXCEPT !.view = s] /\ s \in Views /\ s # NoSnapshot
    BY <1>1, <1>5, <1>8 DEF d
  <2>2. /\ c \in Clients /\ ~c.paused /\ c.snapshot = NoSnapshot /\ c.held = <<>> /\ ~c.incomplete
        /\ c.socket = d.socket /\ c.status = d.status /\ c.fetch = d.fetch
        /\ c.timer = d.timer /\ c.recovery = d.recovery /\ c.pos = d.pos
        /\ c.pending = d.pending /\ c.buffered = d.buffered /\ c.view = s
    BY <1>3, <2>1 DEF Clients
  <2>3. Good(c)
    BY <1>1, <1>2, <1>4, <2>2 DEF Good, Fits
  <2> QED
    BY <1>3, <1>6, <2>1, <2>2, <2>3
<1> QED
  BY <1>7, <1>8

LEMMA ResumeIs ==
  ASSUME Typed, Resume
  PROVE  /\ page = "ready" /\ page' = page
         /\ client' = CASE client.status = "OFFLINE" -> Resumed(client)
                        [] client.status # "OFFLINE" /\ client.incomplete ->
                              Synchronize(Resumed(client), "recover")
                        [] OTHER -> ReceiveAll(Revealed(client), client.held)
  BY DEF Resume, Resumed, Revealed

(* A view that goes on where it was, without a live connection.            *)
LEMMA ResumedStands ==
  ASSUME Typed, Standing, page = "ready", client.socket # "live",
         NEW c, c \in {Resumed(client), Revealed(client)}
  PROVE  Sound(c, log, "ready")
<1>1. /\ ~c.paused /\ Clear(c)
      /\ c.socket = client.socket /\ c.status = client.status /\ c.fetch = client.fetch
      /\ c.timer = client.timer /\ c.recovery = client.recovery /\ c.pos = client.pos
      /\ c.pending = client.pending /\ c.buffered = client.buffered
  BY ResumedIs DEF Clear
<1>2. Syncing(c, log) /\ Opening(c) /\ Hearing(c) /\ Status(c) /\ Mounted(c)
  BY <1>1, StandingIs DEF Syncing, Opening, Hearing, Status, Mounted, Covers, Synchronizing
<1> QED
  BY <1>1, <1>2 DEF Sound, Stands

LEMMA ResumeSound ==
  ASSUME Typed, Waiting, Resume, ~astray'
  PROVE  Sound(client', log, page')
<1>1. /\ page = "ready" /\ page' = page /\ Standing /\ Mounted(client) /\ Status(client)
      /\ client \in Clients /\ client.pos \in 0..Len(log) /\ Len(log) \in Nat
      /\ log \in Seq(Keys \cup {Reset}) /\ client.held \in Seq(Events)
  BY TypedIs, WaitingIs, ResumeIs, StandingIs DEF Clients
<1>2. CASE client.status = "OFFLINE"
  <2>1. client' = Resumed(client)
    BY <1>2, ResumeIs
  <2>2. client.socket # "live"
    BY <1>2, WaitingIs DEF Holding
  <2> QED
    BY <1>1, <2>1, <2>2, ResumedStands
<1>3. CASE client.status # "OFFLINE" /\ client.incomplete
  <2> DEFINE c == Resumed(client)
             g == [waiting |-> {"recover"}, parts |-> NoSnapshot]
  <2>1. client' = Synchronize(c, "recover")
    BY <1>3, ResumeIs
  <2>2. /\ client.socket \in {"live", "closing"} /\ ~Synchronizing(client)
        /\ (client.socket = "live" => ~client.recovery)
    BY <1>1, <1>3, WaitingIs, StandingIs DEF Resume, Strays, Hearing
  <2>3. /\ Good(c) /\ ~c.paused /\ c.socket = client.socket /\ ~Synchronizing(c) /\ ~c.timer
        /\ c.recovery = client.recovery /\ c.pos = client.pos /\ c.buffered = <<>>
        /\ c.held = <<>> /\ c.snapshot = NoSnapshot /\ ~c.incomplete
    BY <1>1, <2>2, ResumedIs DEF Mounted, Status, Synchronizing
  <2> HIDE DEF c
  <2>4. client' = [c EXCEPT !.fetch = g, !.status = "CONNECTING"]
    BY <2>1, <2>3 DEF Synchronize
  <2>5. g # NoFetch /\ g.parts = NoSnapshot
    BY DEF NoFetch
  <2> HIDE DEF g
  <2>6. /\ ~client'.paused /\ client'.socket = client.socket /\ client'.fetch = g
        /\ ~client'.timer /\ client'.recovery = client.recovery
        /\ client'.pos = client.pos /\ client'.buffered = <<>>
        /\ client'.status = "CONNECTING"
        /\ client'.held = <<>> /\ client'.snapshot = NoSnapshot /\ ~client'.incomplete
    BY <2>3, <2>4 DEF Good, Clients
  <2>7. TakenIn(client', log, client.pos)
    BY <2>5, <2>6 DEF TakenIn, Reading, Synchronizing, Follow, Covers, NoSnapshot
  <2>8. Taking(client', log, client.pos, client.pos)
    BY <2>2, <2>5, <2>6, <2>7 DEF Taking, Clear, Hooked, Synchronizing
  <2>9. Sound(client', log, "ready")
    BY <2>8, TakingSound
  <2> QED
    BY <1>1, <2>9
<1>4. CASE client.status # "OFFLINE" /\ ~client.incomplete
  <2> DEFINE c == Revealed(client)
             h == client.held
             n == client.pos - Len(h)
  <2>1. client' = ReceiveAll(c, h)
    BY <1>4, ResumeIs
  <2>2. /\ Good(c) /\ ~c.paused /\ Clear(c) /\ c.socket = client.socket /\ c.fetch = client.fetch
        /\ c.status = client.status /\ c.timer = client.timer /\ c.recovery = client.recovery
        /\ c.pos = client.pos /\ c.buffered = client.buffered /\ c.view = Replayed(client)
    BY ResumedIs DEF Clear
  <2>3. CASE client.socket = "live"
    <3>1. Holding(client, log, client.pos)
      BY <2>3, WaitingIs
    <3>2. Follow(h, n) /\ (Synchronizing(client) => Reading(client, log, n))
          /\ (~Synchronizing(client) => \A k \in Keys : Replayed(client)[k] >= Upto(log, k, n))
      BY <1>4, <3>1 DEF Holding, Behind
    <3>3. n \in 0..client.pos
      BY <1>1, <3>2, BaseOf
    <3>4. n \in Nat /\ n + Len(h) = client.pos
      BY <1>1, <3>3
    <3>5. h \in Seq(Events)
      BY <1>1
    <3> HIDE DEF c, h, n
    <3>6. TakenIn(c, log, n)
      BY <2>2, <3>2 DEF TakenIn, Reading, Covers, Synchronizing
    <3>7. Taking(c, log, n, client.pos)
      BY <2>2, <2>3, <3>1, <3>6 DEF Taking, Holding, Hooked, Synchronizing
    <3>8. Taking(ReceiveAll(c, h), log, n + Len(h), client.pos)
      BY <1>1, <2>2, <3>2, <3>4, <3>5, <3>7, ReceiveAllTaking
    <3>9. Taking(client', log, client.pos, client.pos)
      BY <2>1, <3>4, <3>8
    <3> QED
      BY <1>1, <3>9, TakingSound
  <2>4. CASE client.socket = "closing"
    <3> HIDE DEF c
    <3>1. Taking(c, log, client.pos, client.pos)
      BY <1>1, <2>2, <2>4 DEF Taking, Mounted, Status, Synchronizing
    <3>2. Taking(client', log, client.pos, client.pos)
      BY <1>1, <2>1, <2>2, <2>4, <3>1, ReceiveAllClosing
    <3> QED
      BY <1>1, <3>2, TakingSound
  <2>5. CASE client.socket \notin {"live", "closing"}
    <3>1. client' = c
      BY <2>1, <2>5, WaitingIs, ReceiveNothing
    <3> QED
      BY <1>1, <2>5, <3>1, ResumedStands
  <2> QED
    BY <2>3, <2>4, <2>5
<1> QED
  BY <1>2, <1>3, <1>4

-----------------------------------------------------------------------------
(* Every step keeps what is said of the view.                              *)

LEMMA TrackedIs ==
  ASSUME Typed, Tracked
  PROVE  /\ Standing /\ (client.paused => Waiting) /\ (~client.paused => Sounding)
  BY SoundingIs, WaitingIs DEF Tracked

LEMMA ApartTracked ==
  ASSUME Typed, Tracked, Apartly, log' = log
  PROVE  Tracked'
<1>1. Apart(client', log, page')
  BY DEF Apartly
<1>2. CASE Clear(client')
  <2>1. Sound(client', log, page') \/ Waits(client', log, page')
    BY <1>1, <1>2 DEF Apart, Sound, Waits, Clear
  <2> QED
    BY <2>1 DEF Tracked, Sounding, Waiting
<1>3. CASE Unshown /\ Keeps(client, client') /\ (Bare \/ client'.socket = "closing")
  <2>1. CASE client.paused
    <3>1. Waiting
      BY <2>1, TrackedIs
    <3>2. client.snapshot = NoSnapshot
      BY <1>3, <3>1, WaitingIs, StandingIs DEF Unshown, Mounted, Unmounted
    <3>3. Bare => client.held = <<>> /\ ~client.incomplete
      BY <3>1, WaitingIs DEF Bare
    <3>4. Waits(client', log, page')
      BY <1>1, <1>3, <2>1, <3>2, <3>3 DEF Apart, Waits, Keeps
    <3> QED
      BY <3>4 DEF Tracked, Waiting
  <2>2. CASE ~client.paused
    <3>1. Clear(client') /\ ~client'.paused
      BY <1>3, <2>2, TrackedIs, SoundingIs, KeepsClear DEF Keeps
    <3>2. Sound(client', log, page')
      BY <1>1, <3>1 DEF Apart, Sound
    <3> QED
      BY <3>2 DEF Tracked, Sounding
  <2> QED
    BY <2>1, <2>2
<1> QED
  BY <1>2, <1>3 DEF Apartly

(* An event that is published changes nothing that was received.           *)
LEMMA PublishTracked ==
  ASSUME Typed, Tracked, NEW x \in Keys \cup {Reset}, Publish(x)
  PROVE  Tracked'
<1>1. /\ log \in Seq(Keys \cup {Reset}) /\ log' = Append(log, x) /\ client' = client /\ page' = page
      /\ Len(log) \in Nat /\ client.pos \in 0..Len(log)
      /\ client.buffered \in Seq(Events) /\ client.pending \in Seq(Events)
      /\ client.held \in Seq(Events)
  BY TypedIs DEF Publish, Clients
<1>2. ASSUME NEW k, NEW n \in Int, n <= Len(log)
      PROVE  Upto(log', k, n) = Upto(log, k, n)
  <2>1. \A i \in 1..n : log'[i] = log[i]
    BY <1>1, <1>2
  <2>2. {i \in 1..n : log'[i] \in {k, Reset}} = {i \in 1..n : log[i] \in {k, Reset}}
    BY <2>1
  <2> QED
    BY <2>2 DEF Upto
<1>3. Len(client.buffered) \in Nat /\ Len(client.pending) \in Nat /\ Len(client.held) \in Nat
  BY <1>1
<1>4. /\ client.pos \in Int /\ client.pos <= Len(log)
      /\ \A i \in Nat : client.pos - i \in Int /\ client.pos - i <= Len(log)
      /\ \A i, j \in Nat : client.pos - i - j \in Int /\ client.pos - i - j <= Len(log)
  BY <1>1
<1>5. \A n \in Int : n <= Len(log) => (Covers(client, log, n) => Covers(client, log', n))
  BY <1>2 DEF Covers
<1>6. Stands(client, log, page) => Stands(client, log', page)
  BY <1>3, <1>4, <1>5 DEF Stands, Syncing
<1>7. Reading(client, log, client.pos) => Reading(client, log', client.pos)
  BY <1>3, <1>4, <1>5 DEF Reading
<1>8. TakenIn(client, log, client.pos) => TakenIn(client, log', client.pos)
  BY <1>2, <1>4, <1>7 DEF TakenIn
<1>9. Behind(client, log, client.pos) => Behind(client, log', client.pos)
  <2> DEFINE n == client.pos - Len(client.held)
  <2>1. n \in Int /\ n <= Len(log)
        /\ n - Len(client.buffered) \in Int /\ n - Len(client.buffered) <= Len(log)
    BY <1>3, <1>4
  <2> HIDE DEF n
  <2>2. Reading(client, log, n) => Reading(client, log', n)
    BY <1>5, <2>1 DEF Reading
  <2>3. \A k \in Keys : Upto(log', k, n) = Upto(log, k, n)
    BY <1>2, <2>1
  <2> QED
    BY <2>2, <2>3 DEF Behind, n
<1>10. Sound(client, log, page) => Sound(client, log', page)
  BY <1>6, <1>8 DEF Sound
<1>11. Waits(client, log, page) => Waits(client, log', page)
  BY <1>6, <1>9 DEF Waits, Holding
<1> QED
  BY <1>1, <1>10, <1>11 DEF Tracked, Sounding, Waiting

LEMMA ServeTracked ==
  ASSUME Typed, Tracked, NEW k \in Keys, Serve(k)
  PROVE  Tracked'
<1>1. log' = log
  BY DEF Serve
<1>2. CASE client.socket # "live"
  BY <1>1, <1>2, TrackedIs, ServeApart, ApartTracked
<1>3. CASE client.socket = "live"
  <2>1. Sound(client', log, page') \/ Waits(client', log, page')
    BY <1>3, TrackedIs, ServeSound, ServeWaits
  <2> QED
    BY <1>1, <2>1 DEF Tracked, Sounding, Waiting
<1> QED
  BY <1>2, <1>3

LEMMA DeliverTracked ==
  ASSUME Typed, Tracked, Deliver
  PROVE  Tracked'
<1>1. log' = log
  BY DEF Deliver
<1>2. CASE client.socket # "live"
  BY <1>1, <1>2, TrackedIs, DeliverApart, ApartTracked
<1>3. CASE client.socket = "live"
  <2>1. Sound(client', log, page') \/ Waits(client', log, page')
    BY <1>3, TrackedIs, DeliverSound, DeliverWaits
  <2> QED
    BY <1>1, <2>1 DEF Tracked, Sounding, Waiting
<1> QED
  BY <1>2, <1>3

LEMMA ReadTracked ==
  ASSUME Typed, Tracked, ReadAgain \/ Commit \/ Defer \/ Pause \/ Resume, ~astray'
  PROVE  Tracked'
<1>1. log' = log
  BY DEF ReadAgain, Commit, Defer, Pause, Resume
<1>2. Sound(client', log, page') \/ Waits(client', log, page')
  <2>1. CASE ReadAgain
    BY <2>1, ReadAgainTracked
  <2>2. CASE Commit
    BY <2>2, TrackedIs, CommitSound DEF Commit
  <2>3. CASE Defer
    BY <2>3, TrackedIs, DeferWaits DEF Defer
  <2>4. CASE Pause
    BY <2>4, TrackedIs, PauseWaits DEF Pause
  <2>5. CASE Resume
    BY <2>5, TrackedIs, ResumeSound DEF Resume
  <2> QED
    BY <2>1, <2>2, <2>3, <2>4, <2>5
<1> QED
  BY <1>1, <1>2 DEF Tracked, Sounding, Waiting

LEMMA ApartSteps ==
  ASSUME Typed, Tracked, ~astray',
         \/ Register \/ AuthOk \/ AuthTimeout \/ ReconnectTimer \/ Loaded \/ FetchFails
         \/ Reconnect \/ RetryLoad \/ Restored
  PROVE  Tracked'
<1>1. log' = log
  BY DEF Register, AuthOk, AuthTimeout, ReconnectTimer, Loaded, FetchFails, Reconnect,
     RetryLoad, Restored
<1>2. Apartly
  BY TrackedIs, RegisterApart, AuthOkApart, AuthTimeoutApart, ConnectingApart, LoadedApart,
     FetchFailsApart, LoadingApart
<1> QED
  BY <1>1, <1>2, ApartTracked

(* The steps that end a connection, and with it what was astray.           *)
Ending == Dropped \/ (\E refreshes \in BOOLEAN : Rejected(refreshes)) \/ ProfileChanged
          \/ NewToken \/ EndSession

LEMMA EndingTracked ==
  ASSUME Typed, Followed, Ending
  PROVE  Tracked' /\ astray' = FALSE
<1>1. log' = log /\ astray' = FALSE
  BY DEF Ending, Dropped, Rejected, ProfileChanged, NewToken, EndSession
<1>2. Ends
  <2>1. CASE NewToken \/ EndSession
    BY <2>1, NewTokenEnds, EndSessionEnds
  <2>2. CASE Dropped \/ ProfileChanged \/ \E refreshes \in BOOLEAN : Rejected(refreshes)
    <3>1. client.socket # "none"
      BY <2>2 DEF Dropped, ProfileChanged, Rejected
    <3>2. page = "ready"
      <4>1. CASE astray
        BY <4>1 DEF Followed
      <4>2. CASE ~astray
        <5>1. Standing
          BY <4>2 DEF Followed, Sound, Waits, Standing
        <5> QED
          BY <3>1, <5>1, StandingIs
      <4> QED
        BY <4>1, <4>2
    <3> QED
      BY <2>2, <3>2, ClosingEnds
  <2> QED
    BY <2>1, <2>2 DEF Ending
<1>3. Sound(client', log, page') \/ Waits(client', log, page')
  BY <1>2 DEF Ends, Apart, Sound, Waits, Clear
<1> QED
  BY <1>1, <1>3 DEF Tracked, Sounding, Waiting

LEMMA FollowedKept ==
  ASSUME Typed, Followed, [Next]_vars
  PROVE  Followed'
<1>1. CASE UNCHANGED vars
  BY <1>1 DEF vars, Followed
<1>2. CASE Next /\ Ending
  <2>1. Tracked' /\ astray' = FALSE
    BY <1>2, EndingTracked
  <2> QED
    BY <2>1 DEF Followed, Tracked, Sounding, Waiting
<1>3. CASE Next /\ ~Ending /\ astray'
  <2>1. page = "ready" => page' = "ready"
    BY <1>3, StepAstray DEF Ending
  <2>2. astray => page = "ready"
    BY DEF Followed
  <2>3. page' = "ready"
    BY <1>3, <2>1, <2>2, StepAstray DEF Ending
  <2> QED
    BY <1>3, <2>3 DEF Followed
<1>4. CASE Next /\ ~Ending /\ ~astray'
  <2>1. ~astray
    BY <1>4, StepAstray DEF Ending
  <2>2. Tracked
    BY <2>1 DEF Followed, Tracked, Sounding, Waiting
  <2>3. Tracked'
    BY <1>4, <2>2, PublishTracked, ServeTracked, DeliverTracked, ReadTracked, ApartSteps
    DEF Next, Ending
  <2> QED
    BY <1>4, <2>3 DEF Followed, Tracked, Sounding, Waiting
<1> QED
  BY <1>1, <1>2, <1>3, <1>4

LEMMA InitFollowed == Init => Followed
<1> SUFFICES ASSUME Init PROVE Followed
  OBVIOUS
<1> DEFINE f == [waiting |-> {"page"}, parts |-> NoSnapshot]
<1>1. /\ ~client.paused /\ client.socket = "none" /\ client.status = "CONNECTING" /\ ~client.timer
      /\ client.fetch = f /\ client.buffered = <<>> /\ client.held = <<>>
      /\ client.snapshot = NoSnapshot /\ ~client.incomplete /\ page = "loading" /\ ~astray
  BY DEF Init
<1>2. f # NoFetch
  BY DEF NoFetch
<1> HIDE DEF f
<1>3. Clear(client)
  BY <1>1 DEF Clear
<1>4. Sound(client, log, page)
  BY <1>1, <1>2, <1>3
  DEF Sound, Stands, Syncing, Opening, Hearing, Status, Unmounted, Synchronizing
<1> QED
  BY <1>1, <1>4 DEF Followed

LEMMA FollowedAlways == Spec => [](Typed /\ Followed)
<1>1. Init => Typed /\ Followed
  BY InitTyped, InitFollowed
<1>2. Typed /\ Followed /\ [Next]_vars => (Typed /\ Followed)'
  BY TypedKept, FollowedKept
<1> QED
  BY <1>1, <1>2, PTL DEF Spec

(* A view shows everything that was received: however often connections    *)
(* break, requests fail and snapshots race the events, and however often   *)
(* the view is paused and the factory reset, no event is lost and no       *)
(* snapshot overwrites a newer value, unless one of the three steps of     *)
(* Strays happened on this connection.                                     *)
THEOREM NothingReceivedIsLost == Spec => []ShowsEverythingReceived
<1>1. Typed /\ Followed => ShowsEverythingReceived
  <2> SUFFICES ASSUME Typed, Followed, ~astray PROVE UpToDate
    BY DEF ShowsEverythingReceived
  <2>1. Tracked
    BY DEF Followed, Tracked, Sounding, Waiting
  <2> QED
    BY <2>1, TrackedIs, SoundingIs DEF UpToDate, TakenIn, Upto, ValueAt
<1> QED
  BY <1>1, FollowedAlways, PTL

(* LIVE is shown only while the socket is connected, or closing, with the  *)
(* same exception.                                                         *)
THEOREM LiveIsConnected == Spec => []LiveMeansConnected
<1>1. Typed /\ Followed => LiveMeansConnected
  <2> SUFFICES ASSUME Typed, Followed, ~astray PROVE LiveMeansConnected
    BY DEF LiveMeansConnected
  <2>1. Tracked
    BY DEF Followed, Tracked, Sounding, Waiting
  <2> QED
    BY <2>1, TrackedIs, StandingIs DEF LiveMeansConnected, Status
<1> QED
  BY <1>1, FollowedAlways, PTL
=============================================================================
