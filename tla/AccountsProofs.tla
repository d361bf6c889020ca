--------------------------- MODULE AccountsProofs ---------------------------
(***************************************************************************)
(* Accounts and the browser session: SessionSurvives, LogoutEnds and       *)
(* LinkWorksOnce for any number of tabs, requests, links and resets.       *)
(*                                                                         *)
(* SessionSurvives.  A tab has one refresh in flight at most (OneFlight),  *)
(* and what its answer brings is new to everybody (Arriving).  So a tab    *)
(* whose session nobody else uses (OneTab) has had the token it holds      *)
(* replaced by the time it is spent, or a refresh or a logout that spent   *)
(* it is still under way (StillGood).  The tab can be opened on what the   *)
(* last one stored: another holds that pair, or nobody uses its session    *)
(* and it is good (Kept).  What is still asked of the server on behalf of  *)
(* a page that was left names a pair that no other session depends on      *)
(* (AdriftRight).                                                          *)
(*                                                                         *)
(* LogoutEnds.  Of the pairs of a session one at most is not spent: a tab  *)
(* holds it, or the store, or the refresh that will bring it (HeldPair).   *)
(* A logout that no refresh crosses names that pair (LogoutRight).         *)
(*                                                                         *)
(* LinkWorksOnce.  A reset that is about to set the password holds the row *)
(* of its link, and the link is open (Holding).  A link that was spent is  *)
(* not open (SpentIsClosed), nor is one that a finished request for a      *)
(* later link had seen (ReplacedIsClosed); for the second, a request that  *)
(* holds its rows has all those it saw, or they were closed before it came *)
(* to them (Covered).  No link opens twice, because a link is opened by    *)
(* the request of its name alone (Fresh, Known).                           *)
(***************************************************************************)
EXTENDS Accounts, AuthSession, FiniteSetTheorems, TLAPS

-----------------------------------------------------------------------------
\* A request, or a refresh, that is under way.
Live(x) == x.state # "none"

\* The fields of a request: its tab, and the refresh token of a logout.
CallRight(x) ==
    Live(x) =>
        /\ DOMAIN x = {"state", "tab", "logout", "retried", "access", "body", "on"}
        /\ x.tab \in Tabs /\ x.body \in 1..issued

\* A refresh that was answered has spent its token for one of the same session.
FlightRight(x) ==
    Live(x) =>
        /\ DOMAIN x = {"state", "tab", "pair", "new"}
        /\ x.state \in {"sent", "answered"} /\ x.tab \in Tabs /\ x.pair \in 1..issued
        /\ x.state = "answered" =>
              /\ x.new \in 1..issued \ blacklisted /\ x.pair \in blacklisted
              /\ session[x.new] = session[x.pair]

\* The types and the shapes that the steps below need.
Typed ==
    /\ issued \in 0..MaxPairs
    /\ DOMAIN session = 1..MaxPairs /\ DOMAIN tab = Tabs /\ DOMAIN promise = Tabs
    /\ DOMAIN call = Calls /\ DOMAIN flight = Calls
    /\ \A n \in 1..issued : session[n] \in 1..issued
    /\ blacklisted \subseteq 1..issued
    /\ \A t \in Tabs : tab[t] \in 0..issued
    /\ \A c \in Calls : CallRight(call[c]) /\ FlightRight(flight[c])

\* A tab has one refresh in flight at most, the one its requests wait for.
OneFlight ==
    /\ \A t \in Tabs : promise[t] = FlightsOf(t)
    /\ \A t \in Tabs : \A c, d \in FlightsOf(t) : c = d
    /\ \A c \in Calls : Live(flight[c]) =>
         call[c].state = "waiting" /\ call[c].tab = flight[c].tab /\ call[c].on = {c}

\* A pair is in a store, or named by something that was sent.
NewHeld(n) ==
    \/ persisted = n
    \/ \E a \in adrift : a.pair = n
    \/ \E t \in Tabs : tab[t] = n
    \/ \E c \in Calls : Live(call[c]) /\ call[c].body = n
    \/ \E c \in Calls : Live(flight[c]) /\ flight[c].pair = n

\* What an answer brings is new to everybody.
Arriving ==
    \A c \in Calls : flight[c].state = "answered" =>
        /\ ~ NewHeld(flight[c].new)
        /\ \A d \in Calls : flight[d].state = "answered" /\ flight[d].new = flight[c].new => d = c

\* A tab has a token of the session in its store.
Holds(t, s) == tab[t] # 0 /\ session[tab[t]] = s

\* It has one there, or in a request or a refresh of its own.
Uses(t, s) ==
    \/ Holds(t, s)
    \/ \E c \in Calls : Live(call[c]) /\ call[c].tab = t /\ session[call[c].body] = s
    \/ \E c \in Calls : Live(flight[c]) /\ flight[c].tab = t /\ session[flight[c].pair] = s

\* A session that is not tangled has one tab.
OneTab == \A s \in 1..issued \ tangled : \A t, u \in Tabs : Uses(t, s) /\ Uses(u, s) => t = u

\* The session of what is persisted.
Stored(s) == persisted # 0 /\ session[persisted] = s

\* Nobody uses a session.
Loose(s) == \A t \in Tabs : ~ Uses(t, s)

\* What is persisted is the pair of a tab, or a good one that a tab has left there.
Kept ==
    /\ persisted \in 0..issued
    /\ \A s \in 1..issued \ tangled :
         Stored(s) => (\E t \in Tabs : tab[t] = persisted) \/ (Loose(s) /\ persisted \notin blacklisted)

\* What spends the token of a tab has it replaced or dropped.
StillGood ==
    \A t \in Tabs : \A s \in 1..issued \ tangled :
        Holds(t, s) /\ tab[t] \in blacklisted => FlightsIn(s) # {} \/ LogoutsOf(s) # {}

\* A request that nobody waits for is of a session that is tangled, or it is a logout
\* whose tab has dropped the pair it names.
Harmless(a) ==
    \/ session[a.pair] \in tangled
    \/ a.refresh = FALSE /\ persisted # a.pair /\ \A t \in Tabs : tab[t] # a.pair
AdriftRight == \A a \in adrift : a \in [pair : 1..issued, refresh : BOOLEAN] /\ Harmless(a)

\* The invariant of SessionSurvives.
SurviveInv == Typed /\ OneFlight /\ Arriving /\ OneTab /\ Kept /\ StillGood /\ AdriftRight

\* A request that is not under way has its state alone.
LEMMA FreeIs == Free.state = "none" /\ DOMAIN Free = {"state"}
BY DEF Free

\* The uses of a session of a step that adds none.
LEMMA UsesKept ==
    ASSUME OneTab, issued' = issued, tangled \subseteq tangled',
           \A t \in Tabs : \A s \in 1..issued : s \notin tangled' /\ Uses(t, s)' => Uses(t, s)
    PROVE  OneTab'
<1>1. ASSUME NEW s \in 1..issued, s \notin tangled', NEW t \in Tabs, NEW u \in Tabs, Uses(t, s)', Uses(u, s)'
      PROVE  t = u
    BY <1>1 DEF OneTab
<1> QED
    BY <1>1 DEF OneTab

\* Who holds a pair, or has a flight or a call for it, uses its session.
LEMMA HoldersUse ==
    ASSUME Typed, NEW n \in 1..issued
    PROVE  /\ \A t \in Tabs : tab[t] = n => Uses(t, session[n])
           /\ \A c \in Calls : Live(call[c]) /\ call[c].body = n =>
                 call[c].tab \in Tabs /\ Uses(call[c].tab, session[n])
           /\ \A c \in Calls : Live(flight[c]) /\ flight[c].pair = n =>
                 flight[c].tab \in Tabs /\ Uses(flight[c].tab, session[n])
BY DEF Typed, CallRight, FlightRight, Uses, Holds, Live

\* A step that hands no pair out and answers no refresh.
LEMMA ArrivingKept ==
    ASSUME Arriving, \A n \in 1..issued : NewHeld(n)' => NewHeld(n), Typed,
           \A c \in Calls : flight'[c].state = "answered" => flight'[c] = flight[c]
    PROVE  Arriving'
<1>1. ASSUME NEW c \in Calls, flight'[c].state = "answered" PROVE ~ NewHeld(flight[c].new)'
    <2>1. flight[c].state = "answered" /\ flight[c].new \in 1..issued
        BY <1>1 DEF Typed, FlightRight, Live
    <2>2. ~ NewHeld(flight[c].new)
        BY <2>1 DEF Arriving
    <2>3. PICK n \in 1..issued : n = flight[c].new
        BY <2>1
    <2>4. flight'[c].new = n
        BY <1>1, <2>3
    <2>5. ~ NewHeld(n)'
        BY <2>2, <2>3
    <2> QED
        BY <2>4, <2>5, <2>3
<1> QED
    BY <1>1 DEF Arriving

\* Nothing is held that was not.
LEMMA Shrinking ==
    ASSUME SurviveInv, issued' = issued, session' = session, tangled \subseteq tangled',
           \A t \in Tabs : tab'[t] \in {0, tab[t]}, persisted' \in {0, persisted},
           \A c \in Calls : Live(call'[c]) =>
              Live(call[c]) /\ call'[c].tab = call[c].tab /\ call'[c].body = call[c].body,
           \A c \in Calls : Live(flight'[c]) => flight'[c] = flight[c],
           \A a \in adrift' \ adrift : \E c \in Calls :
              (Live(call[c]) /\ call[c].body = a.pair) \/ (Live(flight[c]) /\ flight[c].pair = a.pair)
    PROVE  /\ OneTab' /\ Arriving'
           /\ \A t \in Tabs : \A s \in 1..issued : Uses(t, s)' => Uses(t, s)
<1>1. Typed /\ Arriving /\ OneTab
    BY DEF SurviveInv
<1>2. ASSUME NEW t \in Tabs, NEW s \in 1..issued, Uses(t, s)' PROVE Uses(t, s)
    <2>1. CASE tab'[t] # 0 /\ session'[tab'[t]] = s
        <3>1. tab'[t] = tab[t]
            BY <2>1
        <3> QED
            BY <2>1, <3>1 DEF Uses, Holds
    <2>2. ASSUME NEW c \in Calls, Live(call'[c]), call'[c].tab = t, session'[call'[c].body] = s
          PROVE  Uses(t, s)
        BY <2>2 DEF Uses
    <2>3. ASSUME NEW c \in Calls, Live(flight'[c]), flight'[c].tab = t, session'[flight'[c].pair] = s
          PROVE  Uses(t, s)
        BY <2>3 DEF Uses
    <2> QED
        BY <1>2, <2>1, <2>2, <2>3 DEF Uses, Holds, Live
<1>4. OneTab'
    BY <1>1, <1>2, UsesKept
<1>5. ASSUME NEW n \in 1..issued, NewHeld(n)' PROVE NewHeld(n)
    <2>1. ASSUME NEW t \in Tabs, tab'[t] = n PROVE NewHeld(n)
        BY <2>1 DEF NewHeld
    <2>2. ASSUME NEW c \in Calls, Live(call'[c]), call'[c].body = n PROVE NewHeld(n)
        BY <2>2 DEF NewHeld
    <2>3. ASSUME NEW c \in Calls, Live(flight'[c]), flight'[c].pair = n PROVE NewHeld(n)
        BY <2>3 DEF NewHeld
    <2>4. ASSUME NEW a \in adrift', a.pair = n PROVE NewHeld(n)
        BY <2>4 DEF NewHeld
    <2>5. persisted' = n => NewHeld(n)
        BY DEF NewHeld
    <2> QED
        BY <1>5, <2>1, <2>2, <2>3, <2>4, <2>5 DEF NewHeld, Live
<1>6. \A c \in Calls : flight'[c].state = "answered" => flight'[c] = flight[c]
    BY DEF Live
<1>7. Arriving'
    BY <1>1, <1>5, <1>6, ArrivingKept
<1> QED
    BY <1>2, <1>4, <1>7

\* What is persisted stays what it was, or is cleared.
LEMMA StoreKept ==
    ASSUME SurviveInv, issued' = issued, session' = session, tangled \subseteq tangled',
           \A t \in Tabs : \A s \in 1..issued : s \notin tangled' /\ Uses(t, s)' => Uses(t, s),
           persisted' = 0 \/ (persisted' = persisted /\ tab' = tab),
           \A n \in blacklisted' \ blacklisted : \E c \in Calls : Live(call[c]) /\ call[c].body = n
    PROVE  Kept'
<1>1. Typed /\ Kept
    BY DEF SurviveInv
<1>2. CASE persisted' = 0
    BY <1>1, <1>2 DEF Kept, Stored, Typed
<1>3. CASE persisted' = persisted /\ tab' = tab
    <2> SUFFICES ASSUME NEW s \in 1..issued \ tangled', Stored(s)', \A t \in Tabs : tab'[t] # persisted'
                 PROVE  Loose(s)' /\ persisted' \notin blacklisted'
        BY <1>1, <1>3 DEF Kept
    <2>1. Stored(s) /\ s \in 1..issued \ tangled /\ persisted \in 1..issued
        BY <1>1, <1>3 DEF Stored, Kept, Typed
    <2>2. Loose(s) /\ persisted \notin blacklisted
        BY <1>1, <1>3, <2>1 DEF Kept
    <2>3. Loose(s)'
        BY <2>2 DEF Loose
    <2>4. ASSUME NEW c \in Calls, Live(call[c]), call[c].body = persisted PROVE FALSE
        BY <1>1, <2>1, <2>2, <2>4, HoldersUse DEF Loose, Stored
    <2> QED
        BY <1>3, <2>2, <2>3, <2>4
<1> QED
    BY <1>2, <1>3

\* What is adrift does no more harm than before.
LEMMA AdriftKept ==
    ASSUME AdriftRight, issued' = issued, session' = session, tangled \subseteq tangled',
           \A t \in Tabs : tab'[t] \in {0, tab[t]}, persisted' \in {0, persisted},
           adrift' \subseteq adrift
    PROVE  AdriftRight'
<1> SUFFICES ASSUME NEW a \in adrift' PROVE a \in [pair : 1..issued, refresh : BOOLEAN] /\ Harmless(a)'
    BY DEF AdriftRight
<1>1. a \in [pair : 1..issued, refresh : BOOLEAN] /\ Harmless(a)
    BY DEF AdriftRight
<1>2. a.pair # 0
    BY <1>1
<1> QED
    BY <1>1, <1>2 DEF Harmless

\* The rows of the calls and of the refreshes in flight stay right when no pair is new.
LEMMA RowsStayRight ==
    ASSUME NEW x, issued' = issued, session' = session, blacklisted' = blacklisted
    PROVE  /\ CallRight(x) => CallRight(x)'
           /\ FlightRight(x) => FlightRight(x)'
BY DEF CallRight, FlightRight, Live

\* A login issues a pair of a session of its own.
LEMMA LoginSurvives ==
    ASSUME SurviveInv, NEW t \in Tabs, Login(t)
    PROVE  SurviveInv'
<1>1. /\ tab[t] = 0 /\ issued' = issued + 1 /\ issued < MaxPairs
      /\ session' = [session EXCEPT ![issued + 1] = issued + 1]
      /\ tab' = [tab EXCEPT ![t] = issued + 1] /\ persisted' = issued + 1
      /\ UNCHANGED <<blacklisted, call, flight, promise, adrift, tangled>>
    BY DEF Login
<1>2. Typed /\ OneFlight /\ Arriving /\ OneTab /\ Kept /\ StillGood /\ AdriftRight /\ issued \in Nat
    BY DEF SurviveInv, Typed
<1>3. /\ DOMAIN session' = 1..MaxPairs /\ session'[issued + 1] = issued + 1
      /\ \A n \in 1..issued : session'[n] = session[n]
      /\ DOMAIN tab' = Tabs /\ tab'[t] = issued + 1
      /\ \A u \in Tabs : u # t => tab'[u] = tab[u]
    BY <1>1, <1>2, SessionAssumption DEF Typed
<1>4. ASSUME NEW c \in Calls
      PROVE  /\ CallRight(call[c])' /\ FlightRight(flight[c])'
             /\ Live(call[c]) => call[c].body \in 1..issued
             /\ Live(flight[c]) => flight[c].pair \in 1..issued
             /\ flight[c].state = "answered" => flight[c].new \in 1..issued
    BY <1>1, <1>2, <1>3 DEF Typed, CallRight, FlightRight, Live
<1>5. Typed'
    <2>1. \A n \in 1..issued' : session'[n] \in 1..issued'
        BY <1>1, <1>2, <1>3 DEF Typed
    <2>2. \A u \in Tabs : tab'[u] \in 0..issued'
        BY <1>1, <1>2, <1>3 DEF Typed
    <2>3. issued' \in 0..MaxPairs /\ blacklisted' \subseteq 1..issued'
        BY <1>1, <1>2, SessionAssumption DEF Typed
    <2> QED
        BY <1>1, <1>2, <1>3, <1>4, <2>1, <2>2, <2>3 DEF Typed
<1>6. OneFlight'
    BY <1>1, <1>2 DEF OneFlight, FlightsOf, Live
<1>7. Arriving'
    <2>1. ASSUME NEW n \in 1..issued, NewHeld(n)' PROVE NewHeld(n)
        <3>1. n # persisted' /\ \A u \in Tabs : tab'[u] = n => tab[u] = n
            BY <1>1, <1>2, <1>3
        <3> QED
            BY <1>1, <2>1, <3>1 DEF NewHeld, Live
    <2> QED
        BY <1>1, <1>2, <2>1, ArrivingKept
<1>8. OneTab'
    <2>0. PICK new : new = issued + 1
        OBVIOUS
    <2>1. ASSUME NEW s \in 1..issued, NEW u \in Tabs, Uses(u, s)' PROVE Uses(u, s)
        <3>1. tab'[u] # 0 /\ session'[tab'[u]] = s => tab'[u] = tab[u]
            BY <1>1, <1>2, <1>3
        <3> QED
            BY <1>1, <1>2, <1>3, <1>4, <2>1, <3>1 DEF Uses, Holds, Live, Typed
    <2>2. ASSUME NEW u \in Tabs, Uses(u, new)' PROVE u = t
        <3>1. \A n \in 1..issued : session'[n] # new
            BY <1>2, <1>3, <2>0 DEF Typed
        <3>2. u # t => tab'[u] \in 0..issued
            BY <1>2, <1>3 DEF Typed
        <3> QED
            BY <1>1, <1>2, <1>4, <2>0, <2>2, <3>1, <3>2 DEF Uses, Holds, Live
    <2>3. ASSUME NEW s \in 1..issued' \ tangled', NEW u \in Tabs, NEW v \in Tabs, Uses(u, s)', Uses(v, s)'
          PROVE  u = v
        <3>1. CASE s = new
            BY <2>2, <2>3, <3>1
        <3>2. CASE s \in 1..issued
            <4>1. Uses(u, s) /\ Uses(v, s)
                BY <2>1, <2>3, <3>2
            <4> QED
                BY <1>1, <1>2, <2>3, <3>2, <4>1 DEF OneTab
        <3> QED
            BY <1>1, <1>2, <2>0, <3>1, <3>2
    <2> QED
        BY <2>3 DEF OneTab
<1>10. Kept'
    BY <1>1, <1>2, <1>3 DEF Kept
<1>11. AdriftRight'
    <2> SUFFICES ASSUME NEW a \in adrift' PROVE a \in [pair : 1..issued', refresh : BOOLEAN] /\ Harmless(a)'
        BY DEF AdriftRight
    <2>1. a \in [pair : 1..issued, refresh : BOOLEAN] /\ Harmless(a)
        BY <1>1, <1>2 DEF AdriftRight
    <2>2. /\ a.pair \in 1..issued' /\ a.pair # issued + 1 /\ session'[a.pair] = session[a.pair]
          /\ a = [pair |-> a.pair, refresh |-> a.refresh]
        BY <1>1, <1>2, <1>3, <2>1
    <2>3. a \in [pair : 1..issued', refresh : BOOLEAN]
        BY <2>1, <2>2
    <2> QED
        BY <1>1, <1>3, <2>1, <2>2, <2>3 DEF Harmless
<1>9. StillGood'
    <2> SUFFICES ASSUME NEW u \in Tabs, NEW s \in 1..issued' \ tangled', Holds(u, s)', tab'[u] \in blacklisted'
                 PROVE  FlightsIn(s)' # {} \/ LogoutsOf(s)' # {}
        BY DEF StillGood
    <2>1. u # t /\ tab'[u] = tab[u] /\ tab[u] \in 1..issued
        BY <1>1, <1>2, <1>3 DEF Typed, Holds
    <2>2. FlightsIn(s) \subseteq FlightsIn(s)'
        BY <1>1, <1>3, <1>4 DEF FlightsIn, Live
    <2>3. Holds(u, s) /\ s \in 1..issued
        BY <1>2, <1>3, <2>1 DEF Typed, Holds
    <2>4. LogoutsOf(s) \subseteq LogoutsOf(s)'
        BY <1>1, <1>3, <1>4 DEF LogoutsOf, Live
    <2>5. FlightsIn(s) # {} \/ LogoutsOf(s) # {}
        BY <1>1, <1>2, <2>1, <2>3 DEF StillGood
    <2> QED
        BY <2>2, <2>4, <2>5
<1> QED
    BY <1>5, <1>6, <1>7, <1>8, <1>9, <1>10, <1>11 DEF SurviveInv

\* A tab is opened on the pair of another, with which it shares the session, or on one
\* that is good and that nobody uses.
LEMMA OpenTabSurvives ==
    ASSUME SurviveInv, NEW t \in Tabs, OpenTab(t)
    PROVE  SurviveInv'
<1>1. /\ tab[t] = 0 /\ persisted # 0 /\ tab' = [tab EXCEPT ![t] = persisted]
      /\ tangled' = tangled \cup
           (IF \E u \in Tabs \ {t} : SessionOf(u) = session[persisted] \/ FlightsOf(u) # {}
            THEN {session[persisted]} ELSE {})
      /\ UNCHANGED <<issued, session, blacklisted, persisted, call, flight, promise, adrift>>
    BY DEF OpenTab
<1>2. Typed /\ OneFlight /\ Arriving /\ OneTab /\ Kept /\ StillGood /\ AdriftRight /\ issued \in Nat
    BY DEF SurviveInv, Typed
<1>3. DOMAIN tab' = Tabs /\ tab'[t] = persisted /\ \A u \in Tabs : u # t => tab'[u] = tab[u]
    BY <1>1, <1>2 DEF Typed
<1>4. PICK p \in 1..issued : p = persisted
    BY <1>1, <1>2 DEF Kept
<1>5. session[p] \in tangled' \/ (session[p] \in 1..issued \ tangled /\ Loose(session[p]) /\ p \notin blacklisted)
    <2>1. session[p] \in 1..issued /\ Stored(session[p])
        BY <1>1, <1>2, <1>4 DEF Typed, Stored
    <2>2. CASE \E u \in Tabs : tab[u] = persisted
        <3>1. PICK u \in Tabs : tab[u] = p
            BY <1>4, <2>2
        <3>2. u # t /\ SessionOf(u) = session[persisted]
            BY <1>1, <1>4, <3>1 DEF SessionOf
        <3> QED
            BY <1>1, <1>4, <3>2
    <2>3. CASE session[p] \in tangled
        BY <1>1, <2>3
    <2> QED
        BY <1>2, <1>4, <2>1, <2>2, <2>3 DEF Kept
<1>6. Typed'
    <2>1. \A c \in Calls : CallRight(call[c])' /\ FlightRight(flight[c])'
        BY <1>1, <1>2 DEF Typed, CallRight, FlightRight, Live
    <2> QED
        BY <1>1, <1>2, <1>3, <1>4, <2>1 DEF Typed
<1>7. OneFlight'
    BY <1>1, <1>2 DEF OneFlight, FlightsOf, Live
<1>8. Arriving'
    <2>1. ASSUME NEW n \in 1..issued, NewHeld(n)' PROVE NewHeld(n)
        <3>1. \A u \in Tabs : tab'[u] = n => tab[u] = n \/ persisted = n
            BY <1>3
        <3> QED
            BY <1>1, <2>1, <3>1 DEF NewHeld, Live
    <2> QED
        BY <1>1, <1>2, <2>1, ArrivingKept
<1>9. OneTab'
    <2>1. ASSUME NEW s \in 1..issued, s # session[p], NEW u \in Tabs, Uses(u, s)' PROVE Uses(u, s)
        <3>1. Holds(u, s)' => Holds(u, s)
            BY <1>1, <1>3, <1>4, <2>1 DEF Holds
        <3> QED
            BY <1>1, <2>1, <3>1 DEF Uses, Live
    <2>2. ASSUME NEW u \in Tabs, Loose(session[p]), Uses(u, session[p])' PROVE u = t
        <3>1. u # t => (Holds(u, session[p])' => Holds(u, session[p]))
            BY <1>1, <1>3 DEF Holds
        <3> QED
            BY <1>1, <2>2, <3>1 DEF Loose, Uses, Live
    <2> SUFFICES ASSUME NEW s \in 1..issued' \ tangled', NEW u \in Tabs, NEW v \in Tabs, Uses(u, s)', Uses(v, s)'
                 PROVE  u = v
        BY DEF OneTab
    <2>3. s \in 1..issued \ tangled
        BY <1>1
    <2>4. CASE s = session[p]
        BY <1>1, <1>5, <2>2, <2>4
    <2>5. CASE s # session[p]
        BY <1>2, <2>1, <2>3, <2>5 DEF OneTab
    <2> QED
        BY <2>4, <2>5
<1>10. Kept'
    BY <1>1, <1>2, <1>3 DEF Kept
<1>11. StillGood'
    <2> SUFFICES ASSUME NEW u \in Tabs, NEW s \in 1..issued' \ tangled', Holds(u, s)', tab'[u] \in blacklisted'
                 PROVE  FlightsIn(s)' # {} \/ LogoutsOf(s)' # {}
        BY DEF StillGood
    <2>1. u # t
        <3> SUFFICES ASSUME u = t PROVE FALSE
            OBVIOUS
        <3>1. s = session[p] /\ p \in blacklisted
            BY <1>1, <1>3, <1>4 DEF Holds
        <3> QED
            BY <1>5, <3>1
    <2>2. Holds(u, s) /\ tab'[u] = tab[u] /\ s \in 1..issued \ tangled
        BY <1>1, <1>3, <2>1 DEF Holds
    <2>3. FlightsIn(s)' = FlightsIn(s) /\ LogoutsOf(s)' = LogoutsOf(s)
        BY <1>1 DEF FlightsIn, LogoutsOf
    <2> QED
        BY <1>1, <1>2, <2>2, <2>3 DEF StillGood
<1>12. AdriftRight'
    <2> SUFFICES ASSUME NEW a \in adrift' PROVE a \in [pair : 1..issued, refresh : BOOLEAN] /\ Harmless(a)'
        BY <1>1 DEF AdriftRight
    <2>1. a \in [pair : 1..issued, refresh : BOOLEAN] /\ Harmless(a)
        BY <1>1, <1>2 DEF AdriftRight
    <2>2. persisted # a.pair /\ (\A u \in Tabs : tab[u] # a.pair) => \A u \in Tabs : tab'[u] # a.pair
        BY <1>3
    <2>3. tangled \subseteq tangled' /\ session' = session /\ persisted' = persisted
        BY <1>1
    <2> QED
        BY <2>1, <2>2, <2>3 DEF Harmless
<1> QED
    BY <1>6, <1>7, <1>8, <1>9, <1>10, <1>11, <1>12 DEF SurviveInv

\* A request carries the pair of its tab.
LEMMA SendSurvives ==
    ASSUME SurviveInv, NEW t \in Tabs, NEW c \in Calls, NEW logout \in BOOLEAN, Send(t, c, logout)
    PROVE  SurviveInv'
<1>0. PICK x : x = [state |-> "sent", tab |-> t, logout |-> logout, retried |-> FALSE,
                    access |-> tab[t], body |-> tab[t], on |-> {}]
    OBVIOUS
<1>1. /\ call[c].state = "none" /\ flight[c].state = "none" /\ tab[t] # 0
      /\ call' = [call EXCEPT ![c] = x]
      /\ UNCHANGED <<issued, session, blacklisted, tab, persisted, flight, promise, adrift, tangled>>
    BY <1>0 DEF Send
<1>2. Typed /\ OneFlight /\ Arriving /\ OneTab /\ Kept /\ StillGood /\ AdriftRight /\ issued \in Nat
    BY DEF SurviveInv, Typed
<1>3. /\ DOMAIN call' = Calls /\ call'[c] = x /\ x.state = "sent" /\ x.tab = t /\ x.body = tab[t]
      /\ \A d \in Calls : d # c => call'[d] = call[d]
    BY <1>0, <1>1, <1>2 DEF Typed
<1>4. Typed'
    <2>1. CallRight(x)'
        BY <1>0, <1>1, <1>2 DEF Typed, CallRight, Live
    <2>2. \A d \in Calls : CallRight(call[d])' /\ FlightRight(flight[d])'
        BY <1>1, <1>2, <1>3, <2>1 DEF Typed, CallRight, FlightRight, Live
    <2> QED
        BY <1>1, <1>2, <1>3, <2>2 DEF Typed
<1>5. OneFlight'
    BY <1>1, <1>2, <1>3 DEF OneFlight, FlightsOf, Live
<1>6. Arriving'
    <2>1. ASSUME NEW n \in 1..issued, NewHeld(n)' PROVE NewHeld(n)
        BY <1>1, <1>3, <2>1 DEF NewHeld, Live
    <2> QED
        BY <1>1, <1>2, <2>1, ArrivingKept
<1>7. OneTab'
    <2>1. ASSUME NEW s \in 1..issued, s \notin tangled', NEW u \in Tabs, Uses(u, s)' PROVE Uses(u, s)
        BY <1>1, <1>3, <2>1 DEF Uses, Holds, Live
    <2> QED
        BY <1>1, <1>2, <2>1, UsesKept
<1>8. StillGood'
    <2> SUFFICES ASSUME NEW u \in Tabs, NEW s \in 1..issued' \ tangled', Holds(u, s)', tab'[u] \in blacklisted'
                 PROVE  FlightsIn(s)' # {} \/ LogoutsOf(s)' # {}
        BY DEF StillGood
    <2>1. FlightsIn(s)' = FlightsIn(s) /\ LogoutsOf(s) \subseteq LogoutsOf(s)'
        BY <1>1, <1>3 DEF FlightsIn, LogoutsOf
    <2> QED
        BY <1>1, <1>2, <2>1 DEF StillGood, Holds
<1>9. Kept'
    <2>1. \A u \in Tabs : \A s \in 1..issued : Uses(u, s)' => Uses(u, s)
        BY <1>1, <1>3 DEF Uses, Holds, Live
    <2> QED
        BY <1>1, <2>1, StoreKept
<1>10. AdriftRight'
    BY <1>1, <1>2, AdriftKept
<1> QED
    BY <1>4, <1>5, <1>6, <1>7, <1>8, <1>9, <1>10 DEF SurviveInv

\* A logout that is served spends the token of its body and is still under way.
LEMMA ServeSurvives ==
    ASSUME SurviveInv, NEW c \in Calls, Serve(c)
    PROVE  SurviveInv'
<1>1. /\ call[c].state = "sent"
      /\ \/ call' = [call EXCEPT ![c].state = "refused"] /\ blacklisted' = blacklisted
         \/ call' = [call EXCEPT ![c].state = "served"] /\ blacklisted' = blacklisted \cup SpentBy(c)
      /\ UNCHANGED <<issued, session, tab, persisted, flight, promise, adrift, tangled>>
    BY DEF Serve
<1>2. Typed /\ OneFlight /\ Arriving /\ OneTab /\ Kept /\ StillGood /\ AdriftRight /\ issued \in Nat
    BY DEF SurviveInv, Typed
<1>3. CallRight(call[c]) /\ DOMAIN call[c] = {"state", "tab", "logout", "retried", "access", "body", "on"}
      /\ call[c].body \in 1..issued
    BY <1>1, <1>2 DEF Typed, CallRight, Live
<1>4. /\ DOMAIN call' = Calls /\ DOMAIN call'[c] = DOMAIN call[c]
      /\ call'[c].state \in {"refused", "served"} /\ call'[c].tab = call[c].tab /\ call'[c].body = call[c].body
      /\ call'[c].logout = call[c].logout
      /\ \A d \in Calls : d # c => call'[d] = call[d]
    BY <1>1, <1>2, <1>3 DEF Typed
<1>5. /\ blacklisted \subseteq blacklisted'
      /\ \A n \in blacklisted' \ blacklisted : call[c].logout /\ n = call[c].body
    BY <1>1 DEF SpentBy
<1>6. Typed'
    <2>1. \A d \in Calls : CallRight(call[d])'
        BY <1>1, <1>2, <1>3, <1>4 DEF Typed, CallRight, Live
    <2>2. \A d \in Calls : flight[d].state = "answered" => flight[d].new \notin blacklisted'
        BY <1>1, <1>2, <1>5 DEF Typed, FlightRight, Arriving, NewHeld, Live
    <2>3. \A d \in Calls : FlightRight(flight[d])'
        BY <1>1, <1>2, <1>5, <2>2 DEF Typed, FlightRight, Live
    <2>4. blacklisted' \subseteq 1..issued
        BY <1>2, <1>3, <1>5 DEF Typed
    <2> QED
        BY <1>1, <1>2, <1>4, <2>1, <2>3, <2>4 DEF Typed
<1>7. OneFlight'
    <2>1. ~ Live(flight[c])
        BY <1>1, <1>2 DEF OneFlight
    <2> QED
        BY <1>1, <1>2, <1>4, <2>1 DEF OneFlight, FlightsOf, Live
<1>8. OneTab' /\ Arriving' /\ \A t \in Tabs : \A s \in 1..issued : Uses(t, s)' => Uses(t, s)
    BY <1>1, <1>4, Shrinking DEF Live
<1>9. StillGood'
    <2> SUFFICES ASSUME NEW u \in Tabs, NEW s \in 1..issued' \ tangled', Holds(u, s)', tab'[u] \in blacklisted'
                 PROVE  FlightsIn(s)' # {} \/ LogoutsOf(s)' # {}
        BY DEF StillGood
    <2>1. FlightsIn(s)' = FlightsIn(s) /\ LogoutsOf(s)' = LogoutsOf(s)
        BY <1>1, <1>4 DEF FlightsIn, LogoutsOf
    <2>2. CASE tab[u] \in blacklisted
        BY <1>1, <1>2, <2>1, <2>2 DEF StillGood, Holds
    <2>3. CASE tab[u] \notin blacklisted
        <3>1. call[c].logout /\ tab[u] = call[c].body
            BY <1>1, <1>5, <2>3
        <3>2. c \in LogoutsOf(s)
            BY <1>1, <3>1 DEF LogoutsOf, Holds
        <3> QED
            BY <2>1, <3>2
    <2> QED
        BY <2>2, <2>3
<1>10. Kept'
    <2>1. \A n \in blacklisted' \ blacklisted : \E d \in Calls : Live(call[d]) /\ call[d].body = n
        BY <1>1, <1>5 DEF Live
    <2> QED
        BY <1>1, <1>8, <2>1, StoreKept
<1>11. AdriftRight'
    BY <1>1, <1>2, AdriftKept
<1> QED
    BY <1>6, <1>7, <1>8, <1>9, <1>10, <1>11 DEF SurviveInv

\* A logout that ends clears the store.
LEMMA SettleSurvives ==
    ASSUME SurviveInv, NEW c \in Calls, Settle(c)
    PROVE  SurviveInv'
<1>1. /\ call[c].state \in {"sent", "served", "refused"} /\ call' = [call EXCEPT ![c] = Free]
      /\ IF call[c].logout THEN tab' = [tab EXCEPT ![call[c].tab] = 0] /\ persisted' = 0
                           ELSE tab' = tab /\ persisted' = persisted
      /\ adrift' \subseteq adrift \cup (IF call[c].logout THEN {[pair |-> call[c].body, refresh |-> FALSE]} ELSE {})
      /\ UNCHANGED <<issued, session, blacklisted, flight, promise, tangled>>
    BY DEF Settle
<1>2. Typed /\ OneFlight /\ Arriving /\ OneTab /\ Kept /\ StillGood /\ AdriftRight /\ issued \in Nat
    BY DEF SurviveInv, Typed
<1>3. CallRight(call[c]) /\ call[c].tab \in Tabs /\ call[c].body \in 1..issued
    BY <1>1, <1>2 DEF Typed, CallRight, Live
<1>4. /\ DOMAIN call' = Calls /\ call'[c].state = "none"
      /\ \A d \in Calls : d # c => call'[d] = call[d]
    BY <1>1, <1>2, FreeIs DEF Typed
<1>5. /\ DOMAIN tab' = Tabs
      /\ \A u \in Tabs : tab'[u] = IF call[c].logout /\ u = call[c].tab THEN 0 ELSE tab[u]
    BY <1>1, <1>2 DEF Typed
<1>6. Typed'
    <2>1. \A d \in Calls : CallRight(call[d])' /\ FlightRight(flight[d])'
        BY <1>1, <1>2, <1>4 DEF Typed, CallRight, FlightRight, Live
    <2> QED
        BY <1>1, <1>2, <1>4, <1>5, <2>1 DEF Typed
<1>7. OneFlight'
    <2>1. ~ Live(flight[c])
        BY <1>1, <1>2 DEF OneFlight
    <2> QED
        BY <1>1, <1>2, <1>4, <2>1 DEF OneFlight, FlightsOf, Live
<1>8. OneTab' /\ Arriving' /\ \A u \in Tabs : \A s \in 1..issued : Uses(u, s)' => Uses(u, s)
    <2>1. \A u \in Tabs : tab'[u] \in {0, tab[u]}
        BY <1>5
    <2>2. persisted' \in {0, persisted}
        BY <1>1
    <2>3. \A a \in adrift' \ adrift : Live(call[c]) /\ call[c].body = a.pair
        BY <1>1 DEF Live
    <2> QED
        BY <1>1, <1>4, <2>1, <2>2, <2>3, Shrinking DEF Live
<1>9. StillGood'
    <2> SUFFICES ASSUME NEW u \in Tabs, NEW s \in 1..issued' \ tangled', Holds(u, s)', tab'[u] \in blacklisted'
                 PROVE  FlightsIn(s)' # {} \/ LogoutsOf(s)' # {}
        BY DEF StillGood
    <2>1. Holds(u, s) /\ tab'[u] = tab[u] /\ ~ (call[c].logout /\ u = call[c].tab)
        BY <1>1, <1>5 DEF Holds
    <2>2. c \notin LogoutsOf(s)
        <3> SUFFICES ASSUME c \in LogoutsOf(s) PROVE FALSE
            OBVIOUS
        <3>1. call[c].logout /\ Uses(call[c].tab, s) /\ Uses(u, s)
            BY <2>1 DEF LogoutsOf, Uses, Live
        <3> QED
            BY <1>1, <1>2, <1>3, <2>1, <3>1 DEF OneTab
    <2>3. FlightsIn(s)' = FlightsIn(s) /\ LogoutsOf(s)' = LogoutsOf(s)
        BY <1>1, <1>4, <2>2 DEF FlightsIn, LogoutsOf
    <2> QED
        BY <1>1, <1>2, <2>1, <2>3 DEF StillGood
<1>10. Kept'
    <2>1. persisted' = 0 \/ (persisted' = persisted /\ tab' = tab)
        BY <1>1
    <2> QED
        BY <1>1, <1>8, <2>1, StoreKept
<1>11. AdriftRight'
    <2> SUFFICES ASSUME NEW a \in adrift' PROVE a \in [pair : 1..issued, refresh : BOOLEAN] /\ Harmless(a)'
        BY <1>1 DEF AdriftRight
    <2>1. CASE a \in adrift
        <3>1. a \in [pair : 1..issued, refresh : BOOLEAN] /\ Harmless(a) /\ a.pair # 0
            BY <1>2, <2>1 DEF AdriftRight
        <3> QED
            BY <1>1, <1>5, <3>1 DEF Harmless
    <2>2. CASE call[c].logout /\ a = [pair |-> call[c].body, refresh |-> FALSE]
        <3>1. a \in [pair : 1..issued, refresh : BOOLEAN] /\ a.pair = call[c].body /\ a.refresh = FALSE
            BY <1>3, <2>2
        <3>2. PICK s \in 1..issued : s = session[call[c].body]
            BY <1>2, <1>3 DEF Typed
        <3>3. ASSUME s \notin tangled, NEW u \in Tabs, tab[u] = call[c].body PROVE u = call[c].tab
            <4>1. Uses(u, s) /\ Uses(call[c].tab, s)
                BY <1>1, <1>2, <1>3, <3>2, <3>3, HoldersUse DEF Live
            <4> QED
                BY <1>2, <1>3, <3>3, <4>1 DEF OneTab
        <3>4. s \notin tangled => \A u \in Tabs : tab'[u] # call[c].body
            BY <1>3, <1>5, <2>2, <3>3
        <3>5. persisted' # call[c].body
            BY <1>1, <1>3, <2>2
        <3> QED
            BY <1>1, <3>1, <3>2, <3>4, <3>5 DEF Harmless
    <2> QED
        BY <1>1, <2>1, <2>2
<1> QED
    BY <1>6, <1>7, <1>8, <1>9, <1>10, <1>11 DEF SurviveInv

\* A request of a page that is left makes its session tangled.
LEMMA LeftBehind ==
    ASSUME SurviveInv, NEW t \in Tabs, LeavePage(t)
    PROVE  /\ tangled \subseteq tangled'
           /\ \A s : s \notin tangled' =>
                /\ \A c \in FlightsIn(s) : flight[c].tab # t
                /\ \A c \in LogoutsOf(s) : call[c].tab # t
           /\ \A a \in adrift' \ adrift :
                /\ a \in [pair : 1..issued, refresh : BOOLEAN] /\ session[a.pair] \in tangled'
                /\ \E c \in Calls : \/ Live(call[c]) /\ call[c].body = a.pair
                                    \/ Live(flight[c]) /\ flight[c].pair = a.pair
<1> DEFINE logouts == {c \in CallsOf(t) : call[c].logout}
<1> DEFINE ofFlights == {session[flight[c].pair] : c \in FlightsOf(t)}
<1> DEFINE ofLogouts == {session[call[c].body] : c \in logouts}
<1>1. tangled' = tangled \cup ofFlights \cup ofLogouts
    BY DEF LeavePage
<1>2. adrift' = adrift
        \cup {[pair |-> flight[c].pair, refresh |-> TRUE] : c \in {d \in FlightsOf(t) : flight[d].state = "sent"}}
        \cup {[pair |-> call[c].body, refresh |-> FALSE] : c \in {d \in logouts : call[d].state = "sent"}}
    BY DEF LeavePage
<1>3. \A c \in FlightsOf(t) : c \in Calls /\ Live(flight[c]) /\ flight[c].pair \in 1..issued
    BY DEF SurviveInv, Typed, FlightRight, FlightsOf, Live
<1>4. \A c \in logouts : c \in Calls /\ Live(call[c]) /\ call[c].body \in 1..issued
    BY DEF SurviveInv, Typed, CallRight, CallsOf, Live
<1>5. ASSUME NEW s, s \notin tangled', NEW c \in FlightsIn(s) PROVE flight[c].tab # t
    <2>1. c \notin FlightsOf(t)
        BY <1>1, <1>5 DEF FlightsIn
    <2> QED
        BY <2>1 DEF FlightsIn, FlightsOf
<1>6. ASSUME NEW s, s \notin tangled', NEW c \in LogoutsOf(s) PROVE call[c].tab # t
    <2>1. c \notin logouts
        BY <1>1, <1>6 DEF LogoutsOf
    <2> QED
        BY <2>1 DEF LogoutsOf, CallsOf
<1>7. ASSUME NEW a \in adrift' \ adrift
      PROVE  /\ a \in [pair : 1..issued, refresh : BOOLEAN] /\ session[a.pair] \in tangled'
             /\ \E c \in Calls : \/ Live(call[c]) /\ call[c].body = a.pair
                                 \/ Live(flight[c]) /\ flight[c].pair = a.pair
    <2>1. CASE \E c \in FlightsOf(t) : a = [pair |-> flight[c].pair, refresh |-> TRUE]
        BY <1>1, <1>3, <2>1
    <2>2. ASSUME NEW c \in logouts, a = [pair |-> call[c].body, refresh |-> FALSE]
          PROVE  /\ a \in [pair : 1..issued, refresh : BOOLEAN] /\ session[a.pair] \in tangled'
                 /\ c \in Calls /\ Live(call[c]) /\ call[c].body = a.pair
        <3> HIDE DEF logouts
        <3>1. c \in Calls /\ Live(call[c]) /\ call[c].body \in 1..issued /\ a.pair = call[c].body
            BY <1>4, <2>2
        <3>2. session[a.pair] \in ofLogouts
            BY <3>1, <2>2
        <3>3. a \in [pair : 1..issued, refresh : BOOLEAN]
            BY <2>2, <3>1
        <3> QED
            BY <1>1, <3>1, <3>2, <3>3
    <2>3. \/ \E c \in FlightsOf(t) : a = [pair |-> flight[c].pair, refresh |-> TRUE]
          \/ \E c \in logouts : a = [pair |-> call[c].body, refresh |-> FALSE]
        <3> HIDE DEF logouts
        <3> QED
            BY <1>2, <1>7
    <2> HIDE DEF logouts
    <2> QED
        BY <2>1, <2>2, <2>3
<1> QED
    BY <1>1, <1>5, <1>6, <1>7

\* A tab drops what it has; the store is cleared, or stays.
LEMMA LeaveSurvives ==
    ASSUME SurviveInv, NEW t \in Tabs, LeavePage(t), UNCHANGED <<issued, session, blacklisted>>,
           persisted' \in {0, persisted}
    PROVE  SurviveInv'
<1>1. Typed /\ OneFlight /\ Arriving /\ OneTab /\ Kept /\ StillGood /\ AdriftRight /\ issued \in Nat
    BY DEF SurviveInv, Typed
<1>2. /\ DOMAIN tab' = Tabs /\ DOMAIN promise' = Tabs /\ DOMAIN call' = Calls /\ DOMAIN flight' = Calls
      /\ \A u \in Tabs : tab'[u] = (IF u = t THEN 0 ELSE tab[u])
      /\ \A u \in Tabs : promise'[u] = (IF u = t THEN {} ELSE promise[u])
      /\ \A d \in Calls : call'[d] = (IF d \in CallsOf(t) THEN Free ELSE call[d])
      /\ \A d \in Calls : flight'[d] = (IF d \in FlightsOf(t) THEN Free ELSE flight[d])
    BY <1>1 DEF LeavePage, Typed
<1>3. ASSUME NEW d \in Calls
      PROVE  /\ Live(call'[d]) => Live(call[d]) /\ call'[d] = call[d] /\ call[d].tab # t
             /\ Live(call[d]) /\ call[d].tab # t => call'[d] = call[d]
             /\ Live(flight'[d]) => Live(flight[d]) /\ flight'[d] = flight[d] /\ flight[d].tab # t
             /\ Live(flight[d]) /\ flight[d].tab # t => flight'[d] = flight[d]
    BY <1>2, FreeIs DEF CallsOf, FlightsOf, Live
<1>4. Typed'
    <2>1. ASSUME NEW d \in Calls PROVE CallRight(call[d])'
        <3>1. CallRight(call[d]) /\ (Live(call'[d]) => Live(call[d]) /\ call'[d] = call[d])
            BY <1>1, <1>3 DEF Typed
        <3> QED
            BY <3>1 DEF CallRight, Live
    <2>2. ASSUME NEW d \in Calls PROVE FlightRight(flight[d])'
        <3>1. FlightRight(flight[d]) /\ (Live(flight'[d]) => Live(flight[d]) /\ flight'[d] = flight[d])
            BY <1>1, <1>3 DEF Typed
        <3> QED
            BY <3>1 DEF FlightRight, Live
    <2>3. \A u \in Tabs : tab'[u] \in 0..issued'
        BY <1>1, <1>2 DEF Typed
    <2>4. /\ issued' \in 0..MaxPairs /\ DOMAIN session' = 1..MaxPairs
          /\ \A n \in 1..issued' : session'[n] \in 1..issued'
          /\ blacklisted' \subseteq 1..issued'
        BY <1>1 DEF Typed
    <2>5. DOMAIN tab' = Tabs /\ DOMAIN promise' = Tabs /\ DOMAIN call' = Calls /\ DOMAIN flight' = Calls
        BY <1>2
    <2> QED
        BY <2>1, <2>2, <2>3, <2>4, <2>5 DEF Typed
<1>5. \A u \in Tabs : FlightsOf(u)' = (IF u = t THEN {} ELSE FlightsOf(u))
    BY <1>3 DEF FlightsOf, Live
<1>6. OneFlight'
    <2>1. \A d \in Calls : Live(flight'[d]) =>
             call'[d].state = "waiting" /\ call'[d].tab = flight'[d].tab /\ call'[d].on = {d}
        BY <1>1, <1>3 DEF OneFlight, Live
    <2>2. \A u \in Tabs : promise'[u] = FlightsOf(u)'
        BY <1>1, <1>2, <1>5 DEF OneFlight
    <2>3. \A u \in Tabs : \A d, e \in FlightsOf(u)' : d = e
        BY <1>1, <1>5 DEF OneFlight
    <2> QED
        BY <2>1, <2>2, <2>3 DEF OneFlight
<1>7. OneTab' /\ Arriving' /\ \A u \in Tabs : \A s \in 1..issued : Uses(u, s)' => Uses(u, s)
    BY <1>2, <1>3, LeftBehind, Shrinking
<1>8. StillGood'
    <2> SUFFICES ASSUME NEW u \in Tabs, NEW s \in 1..issued' \ tangled', Holds(u, s)', tab'[u] \in blacklisted'
                 PROVE  FlightsIn(s)' # {} \/ LogoutsOf(s)' # {}
        BY DEF StillGood
    <2>1. Holds(u, s) /\ tab'[u] = tab[u] /\ u # t
        BY <1>2 DEF Holds
    <2>2. s \in 1..issued \ tangled
        BY LeftBehind
    <2>3. FlightsIn(s) \subseteq FlightsIn(s)'
        BY <1>3, LeftBehind DEF FlightsIn, Live
    <2>4. LogoutsOf(s) \subseteq LogoutsOf(s)'
        BY <1>3, LeftBehind DEF LogoutsOf, Live
    <2> QED
        BY <1>1, <2>1, <2>2, <2>3, <2>4 DEF StillGood
<1>9. Kept'
    <2> SUFFICES ASSUME NEW s \in 1..issued \ tangled', Stored(s)', \A u \in Tabs : tab'[u] # persisted'
                 PROVE  Loose(s)' /\ persisted' \notin blacklisted'
        BY <1>1 DEF Kept, Typed
    <2>1. persisted' = persisted /\ Stored(s) /\ s \in 1..issued \ tangled
        BY LeftBehind DEF Stored
    <2>2. CASE Loose(s) /\ persisted \notin blacklisted
        BY <1>7, <2>1, <2>2 DEF Loose
    <2>3. ASSUME NEW u \in Tabs, tab[u] = persisted PROVE Loose(s)' /\ persisted' \notin blacklisted'
        <3>1. u = t /\ Holds(t, s) /\ tab[t] = persisted
            BY <1>2, <2>1, <2>3 DEF Stored, Holds
        <3>2. \A v \in Tabs : Uses(v, s) => v = t
            BY <1>1, <2>1, <3>1 DEF OneTab, Uses
        <3>3. ~ Uses(t, s)'
            BY <1>2, <1>3 DEF Uses, Holds
        <3>4. Loose(s)'
            BY <1>7, <3>2, <3>3 DEF Loose
        <3>5. FlightsIn(s) = {}
            <4>1. ASSUME NEW c \in FlightsIn(s) PROVE FALSE
                <5>1. flight[c].tab \in Tabs /\ Uses(flight[c].tab, s)
                    BY <1>1 DEF FlightsIn, Typed, FlightRight, Live, Uses
                <5> QED
                    BY <3>2, <5>1, LeftBehind
            <4> QED
                BY <4>1
        <3>6. LogoutsOf(s) = {}
            <4>1. ASSUME NEW c \in LogoutsOf(s) PROVE FALSE
                <5>1. call[c].tab \in Tabs /\ Uses(call[c].tab, s)
                    BY <1>1 DEF LogoutsOf, Typed, CallRight, Live, Uses
                <5> QED
                    BY <3>2, <5>1, LeftBehind
            <4> QED
                BY <4>1
        <3> QED
            BY <1>1, <2>1, <3>1, <3>4, <3>5, <3>6 DEF StillGood
    <2> QED
        BY <1>1, <2>1, <2>2, <2>3 DEF Kept
<1>10. AdriftRight'
    <2> SUFFICES ASSUME NEW a \in adrift' PROVE a \in [pair : 1..issued, refresh : BOOLEAN] /\ Harmless(a)'
        BY DEF AdriftRight
    <2>1. CASE a \in adrift
        <3>1. a \in [pair : 1..issued, refresh : BOOLEAN] /\ Harmless(a) /\ a.pair # 0
            BY <1>1, <2>1 DEF AdriftRight
        <3>2. \A u \in Tabs : tab'[u] \in {0, tab[u]}
            BY <1>2
        <3>3. tangled \subseteq tangled'
            BY LeftBehind
        <3> QED
            BY <3>1, <3>2, <3>3 DEF Harmless
    <2>2. CASE a \notin adrift
        BY <2>2, LeftBehind DEF Harmless
    <2> QED
        BY <2>1, <2>2
<1> QED
    BY <1>4, <1>6, <1>7, <1>8, <1>9, <1>10 DEF SurviveInv

\* A refused request waits for the refresh of its tab, or starts the only one.
LEMMA RefreshSurvives ==
    ASSUME SurviveInv, NEW c \in Calls, Refresh(c)
    PROVE  SurviveInv'
<1>1. /\ call[c].state = "refused"
      /\ UNCHANGED <<issued, session, blacklisted>>
    BY DEF Refresh
<1>2. Typed /\ OneFlight /\ Arriving /\ OneTab /\ Kept /\ StillGood /\ AdriftRight /\ issued \in Nat
    BY DEF SurviveInv, Typed
<1>3. /\ DOMAIN call[c] = {"state", "tab", "logout", "retried", "access", "body", "on"}
      /\ call[c].body \in 1..issued /\ call[c].tab \in Tabs /\ ~ Live(flight[c])
    BY <1>1, <1>2 DEF Typed, OneFlight, CallRight, Live
<1>4. PICK t \in Tabs : t = call[c].tab
    BY <1>3
<1>5. CASE promise[t] = {} /\ tab[t] = 0
    <2>1. ClearAndLeave(t)
        BY <1>4, <1>5 DEF Refresh, Joined
    <2> QED
        BY <1>1, <2>1, LeaveSurvives DEF ClearAndLeave
<1>6. CASE promise[t] # {} \/ tab[t] # 0
    <2>1. /\ DOMAIN call' = Calls /\ DOMAIN call'[c] = DOMAIN call[c]
          /\ call'[c].state = "waiting" /\ call'[c].tab = t /\ call'[c].body = call[c].body
          /\ call'[c].logout = call[c].logout
          /\ \A d \in Calls : d # c => call'[d] = call[d]
          /\ tab' = tab /\ persisted' = persisted /\ adrift' = adrift /\ tangled' = tangled
        BY <1>2, <1>3, <1>4, <1>6 DEF Refresh, Joined, Typed
    <2>2. \A d \in Calls : CallRight(call[d])'
        BY <1>1, <1>2, <1>3, <1>4, <2>1 DEF Typed, CallRight, Live
    <2>3. \A s : LogoutsOf(s)' = LogoutsOf(s)
        BY <1>1, <2>1 DEF LogoutsOf
    <2>4. CASE promise[t] # {}
        <3>1. flight' = flight /\ promise' = promise
            BY <1>4, <2>4 DEF Refresh, Joined
        <3>2. Typed'
            <4>1. \A d \in Calls : FlightRight(flight[d])'
                BY <1>1, <1>2, <3>1 DEF Typed, FlightRight, Live
            <4> QED
                BY <1>1, <1>2, <2>1, <2>2, <3>1, <4>1 DEF Typed
        <3>3. OneFlight'
            BY <1>2, <1>3, <2>1, <3>1 DEF OneFlight, FlightsOf, Live
        <3>4. OneTab' /\ Arriving' /\ \A u \in Tabs : \A s \in 1..issued : Uses(u, s)' => Uses(u, s)
            <4>1. \A d \in Calls : Live(call'[d]) =>
                     Live(call[d]) /\ call'[d].tab = call[d].tab /\ call'[d].body = call[d].body
                BY <1>1, <1>4, <2>1 DEF Live
            <4> QED
                BY <1>1, <2>1, <3>1, <4>1, Shrinking
        <3>5. StillGood'
            <4>1. \A s : FlightsIn(s)' = FlightsIn(s)
                BY <1>1, <3>1 DEF FlightsIn
            <4> QED
                BY <1>1, <1>2, <2>1, <2>3, <4>1 DEF StillGood, Holds
        <3>6. Kept'
            BY <1>1, <2>1, <3>4, StoreKept
        <3>7. AdriftRight'
            BY <1>1, <1>2, <2>1, AdriftKept
        <3> QED
            BY <3>2, <3>3, <3>4, <3>5, <3>6, <3>7 DEF SurviveInv
    <2>5. CASE promise[t] = {} /\ tab[t] # 0
        <3>0. PICK y : y = [state |-> "sent", tab |-> t, pair |-> tab[t], new |-> 0]
            OBVIOUS
        <3>1. flight' = [flight EXCEPT ![c] = y] /\ promise' = [promise EXCEPT ![t] = {c}]
              /\ call'[c].on = {c}
            BY <1>2, <1>3, <1>4, <2>5, <3>0 DEF Refresh, Joined, Typed
        <3>2. /\ DOMAIN flight' = Calls /\ flight'[c] = y
              /\ y.state = "sent" /\ y.tab = t /\ y.pair = tab[t]
              /\ \A d \in Calls : d # c => flight'[d] = flight[d]
              /\ DOMAIN promise' = Tabs
              /\ \A u \in Tabs : promise'[u] = IF u = t THEN {c} ELSE promise[u]
            BY <1>2, <3>0, <3>1 DEF Typed
        <3>3. Typed'
            <4>1. FlightRight(y)'
                BY <1>1, <1>2, <2>5, <3>0, <3>2 DEF Typed, FlightRight, Live
            <4>2. \A d \in Calls : FlightRight(flight[d])'
                BY <1>1, <1>2, <3>2, <4>1 DEF Typed, FlightRight, Live
            <4> QED
                BY <1>1, <1>2, <2>1, <2>2, <3>2, <4>2 DEF Typed
        <3>4. FlightsOf(t) = {}
            BY <1>2, <2>5 DEF OneFlight
        <3>5. \A u \in Tabs : FlightsOf(u)' = IF u = t THEN {c} ELSE FlightsOf(u)
            BY <1>3, <3>2, <3>4 DEF FlightsOf, Live
        <3>6. OneFlight'
            <4>1. \A d \in Calls : Live(flight'[d]) =>
                     call'[d].state = "waiting" /\ call'[d].tab = flight'[d].tab /\ call'[d].on = {d}
                BY <1>2, <2>1, <3>1, <3>2 DEF OneFlight, Live
            <4>2. \A u \in Tabs : promise'[u] = FlightsOf(u)'
                BY <1>2, <3>2, <3>5 DEF OneFlight
            <4>3. \A u \in Tabs : \A d, e \in FlightsOf(u)' : d = e
                BY <1>2, <3>5 DEF OneFlight
            <4> QED
                BY <4>1, <4>2, <4>3 DEF OneFlight
        <3>7. Arriving'
            <4>1. ASSUME NEW n \in 1..issued, NewHeld(n)' PROVE NewHeld(n)
                BY <1>1, <1>4, <2>1, <3>2, <4>1 DEF NewHeld, Live
            <4>2. \A d \in Calls : flight'[d].state = "answered" => flight'[d] = flight[d]
                BY <3>2
            <4> QED
                BY <1>2, <4>1, <4>2, ArrivingKept
        <3>8. \A u \in Tabs : \A s \in 1..issued : Uses(u, s)' => Uses(u, s)
            <4> SUFFICES ASSUME NEW s \in 1..issued, NEW u \in Tabs, Uses(u, s)' PROVE Uses(u, s)
                OBVIOUS
            <4>1. ASSUME NEW d \in Calls, Live(call'[d]), call'[d].tab = u, session'[call'[d].body] = s
                  PROVE  Uses(u, s)
                BY <1>1, <1>4, <2>1, <4>1 DEF Uses, Live
            <4>2. ASSUME NEW d \in Calls, Live(flight'[d]), flight'[d].tab = u, session'[flight'[d].pair] = s
                  PROVE  Uses(u, s)
                BY <1>1, <2>5, <3>2, <4>2 DEF Uses, Holds, Live
            <4> QED
                BY <1>1, <2>1, <4>1, <4>2 DEF Uses, Holds, Live
        <3>9. OneTab'
            BY <1>1, <1>2, <2>1, <3>8, UsesKept
        <3>10. StillGood'
            <4>1. \A s : FlightsIn(s) \subseteq FlightsIn(s)'
                BY <1>1, <1>3, <3>2 DEF FlightsIn, Live
            <4> QED
                BY <1>1, <1>2, <2>1, <2>3, <4>1 DEF StillGood, Holds
        <3>11. Kept'
            BY <1>1, <2>1, <3>8, StoreKept
        <3>12. AdriftRight'
            BY <1>1, <1>2, <2>1, AdriftKept
        <3> QED
            BY <3>3, <3>6, <3>7, <3>9, <3>10, <3>11, <3>12 DEF SurviveInv
    <2> QED
        BY <1>6, <2>4, <2>5
<1> QED
    BY <1>5, <1>6

\* A refresh that is served spends the pair of a tab that is waiting for it.
LEMMA ServeRefreshSurvives ==
    ASSUME SurviveInv, NEW c \in Calls, ServeRefresh(c)
    PROVE  SurviveInv'
<1>1. /\ flight[c].state = "sent" /\ issued < MaxPairs
      /\ flight[c].pair \notin blacklisted /\ issued' = issued + 1
      /\ session' = [session EXCEPT ![issued + 1] = session[flight[c].pair]]
      /\ blacklisted' = blacklisted \cup {flight[c].pair}
      /\ flight' = [flight EXCEPT ![c].state = "answered", ![c].new = issued + 1]
      /\ UNCHANGED <<tab, persisted, call, promise, adrift, tangled>>
    BY DEF ServeRefresh
<1>2. Typed /\ OneFlight /\ Arriving /\ OneTab /\ Kept /\ StillGood /\ AdriftRight /\ issued \in Nat
    BY DEF SurviveInv, Typed
<1>3. /\ DOMAIN flight[c] = {"state", "tab", "pair", "new"}
      /\ flight[c].pair \in 1..issued /\ flight[c].tab \in Tabs
    BY <1>1, <1>2 DEF Typed, FlightRight, Live
<1>4. PICK new : new = issued + 1
    OBVIOUS
<1>5. PICK pair : pair = flight[c].pair
    OBVIOUS
<1>6. /\ DOMAIN session' = 1..MaxPairs /\ session'[new] = session[pair]
      /\ \A n \in 1..issued : session'[n] = session[n]
    BY <1>1, <1>2, <1>4, <1>5, SessionAssumption DEF Typed
<1>7. /\ DOMAIN flight' = Calls /\ DOMAIN flight'[c] = DOMAIN flight[c]
      /\ flight'[c].state = "answered" /\ flight'[c].new = new
      /\ flight'[c].pair = pair /\ flight'[c].tab = flight[c].tab
      /\ \A d \in Calls : d # c => flight'[d] = flight[d]
    BY <1>1, <1>2, <1>3, <1>4, <1>5 DEF Typed
<1>8. ASSUME NEW d \in Calls
      PROVE  /\ Live(flight'[d]) <=> Live(flight[d])
             /\ flight'[d].tab = flight[d].tab /\ flight'[d].pair = flight[d].pair
             /\ Live(call[d]) => call[d].body \in 1..issued
             /\ Live(flight[d]) => flight[d].pair \in 1..issued
             /\ flight[d].state = "answered" => flight[d].new \in 1..issued /\ flight[d].new # pair /\ flight'[d] = flight[d]
    <2>1. flight[d].state = "answered" => flight[d].new # pair
        BY <1>1, <1>2, <1>5 DEF Arriving, NewHeld, Live
    <2> QED
        BY <1>1, <1>2, <1>5, <1>7, <2>1 DEF Typed, CallRight, FlightRight, Live
<1>9. Typed'
    <2>1. ASSUME NEW d \in Calls PROVE CallRight(call[d])'
        BY <1>1, <1>2 DEF Typed, CallRight, Live
    <2>2. ASSUME NEW d \in Calls PROVE FlightRight(flight[d])'
        <3>1. CASE d = c
            <4>1. new \in 1..issued' /\ new \notin blacklisted' /\ pair \in blacklisted' /\ pair \in 1..issued'
                BY <1>1, <1>2, <1>3, <1>4, <1>5 DEF Typed
            <4>2. session'[new] = session'[pair]
                BY <1>3, <1>5, <1>6
            <4> QED
                BY <1>3, <1>7, <3>1, <4>1, <4>2 DEF FlightRight, Live
        <3>2. CASE d # c
            <4>1. FlightRight(flight[d]) /\ flight'[d] = flight[d]
                BY <1>2, <1>7, <3>2 DEF Typed
            <4>2. flight[d].state = "answered" => flight[d].new # pair
                BY <1>8
            <4>3. \A n \in 1..issued : n \in 1..issued' /\ session'[n] = session[n]
                BY <1>1, <1>2, <1>6
            <4>4. blacklisted' = blacklisted \cup {pair}
                BY <1>1, <1>5
            <4> QED
                BY <4>1, <4>2, <4>3, <4>4 DEF FlightRight, Live
        <3> QED
            BY <3>1, <3>2
    <2>3. \A n \in 1..issued' : session'[n] \in 1..issued'
        BY <1>1, <1>2, <1>3, <1>4, <1>5, <1>6 DEF Typed
    <2>4. blacklisted' \subseteq 1..issued' /\ issued' \in 0..MaxPairs
        BY <1>1, <1>2, <1>3, SessionAssumption DEF Typed
    <2>5. \A t \in Tabs : tab'[t] \in 0..issued'
        BY <1>1, <1>2 DEF Typed
    <2> QED
        BY <1>1, <1>2, <1>6, <1>7, <2>1, <2>2, <2>3, <2>4, <2>5 DEF Typed
<1>10. \A t \in Tabs : FlightsOf(t)' = FlightsOf(t)
    BY <1>8 DEF FlightsOf, Live
<1>11. OneFlight'
    <2>1. \A d \in Calls : Live(flight'[d]) =>
             call'[d].state = "waiting" /\ call'[d].tab = flight'[d].tab /\ call'[d].on = {d}
        BY <1>1, <1>2, <1>8 DEF OneFlight
    <2>2. \A t \in Tabs : promise'[t] = FlightsOf(t)'
        BY <1>1, <1>2, <1>10 DEF OneFlight
    <2>3. \A t \in Tabs : \A d, e \in FlightsOf(t)' : d = e
        BY <1>2, <1>10 DEF OneFlight
    <2> QED
        BY <2>1, <2>2, <2>3 DEF OneFlight
<1>12. ASSUME NEW n, NewHeld(n)' PROVE NewHeld(n) /\ n # new
    <2>1. NewHeld(n)
        BY <1>1, <1>8, <1>12 DEF NewHeld
    <2>2. n \in 0..issued
        BY <1>2, <1>8, <2>1 DEF NewHeld, Typed, Kept, AdriftRight
    <2> QED
        BY <1>2, <1>4, <2>1, <2>2
<1>13. Arriving'
    <2>1. ASSUME NEW d \in Calls, flight'[d].state = "answered" PROVE ~ NewHeld(flight[d].new)'
        <3>0. PICK n : n = flight'[d].new
            OBVIOUS
        <3>1. CASE d = c
            <4>1. n = new
                BY <1>7, <3>0, <3>1
            <4> QED
                BY <1>12, <3>0, <4>1
        <3>2. CASE d # c
            <4>1. ~ NewHeld(n)
                BY <1>2, <1>7, <2>1, <3>0, <3>2 DEF Arriving
            <4> QED
                BY <1>12, <3>0, <4>1
        <3> QED
            BY <3>1, <3>2
    <2>2. ASSUME NEW d \in Calls, NEW e \in Calls, flight'[d].state = "answered", flight'[e].state = "answered",
                 flight'[d].new = flight'[e].new
          PROVE  d = e
        <3>1. \A f \in Calls : f # c /\ flight'[f].state = "answered" => flight'[f].new \in 1..issued
            BY <1>7, <1>8
        <3>2. new \notin 1..issued
            BY <1>2, <1>4
        <3> QED
            BY <1>2, <1>7, <2>2, <3>1, <3>2 DEF Arriving
    <2> QED
        BY <2>1, <2>2 DEF Arriving
<1>14. ASSUME NEW t \in Tabs, NEW s PROVE Holds(t, s)' <=> Holds(t, s)
    BY <1>1, <1>2, <1>6 DEF Holds, Typed
<1>15. ASSUME NEW s \in 1..issued', NEW u \in Tabs, Uses(u, s)' PROVE Uses(u, s) /\ s \in 1..issued
    <2>1. ASSUME NEW d \in Calls, Live(call'[d]), call'[d].tab = u, session'[call'[d].body] = s
          PROVE  Uses(u, s) /\ s \in 1..issued
        <3>1. call'[d] = call[d] /\ call[d].body \in 1..issued
            BY <1>1, <1>8, <2>1
        <3>2. session[call[d].body] = s /\ session[call[d].body] \in 1..issued
            BY <1>2, <1>6, <2>1, <3>1 DEF Typed
        <3> QED
            BY <2>1, <3>1, <3>2 DEF Uses
    <2>2. ASSUME NEW d \in Calls, Live(flight'[d]), flight'[d].tab = u, session'[flight'[d].pair] = s
          PROVE  Uses(u, s) /\ s \in 1..issued
        <3>1. Live(flight[d]) /\ flight[d].tab = u /\ flight[d].pair \in 1..issued
            BY <1>8, <2>2
        <3>2. session[flight[d].pair] = s /\ session[flight[d].pair] \in 1..issued
            BY <1>2, <1>6, <1>8, <2>2, <3>1 DEF Typed
        <3> QED
            BY <3>1, <3>2 DEF Uses
    <2>3. Holds(u, s)' => Uses(u, s) /\ s \in 1..issued
        <3>1. Holds(u, s) => Uses(u, s) /\ s \in 1..issued
            BY <1>2 DEF Uses, Holds, Typed
        <3> QED
            BY <1>14, <3>1
    <2> QED
        BY <1>15, <2>1, <2>2, <2>3 DEF Uses
<1>16. OneTab'
    BY <1>1, <1>2, <1>15 DEF OneTab
<1>17. StillGood'
    <2> SUFFICES ASSUME NEW u \in Tabs, NEW s \in 1..issued' \ tangled', Holds(u, s)', tab'[u] \in blacklisted'
                 PROVE  FlightsIn(s)' # {} \/ LogoutsOf(s)' # {}
        BY DEF StillGood
    <2>1. Holds(u, s) /\ s \in 1..issued \ tangled
        BY <1>1, <1>2, <1>14 DEF Holds, Typed
    <2>2. LogoutsOf(s) \subseteq LogoutsOf(s)'
        BY <1>1, <1>6, <1>8 DEF LogoutsOf, Live
    <2>3. FlightsIn(s) \subseteq FlightsIn(s)'
        BY <1>6, <1>8 DEF FlightsIn, Live
    <2>4. CASE tab[u] = pair
        <3>1. c \in FlightsIn(s)
            BY <1>1, <1>5, <2>1, <2>4 DEF FlightsIn, Holds
        <3> QED
            BY <2>3, <3>1
    <2>5. CASE tab[u] # pair
        BY <1>1, <1>2, <1>5, <2>1, <2>2, <2>3, <2>5 DEF StillGood
    <2> QED
        BY <2>4, <2>5
<1>18. Kept'
    <2> SUFFICES ASSUME NEW s \in 1..issued' \ tangled', Stored(s)', \A u \in Tabs : tab'[u] # persisted'
                 PROVE  Loose(s)' /\ persisted' \notin blacklisted'
        BY <1>1, <1>2 DEF Kept
    <2>1. Stored(s) /\ persisted \in 1..issued /\ s \in 1..issued \ tangled
        BY <1>1, <1>2, <1>6 DEF Stored, Kept, Typed
    <2>2. Loose(s) /\ persisted \notin blacklisted
        BY <1>1, <1>2, <2>1 DEF Kept
    <2>3. Loose(s)'
        BY <1>15, <2>2 DEF Loose
    <2>4. persisted # pair
        BY <1>1, <1>2, <1>5, <2>1, <2>2, HoldersUse DEF Loose, Stored, Live
    <2> QED
        BY <1>1, <1>5, <2>2, <2>3, <2>4
<1>19. AdriftRight'
    <2> SUFFICES ASSUME NEW a \in adrift PROVE a \in [pair : 1..issued', refresh : BOOLEAN] /\ Harmless(a)'
        BY <1>1 DEF AdriftRight
    <2>1. a \in [pair : 1..issued, refresh : BOOLEAN] /\ Harmless(a)
        BY <1>2 DEF AdriftRight
    <2>2. a \in [pair : 1..issued', refresh : BOOLEAN]
        BY <1>1, <1>2, <2>1
    <2>3. session'[a.pair] = session[a.pair]
        BY <1>6, <2>1
    <2> QED
        BY <1>1, <2>1, <2>2, <2>3 DEF Harmless
<1> QED
    BY <1>9, <1>11, <1>13, <1>16, <1>17, <1>18, <1>19 DEF SurviveInv

\* The answer replaces the pair that it spent by one that is not.
LEMMA ReceiveRefreshSurvives ==
    ASSUME SurviveInv, NEW c \in Calls, ReceiveRefresh(c)
    PROVE  SurviveInv'
<1>1. PICK t, n : t = flight[c].tab /\ n = flight[c].new
    OBVIOUS
<1>2. /\ flight[c].state = "answered" /\ tab' = [tab EXCEPT ![t] = n] /\ persisted' = n
      /\ promise' = [promise EXCEPT ![t] = {}] /\ flight' = [flight EXCEPT ![c] = Free]
      /\ call' = [d \in Calls |-> IF call[d].state = "waiting" /\ c \in call[d].on
                                  THEN [call[d] EXCEPT !.state = "sent", !.access = n, !.on = {}]
                                  ELSE call[d]]
      /\ UNCHANGED <<issued, session, blacklisted, adrift, tangled>>
    BY <1>1 DEF ReceiveRefresh
<1>3. Typed /\ OneFlight /\ Arriving /\ OneTab /\ Kept /\ StillGood /\ AdriftRight /\ issued \in Nat
    BY DEF SurviveInv, Typed
<1>4. /\ t \in Tabs /\ n \in 1..issued /\ n \notin blacklisted
      /\ flight[c].pair \in 1..issued /\ session[n] = session[flight[c].pair]
    BY <1>1, <1>2, <1>3 DEF Typed, FlightRight, Live
<1>5. /\ DOMAIN tab' = Tabs /\ DOMAIN promise' = Tabs /\ DOMAIN flight' = Calls /\ DOMAIN call' = Calls
      /\ \A u \in Tabs : tab'[u] = IF u = t THEN n ELSE tab[u]
      /\ \A u \in Tabs : promise'[u] = IF u = t THEN {} ELSE promise[u]
      /\ flight'[c] = Free /\ \A d \in Calls : d # c => flight'[d] = flight[d]
    BY <1>2, <1>3, <1>4 DEF Typed
<1>6. ASSUME NEW d \in Calls
      PROVE  /\ Live(call'[d]) <=> Live(call[d])
             /\ Live(call[d]) => /\ DOMAIN call'[d] = DOMAIN call[d] /\ call'[d].tab = call[d].tab
                                 /\ call'[d].body = call[d].body /\ call'[d].logout = call[d].logout
             /\ c \notin call[d].on => call'[d] = call[d]
    <2>1. CASE call[d].state = "waiting" /\ c \in call[d].on
        <3>1. call'[d] = [call[d] EXCEPT !.state = "sent", !.access = n, !.on = {}]
            BY <1>2, <2>1
        <3>2. DOMAIN call[d] = {"state", "tab", "logout", "retried", "access", "body", "on"}
            BY <1>3, <2>1 DEF Typed, CallRight, Live
        <3> QED
            BY <2>1, <3>1, <3>2 DEF Live
    <2>2. CASE ~ (call[d].state = "waiting" /\ c \in call[d].on)
        <3>1. call'[d] = call[d]
            BY <1>2, <2>2
        <3> QED
            BY <3>1
    <2> QED
        BY <2>1, <2>2
<1>7. \A d \in Calls : Live(flight'[d]) => d # c /\ flight'[d] = flight[d] /\ Live(flight[d])
    BY <1>5, FreeIs DEF Live
<1>8. Typed'
    <2>1. ASSUME NEW d \in Calls PROVE CallRight(call[d])'
        BY <1>2, <1>3, <1>6 DEF Typed, CallRight
    <2>2. ASSUME NEW d \in Calls PROVE FlightRight(flight[d])'
        BY <1>2, <1>3, <1>7 DEF Typed, FlightRight
    <2>3. \A u \in Tabs : tab'[u] \in 0..issued
        BY <1>3, <1>4, <1>5 DEF Typed
    <2> QED
        BY <1>2, <1>3, <1>5, <2>1, <2>2, <2>3 DEF Typed
<1>9. \A u \in Tabs : FlightsOf(u)' = IF u = t THEN {} ELSE FlightsOf(u)
    <2>1. c \in FlightsOf(t)
        BY <1>1, <1>2 DEF FlightsOf
    <2>2. \A d \in FlightsOf(t) : d = c
        BY <1>3, <1>4, <2>1 DEF OneFlight
    <2>3. \A u \in Tabs : FlightsOf(u)' = FlightsOf(u) \ {c}
        BY <1>5, FreeIs DEF FlightsOf
    <2> QED
        BY <1>1, <2>1, <2>2, <2>3 DEF FlightsOf
<1>10. OneFlight'
    <2>1. ASSUME NEW d \in Calls, Live(flight'[d])
          PROVE  call'[d].state = "waiting" /\ call'[d].tab = flight'[d].tab /\ call'[d].on = {d}
        <3>1. /\ d # c /\ flight'[d] = flight[d] /\ call[d].on = {d}
              /\ call[d].state = "waiting" /\ call[d].tab = flight[d].tab
            BY <1>3, <1>7, <2>1 DEF OneFlight
        <3> QED
            BY <1>6, <3>1
    <2>2. \A u \in Tabs : promise'[u] = FlightsOf(u)'
        BY <1>3, <1>5, <1>9 DEF OneFlight
    <2>3. \A u \in Tabs : \A d, e \in FlightsOf(u)' : d = e
        BY <1>3, <1>9 DEF OneFlight
    <2> QED
        BY <2>1, <2>2, <2>3 DEF OneFlight
<1>11. ASSUME NEW m, NewHeld(m)' PROVE NewHeld(m) \/ m = n
    <2>1. ASSUME NEW u \in Tabs, tab'[u] = m PROVE NewHeld(m) \/ m = n
        BY <1>5, <2>1 DEF NewHeld
    <2>2. ASSUME NEW d \in Calls, Live(call'[d]), call'[d].body = m PROVE NewHeld(m)
        BY <1>6, <2>2 DEF NewHeld
    <2>3. ASSUME NEW d \in Calls, Live(flight'[d]), flight'[d].pair = m PROVE NewHeld(m)
        BY <1>7, <2>3 DEF NewHeld
    <2>4. ASSUME NEW a \in adrift', a.pair = m PROVE NewHeld(m)
        BY <1>2, <2>4 DEF NewHeld
    <2> QED
        BY <1>2, <1>11, <2>1, <2>2, <2>3, <2>4 DEF NewHeld, Live
<1>12. Arriving'
    <2>1. ASSUME NEW d \in Calls, flight'[d].state = "answered"
          PROVE  d # c /\ flight'[d] = flight[d] /\ ~ NewHeld(flight[d].new)'
        <3>1. d # c /\ flight'[d] = flight[d] /\ flight[d].state = "answered"
            BY <1>7, <2>1 DEF Live
        <3>2. PICK m : m = flight[d].new
            OBVIOUS
        <3>3. m # n /\ ~ NewHeld(m)
            BY <1>1, <1>2, <1>3, <3>1, <3>2 DEF Arriving
        <3>4. ~ NewHeld(m)' /\ m = flight'[d].new
            BY <1>11, <3>1, <3>2, <3>3
        <3> QED
            BY <3>1, <3>4
    <2> QED
        BY <1>3, <2>1 DEF Arriving
<1>13. OneTab'
    <2>1. ASSUME NEW s \in 1..issued, s \notin tangled', NEW u \in Tabs, Uses(u, s)' PROVE Uses(u, s)
        <3>1. ASSUME NEW d \in Calls, Live(call'[d]), call'[d].tab = u, session'[call'[d].body] = s
              PROVE  Uses(u, s)
            BY <1>2, <1>6, <3>1 DEF Uses
        <3>2. ASSUME NEW d \in Calls, Live(flight'[d]), flight'[d].tab = u, session'[flight'[d].pair] = s
              PROVE  Uses(u, s)
            BY <1>2, <1>7, <3>2 DEF Uses
        <3>3. ASSUME Holds(u, s)' PROVE Uses(u, s)
            <4>1. CASE u = t
                BY <1>1, <1>2, <1>4, <1>5, <3>3, <4>1 DEF Uses, Holds, Live
            <4>2. CASE u # t
                BY <1>2, <1>5, <3>3, <4>2 DEF Uses, Holds
            <4> QED
                BY <4>1, <4>2
        <3> QED
            BY <2>1, <3>1, <3>2, <3>3 DEF Uses
    <2> QED
        BY <1>2, <1>3, <2>1, UsesKept
<1>14. StillGood'
    <2> SUFFICES ASSUME NEW u \in Tabs, NEW s \in 1..issued' \ tangled', Holds(u, s)', tab'[u] \in blacklisted'
                 PROVE  FlightsIn(s)' # {} \/ LogoutsOf(s)' # {}
        BY DEF StillGood
    <2>1. u # t
        BY <1>2, <1>4, <1>5
    <2>2. Holds(u, s) /\ tab[u] \in blacklisted
        BY <1>2, <1>5, <2>1 DEF Holds
    <2>3. LogoutsOf(s) \subseteq LogoutsOf(s)'
        BY <1>2, <1>6 DEF LogoutsOf, Live
    <2>4. c \notin FlightsIn(s)
        <3>1. ASSUME c \in FlightsIn(s) PROVE FALSE
            <4>1. Uses(t, s) /\ Uses(u, s)
                BY <1>1, <2>2, <3>1 DEF Uses, FlightsIn, Live
            <4> QED
                BY <1>2, <1>3, <1>4, <2>1, <4>1 DEF OneTab
        <3> QED
            BY <3>1
    <2>5. FlightsIn(s) \subseteq FlightsIn(s)'
        BY <1>2, <1>5, <2>4 DEF FlightsIn
    <2> QED
        BY <1>2, <1>3, <2>2, <2>3, <2>5 DEF StillGood
<1>15. Kept'
    <2>1. \E u \in Tabs : tab'[u] = persisted'
        BY <1>2, <1>4, <1>5
    <2>2. persisted' = n /\ issued' = issued
        BY <1>2
    <2>3. persisted' \in 0..issued'
        BY <1>3, <1>4, <2>2
    <2> QED
        BY <2>1, <2>3 DEF Kept
<1>16. AdriftRight'
    <2> SUFFICES ASSUME NEW a \in adrift PROVE a \in [pair : 1..issued, refresh : BOOLEAN] /\ Harmless(a)'
        BY <1>2 DEF AdriftRight
    <2>1. a \in [pair : 1..issued, refresh : BOOLEAN] /\ Harmless(a)
        BY <1>3 DEF AdriftRight
    <2>2. a.pair # n
        BY <1>1, <1>2, <1>3 DEF Arriving, NewHeld
    <2> QED
        BY <1>2, <1>5, <2>1, <2>2 DEF Harmless
<1> QED
    BY <1>8, <1>10, <1>12, <1>13, <1>14, <1>15, <1>16 DEF SurviveInv

\* The server comes to what a page that was left had asked for.
LEMMA ServeAdriftSurvives ==
    ASSUME SurviveInv, NEW a \in adrift, ServeAdrift(a)
    PROVE  SurviveInv'
<1>1. /\ adrift' = adrift \ {a} /\ blacklisted' = blacklisted \cup {a.pair}
      /\ UNCHANGED <<tab, persisted, call, flight, promise, tangled>>
    BY DEF ServeAdrift
<1>2. Typed /\ OneFlight /\ Arriving /\ OneTab /\ Kept /\ StillGood /\ AdriftRight /\ issued \in Nat
    BY DEF SurviveInv, Typed
<1>3. PICK pair : pair = a.pair /\ pair \in 1..issued /\ Harmless(a)
    BY <1>2 DEF AdriftRight
<1>4. /\ issued' \in issued..MaxPairs /\ DOMAIN session' = 1..MaxPairs
      /\ \A n \in 1..issued : session'[n] = session[n]
      /\ \A n \in 1..issued' : n \in 1..issued \/ session'[n] = session[pair]
    <2>1. CASE UNCHANGED <<issued, session>>
        BY <1>2, <2>1 DEF Typed
    <2>2. CASE issued < MaxPairs /\ issued' = issued + 1
               /\ session' = [session EXCEPT ![issued + 1] = session[a.pair]]
        BY <1>2, <1>3, <2>2, SessionAssumption DEF Typed
    <2> QED
        BY <2>1, <2>2 DEF ServeAdrift
<1>5. \A n \in 1..issued : n \in 1..issued'
    BY <1>2, <1>4
<1>6. ASSUME NEW d \in Calls
      PROVE  /\ Live(call[d]) => call[d].body \in 1..issued
             /\ Live(flight[d]) => flight[d].pair \in 1..issued
             /\ flight[d].state = "answered" => flight[d].new \in 1..issued /\ flight[d].new # pair
    <2>1. flight[d].state = "answered" => flight[d].new # pair
        BY <1>2, <1>3 DEF Arriving, NewHeld
    <2> QED
        BY <1>2, <2>1 DEF Typed, CallRight, FlightRight, Live
<1>7. Typed'
    <2>1. ASSUME NEW d \in Calls PROVE CallRight(call[d])'
        BY <1>1, <1>2, <1>5 DEF Typed, CallRight, Live
    <2>2. ASSUME NEW d \in Calls PROVE FlightRight(flight[d])'
        <3>1. FlightRight(flight[d])
            BY <1>2 DEF Typed
        <3> QED
            BY <1>1, <1>3, <1>4, <1>5, <1>6, <3>1 DEF FlightRight, Live
    <2>3. \A n \in 1..issued' : session'[n] \in 1..issued'
        BY <1>2, <1>3, <1>4, <1>5 DEF Typed
    <2>4. blacklisted' \subseteq 1..issued' /\ issued' \in 0..MaxPairs
        BY <1>1, <1>2, <1>3, <1>4, SessionAssumption DEF Typed
    <2>5. \A t \in Tabs : tab'[t] \in 0..issued'
        BY <1>1, <1>2, <1>4 DEF Typed
    <2> QED
        BY <1>1, <1>2, <1>4, <2>1, <2>2, <2>3, <2>4, <2>5 DEF Typed
<1>8. OneFlight'
    BY <1>1, <1>2 DEF OneFlight, FlightsOf, Live
<1>9. Arriving'
    <2>1. ASSUME NEW n, NewHeld(n)' PROVE NewHeld(n)
        BY <1>1, <2>1 DEF NewHeld
    <2> QED
        BY <1>1, <1>2, <2>1 DEF Arriving
<1>10. ASSUME NEW u \in Tabs, NEW s, Uses(u, s)' PROVE Uses(u, s) /\ s \in 1..issued
    <2>1. ASSUME NEW d \in Calls, Live(call'[d]), call'[d].tab = u, session'[call'[d].body] = s
          PROVE  Uses(u, s) /\ s \in 1..issued
        <3>1. call'[d] = call[d] /\ Live(call[d]) /\ call[d].body \in 1..issued
            BY <1>1, <1>6, <2>1 DEF Live
        <3>2. session[call[d].body] = s /\ session[call[d].body] \in 1..issued
            BY <1>2, <1>4, <2>1, <3>1 DEF Typed
        <3> QED
            BY <2>1, <3>1, <3>2 DEF Uses
    <2>2. ASSUME NEW d \in Calls, Live(flight'[d]), flight'[d].tab = u, session'[flight'[d].pair] = s
          PROVE  Uses(u, s) /\ s \in 1..issued
        <3>1. flight'[d] = flight[d] /\ Live(flight[d]) /\ flight[d].pair \in 1..issued
            BY <1>1, <1>6, <2>2 DEF Live
        <3>2. session[flight[d].pair] = s /\ session[flight[d].pair] \in 1..issued
            BY <1>2, <1>4, <2>2, <3>1 DEF Typed
        <3> QED
            BY <2>2, <3>1, <3>2 DEF Uses
    <2>3. Holds(u, s)' => Uses(u, s) /\ s \in 1..issued
        BY <1>1, <1>2, <1>4 DEF Uses, Holds, Typed
    <2> QED
        BY <1>10, <2>1, <2>2, <2>3 DEF Uses
<1>11. OneTab'
    BY <1>1, <1>2, <1>10 DEF OneTab
<1>12. StillGood'
    <2> SUFFICES ASSUME NEW u \in Tabs, NEW s \in 1..issued' \ tangled', Holds(u, s)', tab'[u] \in blacklisted'
                 PROVE  FlightsIn(s)' # {} \/ LogoutsOf(s)' # {}
        BY DEF StillGood
    <2>1. Holds(u, s) /\ s \in 1..issued \ tangled
        BY <1>1, <1>2, <1>4 DEF Holds, Typed
    <2>2. LogoutsOf(s) \subseteq LogoutsOf(s)' /\ FlightsIn(s) \subseteq FlightsIn(s)'
        BY <1>1, <1>4, <1>6 DEF LogoutsOf, FlightsIn, Live
    <2>3. tab[u] # pair
        BY <1>3, <2>1 DEF Harmless, Holds
    <2> QED
        BY <1>1, <1>2, <1>3, <2>1, <2>2, <2>3 DEF StillGood
<1>13. Kept'
    <2> SUFFICES ASSUME NEW s \in 1..issued' \ tangled', Stored(s)', \A u \in Tabs : tab'[u] # persisted'
                 PROVE  Loose(s)' /\ persisted' \notin blacklisted'
        BY <1>1, <1>2, <1>4 DEF Kept
    <2>1. Stored(s) /\ persisted \in 1..issued /\ s \in 1..issued \ tangled
        BY <1>1, <1>2, <1>4 DEF Stored, Kept, Typed
    <2>2. Loose(s) /\ persisted \notin blacklisted
        BY <1>1, <1>2, <2>1 DEF Kept
    <2>3. Loose(s)'
        BY <1>10, <2>2 DEF Loose
    <2>4. persisted # pair
        BY <1>3, <2>1 DEF Harmless, Stored
    <2> QED
        BY <1>1, <1>3, <2>2, <2>3, <2>4
<1>14. AdriftRight'
    <2> SUFFICES ASSUME NEW b \in adrift PROVE b \in [pair : 1..issued', refresh : BOOLEAN] /\ Harmless(b)'
        BY <1>1 DEF AdriftRight
    <2>1. b \in [pair : 1..issued, refresh : BOOLEAN] /\ Harmless(b)
        BY <1>2 DEF AdriftRight
    <2>2. b \in [pair : 1..issued', refresh : BOOLEAN]
        BY <1>5, <2>1
    <2>3. session'[b.pair] = session[b.pair]
        BY <1>4, <2>1
    <2> QED
        BY <1>1, <2>1, <2>2, <2>3 DEF Harmless
<1> QED
    BY <1>7, <1>8, <1>9, <1>11, <1>12, <1>13, <1>14 DEF SurviveInv

\* Nothing has been issued before the first login.
LEMMA SurviveInvInit == AuthInit => SurviveInv
<1> SUFFICES ASSUME AuthInit PROVE SurviveInv
    OBVIOUS
<1>1. \A c \in Calls : call[c].state = "none" /\ flight[c].state = "none"
    BY FreeIs DEF AuthInit
<1>2. Typed
    BY <1>1, SessionAssumption DEF AuthInit, Typed, CallRight, FlightRight, Live
<1>3. OneFlight /\ Arriving
    BY <1>1 DEF AuthInit, OneFlight, Arriving, FlightsOf, Live
<1>4. OneTab /\ StillGood /\ Kept /\ AdriftRight
    BY SessionAssumption DEF AuthInit, OneTab, StillGood, Kept, AdriftRight
<1> QED
    BY <1>2, <1>3, <1>4 DEF SurviveInv

\* Every step of the browser and of the API keeps the invariant.
LEMMA SurviveInvNext == SurviveInv /\ [AuthNext]_authVars => SurviveInv'
<1> SUFFICES ASSUME SurviveInv, [AuthNext]_authVars PROVE SurviveInv'
    OBVIOUS
<1>1. CASE UNCHANGED authVars \/ \E n \in 1..MaxPairs : Expire(n)
    <2>1. UNCHANGED <<issued, session, blacklisted, tab, persisted, call, flight, promise, adrift, tangled>>
        BY <1>1 DEF authVars, Expire
    <2>2. Typed' /\ OneFlight'
        BY <2>1 DEF SurviveInv, Typed, OneFlight, CallRight, FlightRight, FlightsOf, Live
    <2>3. OneTab' /\ Arriving' /\ \A t \in Tabs : \A s \in 1..issued : Uses(t, s)' => Uses(t, s)
        BY <2>1, Shrinking
    <2>4. StillGood'
        BY <2>1 DEF SurviveInv, StillGood, Holds, FlightsIn, LogoutsOf
    <2>5. Kept'
        BY <2>1, <2>3, StoreKept
    <2>6. AdriftRight'
        BY <2>1, AdriftKept DEF SurviveInv
    <2> QED
        BY <2>2, <2>3, <2>4, <2>5, <2>6 DEF SurviveInv
<1>2. ASSUME NEW c \in Calls, FailRefresh(c) PROVE SurviveInv'
    <2>1. flight[c].tab \in Tabs
        BY <1>2 DEF FailRefresh, SurviveInv, Typed, FlightRight, Live
    <2> QED
        BY <1>2, <2>1, LeaveSurvives DEF FailRefresh, ClearAndLeave
<1>3. ASSUME NEW t \in Tabs, CloseTab(t) PROVE SurviveInv'
    BY <1>3, LeaveSurvives DEF CloseTab
<1> QED
    BY <1>1, <1>2, <1>3, LoginSurvives, OpenTabSurvives, SendSurvives, ServeSurvives, SettleSurvives,
       RefreshSurvives, ServeRefreshSurvives, ReceiveRefreshSurvives, ServeAdriftSurvives DEF AuthNext

\* However many tabs, requests and refreshes there are, a tab that has a session to
\* itself holds a refresh token that works (refreshAccessToken in client.ts).
THEOREM SessionsSurvive == AuthSpec => []SessionSurvives
<1>1. SurviveInv => SessionSurvives
    <2> SUFFICES ASSUME SurviveInv, NEW t \in Tabs PROVE
            /\ Cardinality(FlightsOf(t)) <= 1
            /\ (tab[t] # 0 /\ SessionOf(t) \notin tangled /\ FlightsOf(t) = {} /\ LogoutsOf(SessionOf(t)) = {})
                 => tab[t] \notin blacklisted
        BY DEF SessionSurvives
    <2>1. FlightsOf(t) = {} \/ \E c : FlightsOf(t) = {c}
        <3>1. \A c, d \in FlightsOf(t) : c = d
            BY DEF SurviveInv, OneFlight
        <3> QED
            BY <3>1
    <2>2. Cardinality(FlightsOf(t)) <= 1
        <3>1. CASE FlightsOf(t) = {}
            BY <3>1, FS_EmptySet
        <3>2. ASSUME NEW c, FlightsOf(t) = {c} PROVE Cardinality(FlightsOf(t)) <= 1
            <4>1. Cardinality({c}) = 1
                BY FS_Singleton
            <4> QED
                BY <3>2, <4>1
        <3> QED
            BY <2>1, <3>1, <3>2
    <2>3. tab[t] # 0 => SessionOf(t) \in 1..issued /\ Holds(t, SessionOf(t))
        BY DEF SurviveInv, Typed, Holds, SessionOf
    <2>4. ASSUME tab[t] # 0, SessionOf(t) \notin tangled, FlightsOf(t) = {} PROVE FlightsIn(SessionOf(t)) = {}
        <3>1. ASSUME NEW c \in FlightsIn(SessionOf(t)) PROVE FALSE
            <4>1. flight[c].tab \in Tabs /\ Uses(flight[c].tab, SessionOf(t)) /\ Uses(t, SessionOf(t))
                BY <2>3, <2>4 DEF SurviveInv, Typed, FlightRight, FlightsIn, Uses, Live
            <4>2. c \in FlightsOf(t)
                BY <2>3, <2>4, <4>1 DEF SurviveInv, OneTab, FlightsIn, FlightsOf
            <4> QED
                BY <2>4, <4>2
        <3> QED
            BY <3>1
    <2> QED
        BY <2>2, <2>3, <2>4 DEF SurviveInv, StillGood
<1> QED
    BY SurviveInvInit, SurviveInvNext, <1>1, PTL DEF AuthSpec

\* The pairs that were issued in a session.
PairsOf(s) == {n \in 1..issued : session[n] = s}

\* Its refreshes that were served, with an answer still to arrive.
Answered(s) == {c \in Calls : flight[c].state = "answered" /\ session[flight[c].pair] = s}

\* The refresh of a tab that has its session to itself is for the pair it holds.
OwnPair(s) ==
    \A c \in FlightsIn(s) : Holds(flight[c].tab, s) => tab[flight[c].tab] = flight[c].pair

\* A logout names the one pair of its session that is not spent.
LogoutRight(c, s) ==
    /\ call[c].state \in {"sent", "served"}
    /\ call[c].state = "served" => call[c].body \in blacklisted
    /\ PairsOf(s) \subseteq blacklisted \cup {call[c].body}
    /\ Answered(s) = {}
    /\ \A t \in Tabs : Holds(t, s) => tab[t] = call[c].body

\* Until then a tab holds it, or the store, or a refresh that is under way, or nobody
\* ever will.
Unheld(s) == (\A t \in Tabs : ~ Holds(t, s)) /\ FlightsIn(s) = {} /\ ~ Stored(s)

\* A pair is spent, or there is somebody who can still spend it.
HeldPair(n) ==
    \/ n \in blacklisted
    \/ persisted = n
    \/ \E t \in Tabs : tab[t] = n
    \/ \E c \in Calls : Live(flight[c]) /\ flight[c].pair = n
    \/ \E c \in Calls : flight[c].state = "answered" /\ flight[c].new = n

\* After it nobody has the session; its pairs are spent if the server heard of it.
Over(s) ==
    /\ Answered(s) = {} /\ ~ Stored(s)
    /\ \A t \in Tabs : ~ Holds(t, s)
    /\ s \notin unheard => PairsOf(s) \subseteq blacklisted
    /\ s \in unheard => FlightsIn(s) = {}

\* A session before, during and after its logout.
SessionRight(s) ==
    /\ OwnPair(s)
    /\ \A c \in LogoutsOf(s) : LogoutRight(c, s)
    /\ s \notin ended /\ LogoutsOf(s) = {} => Unheld(s) \/ \A n \in PairsOf(s) : HeldPair(n)
    /\ s \in ended => Over(s)

\* Sessions of one tab, with no refresh crossing their logout.
Plain == 1..issued \ (tangled \cup overtaken)

\* The invariant of LogoutEnds.
LogoutInv == unheard \subseteq ended /\ ended \subseteq 1..issued /\ \A s \in Plain : SessionRight(s)

\* A step that leaves the pairs of a session, their holders and its requests alone.
LEMMA SessionUntouched ==
    ASSUME SurviveInv, NEW s \in 1..issued \ tangled, SessionRight(s),
           PairsOf(s)' = PairsOf(s), blacklisted \subseteq blacklisted',
           s \in ended' <=> s \in ended, s \in unheard' <=> s \in unheard,
           Stored(s)' => Stored(s) /\ persisted' = persisted,
           \A t \in Tabs : Holds(t, s) \/ Holds(t, s)' => Holds(t, s) /\ Holds(t, s)' /\ tab'[t] = tab[t],
           LogoutsOf(s)' = LogoutsOf(s),
           \A c \in LogoutsOf(s) : call'[c].state = call[c].state /\ call'[c].body = call[c].body,
           FlightsIn(s)' = FlightsIn(s), \A c \in FlightsIn(s) : flight'[c] = flight[c]
    PROVE  SessionRight(s)'
<1>1. Typed /\ Kept
    BY DEF SurviveInv
<1>2. Answered(s)' = Answered(s)
    <2>1. \A c \in Answered(s) : c \in FlightsIn(s)
        BY DEF Answered, FlightsIn
    <2>2. \A c \in Answered(s)' : c \in FlightsIn(s)'
        BY DEF Answered, FlightsIn
    <2>3. ASSUME NEW c \in Calls, c \in FlightsIn(s) PROVE c \in Answered(s)' <=> c \in Answered(s)
        <3>1. flight'[c] = flight[c] /\ session[flight[c].pair] = s /\ session'[flight'[c].pair] = s
            BY <2>3 DEF FlightsIn
        <3> QED
            BY <3>1 DEF Answered
    <2>4. Answered(s) \subseteq Calls /\ Answered(s)' \subseteq Calls
        BY DEF Answered
    <2> QED
        BY <2>1, <2>2, <2>3, <2>4
<1>3. OwnPair(s)'
    <2> SUFFICES ASSUME NEW c \in FlightsIn(s)', Holds(flight[c].tab, s)'
                 PROVE  tab'[flight'[c].tab] = flight'[c].pair
        BY DEF OwnPair
    <2>1. flight'[c] = flight[c] /\ c \in FlightsIn(s) /\ flight[c].tab \in Tabs
        BY <1>1 DEF FlightsIn, Typed, FlightRight, Live
    <2>2. PICK t \in Tabs : t = flight[c].tab
        BY <2>1
    <2>3. Holds(t, s)'
        BY <2>1, <2>2 DEF Holds
    <2>4. tab'[t] = tab[t] /\ Holds(t, s)
        BY <2>3
    <2> QED
        BY <2>1, <2>2, <2>4 DEF SessionRight, OwnPair
<1>4. \A c \in LogoutsOf(s)' : LogoutRight(c, s)'
    BY <1>2 DEF SessionRight, LogoutRight
<1>5. s \notin ended' /\ LogoutsOf(s)' = {} => Unheld(s)' \/ \A n \in PairsOf(s)' : HeldPair(n)'
    <2> SUFFICES ASSUME s \notin ended', LogoutsOf(s)' = {} PROVE Unheld(s)' \/ \A n \in PairsOf(s)' : HeldPair(n)'
        OBVIOUS
    <2>1. CASE Unheld(s)
        BY <2>1 DEF Unheld
    <2>2. CASE Loose(s) /\ ~ Stored(s)'
        <3>1. \A t \in Tabs : ~ Holds(t, s)
            BY <2>2 DEF Loose, Uses
        <3>2. FlightsIn(s) = {}
            <4>1. ASSUME NEW c \in FlightsIn(s) PROVE FALSE
                BY <1>1, <2>2, <4>1 DEF FlightsIn, Typed, FlightRight, Live, Loose, Uses
            <4> QED
                BY <4>1
        <3> QED
            BY <2>2, <3>1, <3>2 DEF Unheld
    <2>3. ASSUME ~ (Loose(s) /\ ~ Stored(s)'), NEW n \in PairsOf(s), HeldPair(n) PROVE HeldPair(n)'
        <3>1. CASE n \in blacklisted
            BY <3>1 DEF HeldPair
        <3>2. ASSUME NEW t \in Tabs, tab[t] = n PROVE HeldPair(n)'
            <4>1. Holds(t, s)
                BY <3>2, <1>1 DEF Holds, PairsOf, Typed
            <4> QED
                BY <3>2, <4>1 DEF HeldPair
        <3>3. ASSUME NEW c \in Calls, Live(flight[c]), flight[c].pair = n PROVE HeldPair(n)'
            <4>1. c \in FlightsIn(s)
                BY <3>3 DEF FlightsIn, PairsOf, Live
            <4>2. flight'[c] = flight[c]
                BY <4>1
            <4> QED
                BY <3>3, <4>2 DEF HeldPair, Live
        <3>4. ASSUME NEW c \in Calls, flight[c].state = "answered", flight[c].new = n PROVE HeldPair(n)'
            <4>1. c \in FlightsIn(s)
                BY <1>1, <3>4 DEF FlightsIn, PairsOf, Typed, FlightRight, Live
            <4>2. flight'[c] = flight[c]
                BY <4>1
            <4> QED
                BY <3>4, <4>2 DEF HeldPair
        <3>5. CASE persisted = n
            <4>1. Stored(s) /\ n \in 1..issued
                BY <3>5 DEF Stored, PairsOf
            <4>2. CASE Stored(s)'
                BY <3>5, <4>2 DEF HeldPair
            <4>3. CASE ~ Stored(s)'
                <5>1. \E t \in Tabs : tab[t] = n
                    BY <1>1, <2>3, <3>5, <4>1, <4>3 DEF Kept
                <5> QED
                    BY <3>2, <5>1
            <4> QED
                BY <4>2, <4>3
        <3> QED
            BY <2>3, <3>1, <3>2, <3>3, <3>4, <3>5 DEF HeldPair
    <2> QED
        BY <2>1, <2>2, <2>3 DEF SessionRight
<1>6. s \in ended' => Over(s)'
    <2> SUFFICES ASSUME s \in ended' PROVE Over(s)'
        OBVIOUS
    <2>1. Over(s)
        BY DEF SessionRight
    <2>2. Answered(s)' = {} /\ ~ Stored(s)' /\ \A t \in Tabs : ~ Holds(t, s)'
        BY <1>2, <2>1 DEF Over
    <2>3. s \notin unheard' => PairsOf(s)' \subseteq blacklisted'
        BY <2>1 DEF Over
    <2>4. s \in unheard' => FlightsIn(s)' = {}
        BY <2>1 DEF Over
    <2> QED
        BY <2>2, <2>3, <2>4 DEF Over
<1> QED
    BY <1>3, <1>4, <1>5, <1>6 DEF SessionRight

\* A login begins a session with one pair, in the store of its tab.
LEMMA LoginLogsOut ==
    ASSUME SurviveInv, LogoutInv, NEW t \in Tabs, Login(t)
    PROVE  LogoutInv'
<1>1. /\ tab[t] = 0 /\ issued' = issued + 1 /\ issued < MaxPairs
      /\ session' = [session EXCEPT ![issued + 1] = issued + 1]
      /\ tab' = [tab EXCEPT ![t] = issued + 1]
      /\ persisted' = issued + 1
      /\ UNCHANGED <<blacklisted, call, flight, tangled, ended, overtaken, unheard>>
    BY DEF Login
<1>2. Typed /\ issued \in Nat
    BY DEF SurviveInv, Typed
<1>3. PICK new : new = issued + 1
    OBVIOUS
<1>4. /\ session'[new] = new /\ \A n \in 1..issued : session'[n] = session[n]
      /\ tab'[t] = new /\ \A u \in Tabs : u # t => tab'[u] = tab[u]
    BY <1>1, <1>2, <1>3, SessionAssumption DEF Typed
<1>5. \A c \in Calls : /\ Live(call[c]) => call[c].body \in 1..issued
                       /\ Live(flight[c]) => flight[c].pair \in 1..issued
    BY <1>2 DEF Typed, CallRight, FlightRight, Live
<1>6. \A n \in 1..issued : session[n] \in 1..issued /\ session[n] # new
    BY <1>2, <1>3 DEF Typed
<1>7. \A u \in Tabs : tab[u] \in 0..issued
    BY <1>2 DEF Typed
<1>8. ASSUME NEW s \in Plain PROVE SessionRight(s)'
    <2>1. PairsOf(s)' = PairsOf(s)
        BY <1>1, <1>2, <1>3, <1>4, <1>8 DEF PairsOf, Plain
    <2>2. \A u \in Tabs : Holds(u, s) \/ Holds(u, s)' => Holds(u, s) /\ Holds(u, s)' /\ tab'[u] = tab[u]
        BY <1>1, <1>2, <1>3, <1>4, <1>7, <1>8 DEF Holds, Plain
    <2>3. LogoutsOf(s)' = LogoutsOf(s) /\ FlightsIn(s)' = FlightsIn(s)
        BY <1>1, <1>4, <1>5 DEF LogoutsOf, FlightsIn, Live
    <2>4. s \in 1..issued \ tangled /\ SessionRight(s)
        BY <1>8 DEF Plain, LogoutInv
    <2>5. ~ Stored(s)'
        BY <1>1, <1>2, <1>3, <1>4, <2>4 DEF Stored
    <2> QED
        BY <1>1, <2>1, <2>2, <2>3, <2>4, <2>5, SessionUntouched
<1>9. SessionRight(new)'
    <2>1. LogoutsOf(new)' = {} /\ FlightsIn(new)' = {}
        BY <1>1, <1>4, <1>5, <1>6 DEF LogoutsOf, FlightsIn, Live
    <2>2. PairsOf(new)' \subseteq {new}
        BY <1>1, <1>2, <1>3, <1>4, <1>6 DEF PairsOf
    <2>3. HeldPair(new)'
        BY <1>4 DEF HeldPair
    <2>4. new \notin ended'
        BY <1>1, <1>2, <1>3 DEF LogoutInv
    <2>5. OwnPair(new)'
        BY <2>1 DEF OwnPair
    <2> QED
        BY <2>1, <2>2, <2>3, <2>4, <2>5 DEF SessionRight
<1>10. \A s \in Plain' : s \in Plain \/ s = new
    BY <1>1, <1>2, <1>3 DEF Plain
<1>11. unheard' \subseteq ended' /\ ended' \subseteq 1..issued'
    BY <1>1, <1>2 DEF LogoutInv
<1> QED
    BY <1>8, <1>9, <1>10, <1>11 DEF LogoutInv

\* A tab is opened on the pair of another, or on one that nobody holds.
LEMMA OpenTabLogsOut ==
    ASSUME SurviveInv, LogoutInv, NEW t \in Tabs, OpenTab(t)
    PROVE  LogoutInv'
<1>1. /\ tab[t] = 0 /\ persisted # 0 /\ tab' = [tab EXCEPT ![t] = persisted]
      /\ tangled' = tangled \cup
           (IF \E u \in Tabs \ {t} : SessionOf(u) = session[persisted] \/ FlightsOf(u) # {}
            THEN {session[persisted]} ELSE {})
      /\ UNCHANGED <<issued, session, blacklisted, persisted, call, flight, ended, overtaken, unheard>>
    BY DEF OpenTab
<1>2. Typed /\ Kept
    BY DEF SurviveInv
<1>3. tab'[t] = persisted /\ \A u \in Tabs : u # t => tab'[u] = tab[u]
    BY <1>1, <1>2 DEF Typed
<1>4. ASSUME NEW s \in Plain' PROVE SessionRight(s)'
    <2>1. s \in 1..issued \ tangled /\ SessionRight(s)
        BY <1>1, <1>4 DEF Plain, LogoutInv
    <2>2. LogoutsOf(s)' = LogoutsOf(s) /\ FlightsIn(s)' = FlightsIn(s) /\ PairsOf(s)' = PairsOf(s)
        BY <1>1 DEF LogoutsOf, FlightsIn, PairsOf
    <2>3. CASE s # session[persisted]
        <3>1. \A u \in Tabs : Holds(u, s) \/ Holds(u, s)' => Holds(u, s) /\ Holds(u, s)' /\ tab'[u] = tab[u]
            BY <1>1, <1>3, <2>3 DEF Holds
        <3>2. ~ Stored(s)'
            BY <1>1, <2>3 DEF Stored
        <3> QED
            BY <1>1, <2>1, <2>2, <3>1, <3>2, SessionUntouched
    <2>4. CASE s = session[persisted]
        <3>1. Stored(s) /\ \A u \in Tabs \ {t} : SessionOf(u) # s
            BY <1>1, <1>4, <2>4 DEF Stored, Plain
        <3>2. \A u \in Tabs : tab[u] # persisted
            BY <1>1, <2>4, <3>1 DEF SessionOf
        <3>3. Loose(s)
            BY <1>2, <2>1, <3>1, <3>2 DEF Kept
        <3>4. FlightsIn(s) = {} /\ LogoutsOf(s) = {}
            BY <1>2, <3>3 DEF FlightsIn, LogoutsOf, Typed, FlightRight, CallRight, Live, Loose, Uses
        <3>5. s \notin ended /\ \A n \in PairsOf(s) : HeldPair(n)
            BY <2>1, <3>1, <3>4 DEF SessionRight, Over, Unheld
        <3>6. ASSUME NEW n \in PairsOf(s) PROVE HeldPair(n)'
            <4>1. HeldPair(n) /\ n # 0
                BY <3>5 DEF PairsOf
            <4>2. \A u \in Tabs : tab[u] = n => tab'[u] = n
                BY <1>1, <1>3, <4>1
            <4> QED
                BY <1>1, <4>1, <4>2 DEF HeldPair, Live
        <3>7. OwnPair(s)'
            BY <2>2, <3>4 DEF OwnPair
        <3> QED
            BY <1>1, <2>2, <3>4, <3>5, <3>6, <3>7 DEF SessionRight
    <2> QED
        BY <2>3, <2>4
<1> QED
    BY <1>1, <1>4 DEF LogoutInv

\* A logout is sent with the pair of its tab, the one that is not spent.
LEMMA SendLogsOut ==
    ASSUME SurviveInv, LogoutInv, NEW t \in Tabs, NEW c \in Calls, NEW logout \in BOOLEAN, Send(t, c, logout)
    PROVE  LogoutInv'
<1>0. PICK x : x = [state |-> "sent", tab |-> t, logout |-> logout, retried |-> FALSE,
                    access |-> tab[t], body |-> tab[t], on |-> {}]
    OBVIOUS
<1>1. /\ call[c].state = "none" /\ tab[t] # 0 /\ call' = [call EXCEPT ![c] = x]
      /\ overtaken' = overtaken \cup (IF logout /\ FlightsOf(t) # {} THEN {SessionOf(t)} ELSE {})
      /\ UNCHANGED <<issued, session, blacklisted, tab, persisted, flight, tangled, ended, unheard>>
    BY <1>0 DEF Send
<1>2. Typed /\ OneTab /\ Kept
    BY DEF SurviveInv
<1>3. /\ call'[c] = x /\ x.state = "sent" /\ x.body = tab[t] /\ x.logout = logout
      /\ \A d \in Calls : d # c => call'[d] = call[d]
    BY <1>0, <1>1, <1>2 DEF Typed
<1>4. ASSUME NEW s \in Plain' PROVE SessionRight(s)'
    <2>1. s \in 1..issued \ tangled /\ s \notin overtaken /\ SessionRight(s)
        BY <1>1, <1>4 DEF Plain, LogoutInv
    <2>2. /\ FlightsIn(s)' = FlightsIn(s) /\ PairsOf(s)' = PairsOf(s) /\ Answered(s)' = Answered(s)
          /\ \A u \in Tabs : Holds(u, s)' <=> Holds(u, s)
          /\ LogoutsOf(s)' = LogoutsOf(s) \cup (IF logout /\ Holds(t, s) THEN {c} ELSE {})
          /\ Stored(s)' => Stored(s) /\ persisted' = persisted
        BY <1>1, <1>3 DEF LogoutsOf, FlightsIn, PairsOf, Answered, Holds, Stored
    <2>3. CASE ~ (logout /\ Holds(t, s))
        <3>1. LogoutsOf(s)' = LogoutsOf(s)
            BY <2>2, <2>3
        <3>2. \A d \in LogoutsOf(s) : call'[d] = call[d]
            BY <1>1, <1>3 DEF LogoutsOf
        <3> QED
            BY <1>1, <2>1, <2>2, <3>1, <3>2, SessionUntouched
    <2>4. CASE logout /\ Holds(t, s)
        <3>1. FlightsOf(t) = {}
            BY <1>1, <1>4, <2>4 DEF Plain, SessionOf, Holds
        <3>2. \A u \in Tabs : Uses(u, s) => u = t
            BY <1>2, <2>1, <2>4 DEF OneTab, Uses
        <3>3. FlightsIn(s) = {}
            <4>1. ASSUME NEW d \in Calls, Live(flight[d]), session[flight[d].pair] = s PROVE FALSE
                <5>1. flight[d].tab \in Tabs /\ Uses(flight[d].tab, s)
                    BY <1>2, <4>1 DEF Typed, FlightRight, Live, Uses
                <5>2. d \in FlightsOf(t)
                    BY <3>2, <4>1, <5>1 DEF FlightsOf, Live
                <5> QED
                    BY <3>1, <5>2
            <4> QED
                BY <4>1 DEF FlightsIn, Live
        <3>4. Answered(s) = {} /\ s \notin ended
            BY <2>1, <2>4, <3>3 DEF Answered, FlightsIn, SessionRight, Over
        <3>5. \A d \in LogoutsOf(s) : LogoutRight(d, s) /\ call'[d] = call[d]
            BY <1>1, <1>3, <2>1 DEF SessionRight, LogoutsOf
        <3>6. PairsOf(s) \subseteq blacklisted \cup {tab[t]}
            <4>1. CASE LogoutsOf(s) = {}
                <5> SUFFICES ASSUME NEW n \in PairsOf(s), n \notin blacklisted PROVE n = tab[t]
                    OBVIOUS
                <5>1. HeldPair(n)
                    BY <2>1, <2>4, <3>4, <4>1 DEF SessionRight, Unheld
                <5>2. ASSUME NEW u \in Tabs, tab[u] = n PROVE n = tab[t]
                    <6>1. Uses(u, s)
                        BY <1>2, <5>2 DEF Uses, Holds, PairsOf, Typed
                    <6> QED
                        BY <3>2, <5>2, <6>1
                <5>3. ASSUME NEW d \in Calls, Live(flight[d]), flight[d].pair = n PROVE FALSE
                    BY <3>3, <5>3 DEF FlightsIn, PairsOf, Live
                <5>4. ASSUME NEW d \in Calls, flight[d].state = "answered", flight[d].new = n PROVE FALSE
                    BY <1>2, <3>3, <5>4 DEF FlightsIn, PairsOf, Typed, FlightRight, Live
                <5>5. CASE persisted = n
                    <6>1. Stored(s) /\ ~ Loose(s)
                        BY <2>4, <5>5 DEF Stored, PairsOf, Loose, Uses
                    <6> QED
                        BY <1>2, <2>1, <5>2, <5>5, <6>1 DEF Kept
                <5> QED
                    BY <5>1, <5>2, <5>3, <5>4, <5>5 DEF HeldPair
            <4>2. ASSUME NEW d \in LogoutsOf(s) PROVE PairsOf(s) \subseteq blacklisted \cup {tab[t]}
                BY <2>4, <3>5 DEF LogoutRight
            <4> QED
                BY <4>1, <4>2
        <3>7. LogoutRight(c, s)'
            <4>1. call'[c].state = "sent" /\ call'[c].body = tab[t]
                BY <1>3
            <4>2. \A u \in Tabs : Holds(u, s) => tab[u] = tab[t]
                BY <3>2 DEF Uses
            <4> QED
                BY <1>1, <2>2, <3>4, <3>6, <4>1, <4>2 DEF LogoutRight
        <3>8. \A d \in LogoutsOf(s) : LogoutRight(d, s)'
            BY <1>1, <2>2, <3>5 DEF LogoutRight
        <3>9. OwnPair(s)' /\ LogoutsOf(s)' # {}
            BY <2>2, <2>4, <3>3 DEF OwnPair
        <3> QED
            BY <1>1, <2>2, <3>4, <3>7, <3>8, <3>9 DEF SessionRight
    <2> QED
        BY <2>3, <2>4
<1> QED
    BY <1>1, <1>4 DEF LogoutInv

\* A logout that is served spends it.
LEMMA ServeLogsOut ==
    ASSUME SurviveInv, LogoutInv, NEW c \in Calls, Serve(c)
    PROVE  LogoutInv'
<1>1. /\ call[c].state = "sent"
      /\ \/ /\ call' = [call EXCEPT ![c].state = "refused"] /\ blacklisted' = blacklisted
            /\ overtaken' = overtaken \cup (IF call[c].logout THEN {session[call[c].body]} ELSE {})
         \/ /\ call' = [call EXCEPT ![c].state = "served"] /\ blacklisted' = blacklisted \cup SpentBy(c)
            /\ overtaken' = overtaken
      /\ UNCHANGED <<issued, session, tab, persisted, flight, tangled, ended, unheard>>
    BY DEF Serve
<1>2. Typed
    BY DEF SurviveInv
<1>3. DOMAIN call[c] = {"state", "tab", "logout", "retried", "access", "body", "on"}
    BY <1>1, <1>2 DEF Typed, CallRight, Live
<1>4. /\ call'[c].body = call[c].body /\ call'[c].logout = call[c].logout
      /\ call'[c].state \in {"refused", "served"}
      /\ \A d \in Calls : d # c => call'[d] = call[d]
      /\ blacklisted \subseteq blacklisted' /\ overtaken \subseteq overtaken'
      /\ call[c].logout => \/ session[call[c].body] \in overtaken'
                           \/ call'[c].state = "served" /\ call[c].body \in blacklisted'
    BY <1>1, <1>2, <1>3 DEF Typed, SpentBy
<1>5. ASSUME NEW s \in Plain' PROVE SessionRight(s)'
    <2>1. s \in 1..issued \ tangled /\ s \notin overtaken' /\ SessionRight(s)
        BY <1>1, <1>4, <1>5 DEF Plain, LogoutInv
    <2>2. /\ FlightsIn(s)' = FlightsIn(s) /\ PairsOf(s)' = PairsOf(s) /\ Answered(s)' = Answered(s)
          /\ \A u \in Tabs : Holds(u, s)' <=> Holds(u, s)
          /\ LogoutsOf(s)' = LogoutsOf(s)
          /\ Stored(s)' => Stored(s) /\ persisted' = persisted
        BY <1>1, <1>4 DEF LogoutsOf, FlightsIn, PairsOf, Answered, Holds, Stored
    <2>3. CASE c \notin LogoutsOf(s)
        <3>1. \A d \in LogoutsOf(s) : call'[d] = call[d]
            BY <1>4, <2>3 DEF LogoutsOf
        <3> QED
            BY <1>1, <1>4, <2>1, <2>2, <3>1, SessionUntouched
    <2>4. CASE c \in LogoutsOf(s)
        <3>1. call'[c].state = "served" /\ call[c].body \in blacklisted'
            BY <1>4, <2>1, <2>4 DEF LogoutsOf
        <3>2. ASSUME NEW d \in LogoutsOf(s) PROVE LogoutRight(d, s)'
            <4>1. LogoutRight(d, s) /\ d \in Calls
                BY <2>1 DEF SessionRight, LogoutsOf
            <4>2. call'[d].body = call[d].body
                BY <1>4, <4>1
            <4>3. call'[d].state \in {"sent", "served"} /\ (call'[d].state = "served" => call'[d].body \in blacklisted')
                BY <1>4, <3>1, <4>1, <4>2 DEF LogoutRight
            <4> QED
                BY <1>1, <1>4, <2>2, <4>1, <4>2, <4>3 DEF LogoutRight
        <3>3. OwnPair(s)'
            BY <1>1, <2>1, <2>2 DEF SessionRight, OwnPair, Holds
        <3>4. s \in ended' => Over(s)'
            BY <1>1, <1>4, <2>1, <2>2 DEF SessionRight, Over
        <3> QED
            BY <2>2, <2>4, <3>2, <3>3, <3>4 DEF SessionRight
    <2> QED
        BY <2>3, <2>4
<1> QED
    BY <1>1, <1>5 DEF LogoutInv

\* A logout that ends leaves every pair of its session spent and no tab with one.
LEMMA SettleLogsOut ==
    ASSUME SurviveInv, LogoutInv, NEW c \in Calls, Settle(c)
    PROVE  LogoutInv'
<1>1. /\ call[c].state \in {"sent", "served", "refused"} /\ call' = [call EXCEPT ![c] = Free]
      /\ IF call[c].logout
         THEN /\ tab' = [tab EXCEPT ![call[c].tab] = 0] /\ persisted' = 0
              /\ ended' = ended \cup {session[call[c].body]}
              /\ unheard' = unheard \cup (IF call[c].state # "served" THEN {session[call[c].body]} ELSE {})
              /\ overtaken' = overtaken
                   \cup (IF call[c].state # "served" /\ FlightsIn(session[call[c].body]) # {}
                         THEN {session[call[c].body]} ELSE {})
         ELSE tab' = tab /\ persisted' = persisted /\ UNCHANGED <<ended, unheard, overtaken>>
      /\ UNCHANGED <<issued, session, blacklisted, flight, tangled>>
    BY DEF Settle
<1>2. Typed /\ OneTab
    BY DEF SurviveInv
<1>3. call[c].tab \in Tabs /\ call[c].body \in 1..issued /\ session[call[c].body] \in 1..issued
    BY <1>1, <1>2 DEF Typed, CallRight, Live
<1>4. call'[c].state = "none" /\ \A d \in Calls : d # c => call'[d] = call[d]
    BY <1>1, <1>2, FreeIs DEF Typed
<1>5. \A u \in Tabs : tab'[u] = IF call[c].logout /\ u = call[c].tab THEN 0 ELSE tab[u]
    BY <1>1, <1>2 DEF Typed
<1>6. ASSUME NEW s \in Plain' PROVE SessionRight(s)'
    <2>0. overtaken \subseteq overtaken' /\ s \notin overtaken'
        BY <1>1, <1>6 DEF Plain
    <2>1. s \in 1..issued \ tangled /\ SessionRight(s)
        BY <1>1, <1>6, <2>0 DEF Plain, LogoutInv
    <2>2. /\ FlightsIn(s)' = FlightsIn(s) /\ PairsOf(s)' = PairsOf(s) /\ Answered(s)' = Answered(s)
          /\ LogoutsOf(s)' = LogoutsOf(s) \ {c}
          /\ \A u \in Tabs : Holds(u, s)' <=> Holds(u, s) /\ ~ (call[c].logout /\ u = call[c].tab)
          /\ Stored(s)' => Stored(s) /\ persisted' = persisted /\ ~ call[c].logout
        BY <1>1, <1>4, <1>5 DEF LogoutsOf, FlightsIn, PairsOf, Answered, Holds, Stored
    <2>3. \A d \in LogoutsOf(s) \ {c} : LogoutRight(d, s) /\ call'[d] = call[d]
        BY <1>4, <2>1 DEF SessionRight, LogoutsOf
    <2>4. CASE c \in LogoutsOf(s)
        <3>1. call[c].logout /\ session[call[c].body] = s /\ LogoutRight(c, s)
            BY <2>1, <2>4 DEF LogoutsOf, SessionRight
        <3>2. Answered(s) = {} /\ s \in ended' /\ ~ Stored(s)'
            BY <1>1, <2>2, <3>1 DEF LogoutRight
        <3>3. s \notin unheard' => PairsOf(s) \subseteq blacklisted
            BY <1>1, <3>1 DEF LogoutRight
        <3>4. s \in unheard' => FlightsIn(s) = {}
            <4>1. CASE call[c].state = "served"
                BY <1>1, <2>1, <3>1, <4>1 DEF LogoutInv, SessionRight, Over
            <4>2. CASE call[c].state # "served"
                BY <1>1, <2>0, <3>1, <4>2
            <4> QED
                BY <4>1, <4>2
        <3>5. \A u \in Tabs : ~ Holds(u, s)'
            <4>1. Uses(call[c].tab, s)
                BY <1>1, <3>1 DEF Uses, Live
            <4>2. \A u \in Tabs : Holds(u, s) => u = call[c].tab
                BY <1>2, <1>3, <2>1, <4>1 DEF OneTab, Uses
            <4> QED
                BY <2>2, <3>1, <4>2
        <3>6. \A d \in LogoutsOf(s)' : LogoutRight(d, s)'
            BY <1>1, <2>2, <2>3, <3>5 DEF LogoutRight
        <3>7. OwnPair(s)'
            <4>1. \A d \in FlightsIn(s) : flight[d].tab \in Tabs
                BY <1>2 DEF FlightsIn, Typed, FlightRight, Live
            <4>2. \A d \in FlightsIn(s) : ~ Holds(flight[d].tab, s)'
                BY <1>1, <3>5, <4>1 DEF Holds
            <4> QED
                BY <1>1, <2>2, <4>2 DEF OwnPair
        <3>8. Over(s)'
            BY <1>1, <2>2, <3>2, <3>5, <3>3, <3>4 DEF Over
        <3> QED
            BY <3>2, <3>6, <3>7, <3>8 DEF SessionRight
    <2>5. CASE c \notin LogoutsOf(s)
        <3>1. LogoutsOf(s)' = LogoutsOf(s) /\ (s \in ended' <=> s \in ended) /\ (s \in unheard' <=> s \in unheard)
            BY <1>1, <1>4, <2>2, <2>5 DEF LogoutsOf
        <3>2. CASE ~ (call[c].logout /\ Holds(call[c].tab, s))
            <4>1. \A u \in Tabs : Holds(u, s) \/ Holds(u, s)' => Holds(u, s) /\ Holds(u, s)' /\ tab'[u] = tab[u]
                BY <1>5, <2>2, <3>2
            <4>2. \A d \in LogoutsOf(s) : call'[d] = call[d]
                BY <2>3, <2>5
            <4> QED
                BY <1>1, <2>1, <2>2, <3>1, <4>1, <4>2, SessionUntouched
        <3>3. CASE call[c].logout /\ Holds(call[c].tab, s)
            <4>0. PICK t \in Tabs : t = call[c].tab
                BY <1>3
            <4>1. \A u \in Tabs : Uses(u, s) => u = t
                BY <1>2, <2>1, <3>3, <4>0 DEF OneTab, Uses
            <4>2. \A u \in Tabs : ~ Holds(u, s)'
                BY <2>2, <3>3, <4>0, <4>1 DEF Uses
            <4>3. \A d \in LogoutsOf(s)' : LogoutRight(d, s)'
                BY <1>1, <2>2, <2>3, <4>2 DEF LogoutRight
            <4>4. \A d \in FlightsIn(s) : flight[d].tab = t
                <5>1. ASSUME NEW d \in FlightsIn(s) PROVE flight[d].tab \in Tabs /\ Uses(flight[d].tab, s)
                    BY <1>2 DEF FlightsIn, Typed, FlightRight, Live, Uses
                <5> QED
                    BY <4>1, <5>1
            <4>5. OwnPair(s)'
                <5>1. \A d \in FlightsIn(s) : ~ Holds(flight[d].tab, s)'
                    BY <1>1, <4>2, <4>4 DEF Holds
                <5> QED
                    BY <1>1, <2>2, <5>1 DEF OwnPair
            <4>6. s \notin ended'
                BY <2>1, <3>1, <3>3, <4>0 DEF SessionRight, Over
            <4>7. LogoutsOf(s)' = {} => Unheld(s)' \/ \A n \in PairsOf(s)' : HeldPair(n)'
                <5>1. CASE FlightsIn(s) = {}
                    BY <2>2, <3>3, <4>2, <5>1 DEF Unheld
                <5>2. ASSUME NEW d \in FlightsIn(s), LogoutsOf(s) = {}, NEW n \in PairsOf(s) PROVE HeldPair(n)'
                    <6>1. HeldPair(n)
                        BY <2>1, <3>1, <4>6, <5>2 DEF SessionRight, Unheld
                    <6>2. d \in Calls /\ Live(flight[d]) /\ tab[t] = flight[d].pair
                        BY <2>1, <3>3, <4>0, <4>4 DEF SessionRight, OwnPair, FlightsIn, Live
                    <6>3. ASSUME NEW u \in Tabs, tab[u] = n PROVE HeldPair(n)'
                        <7>1. u = t
                            BY <1>2, <4>1, <5>2, <6>3 DEF Uses, Holds, PairsOf, Typed
                        <7> QED
                            BY <1>1, <6>2, <6>3, <7>1 DEF HeldPair, Live
                    <6>4. CASE persisted = n
                        <7>1. Stored(s) /\ ~ Loose(s)
                            BY <3>3, <4>0, <5>2, <6>4 DEF Stored, PairsOf, Loose, Uses
                        <7>2. \E u \in Tabs : tab[u] = n
                            BY <2>1, <6>4, <7>1 DEF SurviveInv, Kept
                        <7> QED
                            BY <6>3, <7>2
                    <6> QED
                        BY <1>1, <6>1, <6>3, <6>4 DEF HeldPair, Live
                <5> QED
                    BY <2>2, <3>1, <5>1, <5>2
            <4> QED
                BY <4>3, <4>5, <4>6, <4>7 DEF SessionRight
        <3> QED
            BY <3>2, <3>3
    <2> QED
        BY <2>4, <2>5
<1>7. unheard' \subseteq ended' /\ ended' \subseteq 1..issued
    BY <1>1, <1>3 DEF LogoutInv
<1> QED
    BY <1>1, <1>6, <1>7 DEF LogoutInv

\* A tab that leaves its page drops everything it had; the store is cleared, or stays.
LEMMA LeaveLogsOut ==
    ASSUME SurviveInv, LogoutInv, NEW t \in Tabs, LeavePage(t), persisted' \in {0, persisted},
           UNCHANGED <<issued, session, blacklisted, ended, overtaken, unheard>>
    PROVE  LogoutInv'
<1>1. Typed /\ OneTab /\ Kept
    BY DEF SurviveInv
<1>2. /\ \A u \in Tabs : tab'[u] = (IF u = t THEN 0 ELSE tab[u])
      /\ \A d \in Calls : call'[d] = (IF d \in CallsOf(t) THEN Free ELSE call[d])
      /\ \A d \in Calls : flight'[d] = (IF d \in FlightsOf(t) THEN Free ELSE flight[d])
    BY <1>1 DEF LeavePage, Typed
<1>3. ASSUME NEW d \in Calls
      PROVE  /\ Live(call'[d]) => Live(call[d]) /\ call'[d] = call[d] /\ call[d].tab # t
             /\ Live(call[d]) /\ call[d].tab # t => call'[d] = call[d]
             /\ Live(flight'[d]) => Live(flight[d]) /\ flight'[d] = flight[d] /\ flight[d].tab # t
             /\ Live(flight[d]) /\ flight[d].tab # t => flight'[d] = flight[d]
    BY <1>2, FreeIs DEF CallsOf, FlightsOf, Live
<1>4. ASSUME NEW s \in Plain' PROVE SessionRight(s)'
    <2>1. s \in 1..issued \ tangled /\ SessionRight(s) /\ PairsOf(s)' = PairsOf(s)
        BY <1>4, LeftBehind DEF Plain, LogoutInv, PairsOf
    <2>2. /\ \A d \in FlightsIn(s) : d \in Calls /\ Live(flight[d]) /\ flight[d].tab # t
          /\ \A d \in LogoutsOf(s) : d \in Calls /\ Live(call[d]) /\ call[d].tab # t
        BY <1>4, LeftBehind DEF Plain, FlightsIn, LogoutsOf, Live
    <2>3. FlightsIn(s)' = FlightsIn(s) /\ \A d \in FlightsIn(s) : flight'[d] = flight[d]
        BY <1>3, <2>2 DEF FlightsIn, Live
    <2>4. LogoutsOf(s)' = LogoutsOf(s) /\ \A d \in LogoutsOf(s) : call'[d] = call[d]
        BY <1>3, <2>2 DEF LogoutsOf, Live
    <2>5. Stored(s)' => Stored(s) /\ persisted' = persisted
        BY DEF Stored
    <2>6. CASE Uses(t, s)
        <3>1. \A u \in Tabs : Uses(u, s) => u = t
            BY <1>1, <2>1, <2>6 DEF OneTab
        <3>2. \A u \in Tabs : ~ Holds(u, s)'
            BY <1>2, <3>1 DEF Uses, Holds
        <3>3. FlightsIn(s) = {}
            <4>1. ASSUME NEW d \in FlightsIn(s) PROVE FALSE
                <5>1. flight[d].tab \in Tabs /\ Uses(flight[d].tab, s)
                    BY <1>1, <2>2 DEF FlightsIn, Typed, FlightRight, Uses
                <5> QED
                    BY <2>2, <3>1, <5>1
            <4> QED
                BY <4>1
        <3>4. LogoutsOf(s) = {}
            <4>1. ASSUME NEW d \in LogoutsOf(s) PROVE FALSE
                <5>1. call[d].tab \in Tabs /\ Uses(call[d].tab, s)
                    BY <1>1, <2>2 DEF LogoutsOf, Typed, CallRight, Uses
                <5> QED
                    BY <2>2, <3>1, <5>1
            <4> QED
                BY <4>1
        <3>5. Answered(s)' = {} /\ OwnPair(s)'
            BY <2>3, <3>3 DEF Answered, OwnPair, FlightsIn
        <3>6. s \in ended => Over(s)'
            BY <2>1, <2>3, <2>5, <3>2, <3>3, <3>5 DEF SessionRight, Over
        <3>7. ASSUME s \notin ended PROVE Unheld(s)' \/ \A n \in PairsOf(s)' : HeldPair(n)'
            <4>1. CASE ~ Stored(s)'
                BY <2>3, <3>2, <3>3, <4>1 DEF Unheld
            <4>2. ASSUME Stored(s)', NEW n \in PairsOf(s) PROVE HeldPair(n)'
                <5>1. Stored(s) /\ persisted' = persisted
                    BY <2>5, <4>2
                <5>2. HeldPair(n)
                    BY <2>1, <3>4, <3>7, <4>2, <5>1 DEF SessionRight, Unheld
                <5>3. tab[t] = persisted
                    <6>1. \A u \in Tabs : tab[u] = persisted => Uses(u, s)
                        BY <5>1 DEF Stored, Uses, Holds
                    <6> QED
                        BY <1>1, <2>1, <2>6, <3>1, <5>1, <6>1 DEF Kept, Loose
                <5>4. ASSUME NEW u \in Tabs, tab[u] = n PROVE n = persisted
                    <6>1. Uses(u, s)
                        BY <1>1, <4>2, <5>4 DEF Uses, Holds, PairsOf, Typed
                    <6> QED
                        BY <3>1, <5>3, <5>4, <6>1
                <5>5. ASSUME NEW d \in Calls, Live(flight[d]), flight[d].pair = n PROVE FALSE
                    BY <3>3, <4>2, <5>5 DEF FlightsIn, PairsOf, Live
                <5>6. ASSUME NEW d \in Calls, flight[d].state = "answered", flight[d].new = n PROVE FALSE
                    BY <1>1, <3>3, <4>2, <5>6 DEF FlightsIn, PairsOf, Typed, FlightRight, Live
                <5> QED
                    BY <5>1, <5>2, <5>4, <5>5, <5>6 DEF HeldPair
            <4> QED
                BY <2>1, <4>1, <4>2
        <3> QED
            BY <2>4, <3>4, <3>5, <3>6, <3>7 DEF SessionRight
    <2>7. CASE ~ Uses(t, s)
        <3>1. \A u \in Tabs : Holds(u, s) \/ Holds(u, s)' => Holds(u, s) /\ Holds(u, s)' /\ tab'[u] = tab[u]
            BY <1>2, <2>7 DEF Holds, Uses
        <3> QED
            BY <2>1, <2>3, <2>4, <2>5, <3>1, SessionUntouched
    <2> QED
        BY <2>6, <2>7
<1> QED
    BY <1>4 DEF LogoutInv

\* A refresh is for the pair of its tab.
LEMMA RefreshLogsOut ==
    ASSUME SurviveInv, LogoutInv, NEW c \in Calls, Refresh(c)
    PROVE  LogoutInv'
<1>1. call[c].state = "refused" /\ UNCHANGED <<issued, session, blacklisted, ended, overtaken, unheard>>
    BY DEF Refresh
<1>2. Typed /\ OneFlight /\ OneTab
    BY DEF SurviveInv
<1>3. PICK t \in Tabs : t = call[c].tab
    BY <1>1, <1>2 DEF Typed, CallRight, Live
<1>4. CASE promise[t] = {} /\ tab[t] = 0
    <2>1. ClearAndLeave(t)
        BY <1>3, <1>4 DEF Refresh, Joined
    <2> QED
        BY <1>1, <2>1, LeaveLogsOut DEF ClearAndLeave
<1>5. CASE promise[t] # {} \/ tab[t] # 0
    <2>1. /\ DOMAIN call[c] = {"state", "tab", "logout", "retried", "access", "body", "on"}
          /\ ~ Live(flight[c])
        BY <1>1, <1>2 DEF Typed, CallRight, OneFlight, Live
    <2>2. /\ call'[c].state = "waiting" /\ call'[c].body = call[c].body /\ call'[c].logout = call[c].logout
          /\ \A d \in Calls : d # c => call'[d] = call[d]
          /\ UNCHANGED <<tab, persisted, tangled>>
        BY <1>2, <1>3, <1>5, <2>1 DEF Refresh, Joined, Typed
    <2>3. \/ flight' = flight
          \/ /\ tab[t] # 0
             /\ flight' = [flight EXCEPT ![c] = [state |-> "sent", tab |-> t, pair |-> tab[t], new |-> 0]]
        BY <1>3, <1>5 DEF Refresh, Joined
    <2>4. ASSUME NEW s \in Plain' PROVE SessionRight(s)'
        <3>1. s \in 1..issued \ tangled /\ SessionRight(s) /\ PairsOf(s)' = PairsOf(s)
            BY <1>1, <2>2, <2>4 DEF Plain, LogoutInv, PairsOf
        <3>2. /\ LogoutsOf(s)' = LogoutsOf(s) /\ \A u \in Tabs : Holds(u, s)' <=> Holds(u, s)
              /\ Stored(s)' => Stored(s) /\ persisted' = persisted
            BY <1>1, <2>2 DEF LogoutsOf, Holds, Stored
        <3>3. \A d \in LogoutsOf(s) : d \in Calls /\ LogoutRight(d, s) /\ call'[d] = call[d]
            BY <1>1, <2>2, <3>1 DEF SessionRight, LogoutsOf, LogoutRight
        <3>4. CASE flight' = flight
            <4>1. FlightsIn(s)' = FlightsIn(s)
                BY <1>1, <3>4 DEF FlightsIn
            <4> QED
                BY <1>1, <2>2, <3>1, <3>2, <3>3, <3>4, <4>1, SessionUntouched
        <3>5. CASE /\ tab[t] # 0
                   /\ flight' = [flight EXCEPT ![c] = [state |-> "sent", tab |-> t, pair |-> tab[t], new |-> 0]]
            <4>1. /\ flight'[c].state = "sent" /\ flight'[c].tab = t /\ flight'[c].pair = tab[t]
                  /\ \A d \in Calls : d # c => flight'[d] = flight[d]
                BY <1>2, <3>5 DEF Typed
            <4>2. FlightsIn(s)' = FlightsIn(s) \cup (IF Holds(t, s) THEN {c} ELSE {})
                BY <1>1, <2>1, <3>5, <4>1 DEF FlightsIn, Holds, Live
            <4>3. \A d \in FlightsIn(s) : d \in Calls /\ d # c /\ flight'[d] = flight[d]
                BY <2>1, <4>1 DEF FlightsIn, Live
            <4>4. CASE ~ Holds(t, s)
                BY <1>1, <2>2, <3>1, <3>2, <3>3, <4>2, <4>3, <4>4, SessionUntouched
            <4>5. CASE Holds(t, s)
                <5>1. OwnPair(s)'
                    <6> SUFFICES ASSUME NEW d \in FlightsIn(s)', Holds(flight[d].tab, s)'
                                 PROVE  tab'[flight'[d].tab] = flight'[d].pair
                        BY DEF OwnPair
                    <6>1. CASE d = c
                        BY <2>2, <4>1, <6>1
                    <6>2. CASE d # c
                        <7>1. d \in FlightsIn(s) /\ flight'[d] = flight[d]
                            BY <4>2, <4>3, <6>2
                        <7>2. Holds(flight[d].tab, s)
                            BY <1>1, <2>2, <7>1 DEF Holds
                        <7> QED
                            BY <2>2, <3>1, <7>1, <7>2 DEF SessionRight, OwnPair
                    <6> QED
                        BY <6>1, <6>2
                <5>2. Answered(s)' = Answered(s)
                    BY <1>1, <2>1, <4>1 DEF Answered, Live
                <5>3. \A d \in LogoutsOf(s)' : LogoutRight(d, s)'
                    BY <1>1, <2>2, <3>1, <3>2, <3>3, <5>2 DEF LogoutRight
                <5>4. s \notin ended
                    BY <3>1, <4>5 DEF SessionRight, Over
                <5>5. ASSUME NEW n \in PairsOf(s), HeldPair(n) PROVE HeldPair(n)'
                    BY <1>1, <2>1, <2>2, <4>1, <5>5 DEF HeldPair, Live
                <5>6. LogoutsOf(s)' = {} => \A n \in PairsOf(s)' : HeldPair(n)'
                    BY <3>1, <3>2, <4>5, <5>4, <5>5 DEF SessionRight, Unheld
                <5> QED
                    BY <1>1, <5>1, <5>3, <5>4, <5>6 DEF SessionRight
            <4> QED
                BY <4>4, <4>5
        <3> QED
            BY <2>3, <3>4, <3>5
    <2> QED
        BY <1>1, <2>4 DEF LogoutInv
<1> QED
    BY <1>4, <1>5

\* A refresh that is served adds the pair its answer brings.
LEMMA ServeRefreshLogsOut ==
    ASSUME SurviveInv, LogoutInv, NEW c \in Calls, ServeRefresh(c)
    PROVE  LogoutInv'
<1>1. /\ flight[c].state = "sent" /\ issued < MaxPairs
      /\ flight[c].pair \notin blacklisted /\ issued' = issued + 1
      /\ session' = [session EXCEPT ![issued + 1] = session[flight[c].pair]]
      /\ blacklisted' = blacklisted \cup {flight[c].pair}
      /\ flight' = [flight EXCEPT ![c].state = "answered", ![c].new = issued + 1]
      /\ overtaken' = overtaken \cup (IF LogoutsOf(session[flight[c].pair]) # {}
                                      THEN {session[flight[c].pair]} ELSE {})
      /\ UNCHANGED <<tab, persisted, call, tangled, ended, unheard>>
    BY DEF ServeRefresh
<1>2. Typed /\ OneTab /\ Kept /\ issued \in Nat
    BY DEF SurviveInv, Typed
<1>3. /\ DOMAIN flight[c] = {"state", "tab", "pair", "new"}
      /\ flight[c].pair \in 1..issued /\ flight[c].tab \in Tabs
    BY <1>1, <1>2 DEF Typed, FlightRight, Live
<1>4. PICK new : new = issued + 1
    OBVIOUS
<1>5. PICK pair \in 1..issued : pair = flight[c].pair
    BY <1>3
<1>6. /\ session'[new] = session[pair]
      /\ \A n \in 1..issued : session'[n] = session[n] /\ session[n] \in 1..issued
    BY <1>1, <1>2, <1>4, <1>5, SessionAssumption DEF Typed
<1>7. /\ flight'[c].state = "answered" /\ flight'[c].new = new
      /\ flight'[c].pair = pair /\ flight'[c].tab = flight[c].tab
      /\ \A d \in Calls : d # c => flight'[d] = flight[d]
    BY <1>1, <1>2, <1>3, <1>4, <1>5 DEF Typed
<1>8. \A d \in Calls : /\ Live(call[d]) => call[d].body \in 1..issued
                       /\ Live(flight[d]) => flight[d].pair \in 1..issued
                       /\ Live(flight'[d]) <=> Live(flight[d])
                       /\ flight'[d].tab = flight[d].tab /\ flight'[d].pair = flight[d].pair
    BY <1>1, <1>2, <1>5, <1>7 DEF Typed, CallRight, FlightRight, Live
<1>9. \A u \in Tabs : tab[u] \in 0..issued
    BY <1>2 DEF Typed
<1>10. ASSUME NEW s
       PROVE  /\ LogoutsOf(s)' = LogoutsOf(s) /\ FlightsIn(s)' = FlightsIn(s)
              /\ \A u \in Tabs : Holds(u, s)' <=> Holds(u, s)
              /\ Stored(s)' => Stored(s) /\ persisted' = persisted
    <2>1. ASSUME NEW d \in Calls PROVE d \in LogoutsOf(s)' <=> d \in LogoutsOf(s)
        <3>1. call'[d] = call[d]
            BY <1>1
        <3>2. Live(call[d]) => session'[call[d].body] = session[call[d].body]
            BY <1>6, <1>8
        <3> QED
            BY <3>1, <3>2 DEF LogoutsOf, Live
    <2>2. ASSUME NEW d \in Calls PROVE d \in FlightsIn(s)' <=> d \in FlightsIn(s)
        <3>1. Live(flight[d]) => session'[flight[d].pair] = session[flight[d].pair]
            BY <1>6, <1>8
        <3> QED
            BY <1>8, <3>1 DEF FlightsIn, Live
    <2>3. LogoutsOf(s) \subseteq Calls /\ LogoutsOf(s)' \subseteq Calls /\ FlightsIn(s) \subseteq Calls /\ FlightsIn(s)' \subseteq Calls
        BY DEF LogoutsOf, FlightsIn
    <2>4. LogoutsOf(s)' = LogoutsOf(s)
        BY <2>1, <2>3
    <2>5. FlightsIn(s)' = FlightsIn(s)
        BY <2>2, <2>3
    <2>6. \A u \in Tabs : Holds(u, s)' <=> Holds(u, s)
        BY <1>1, <1>2, <1>6, <1>9 DEF Holds
    <2>7. Stored(s)' => Stored(s) /\ persisted' = persisted
        BY <1>1, <1>2, <1>6 DEF Stored, Kept
    <2> QED
        BY <2>4, <2>5, <2>6, <2>7
<1>11. ASSUME NEW s \in 1..issued, s \in Plain' PROVE SessionRight(s)'
    <2>1. SessionRight(s) /\ s \in 1..issued \ tangled /\ s \notin overtaken'
        BY <1>1, <1>11 DEF Plain, LogoutInv
    <2>2. PairsOf(s)' = PairsOf(s) \cup (IF s = session[pair] THEN {new} ELSE {})
        BY <1>1, <1>2, <1>4, <1>6 DEF PairsOf
    <2>3. CASE s # session[pair]
        <3>1. \A d \in FlightsIn(s) : flight'[d] = flight[d]
            BY <1>5, <1>7, <2>3 DEF FlightsIn
        <3> QED
            BY <1>1, <1>10, <2>1, <2>2, <2>3, <3>1, SessionUntouched
    <2>4. CASE s = session[pair]
        <3>1. LogoutsOf(s) = {}
            BY <1>1, <1>5, <2>1, <2>4
        <3>2. c \in FlightsIn(s) /\ pair \in PairsOf(s) /\ pair \notin blacklisted
            BY <1>1, <1>5, <2>4 DEF FlightsIn, PairsOf
        <3>3. s \notin ended /\ \A n \in PairsOf(s) : HeldPair(n)
            BY <2>1, <3>1, <3>2 DEF SessionRight, Over, Unheld
        <3>4. ASSUME NEW n, HeldPair(n) PROVE HeldPair(n)'
            <4>1. ASSUME NEW d \in Calls, flight[d].state = "answered", flight[d].new = n PROVE HeldPair(n)'
                <5>1. flight'[d] = flight[d]
                    BY <1>1, <1>7, <4>1
                <5> QED
                    BY <4>1, <5>1 DEF HeldPair
            <4>2. ASSUME NEW d \in Calls, Live(flight[d]), flight[d].pair = n PROVE HeldPair(n)'
                BY <1>8, <4>2 DEF HeldPair
            <4>3. n \in blacklisted \/ persisted = n \/ (\E u \in Tabs : tab[u] = n) => HeldPair(n)'
                BY <1>1 DEF HeldPair
            <4> QED
                BY <3>4, <4>1, <4>2, <4>3 DEF HeldPair
        <3>5. HeldPair(new)'
            BY <1>7 DEF HeldPair
        <3>6. \A n \in PairsOf(s)' : HeldPair(n)'
            BY <2>2, <2>4, <3>3, <3>4, <3>5
        <3>7. OwnPair(s)'
            <4> SUFFICES ASSUME NEW d \in FlightsIn(s)', Holds(flight[d].tab, s)'
                         PROVE  tab'[flight'[d].tab] = flight'[d].pair
                BY DEF OwnPair
            <4>0. FlightsIn(s)' = FlightsIn(s)
                BY <1>10
            <4>1. d \in FlightsIn(s)
                BY <4>0
            <4>6. d \in Calls /\ Live(flight[d])
                BY <4>1 DEF FlightsIn, Live
            <4>7. flight[d].tab \in Tabs
                BY <1>2, <4>6 DEF Typed, FlightRight
            <4>2. flight'[d].tab = flight[d].tab /\ flight'[d].pair = flight[d].pair
                BY <1>8, <4>6
            <4>3. PICK u \in Tabs : u = flight[d].tab
                BY <4>7
            <4>4. Holds(u, s)'
                BY <4>2, <4>3 DEF Holds
            <4>5. Holds(u, s)
                BY <1>10, <4>4
            <4> QED
                BY <1>1, <2>1, <4>1, <4>2, <4>3, <4>5 DEF SessionRight, OwnPair
        <3> QED
            BY <1>1, <1>10, <3>1, <3>3, <3>6, <3>7 DEF SessionRight
    <2> QED
        BY <2>3, <2>4
<1>12. SessionRight(new)'
    <2>1. new \notin 1..issued
        BY <1>2, <1>4
    <2>2. LogoutsOf(new)' = {} /\ FlightsIn(new)' = {}
        <3>1. ASSUME NEW d \in Calls, Live(call[d]) PROVE session'[call'[d].body] # new
            BY <1>1, <1>6, <1>8, <2>1, <3>1
        <3>2. ASSUME NEW d \in Calls, Live(flight'[d]) PROVE session'[flight'[d].pair] # new
            BY <1>6, <1>8, <2>1, <3>2
        <3>3. LogoutsOf(new)' = {}
            BY <1>1, <3>1 DEF LogoutsOf, Live
        <3>4. FlightsIn(new)' = {}
            BY <3>2 DEF FlightsIn, Live
        <3> QED
            BY <3>3, <3>4
    <2>3. PairsOf(new)' = {}
        BY <1>1, <1>2, <1>4, <1>6, <2>1 DEF PairsOf
    <2>4. new \notin ended' /\ OwnPair(new)'
        BY <1>1, <2>1, <2>2 DEF LogoutInv, OwnPair
    <2> QED
        BY <2>2, <2>3, <2>4 DEF SessionRight
<1>13. \A s \in Plain' : s \in 1..issued \/ s = new
    BY <1>1, <1>2, <1>4 DEF Plain
<1>14. unheard' \subseteq ended' /\ ended' \subseteq 1..issued'
    BY <1>1, <1>2 DEF LogoutInv
<1> QED
    BY <1>11, <1>12, <1>13, <1>14 DEF LogoutInv

\* The answer of a refresh is stored by the tab that waited.
LEMMA ReceiveLogsOut ==
    ASSUME SurviveInv, LogoutInv, NEW c \in Calls, ReceiveRefresh(c)
    PROVE  LogoutInv'
<1>1. PICK t, n, p : t = flight[c].tab /\ n = flight[c].new /\ p = flight[c].pair
    OBVIOUS
<1>2. /\ flight[c].state = "answered" /\ tab' = [tab EXCEPT ![t] = n] /\ persisted' = n
      /\ flight' = [flight EXCEPT ![c] = Free]
      /\ call' = [d \in Calls |-> IF call[d].state = "waiting" /\ c \in call[d].on
                                  THEN [call[d] EXCEPT !.state = "sent", !.access = n, !.on = {}]
                                  ELSE call[d]]
      /\ UNCHANGED <<issued, session, blacklisted, tangled, ended, overtaken, unheard>>
    BY <1>1 DEF ReceiveRefresh
<1>3. Typed /\ OneFlight /\ OneTab /\ Kept
    BY DEF SurviveInv
<1>4. /\ t \in Tabs /\ n \in 1..issued /\ p \in 1..issued /\ p \in blacklisted /\ session[n] = session[p]
    BY <1>1, <1>2, <1>3 DEF Typed, FlightRight, Live
<1>5. /\ \A u \in Tabs : tab'[u] = IF u = t THEN n ELSE tab[u]
      /\ flight'[c].state = "none" /\ \A d \in Calls : d # c => flight'[d] = flight[d]
    BY <1>2, <1>3, <1>4, FreeIs DEF Typed
<1>6. ASSUME NEW d \in Calls
      PROVE  /\ Live(call'[d]) <=> Live(call[d])
             /\ Live(call[d]) => call'[d].body = call[d].body /\ call'[d].logout = call[d].logout
             /\ call[d].state # "waiting" => call'[d] = call[d]
    <2>1. CASE call[d].state = "waiting" /\ c \in call[d].on
        <3>1. call'[d] = [call[d] EXCEPT !.state = "sent", !.access = n, !.on = {}]
            BY <1>2, <2>1
        <3>2. DOMAIN call[d] = {"state", "tab", "logout", "retried", "access", "body", "on"}
            BY <1>3, <2>1 DEF Typed, CallRight, Live
        <3> QED
            BY <2>1, <3>1, <3>2 DEF Live
    <2>2. CASE ~ (call[d].state = "waiting" /\ c \in call[d].on)
        <3>1. call'[d] = call[d]
            BY <1>2, <2>2
        <3> QED
            BY <3>1
    <2> QED
        BY <2>1, <2>2
<1>7. \A d \in Calls : Live(flight[d]) /\ flight[d].tab = t => d = c
    <2>1. c \in FlightsOf(t)
        BY <1>1, <1>2 DEF FlightsOf
    <2> QED
        BY <1>3, <1>4, <2>1 DEF OneFlight, FlightsOf, Live
<1>8. ASSUME NEW s \in Plain' PROVE SessionRight(s)'
    <2>1. s \in 1..issued \ tangled /\ SessionRight(s) /\ PairsOf(s)' = PairsOf(s)
        BY <1>2, <1>8 DEF Plain, LogoutInv, PairsOf
    <2>2. LogoutsOf(s)' = LogoutsOf(s)
        BY <1>2, <1>6 DEF LogoutsOf, Live
    <2>3. FlightsIn(s)' = FlightsIn(s) \ {c}
        BY <1>2, <1>5 DEF FlightsIn
    <2>4. \A u \in Tabs : u # t => (Holds(u, s)' <=> Holds(u, s))
        BY <1>2, <1>5 DEF Holds
    <2>5. Holds(t, s)' <=> session[p] = s
        <3>1. tab'[t] = n
            BY <1>4, <1>5
        <3>2. n # 0
            BY <1>4
        <3>3. session'[n] = session[p]
            BY <1>2, <1>4
        <3> QED
            BY <3>1, <3>2, <3>3 DEF Holds
    <2>6. \A d \in LogoutsOf(s) : d \in Calls /\ LogoutRight(d, s) /\ call'[d] = call[d]
        BY <1>6, <2>1 DEF SessionRight, LogoutsOf, LogoutRight
    <2>7. ASSUME NEW d \in FlightsIn(s) PROVE d \in Calls /\ Live(flight[d]) /\ flight[d].tab \in Tabs /\ Uses(flight[d].tab, s)
        BY <1>3 DEF FlightsIn, Typed, FlightRight, Live, Uses
    <2>8. CASE session[p] = s
        <3>1. c \in FlightsIn(s) /\ c \in Answered(s)
            BY <1>1, <1>2, <2>8 DEF FlightsIn, Answered
        <3>2. LogoutsOf(s) = {} /\ s \notin ended
            BY <2>1, <3>1 DEF SessionRight, LogoutRight, Over
        <3>3. \A u \in Tabs : Uses(u, s) => u = t
            BY <1>1, <1>3, <1>4, <2>1, <2>7, <3>1 DEF OneTab
        <3>4. \A d \in FlightsIn(s) : d = c
            BY <1>7, <2>7, <3>3
        <3>5. FlightsIn(s)' = {}
            BY <2>3, <3>4
        <3>6. ASSUME NEW m \in PairsOf(s) PROVE HeldPair(m)'
            <4>1. HeldPair(m)
                BY <2>1, <3>1, <3>2 DEF SessionRight, Unheld
            <4>2. ASSUME NEW u \in Tabs, tab[u] = m PROVE m \in blacklisted
                <5>1. Holds(u, s)
                    BY <1>3, <3>6, <4>2 DEF Holds, PairsOf, Typed
                <5>2. u = t
                    BY <3>3, <5>1 DEF Uses
                <5>3. tab[t] = p
                    BY <1>1, <2>1, <3>1, <5>1, <5>2 DEF SessionRight, OwnPair
                <5> QED
                    BY <1>4, <4>2, <5>2, <5>3
            <4>3. ASSUME NEW d \in Calls, Live(flight[d]), flight[d].pair = m PROVE m \in blacklisted
                <5>1. d \in FlightsIn(s)
                    BY <4>3 DEF FlightsIn, PairsOf, Live
                <5> QED
                    BY <1>1, <1>4, <3>4, <4>3, <5>1
            <4>4. ASSUME NEW d \in Calls, flight[d].state = "answered", flight[d].new = m PROVE m = n
                <5>1. d \in FlightsIn(s)
                    BY <1>3, <4>4 DEF FlightsIn, PairsOf, Typed, FlightRight, Live
                <5> QED
                    BY <1>1, <3>4, <4>4, <5>1
            <4>5. ASSUME persisted = m PROVE m \in blacklisted
                <5>1. Stored(s) /\ ~ Loose(s)
                    BY <1>4, <2>7, <3>1, <3>6, <4>5 DEF Stored, PairsOf, Loose
                <5>2. PICK u \in Tabs : tab[u] = m
                    BY <1>3, <2>1, <4>5, <5>1 DEF Kept
                <5> QED
                    BY <4>2, <5>2
            <4>6. m \in blacklisted \/ m = n
                BY <4>1, <4>2, <4>3, <4>4, <4>5 DEF HeldPair
            <4>7. tab'[t] = n
                BY <1>4, <1>5
            <4> QED
                BY <1>2, <1>4, <4>6, <4>7 DEF HeldPair
        <3>7. OwnPair(s)'
            BY <3>5 DEF OwnPair
        <3> QED
            BY <1>2, <2>1, <2>2, <3>2, <3>6, <3>7 DEF SessionRight
    <2>9. session[p] # s => ~ Stored(s)'
        <3>1. persisted' = n /\ session'[n] = session[p]
            BY <1>2, <1>4
        <3> QED
            BY <3>1 DEF Stored
    <2>10. CASE session[p] # s /\ ~ Holds(t, s)
        <3>1. \A u \in Tabs : Holds(u, s) \/ Holds(u, s)' => Holds(u, s) /\ Holds(u, s)' /\ tab'[u] = tab[u]
            BY <1>5, <2>4, <2>5, <2>10
        <3>2. FlightsIn(s)' = FlightsIn(s) /\ \A d \in FlightsIn(s) : flight'[d] = flight[d]
            BY <1>1, <1>5, <2>3, <2>10 DEF FlightsIn
        <3> QED
            BY <1>2, <2>1, <2>2, <2>6, <2>9, <2>10, <3>1, <3>2, SessionUntouched
    <2>11. CASE session[p] # s /\ Holds(t, s)
        <3>1. \A u \in Tabs : Uses(u, s) => u = t
            BY <1>3, <1>4, <2>1, <2>11 DEF OneTab, Uses
        <3>2. FlightsIn(s) = {}
            <4>1. ASSUME NEW d \in FlightsIn(s) PROVE FALSE
                <5>1. d = c
                    BY <1>7, <2>7, <3>1
                <5> QED
                    BY <1>1, <2>11, <5>1 DEF FlightsIn
            <4> QED
                BY <4>1
        <3>3. \A u \in Tabs : ~ Holds(u, s)'
            BY <2>4, <2>5, <2>11, <3>1 DEF Uses
        <3>4. FlightsIn(s)' = {} /\ Answered(s)' = {}
            BY <2>3, <3>2 DEF FlightsIn, Answered
        <3>5. \A d \in LogoutsOf(s)' : LogoutRight(d, s)'
            BY <1>2, <2>1, <2>2, <2>6, <3>3, <3>4 DEF LogoutRight
        <3>6. s \notin ended /\ OwnPair(s)' /\ Unheld(s)'
            BY <1>4, <2>1, <2>9, <2>11, <3>3, <3>4 DEF SessionRight, Over, OwnPair, Unheld
        <3> QED
            BY <1>2, <3>5, <3>6 DEF SessionRight
    <2> QED
        BY <2>8, <2>10, <2>11
<1> QED
    BY <1>2, <1>8 DEF LogoutInv

\* A request that nobody waits for spends a pair that nobody depends on.
LEMMA ServeAdriftLogsOut ==
    ASSUME SurviveInv, LogoutInv, NEW a \in adrift, ServeAdrift(a)
    PROVE  LogoutInv'
<1>1. /\ blacklisted' = blacklisted \cup {a.pair}
      /\ UNCHANGED <<tab, persisted, call, flight, tangled, ended, overtaken, unheard>>
    BY DEF ServeAdrift
<1>2. Typed /\ Kept /\ issued \in Nat
    BY DEF SurviveInv, Typed
<1>3. PICK pair \in 1..issued : pair = a.pair /\ Harmless(a)
    BY DEF SurviveInv, AdriftRight
<1>4. \/ UNCHANGED <<issued, session>>
      \/ /\ a.refresh /\ issued < MaxPairs /\ issued' = issued + 1
         /\ session' = [session EXCEPT ![issued + 1] = session[pair]]
    BY <1>3 DEF ServeAdrift
<1>5. \A n \in 1..issued : session'[n] = session[n] /\ session[n] \in 1..issued
    BY <1>2, <1>4, SessionAssumption DEF Typed
<1>6. issued' # issued => session[pair] \in tangled /\ issued' = issued + 1 /\ session'[issued + 1] = session[pair]
    <2>1. CASE UNCHANGED <<issued, session>>
        BY <2>1
    <2>2. ASSUME a.refresh PROVE session[pair] \in tangled
        BY <1>3, <2>2 DEF Harmless
    <2>3. ASSUME issued < MaxPairs, issued' = issued + 1, session' = [session EXCEPT ![issued + 1] = session[pair]]
          PROVE  issued' = issued + 1 /\ session'[issued + 1] = session[pair]
        BY <1>2, <2>3, SessionAssumption DEF Typed
    <2> QED
        BY <1>4, <2>1, <2>2, <2>3
<1>7. \A d \in Calls : /\ Live(call[d]) => call[d].body \in 1..issued
                       /\ Live(flight[d]) => flight[d].pair \in 1..issued
    BY <1>2 DEF Typed, CallRight, FlightRight, Live
<1>8. \A u \in Tabs : tab[u] \in 0..issued
    BY <1>2 DEF Typed
<1>9. ASSUME NEW s
      PROVE  /\ LogoutsOf(s)' = LogoutsOf(s) /\ FlightsIn(s)' = FlightsIn(s)
             /\ \A u \in Tabs : Holds(u, s)' <=> Holds(u, s)
             /\ Stored(s)' => Stored(s) /\ persisted' = persisted
    <2>1. ASSUME NEW d \in Calls PROVE d \in LogoutsOf(s)' <=> d \in LogoutsOf(s)
        <3>1. Live(call[d]) => session'[call[d].body] = session[call[d].body]
            BY <1>5, <1>7
        <3> QED
            BY <1>1, <3>1 DEF LogoutsOf, Live
    <2>2. ASSUME NEW d \in Calls PROVE d \in FlightsIn(s)' <=> d \in FlightsIn(s)
        <3>1. Live(flight[d]) => session'[flight[d].pair] = session[flight[d].pair]
            BY <1>5, <1>7
        <3> QED
            BY <1>1, <3>1 DEF FlightsIn, Live
    <2>3. LogoutsOf(s) \subseteq Calls /\ LogoutsOf(s)' \subseteq Calls /\ FlightsIn(s) \subseteq Calls /\ FlightsIn(s)' \subseteq Calls
        BY DEF LogoutsOf, FlightsIn
    <2>4. LogoutsOf(s)' = LogoutsOf(s) /\ FlightsIn(s)' = FlightsIn(s)
        BY <2>1, <2>2, <2>3
    <2>5. \A u \in Tabs : Holds(u, s)' <=> Holds(u, s)
        BY <1>1, <1>2, <1>5, <1>8 DEF Holds
    <2>6. Stored(s)' => Stored(s) /\ persisted' = persisted
        BY <1>1, <1>2, <1>5 DEF Stored, Kept
    <2> QED
        BY <2>4, <2>5, <2>6
<1>10. ASSUME NEW s \in Plain' PROVE SessionRight(s)'
    <2>1. CASE s \in 1..issued
        <3>1. s \in 1..issued \ tangled /\ SessionRight(s)
            BY <1>1, <1>10, <2>1 DEF Plain, LogoutInv
        <3>2. PairsOf(s)' = PairsOf(s)
            <4>1. CASE issued' = issued
                BY <1>5, <4>1 DEF PairsOf
            <4>2. CASE issued' # issued
                <5>1. issued' = issued + 1 /\ session'[issued + 1] # s
                    BY <1>6, <3>1, <4>2
                <5> QED
                    BY <1>2, <1>5, <5>1 DEF PairsOf
            <4> QED
                BY <4>1, <4>2
        <3> QED
            BY <1>1, <1>9, <3>1, <3>2, SessionUntouched
    <2>2. CASE s \notin 1..issued
        <3>1. issued' = issued + 1 /\ session[pair] \in 1..issued /\ session'[issued + 1] = session[pair]
            BY <1>2, <1>5, <1>6, <1>10, <2>2 DEF Plain
        <3>2. PairsOf(s)' = {}
            BY <1>2, <1>5, <2>2, <3>1 DEF PairsOf
        <3>3. LogoutsOf(s) = {} /\ FlightsIn(s) = {}
            BY <1>5, <1>7, <2>2 DEF LogoutsOf, FlightsIn, Live
        <3>4. s \notin ended' /\ LogoutsOf(s)' = {} /\ OwnPair(s)'
            BY <1>1, <1>9, <2>2, <3>3 DEF LogoutInv, OwnPair
        <3> QED
            BY <3>2, <3>4 DEF SessionRight
    <2> QED
        BY <2>1, <2>2
<1>11. unheard' \subseteq ended' /\ ended' \subseteq 1..issued'
    <2>1. \A n \in 1..issued : n \in 1..issued'
        BY <1>2, <1>6
    <2> QED
        BY <1>1, <2>1 DEF LogoutInv
<1> QED
    BY <1>10, <1>11 DEF LogoutInv

\* No session has begun.
LEMMA LogoutInvInit == AuthInit => LogoutInv
BY SessionAssumption DEF AuthInit, LogoutInv, Plain

\* Every step keeps what a logout relies on.
LEMMA LogoutInvNext == SurviveInv /\ LogoutInv /\ [AuthNext]_authVars => LogoutInv'
<1> SUFFICES ASSUME SurviveInv, LogoutInv, [AuthNext]_authVars PROVE LogoutInv'
    OBVIOUS
<1>1. CASE UNCHANGED authVars \/ \E n \in 1..MaxPairs : Expire(n)
    <2>1. UNCHANGED <<issued, session, blacklisted, tab, persisted, call, flight, tangled, ended, overtaken, unheard>>
        BY <1>1 DEF authVars, Expire
    <2>2. ASSUME NEW s \in Plain' PROVE SessionRight(s)'
        <3>1. s \in 1..issued \ tangled /\ SessionRight(s)
            BY <2>1, <2>2 DEF Plain, LogoutInv
        <3>2. LogoutsOf(s)' = LogoutsOf(s) /\ FlightsIn(s)' = FlightsIn(s) /\ PairsOf(s)' = PairsOf(s)
              /\ (\A u \in Tabs : Holds(u, s)' <=> Holds(u, s)) /\ Stored(s)' = Stored(s)
            BY <2>1 DEF LogoutsOf, FlightsIn, PairsOf, Holds, Stored
        <3> QED
            BY <2>1, <3>1, <3>2, SessionUntouched
    <2> QED
        BY <2>1, <2>2 DEF LogoutInv
<1>2. ASSUME NEW c \in Calls, FailRefresh(c) PROVE LogoutInv'
    <2>1. flight[c].tab \in Tabs
        BY <1>2 DEF FailRefresh, SurviveInv, Typed, FlightRight, Live
    <2> QED
        BY <1>2, <2>1, LeaveLogsOut DEF FailRefresh, ClearAndLeave
<1>3. ASSUME NEW t \in Tabs, CloseTab(t) PROVE LogoutInv'
    BY <1>3, LeaveLogsOut DEF CloseTab
<1> QED
    BY <1>1, <1>2, <1>3, LoginLogsOut, OpenTabLogsOut, SendLogsOut, ServeLogsOut, SettleLogsOut,
       RefreshLogsOut, ServeRefreshLogsOut, ReceiveLogsOut, ServeAdriftLogsOut DEF AuthNext

\* After the logout of a session that one tab used, with no refresh crossing it, no tab
\* holds the session and none can be opened on it; and if the server heard of the logout,
\* no refresh token of the session works (LogoutView, useLogout).
THEOREM LogoutsEnd == AuthSpec => []LogoutEnds
<1>1. SurviveInv /\ LogoutInv => LogoutEnds
    <2> SUFFICES ASSUME SurviveInv, LogoutInv, NEW s \in ended \ (overtaken \cup tangled)
                 PROVE  /\ s \notin unheard => \A n \in 1..issued : session[n] = s => n \in blacklisted
                        /\ \A t \in Tabs : SessionOf(t) # s
                        /\ persisted # 0 => session[persisted] # s
        BY DEF LogoutEnds
    <2>1. Over(s) /\ s \in 1..issued
        BY DEF LogoutInv, Plain, SessionRight
    <2> QED
        BY <2>1 DEF Over, Stored, PairsOf, Holds, SessionOf
<1> QED
    BY SurviveInvInit, SurviveInvNext, LogoutInvInit, LogoutInvNext, <1>1, PTL DEF AuthSpec

-----------------------------------------------------------------------------
\* What the two invariants do not say of the types.
PairsTyped ==
    /\ session \in [1..MaxPairs -> 0..MaxPairs]
    /\ tab \in [Tabs -> Nat]
    /\ promise \in [Tabs -> SUBSET Calls]
    /\ expired \subseteq 1..issued
    /\ tangled \cup overtaken \subseteq 1..issued

\* No step takes a pair back.
LEMMA PairsStay ==
    ASSUME NEW i \in Nat, NEW k \in Nat, k = i \/ k = i + 1, NEW S, S \subseteq 1..i
    PROVE  S \subseteq 1..k
<1>1. \A n \in 1..i : n \in 1..k
    OBVIOUS
<1> QED
    BY <1>1

\* A login, and an answered refresh, issue the next pair.
LEMMA IssueTyped ==
    ASSUME SurviveInv, PairsTyped, issued < MaxPairs, issued' = issued + 1,
           NEW s \in 0..MaxPairs, session' = [session EXCEPT ![issued + 1] = s],
           tab' \in [Tabs -> Nat], promise' = promise, expired' = expired,
           tangled' \cup overtaken' \subseteq 1..issued
    PROVE  PairsTyped'
<1>1. issued \in Nat
    BY SessionAssumption DEF SurviveInv, Typed
<1>2. session' \in [1..MaxPairs -> 0..MaxPairs]
    BY DEF PairsTyped
<1>3. expired' \subseteq 1..issued' /\ tangled' \cup overtaken' \subseteq 1..issued'
    <2>1. \A n \in 1..issued : n \in 1..issued'
        BY <1>1
    <2> QED
        BY <2>1 DEF PairsTyped
<1> QED
    BY <1>2, <1>3 DEF PairsTyped

\* Every step keeps them.
LEMMA PairsTypedNext == SurviveInv /\ PairsTyped /\ [AuthNext]_authVars => PairsTyped'
<1> SUFFICES ASSUME SurviveInv, PairsTyped, [AuthNext]_authVars PROVE PairsTyped'
    OBVIOUS
<1>0. /\ issued \in Nat /\ issued <= MaxPairs
      /\ \A n \in 1..issued : session[n] \in 1..issued
      /\ \A t \in Tabs : tab[t] \in 0..issued
      /\ \A c \in Calls : CallRight(call[c]) /\ FlightRight(flight[c])
    BY SessionAssumption DEF SurviveInv, Typed
<1>1. ASSUME NEW t \in Tabs, Login(t) PROVE PairsTyped'
    <2>1. /\ issued < MaxPairs /\ issued' = issued + 1
          /\ session' = [session EXCEPT ![issued + 1] = issued + 1]
          /\ tab' = [tab EXCEPT ![t] = issued + 1]
          /\ UNCHANGED <<promise, expired, tangled, overtaken>>
        BY <1>1 DEF Login
    <2>2. issued + 1 \in 0..MaxPairs /\ issued + 1 \in Nat
        BY <1>0, <2>1, SessionAssumption
    <2>3. tab' \in [Tabs -> Nat]
        BY <2>1, <2>2 DEF PairsTyped
    <2>4. tangled' \cup overtaken' \subseteq 1..issued
        BY <2>1 DEF PairsTyped
    <2> QED
        BY <2>1, <2>2, <2>3, <2>4, IssueTyped
<1>2. ASSUME NEW t \in Tabs, OpenTab(t) PROVE PairsTyped'
    <2>1. /\ persisted # 0 /\ tab' = [tab EXCEPT ![t] = persisted]
          /\ tangled' \subseteq tangled \cup {session[persisted]}
          /\ UNCHANGED <<issued, session, expired, promise, overtaken>>
        BY <1>2 DEF OpenTab
    <2>2. persisted \in 1..issued
        BY <1>0, <2>1 DEF SurviveInv, Kept
    <2>3. persisted \in Nat /\ session[persisted] \in 1..issued
        BY <1>0, <2>2
    <2> QED
        BY <2>1, <2>3 DEF PairsTyped
<1>3. ASSUME NEW n \in 1..MaxPairs, Expire(n) PROVE PairsTyped'
    BY <1>3 DEF Expire, PairsTyped
<1>4. ASSUME NEW t \in Tabs, NEW c \in Calls, NEW logout \in BOOLEAN, Send(t, c, logout)
      PROVE  PairsTyped'
    <2>1. /\ tab[t] # 0 /\ overtaken' \subseteq overtaken \cup {SessionOf(t)}
          /\ UNCHANGED <<issued, session, expired, tab, promise, tangled>>
        BY <1>4 DEF Send
    <2>2. SessionOf(t) \in 1..issued
        BY <1>0, <2>1 DEF SessionOf
    <2> QED
        BY <2>1, <2>2 DEF PairsTyped
<1>5. ASSUME NEW c \in Calls, Serve(c) PROVE PairsTyped'
    <2>1. /\ Live(call[c]) /\ overtaken' \subseteq overtaken \cup {session[call[c].body]}
          /\ UNCHANGED <<issued, session, expired, tab, promise, tangled>>
        BY <1>5 DEF Serve, Live
    <2>2. session[call[c].body] \in 1..issued
        BY <1>0, <2>1 DEF CallRight
    <2> QED
        BY <2>1, <2>2 DEF PairsTyped
<1>6. ASSUME NEW c \in Calls, Settle(c) PROVE PairsTyped'
    <2>1. /\ tab' = tab \/ tab' = [tab EXCEPT ![call[c].tab] = 0]
          /\ Live(call[c]) /\ overtaken' \subseteq overtaken \cup {session[call[c].body]}
          /\ UNCHANGED <<issued, session, expired, promise, tangled>>
        BY <1>6 DEF Settle, Live
    <2>2. tab' \in [Tabs -> Nat]
        BY <2>1 DEF PairsTyped
    <2>3. session[call[c].body] \in 1..issued
        BY <1>0, <2>1 DEF CallRight
    <2> QED
        BY <2>1, <2>2, <2>3 DEF PairsTyped
<1>7. ASSUME NEW t, LeavePage(t)
      PROVE  /\ tab' \in [Tabs -> Nat] /\ promise' \in [Tabs -> SUBSET Calls]
             /\ tangled' \subseteq 1..issued
    <2>1. tab' \in [Tabs -> Nat] /\ promise' \in [Tabs -> SUBSET Calls]
        BY <1>7 DEF LeavePage, PairsTyped
    <2>2. \A c \in FlightsOf(t) : session[flight[c].pair] \in 1..issued
        BY <1>0 DEF FlightsOf, FlightRight, Live
    <2>3. \A c \in CallsOf(t) : session[call[c].body] \in 1..issued
        BY <1>0 DEF CallsOf, CallRight, Live
    <2>4. \A s \in tangled' : \/ s \in tangled
                              \/ \E c \in FlightsOf(t) : s = session[flight[c].pair]
                              \/ \E c \in CallsOf(t) : s = session[call[c].body]
        BY <1>7 DEF LeavePage
    <2>5. tangled' \subseteq 1..issued
        BY <2>2, <2>3, <2>4 DEF PairsTyped
    <2> QED
        BY <2>1, <2>5
<1>8. ASSUME NEW c \in Calls, Refresh(c) PROVE PairsTyped'
    <2>1. UNCHANGED <<issued, session, expired, overtaken>>
        BY <1>8 DEF Refresh
    <2>2. \/ UNCHANGED <<tab, promise, tangled>>
          \/ LeavePage(call[c].tab)
          \/ UNCHANGED <<tab, tangled>> /\ promise' = [promise EXCEPT ![call[c].tab] = {c}]
        BY <1>8 DEF Refresh, ClearAndLeave
    <2>3. /\ tab' \in [Tabs -> Nat] /\ promise' \in [Tabs -> SUBSET Calls]
          /\ tangled' \subseteq 1..issued
        BY <1>7, <2>2 DEF PairsTyped
    <2> QED
        BY <2>1, <2>3 DEF PairsTyped
<1>9. ASSUME NEW c \in Calls, ServeRefresh(c) PROVE PairsTyped'
    <2>1. /\ issued < MaxPairs /\ issued' = issued + 1
          /\ session' = [session EXCEPT ![issued + 1] = session[flight[c].pair]]
          /\ overtaken' \subseteq overtaken \cup {session[flight[c].pair]}
          /\ UNCHANGED <<tab, promise, expired, tangled>>
        BY <1>9 DEF ServeRefresh
    <2>2. flight[c].pair \in 1..issued
        BY <1>0, <1>9 DEF ServeRefresh, FlightRight, Live
    <2>3. session[flight[c].pair] \in 1..issued
        BY <1>0, <2>2
    <2>4. session[flight[c].pair] \in 0..MaxPairs
        BY <1>0, <2>3, SessionAssumption
    <2>5. tangled' \cup overtaken' \subseteq 1..issued /\ tab' \in [Tabs -> Nat]
        BY <2>1, <2>3 DEF PairsTyped
    <2> QED
        BY <2>1, <2>4, <2>5, IssueTyped
<1>10. ASSUME NEW c \in Calls, ReceiveRefresh(c) PROVE PairsTyped'
    <2>1. /\ flight[c].state = "answered" /\ tab' = [tab EXCEPT ![flight[c].tab] = flight[c].new]
          /\ promise' = [promise EXCEPT ![flight[c].tab] = {}]
          /\ UNCHANGED <<issued, session, expired, tangled, overtaken>>
        BY <1>10 DEF ReceiveRefresh
    <2>2. flight[c].new \in Nat
        BY <1>0, <2>1 DEF FlightRight, Live
    <2> QED
        BY <2>1, <2>2 DEF PairsTyped
<1>11. ASSUME NEW c \in Calls, FailRefresh(c) PROVE PairsTyped'
    BY <1>7, <1>11 DEF FailRefresh, ClearAndLeave, PairsTyped
<1>12. ASSUME NEW t \in Tabs, CloseTab(t) PROVE PairsTyped'
    BY <1>7, <1>12 DEF CloseTab, PairsTyped
<1>13. ASSUME NEW a \in adrift, ServeAdrift(a) PROVE PairsTyped'
    <2>1. UNCHANGED <<tab, promise, expired, tangled, overtaken>>
        BY <1>13 DEF ServeAdrift
    <2>2. session[a.pair] \in 0..MaxPairs
        <3>1. session[a.pair] \in 1..issued
            BY <1>0 DEF SurviveInv, AdriftRight
        <3> QED
            BY <1>0, <3>1, SessionAssumption
    <2>3. CASE UNCHANGED <<issued, session>>
        BY <2>1, <2>3 DEF PairsTyped
    <2>4. CASE /\ issued < MaxPairs /\ issued' = issued + 1
               /\ session' = [session EXCEPT ![issued + 1] = session[a.pair]]
        <3>1. tangled' \cup overtaken' \subseteq 1..issued /\ tab' \in [Tabs -> Nat]
            BY <2>1 DEF PairsTyped
        <3> QED
            BY <2>1, <2>2, <2>4, <3>1, IssueTyped
    <2> QED
        BY <1>13, <2>3, <2>4 DEF ServeAdrift
<1>14. CASE UNCHANGED authVars
    BY <1>14 DEF authVars, PairsTyped
<1> QED
    BY <1>1, <1>2, <1>3, <1>4, <1>5, <1>6, <1>8, <1>9, <1>10, <1>11, <1>12, <1>13, <1>14 DEF AuthNext

\* Every reachable state of the tabs, their requests and the tokens has the types
\* AuthTypeOK states; what is stored was always issued.
THEOREM AuthTypeCorrect == AuthSpec => []AuthTypeOK
<1>1. AuthInit => PairsTyped
    BY SessionAssumption DEF AuthInit, PairsTyped
<1>2. SurviveInv /\ LogoutInv /\ PairsTyped => AuthTypeOK
    <2> SUFFICES ASSUME SurviveInv, LogoutInv, PairsTyped PROVE AuthTypeOK
        OBVIOUS
    <2>1. tab \in [Tabs -> 0..issued]
        BY DEF SurviveInv, Typed, PairsTyped
    <2>2. persisted \in 0..issued /\ adrift \subseteq [pair : 1..issued, refresh : BOOLEAN]
        BY DEF SurviveInv, Kept, AdriftRight
    <2>3. /\ issued \in 0..MaxPairs /\ blacklisted \subseteq 1..issued
          /\ ended \cup unheard \subseteq 1..issued
        BY DEF SurviveInv, Typed, LogoutInv
    <2> QED
        BY <2>1, <2>2, <2>3 DEF PairsTyped, AuthTypeOK
<1> QED
    BY <1>1, <1>2, SurviveInvInit, SurviveInvNext, LogoutInvInit, LogoutInvNext, PairsTypedNext, PTL
       DEF AuthSpec

-----------------------------------------------------------------------------
\* A row that is held is the row of an open link.
HeldIsOpen == \A l \in Links : holder[l] # NoRequest => token[l] = "open"

\* A reset that has locked a token is its holder.
Holding == \A r \in Resets : pc[r] = "holding" => link[r] \in Links /\ holder[link[r]] = r

\* There is no token before its request has committed ...
Fresh == \A l \in Links : pc[l] # "done" => token[l] = "none"

\* ... so none that a reset was given, or a later request has seen.
Known ==
    /\ \A r \in Resets : pc[r] # "start" => link[r] \in Links /\ token[link[r]] # "none"
    /\ \A k \in Links, l \in Links : l \in seen[k] => token[l] # "none"

\* A request that saw an open token holds it until it closes it.
Covered ==
    \A k \in Links, l \in Links :
        pc[k] = "holding" /\ l \in seen[k] => holder[l] = k \/ token[l] # "open"

\* A link that set a password is not open,
SpentIsClosed == \A l \in Links : Spent(l) => token[l] # "open"
\* nor is one that a later link replaced.
ReplacedIsClosed == \A l \in Links : Replaced(l) => token[l] # "open"

\* The inductive invariant of LinksWorkOnce.
Inv ==
    /\ AccountsTypeOK
    /\ HeldIsOpen
    /\ Holding
    /\ Fresh
    /\ Known
    /\ Covered
    /\ SpentIsClosed
    /\ ReplacedIsClosed

USE AccountsAssumption

\* Nobody holds a row, and no link is open, before the first request.
LEMMA InvInit == AccountsInit => Inv
<1> SUFFICES ASSUME AccountsInit PROVE Inv
    OBVIOUS
<1>1. AccountsTypeOK
    BY DEF AccountsInit, AccountsTypeOK, Requests, NoRequest
<1>2. HeldIsOpen /\ Holding /\ Fresh /\ Known /\ Covered
    BY DEF AccountsInit, HeldIsOpen, Holding, Fresh, Known, Covered, Requests, NoRequest
<1>3. SpentIsClosed /\ ReplacedIsClosed
    BY DEF AccountsInit, SpentIsClosed, ReplacedIsClosed
<1> QED
    BY <1>1, <1>2, <1>3 DEF Inv

\* A request for a link keeps the invariant: it writes rows that it holds and
\* the row of its own link.
LEMMA InvLink ==
    ASSUME Inv, NEW l \in Links,
           AskForLink(l) \/ CloseOpenLinks(l) \/ CreateLink(l) \/ MailFails(l) \/ Expires(l)
    PROVE  Inv'
<1> USE DEF Inv, AccountsTypeOK, Requests, NoRequest
<1>1. CASE AskForLink(l)
    <2> USE <1>1 DEF AskForLink, Opened
    <2>1. AccountsTypeOK'
        OBVIOUS
    <2>2. HeldIsOpen' /\ Holding' /\ Fresh' /\ Known'
        BY DEF HeldIsOpen, Holding, Fresh, Known
    <2>3. Covered' /\ SpentIsClosed' /\ ReplacedIsClosed'
        BY DEF Covered, SpentIsClosed, ReplacedIsClosed, Spent, Replaced
    <2> QED
        BY <2>1, <2>2, <2>3
<1>2. CASE CloseOpenLinks(l)
    <2> USE <1>2 DEF CloseOpenLinks, Superseded, Opened, Lockable
    <2>1. AccountsTypeOK'
        OBVIOUS
    <2>2. HeldIsOpen' /\ Holding' /\ Fresh' /\ Known'
        BY DEF HeldIsOpen, Holding, Fresh, Known
    <2>3. Covered' /\ SpentIsClosed' /\ ReplacedIsClosed'
        BY DEF Covered, SpentIsClosed, ReplacedIsClosed, Spent, Replaced
    <2> QED
        BY <2>1, <2>2, <2>3
<1>3. CASE CreateLink(l)
    <2> USE <1>3 DEF CreateLink, HeldBy, Freed
    <2>1. token[l] = "none"
        BY DEF Fresh
    <2>2. \A k \in Links \ {l} : token'[k] = IF holder[k] = l THEN "used" ELSE token[k]
        OBVIOUS
    <2>3. AccountsTypeOK'
        OBVIOUS
    <2>4. HeldIsOpen' /\ Holding'
        BY DEF HeldIsOpen, Holding
    <2>5. Fresh' /\ Known'
        BY <2>1 DEF Fresh, Known, HeldIsOpen
    <2>6. Covered'
        BY <2>1, <2>2 DEF Covered, Known
    <2>7. SpentIsClosed'
        BY <2>1, <2>2 DEF SpentIsClosed, Spent, Known
    <2>8. ReplacedIsClosed'
        BY <2>1, <2>2 DEF ReplacedIsClosed, Replaced, Known, Covered
    <2> QED
        BY <2>3, <2>4, <2>5, <2>6, <2>7, <2>8
<1>4. CASE MailFails(l)
    <2> USE <1>4 DEF MailFails, Freed
    <2>1. AccountsTypeOK'
        OBVIOUS
    <2>2. HeldIsOpen' /\ Holding' /\ Fresh' /\ Known'
        BY DEF HeldIsOpen, Holding, Fresh, Known
    <2>3. Covered' /\ SpentIsClosed' /\ ReplacedIsClosed'
        BY DEF Covered, SpentIsClosed, ReplacedIsClosed, Spent, Replaced
    <2> QED
        BY <2>1, <2>2, <2>3
<1>5. CASE Expires(l)
    <2> USE <1>5 DEF Expires, Lockable
    <2>1. AccountsTypeOK'
        OBVIOUS
    <2>2. HeldIsOpen' /\ Holding' /\ Fresh' /\ Known'
        BY DEF HeldIsOpen, Holding, Fresh, Known
    <2>3. Covered' /\ SpentIsClosed' /\ ReplacedIsClosed'
        BY DEF Covered, SpentIsClosed, ReplacedIsClosed, Spent, Replaced
    <2> QED
        BY <2>1, <2>2, <2>3
<1> QED
    BY <1>1, <1>2, <1>3, <1>4, <1>5

\* So does a reset: it spends a link that it holds.
LEMMA InvReset ==
    ASSUME Inv, NEW r \in Resets,
           \/ \E l \in Links : OpenResetPage(r, l)
           \/ LockToken(r) \/ ResetPassword(r) \/ RefusePassword(r)
    PROVE  Inv'
<1> USE DEF Inv, AccountsTypeOK, Requests, NoRequest
<1>1. ASSUME NEW l \in Links, OpenResetPage(r, l) PROVE Inv'
    <2> USE <1>1 DEF OpenResetPage
    <2>1. AccountsTypeOK'
        OBVIOUS
    <2>2. HeldIsOpen' /\ Holding' /\ Fresh' /\ Known'
        BY DEF HeldIsOpen, Holding, Fresh, Known
    <2>3. Covered' /\ SpentIsClosed' /\ ReplacedIsClosed'
        BY DEF Covered, SpentIsClosed, ReplacedIsClosed, Spent, Replaced
    <2> QED
        BY <2>1, <2>2, <2>3
<1>2. CASE LockToken(r)
    <2> USE <1>2 DEF LockToken, Lockable, IsValid
    <2>1. link[r] \in Links
        BY DEF Known
    <2>2. AccountsTypeOK'
        BY <2>1
    <2>3. HeldIsOpen' /\ Holding' /\ Fresh' /\ Known'
        BY <2>1 DEF HeldIsOpen, Holding, Fresh, Known
    <2>4. Covered' /\ SpentIsClosed' /\ ReplacedIsClosed'
        BY <2>1 DEF Covered, SpentIsClosed, ReplacedIsClosed, Spent, Replaced
    <2> QED
        BY <2>2, <2>3, <2>4
<1>3. CASE ResetPassword(r)
    <2> USE <1>3 DEF ResetPassword, Freed
    <2>1. link[r] \in Links /\ holder[link[r]] = r /\ token[link[r]] = "open"
        BY DEF Holding, HeldIsOpen
    <2>2. AccountsTypeOK'
        BY <2>1
    <2>3. HeldIsOpen' /\ Holding' /\ Fresh' /\ Known'
        BY <2>1 DEF HeldIsOpen, Holding, Fresh, Known
    <2>4. Covered' /\ SpentIsClosed' /\ ReplacedIsClosed'
        BY <2>1 DEF Covered, SpentIsClosed, ReplacedIsClosed, Spent, Replaced
    <2> QED
        BY <2>2, <2>3, <2>4
<1>4. CASE RefusePassword(r)
    <2> USE <1>4 DEF RefusePassword, Freed
    <2>1. AccountsTypeOK'
        OBVIOUS
    <2>2. HeldIsOpen' /\ Holding' /\ Fresh' /\ Known'
        BY DEF HeldIsOpen, Holding, Fresh, Known
    <2>3. Covered' /\ SpentIsClosed' /\ ReplacedIsClosed'
        BY DEF Covered, SpentIsClosed, ReplacedIsClosed, Spent, Replaced
    <2> QED
        BY <2>1, <2>2, <2>3
<1> QED
    BY <1>1, <1>2, <1>3, <1>4

\* A change of password touches no link.
LEMMA InvChange ==
    ASSUME Inv, NEW c \in Changes,
           Authenticate(c) \/ ChangePassword(c) \/ RefuseChange(c)
    PROVE  Inv'
<1> USE DEF Inv, AccountsTypeOK, Requests, NoRequest,
            Authenticate, ChangePassword, RefuseChange
<1>1. AccountsTypeOK'
    OBVIOUS
<1>2. HeldIsOpen' /\ Holding' /\ Fresh' /\ Known'
    BY DEF HeldIsOpen, Holding, Fresh, Known
<1>3. Covered' /\ SpentIsClosed' /\ ReplacedIsClosed'
    BY DEF Covered, SpentIsClosed, ReplacedIsClosed, Spent, Replaced
<1> QED
    BY <1>1, <1>2, <1>3

\* Every step keeps it.
LEMMA InvNext == Inv /\ [AccountsNext]_accountVars => Inv'
<1> SUFFICES ASSUME Inv, [AccountsNext]_accountVars PROVE Inv'
    OBVIOUS
<1>1. CASE UNCHANGED accountVars
    BY <1>1 DEF Inv, AccountsTypeOK, HeldIsOpen, Holding, Fresh, Known, Covered,
                SpentIsClosed, ReplacedIsClosed, Spent, Replaced, accountVars
<1>2. CASE AccountsNext
    BY <1>2, InvLink, InvReset, InvChange DEF AccountsNext
<1> QED
    BY <1>1, <1>2

\* The model's variables keep their types (services/auth.py, PasswordResetToken).
THEOREM AccountsTypeCorrect == AccountsSpec => []AccountsTypeOK
<1>1. Inv => AccountsTypeOK
    BY DEF Inv
<1> QED
    BY InvInit, InvNext, <1>1, PTL DEF AccountsSpec

\* However many requests ask for links, use them and change the password at the
\* same time, a link sets the password at most once, and never after a later one
\* has replaced it (request_password_reset, reset_password).
THEOREM LinksWorkOnce == AccountsSpec => LinkWorksOnce
<1>1. ASSUME Inv, [AccountsNext]_accountVars
      PROVE  [\A r \in Resets : pc[r] # "done" /\ pc'[r] = "done" =>
                  ~Spent(link[r]) /\ ~Replaced(link[r])]_accountVars
    <2> SUFFICES ASSUME NEW r \in Resets, AccountsNext, pc[r] # "done", pc'[r] = "done"
                 PROVE  ~Spent(link[r]) /\ ~Replaced(link[r])
        BY <1>1
    <2>1. ResetPassword(r)
        BY <1>1 DEF Inv, AccountsTypeOK, Requests, AccountsNext, AskForLink, CloseOpenLinks,
            CreateLink, MailFails, Expires, OpenResetPage, LockToken, ResetPassword,
            RefusePassword, Authenticate, ChangePassword, RefuseChange
    <2>2. link[r] \in Links /\ token[link[r]] = "open"
        BY <1>1, <2>1 DEF Inv, ResetPassword, Holding, HeldIsOpen, Requests, NoRequest
    <2> QED
        BY <1>1, <2>2 DEF Inv, SpentIsClosed, ReplacedIsClosed
<1> QED
    BY InvInit, InvNext, <1>1, PTL DEF AccountsSpec, LinkWorksOnce
=============================================================================
