---------------------------- MODULE AuthSession ----------------------------
(* A user's session between the browser and the API (frontend lib/api/client.ts,
   store/auth.ts, hooks/useAuth.ts; accounts/api/views.py with SimpleJWT's
   rotation): access tokens expire, a request that is refused for it waits for a
   new pair and is sent once more, and a logout blacklists the refresh token.

   Every tab is a program of its own; what it stores is persisted for all of
   them, and read only when a tab is opened or loaded again.  A page can be closed
   or loaded again at any moment: what it was waiting for is dropped, and the
   server may still do what it was asked. *)
EXTENDS Naturals, FiniteSets

CONSTANTS
  Tabs,        \* browser tabs
  Calls,       \* requests of the pages, logouts among them
  MaxPairs     \* bound on token pairs issued; a pair is named by its number

ASSUME SessionAssumption == MaxPairs \in Nat

VARIABLES
  issued,      \* pairs issued so far
  session,     \* [pair -> the login it descends from]
  blacklisted, \* refresh tokens that are spent
  expired,     \* access tokens that are past their lifetime
  tab,         \* [Tabs -> the pair in its store, 0 for none]
  persisted,   \* the pair in localStorage
  call,        \* [Calls -> the request and where it stands]
  flight,      \* [Calls -> the refresh request that call started]
  promise,     \* [Tabs -> refreshPromise: {the call that started it}, {} for null]
  adrift,      \* refreshes and logouts that nobody waits for, and may still be served
  tangled,     \* history: sessions two tabs have used, or that were left with a
               \* refresh or a logout under way
  ended,       \* history: sessions that were logged out
  overtaken,   \* history: sessions with a refresh in flight, or due, at their logout
  unheard      \* history: sessions whose logout failed

authVars == <<issued, session, blacklisted, expired, tab, persisted, call, flight, promise,
              adrift, tangled, ended, overtaken, unheard>>

Free == [state |-> "none"]
Failed == MaxPairs + 1

AuthInit ==
  /\ issued = 0
  /\ session = [n \in 1..MaxPairs |-> 0]
  /\ blacklisted = {}
  /\ expired = {}
  /\ tab = [t \in Tabs |-> 0]
  /\ persisted = 0
  /\ call = [c \in Calls |-> Free]
  /\ flight = [c \in Calls |-> Free]
  /\ promise = [t \in Tabs |-> {}]
  /\ adrift = {}
  /\ tangled = {}
  /\ ended = {}
  /\ overtaken = {}
  /\ unheard = {}

CallsOf(t) == {c \in Calls : call[c].state # "none" /\ call[c].tab = t}
FlightsOf(t) == {c \in Calls : flight[c].state # "none" /\ flight[c].tab = t}
FlightsIn(s) == {c \in Calls : flight[c].state # "none" /\ session[flight[c].pair] = s}
LogoutsOf(s) == {c \in Calls : call[c].state # "none" /\ call[c].logout /\ session[call[c].body] = s}
SessionOf(t) == IF tab[t] = 0 THEN 0 ELSE session[tab[t]]

\* LoginView and setSession.
Login(t) ==
  /\ tab[t] = 0
  /\ issued < MaxPairs
  /\ issued' = issued + 1
  /\ session' = [session EXCEPT ![issued + 1] = issued + 1]
  /\ tab' = [tab EXCEPT ![t] = issued + 1]
  /\ persisted' = issued + 1
  /\ UNCHANGED <<blacklisted, expired, call, flight, promise,
                 adrift, tangled, ended, overtaken, unheard>>

\* A tab is opened, or loaded again, on what is persisted.
OpenTab(t) ==
  /\ tab[t] = 0
  /\ CallsOf(t) \cup FlightsOf(t) = {}
  /\ persisted # 0
  /\ tab' = [tab EXCEPT ![t] = persisted]
  /\ tangled' = tangled \cup
       (IF \E u \in Tabs \ {t} : SessionOf(u) = session[persisted] \/ FlightsOf(u) # {}
        THEN {session[persisted]} ELSE {})
  /\ UNCHANGED <<issued, session, blacklisted, expired, persisted, call, flight, promise,
                 adrift, ended, overtaken, unheard>>

\* ACCESS_TOKEN_LIFETIME passes.
Expire(n) ==
  /\ n \in 1..issued \ expired
  /\ expired' = expired \cup {n}
  /\ UNCHANGED <<issued, session, blacklisted, tab, persisted, call, flight, promise,
                 adrift, tangled, ended, overtaken, unheard>>

\* A page sends a request; a logout carries the refresh token of the moment.
Send(t, c, logout) ==
  /\ call[c].state = "none"
  /\ flight[c].state = "none"
  /\ tab[t] # 0
  /\ call' = [call EXCEPT ![c] = [state |-> "sent", tab |-> t, logout |-> logout, retried |-> FALSE,
                                  access |-> tab[t], body |-> tab[t], on |-> {}]]
  /\ overtaken' = overtaken \cup (IF logout /\ FlightsOf(t) # {} THEN {SessionOf(t)} ELSE {})
  /\ UNCHANGED <<issued, session, blacklisted, expired, tab, persisted, flight, promise,
                 adrift, tangled, ended, unheard>>

\* Mutant: the view answers and blacklists nothing.
SpentByNothing(c) == {}

\* LogoutView blacklists what the body names.
SpentBy(c) == IF call[c].logout THEN {call[c].body} ELSE {}

\* The API refuses an access token past its lifetime and serves the rest.
Serve(c) ==
  /\ call[c].state = "sent"
  /\ IF call[c].access \in expired
     THEN /\ call' = [call EXCEPT ![c].state = "refused"]
          /\ overtaken' = overtaken \cup (IF call[c].logout THEN {session[call[c].body]} ELSE {})
          /\ UNCHANGED blacklisted
     ELSE /\ call' = [call EXCEPT ![c].state = "served"]
          /\ blacklisted' = blacklisted \cup SpentBy(c)
          /\ UNCHANGED overtaken
  /\ UNCHANGED <<issued, session, expired, tab, persisted, flight, promise,
                 adrift, tangled, ended, unheard>>

\* The request ends: answered, refused for good, or failed (network, throttle, 5xx).
\* useLogout catches what went wrong, and its onSettled clears the store all the same.
Settle(c) ==
  LET s == session[call[c].body]
      failed == call[c].state # "served"
  IN /\ call[c].state \in {"sent", "served"} \/ (call[c].state = "refused" /\ call[c].retried)
     /\ call' = [call EXCEPT ![c] = Free]
     /\ IF call[c].logout
        THEN /\ tab' = [tab EXCEPT ![call[c].tab] = 0]
             /\ persisted' = 0
             /\ ended' = ended \cup {s}
             /\ unheard' = unheard \cup (IF failed THEN {s} ELSE {})
             /\ overtaken' = overtaken \cup (IF failed /\ FlightsIn(s) # {} THEN {s} ELSE {})
             /\ adrift' = adrift \cup (IF call[c].state = "sent"
                                      THEN {[pair |-> call[c].body, refresh |-> FALSE]} ELSE {})
        ELSE UNCHANGED <<tab, persisted, adrift, ended, overtaken, unheard>>
     /\ UNCHANGED <<issued, session, blacklisted, expired, flight, promise, tangled>>

\* The page is gone, with all that it was waiting for; what it had sent is on its way.
LeavePage(t) ==
  LET refreshes == FlightsOf(t)
      logouts == {c \in CallsOf(t) : call[c].logout}
  IN /\ tab' = [tab EXCEPT ![t] = 0]
     /\ promise' = [promise EXCEPT ![t] = {}]
     /\ call' = [c \in Calls |-> IF c \in CallsOf(t) THEN Free ELSE call[c]]
     /\ flight' = [c \in Calls |-> IF c \in FlightsOf(t) THEN Free ELSE flight[c]]
     /\ adrift' = adrift
          \cup {[pair |-> flight[c].pair, refresh |-> TRUE] : c \in {d \in refreshes : flight[d].state = "sent"}}
          \cup {[pair |-> call[c].body, refresh |-> FALSE] : c \in {d \in logouts : call[d].state = "sent"}}
     /\ tangled' = tangled \cup {session[flight[c].pair] : c \in refreshes}
                           \cup {session[call[c].body] : c \in logouts}

\* A tab is closed, or loaded again (OpenTab comes next): the store stays persisted.
CloseTab(t) ==
  /\ tab[t] # 0 \/ CallsOf(t) \cup FlightsOf(t) # {}
  /\ LeavePage(t)
  /\ UNCHANGED <<issued, session, blacklisted, expired, persisted, ended, overtaken, unheard>>

\* The interceptor's catch: the store is cleared, and loading /login leaves the page.
ClearAndLeave(t) == LeavePage(t) /\ persisted' = 0

\* The server comes to a request that nobody waits for; a pair it issues reaches nobody.
ServeAdrift(a) ==
  /\ a \in adrift
  /\ adrift' = adrift \ {a}
  /\ blacklisted' = blacklisted \cup {a.pair}
  /\ IF a.refresh /\ a.pair \notin blacklisted
     THEN /\ issued < MaxPairs
          /\ issued' = issued + 1
          /\ session' = [session EXCEPT ![issued + 1] = session[a.pair]]
     ELSE UNCHANGED <<issued, session>>
  /\ UNCHANGED <<expired, tab, persisted, call, flight, promise, tangled, ended, overtaken, unheard>>

\* Mutant: every refused request asks for a pair of its own.
JoinedNone(t) == {}

\* refreshPromise ?? ...
Joined(t) == promise[t]

\* A first refusal waits for the refresh in flight, or starts one.
Refresh(c) ==
  LET t == call[c].tab
  IN /\ call[c].state = "refused"
     /\ ~call[c].retried
     /\ IF Joined(t) # {}
        THEN /\ call' = [call EXCEPT ![c].state = "waiting", ![c].retried = TRUE, ![c].on = Joined(t)]
             /\ UNCHANGED <<flight, promise, tab, persisted, adrift, tangled>>
        ELSE IF tab[t] = 0
        THEN ClearAndLeave(t)
        ELSE /\ call' = [call EXCEPT ![c].state = "waiting", ![c].retried = TRUE, ![c].on = {c}]
             /\ flight' = [flight EXCEPT ![c] = [state |-> "sent", tab |-> t, pair |-> tab[t], new |-> 0]]
             /\ promise' = [promise EXCEPT ![t] = {c}]
             /\ UNCHANGED <<tab, persisted, adrift, tangled>>
     /\ UNCHANGED <<issued, session, blacklisted, expired, ended, overtaken, unheard>>

\* ROTATE_REFRESH_TOKENS and BLACKLIST_AFTER_ROTATION; the answer can be lost.
ServeRefresh(c) ==
  /\ flight[c].state = "sent"
  /\ issued < MaxPairs
  /\ flight[c].pair \notin blacklisted
  /\ issued' = issued + 1
  /\ session' = [session EXCEPT ![issued + 1] = session[flight[c].pair]]
  /\ blacklisted' = blacklisted \cup {flight[c].pair}
  /\ flight' = [flight EXCEPT ![c].state = "answered", ![c].new = issued + 1]
  /\ overtaken' = overtaken \cup (IF LogoutsOf(session[flight[c].pair]) # {}
                              THEN {session[flight[c].pair]} ELSE {})
  /\ UNCHANGED <<expired, tab, persisted, call, promise, adrift, tangled, ended, unheard>>

\* refreshAccessToken stores the pair; those who waited are sent again with it.
ReceiveRefresh(c) ==
  LET t == flight[c].tab
      n == flight[c].new
  IN /\ flight[c].state = "answered"
     /\ tab' = [tab EXCEPT ![t] = n]
     /\ persisted' = n
     /\ promise' = [promise EXCEPT ![t] = {}]
     /\ flight' = [flight EXCEPT ![c] = Free]
     /\ call' = [d \in Calls |-> IF call[d].state = "waiting" /\ c \in call[d].on
                                 THEN [call[d] EXCEPT !.state = "sent", !.access = n, !.on = {}]
                                 ELSE call[d]]
     /\ UNCHANGED <<issued, session, blacklisted, expired, adrift, tangled, ended, overtaken, unheard>>

\* The refresh is refused, or it or its answer is lost.
FailRefresh(c) ==
  /\ flight[c].state # "none"
  /\ ClearAndLeave(flight[c].tab)
  /\ UNCHANGED <<issued, session, blacklisted, expired, ended, overtaken, unheard>>

AuthNext ==
  \/ \E t \in Tabs : Login(t) \/ OpenTab(t) \/ CloseTab(t)
  \/ \E t \in Tabs, c \in Calls, logout \in BOOLEAN : Send(t, c, logout)
  \/ \E a \in adrift : ServeAdrift(a)
  \/ \E n \in 1..MaxPairs : Expire(n)
  \/ \E c \in Calls : Serve(c) \/ Settle(c) \/ Refresh(c) \/ ServeRefresh(c) \/ ReceiveRefresh(c) \/ FailRefresh(c)

AuthSpec == AuthInit /\ [][AuthNext]_authVars

(* Type invariant. *)
AuthTypeOK ==
  /\ issued \in 0..MaxPairs
  /\ session \in [1..MaxPairs -> 0..MaxPairs]
  /\ blacklisted \cup expired \subseteq 1..issued
  /\ tab \in [Tabs -> 0..issued]
  /\ persisted \in 0..issued
  /\ promise \in [Tabs -> SUBSET Calls]
  /\ adrift \subseteq [pair : 1..issued, refresh : BOOLEAN]
  /\ tangled \cup ended \cup overtaken \cup unheard \subseteq 1..issued

(* client.ts:33 "we never fire multiple refreshes at once", and why it matters
   under rotation: a tab that has a session to itself, with no refresh and no
   logout under way, holds a refresh token that still works.  A page that is loaded
   again while it refreshes reads back the token it is spending (persist stores the
   new one only when the answer comes): that session is in tangled, and is lost. *)
SessionSurvives ==
  \A t \in Tabs :
    /\ Cardinality(FlightsOf(t)) <= 1
    /\ (tab[t] # 0 /\ SessionOf(t) \notin tangled /\ FlightsOf(t) = {} /\ LogoutsOf(SessionOf(t)) = {})
         => tab[t] \notin blacklisted

(* What a logout does, of a session that one tab used and with no refresh crossing
   the logout: no tab holds the session and none can be opened on it; and when the
   server heard of the logout, no refresh token the session was ever given works.
   This is less than SECURITY.md:23 promises: a logout that failed leaves the token
   good (unheard), and one that had to wait for a refresh names a token that is
   spent (overtaken); LogoutBlacklists below is the promise. *)
LogoutEnds ==
  \A s \in ended \ (overtaken \cup tangled) :
    /\ s \notin unheard => \A n \in 1..issued : session[n] = s => n \in blacklisted
    /\ \A t \in Tabs : SessionOf(t) # s
    /\ persisted # 0 => session[persisted] # s

(* SECURITY.md:23 "refresh tokens are blacklisted on logout": once a session has been
   logged out by its only tab, and the server heard of it, no token of it works. *)
LogoutBlacklists ==
  \A s \in ended \ (tangled \cup unheard) :
    \A n \in 1..issued : session[n] = s => n \in blacklisted
=============================================================================
