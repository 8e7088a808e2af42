--------------------------- MODULE SessionClient ---------------------------
(***************************************************************************)
(* The session of the dashboard: the 401 interceptor of                    *)
(* dashboard/src/services/api-client.ts and the store of auth.store.ts, in *)
(* several tabs of one browser, against the refresh and logout routes.     *)
(*                                                                         *)
(* The tabs share the refresh cookie and localStorage; token, timer, queue *)
(* and isRefreshing are in the memory of each.  As in AuthTokens, one      *)
(* member of Token is an access and a refresh token minted together.  The  *)
(* back end handles one request at a time here; its own races are those of *)
(* AuthTokens.  JavaScript runs a handler up to its next await, so a step  *)
(* is what happens between two of them.                                    *)
(*                                                                         *)
(* A call can be answered 401 at any time: its token may have expired, and *)
(* the blacklist check answers 401 when Redis does not.  A refresh that is *)
(* not answered at all (network, 5xx) is a failed one.                     *)
(***************************************************************************)
EXTENDS Naturals, FiniteSets

CONSTANTS
    Tab,     \* tabs of one browser, one user
    Call,    \* calls through apiClient; each is made once
    Token,   \* bound: the token pairs the back end can mint
    None

ASSUME NoneAssumption == None \notin Tab \cup Token
ASSUME SlotAssumption == Tab \cap Call = {}
ASSUME CallAssumption == IsFiniteSet(Call)

VARIABLES
    token,       \* per tab: the access token in the store
    timer,       \* per tab: is refreshTimeoutId a running timeout
    profile,     \* per tab: has login set a token and is waiting for getMe
    refreshing,  \* per tab: isRefreshing
    call,        \* what each call is doing
    flight,      \* the POST /auth/refresh of each call and of each tab's timer
    told,        \* per tab: LOGOUT messages not yet delivered
    stored,      \* the token in localStorage
    cookie,      \* the refresh token in the cookie jar
    leaving,     \* access tokens of POST /auth/logout requests on their way
    live, family,  \* refresh_tokens: rows without revoked_at; family_id, None if no row
    excused      \* history: why the cookie may have stopped working

client == <<token, timer, profile, refreshing, call, flight, told, stored>>
server == <<live, family>>
vars   == <<client, cookie, leaving, server, excused>>

Slot == Call \cup Tab

NoFlight == [pc |-> "idle", tok |-> None]
NewCall  == [pc |-> "new", tab |-> None, retry |-> FALSE, sends |-> 0]
Done     == [NewCall EXCEPT !.pc = "done"]

-----------------------------------------------------------------------------
(* The store and the interceptor *)

TabOf(s)    == IF s \in Tab THEN s ELSE call[s].tab
Minted      == {n \in Token : family[n] # None}
InFlight    == {s \in Slot : flight[s].pc # "idle"}
Queued(t)   == {c \in Call : call[c].pc = "queued" /\ call[c].tab = t}

RetryAllowedAlways(c) == TRUE

\* 401 and not originalRequest._retry
MayRefresh(c) == ~call[c].retry

\* The cookie goes with the request; two requests that overlap present the same.
SendRefresh(s) ==
    /\ flight' = [flight EXCEPT ![s] = [pc |-> "sent", tok |-> cookie]]
    /\ excused' = (excused \/ InFlight # {})

LeaveQueued(t, leader) ==
    [c \in Call |-> IF c = leader THEN [call[c] EXCEPT !.pc = "sent", !.sends = @ + 1]
                    ELSE call[c]]

\* processQueue and the retry of the call that led the refresh.
Resend(t, leader) ==
    [c \in Call |-> IF c = leader \/ c \in Queued(t)
                    THEN [call[c] EXCEPT !.pc = "sent", !.sends = @ + 1]
                    ELSE call[c]]

\* The end of a refresh: only the interceptor waits for it.
Resume(s) ==
    IF s \in Call
    THEN /\ call' = Resend(TabOf(s), s)
         /\ refreshing' = [refreshing EXCEPT ![TabOf(s)] = FALSE]
    ELSE UNCHANGED <<call, refreshing>>

\* logout(): the timer stops, the state is cleared, the other tabs are told,
\* and the back end too when there is a token to tell it with.
LogOut(t) ==
    /\ timer' = [timer EXCEPT ![t] = FALSE]
    /\ leaving' = leaving \cup ({token[t]} \ {None})
    /\ token' = [token EXCEPT ![t] = None]
    /\ stored' = None
    /\ told' = [x \in Tab |-> IF x = t THEN told[x] ELSE told[x] + 1]

TimerKept(t, tok) == timer[t]

\* _scheduleRefresh: the running timer is replaced; none without expiresAt.
Scheduled(t, tok) == tok # None

CookieKept(new) == cookie

\* _set_refresh_cookie on the answer of the refresh route.
CookieSet(new) == new

-----------------------------------------------------------------------------
Init ==
    /\ token = [t \in Tab |-> None]
    /\ timer = [t \in Tab |-> FALSE]
    /\ profile = [t \in Tab |-> FALSE]
    /\ refreshing = [t \in Tab |-> FALSE]
    /\ call = [c \in Call |-> NewCall]
    /\ flight = [s \in Slot |-> NoFlight]
    /\ told = [t \in Tab |-> 0]
    /\ stored = None
    /\ cookie = None
    /\ leaving = {}
    /\ live = {}
    /\ family = [n \in Token |-> None]
    /\ excused = FALSE

-----------------------------------------------------------------------------
(* login *)

MintUnrecorded(n, f) == n \in Token \ Minted /\ UNCHANGED family

\* A new row of the family f.
Mint(n, f) ==
    /\ n \in Token \ Minted
    /\ family' = [family EXCEPT ![n] = f]

Login(t, n) ==
    /\ token[t] = None
    /\ ~profile[t]
    /\ Mint(n, n)
    /\ live' = live \cup {n}
    /\ cookie' = n
    /\ token' = [token EXCEPT ![t] = n]
    /\ stored' = n
    /\ profile' = [profile EXCEPT ![t] = TRUE]
    /\ excused' = (leaving # {} \/ InFlight # {})
    /\ UNCHANGED <<timer, refreshing, call, flight, told, leaving>>

\* getMe has failed, or answered, which saves the state; the token may be gone.
ProfileAnswer(t) ==
    /\ profile[t]
    /\ profile' = [profile EXCEPT ![t] = FALSE]
    /\ UNCHANGED token
    /\ stored' \in {stored, token[t]}
    /\ timer' = [timer EXCEPT ![t] = Scheduled(t, token[t])]
    /\ UNCHANGED <<refreshing, call, flight, told, cookie, leaving, server, excused>>

-----------------------------------------------------------------------------
(* Calls *)

StartCall(t, c) ==
    /\ token[t] # None
    /\ call[c].pc = "new"
    /\ call' = [call EXCEPT ![c] = [NewCall EXCEPT !.pc = "sent", !.tab = t, !.sends = 1]]
    /\ UNCHANGED <<token, timer, profile, refreshing, flight, told, stored,
                   cookie, leaving, server, excused>>

\* Any answer but a 401, or a 401 to a call that was retried already.
CallSettles(c) ==
    /\ call[c].pc = "sent"
    /\ call' = [call EXCEPT ![c] = Done]
    /\ UNCHANGED <<token, timer, profile, refreshing, flight, told, stored,
                   cookie, leaving, server, excused>>

\* A 401 while another call of the tab is refreshing.
CallQueues(c) ==
    /\ call[c].pc = "sent"
    /\ MayRefresh(c)
    /\ refreshing[call[c].tab]
    /\ call' = [call EXCEPT ![c].pc = "queued"]
    /\ UNCHANGED <<token, timer, profile, refreshing, flight, told, stored,
                   cookie, leaving, server, excused>>

\* A 401 otherwise: this call leads a refresh.
CallRefreshes(c) ==
    /\ call[c].pc = "sent"
    /\ MayRefresh(c)
    /\ ~refreshing[call[c].tab]
    /\ call' = [call EXCEPT ![c].pc = "refreshing", ![c].retry = TRUE]
    /\ refreshing' = [refreshing EXCEPT ![call[c].tab] = TRUE]
    /\ SendRefresh(c)
    /\ UNCHANGED <<token, timer, profile, told, stored, cookie, leaving, server>>

\* The timeout of _scheduleRefresh.  Bound: one refresh of a tab's timer at a time.
TimerFires(t) ==
    /\ timer[t]
    /\ flight[t].pc = "idle"
    /\ timer' = [timer EXCEPT ![t] = FALSE]
    /\ SendRefresh(t)
    /\ UNCHANGED <<token, profile, refreshing, call, told, stored, cookie, leaving, server>>

-----------------------------------------------------------------------------
(* POST /auth/refresh at the back end *)

Arrives(s, new) ==
    /\ flight[s].pc = "sent"
    /\ flight' = [flight EXCEPT ![s] = [pc |-> "answered", tok |-> new]]
    /\ UNCHANGED <<token, timer, profile, refreshing, call, told, stored, cookie, leaving>>

\* The presented row is live: it is revoked and a new pair minted.
Rotates(s, n) ==
    /\ flight[s].tok \in live
    /\ Arrives(s, n)
    /\ Mint(n, family[flight[s].tok])
    /\ live' = (live \ {flight[s].tok}) \cup {n}
    /\ UNCHANGED excused

\* The presented row is revoked: reuse, its family is revoked.
Reuses(s) ==
    /\ flight[s].tok \in Minted \ live
    /\ Arrives(s, None)
    /\ live' = {x \in live : family[x] # family[flight[s].tok]}
    /\ UNCHANGED <<family, excused>>

-----------------------------------------------------------------------------
(* refreshAuth after its await *)

RefreshSucceeds(s) ==
    /\ flight[s].pc = "answered"
    /\ flight[s].tok # None
    /\ flight' = [flight EXCEPT ![s] = NoFlight]
    /\ cookie' = CookieSet(flight[s].tok)
    /\ token' = [token EXCEPT ![TabOf(s)] = flight[s].tok]
    /\ stored' = flight[s].tok
    /\ timer' = [timer EXCEPT ![TabOf(s)] = Scheduled(TabOf(s), flight[s].tok)]
    /\ Resume(s)
    /\ UNCHANGED <<profile, told, leaving, server, excused>>

\* The back end refused, there was no cookie, the request did not get there or
\* its answer was lost.  The error is swallowed after logout(), so that the
\* interceptor goes on as after a success: its catch block is never entered.
RefreshFails(s) ==
    /\ flight[s].pc # "idle"
    /\ flight' = [flight EXCEPT ![s] = NoFlight]
    /\ LogOut(TabOf(s))
    /\ Resume(s)
    /\ excused' = TRUE
    /\ UNCHANGED <<profile, cookie, server>>

-----------------------------------------------------------------------------
(* logout *)

UserLogsOut(t) ==
    /\ token[t] # None
    /\ LogOut(t)
    /\ excused' = TRUE
    /\ UNCHANGED <<profile, refreshing, call, flight, cookie, server>>

\* POST /auth/logout: every row of the user is revoked and the answer deletes
\* the cookie, or it is refused or lost and nothing happens.
LogoutServed(n) ==
    /\ n \in leaving
    /\ leaving' = leaving \ {n}
    /\ \/ live' = {} /\ cookie' = None
       \/ UNCHANGED <<live, cookie>>
    /\ UNCHANGED <<client, family, excused>>

\* The LOGOUT message of another tab.
Told(t) ==
    /\ told[t] > 0
    /\ told' = [told EXCEPT ![t] = @ - 1]
    /\ timer' = [timer EXCEPT ![t] = FALSE]
    /\ token' = [token EXCEPT ![t] = None]
    /\ stored' = None
    /\ UNCHANGED <<profile, refreshing, call, flight, cookie, leaving, server, excused>>

-----------------------------------------------------------------------------
(* A tab is reloaded: its memory is gone, calls and answers with it, and     *)
(* onRehydrateStorage starts from localStorage.  Bound: a refresh request of *)
(* the tab has reached the back end by then.                                 *)

Reload(t) ==
    /\ \A s \in InFlight : TabOf(s) = t => flight[s].pc = "answered"
    /\ call' = [c \in Call |-> IF call[c].tab = t THEN Done ELSE call[c]]
    /\ refreshing' = [refreshing EXCEPT ![t] = FALSE]
    /\ profile' = [profile EXCEPT ![t] = FALSE]
    /\ told' = [told EXCEPT ![t] = 0]
    /\ token' = [token EXCEPT ![t] = stored]
    /\ LET left == [s \in Slot |-> IF TabOf(s) = t THEN NoFlight ELSE flight[s]]
           cut  == \E s \in InFlight : TabOf(s) = t
           more == \E s \in InFlight : TabOf(s) # t
       IN \* expiresAt is far enough, or there is no token
          \/ /\ timer' = [timer EXCEPT ![t] = stored # None]
             /\ flight' = left
             /\ excused' = (excused \/ cut)
          \* it is near or past: refresh at once
          \/ /\ stored # None
             /\ timer' = [timer EXCEPT ![t] = FALSE]
             /\ flight' = [left EXCEPT ![t] = [pc |-> "sent", tok |-> cookie]]
             /\ excused' = (excused \/ cut \/ more)
    /\ UNCHANGED <<stored, cookie, leaving, server>>

-----------------------------------------------------------------------------
Backend(s) ==
    \/ \E n \in Token : Rotates(s, n)
    \/ Reuses(s)

Answered(s) == RefreshSucceeds(s) \/ RefreshFails(s)

CallAnswered(c) == CallSettles(c) \/ CallQueues(c) \/ CallRefreshes(c)

Next ==
    \/ \E t \in Tab : \/ \E n \in Token : Login(t, n)
                      \/ \E c \in Call : StartCall(t, c)
                      \/ ProfileAnswer(t)
                      \/ TimerFires(t)
                      \/ UserLogsOut(t)
                      \/ Told(t)
                      \/ Reload(t)
    \/ \E s \in Slot : Backend(s) \/ Answered(s)
    \/ \E c \in Call : CallAnswered(c)
    \/ \E n \in Token : LogoutServed(n)

Spec == Init /\ [][Next]_vars

\* Every request over the network is answered or fails.
Fairness ==
    /\ \A s \in Slot : WF_vars(Answered(s))
    /\ \A c \in Call : WF_vars(CallAnswered(c))

FairSpec == Spec /\ Fairness

-----------------------------------------------------------------------------
(* Properties *)

TypeOK ==
    /\ token \in [Tab -> Token \cup {None}]
    /\ timer \in [Tab -> BOOLEAN]
    /\ profile \in [Tab -> BOOLEAN]
    /\ refreshing \in [Tab -> BOOLEAN]
    /\ call \in [Call -> [pc : {"new", "sent", "queued", "refreshing", "done"},
                          tab : Tab \cup {None}, retry : BOOLEAN, sends : Nat]]
    /\ flight \in [Slot -> [pc : {"idle", "sent", "answered"}, tok : Token \cup {None}]]
    /\ told \in [Tab -> Nat]
    /\ {stored, cookie} \subseteq Token \cup {None}
    /\ leaving \subseteq Token
    /\ live \subseteq Minted
    /\ family \in [Token -> Token \cup {None}]
    /\ excused \in BOOLEAN

\* A call waits in failedQueue only while a call of its tab has a refresh on
\* its way, whose end resends all of them: none is left behind.
QueueIsDrained ==
    \A c \in Call : call[c].pc = "queued" =>
      \E lead \in Call : /\ call[lead].pc = "refreshing"
                         /\ call[lead].tab = call[c].tab
                         /\ flight[lead].pc # "idle"

\* A tab with a token has something under way that will renew it: a timer, a
\* refresh, or the profile request that login schedules the timer after.
SessionIsKept ==
    \A t \in Tab : token[t] # None =>
      timer[t] \/ profile[t] \/ \E s \in InFlight : TabOf(s) = t

\* However many refreshes fail, a call is sent again at most once for each call
\* that leads a refresh: the retries of a burst end.
ResendsBounded == \A c \in Call : call[c].sends <= 1 + Cardinality(Call)

\* The cookie works, or its successor is on the way, as long as refreshes did
\* not overlap, no answer was lost and nobody logged out since the login.
CookieWorks ==
    cookie # None /\ ~excused =>
      \/ cookie \in live
      \/ \E s \in InFlight : flight[s].pc = "answered" /\ flight[s].tok \in live

\* Every burst of calls comes to an end, also when all of them are refused.
EveryBurstSettles == []<>(\A c \in Call : call[c].pc \in {"new", "done"})

\* On a 401 the dashboard attempts one refresh and goes to the login page when
\* that fails: a call that has waited for a refresh does not start another.
OneRefreshPerCall ==
    [][\A c \in Call : call[c].pc # "refreshing" /\ call'[c].pc = "refreshing"
         => call[c].sends = 1]_vars
=============================================================================
