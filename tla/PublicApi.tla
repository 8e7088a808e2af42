----------------------------- MODULE PublicApi ------------------------------
(***************************************************************************)
(* What the public API promises to a browser, said without its cache:      *)
(* PublicCache implements it (rest_api/app/routers/public/menu.py in front *)
(* of public_menu_service.py and cache_service.py).                        *)
(*                                                                         *)
(* The data behind one address is a sequence of versions; in some of them  *)
(* there is no branch or product.  A request that shows the data shows a   *)
(* version that was current a moment ago, and one that says 404 says what  *)
(* was true during the request.                                            *)
(***************************************************************************)
EXTENDS Naturals

CONSTANTS
    Req,         \* requests that may be under way
    Late,        \* how old an answer may be
    Keep,        \* how much older the browser may let it become
    MaxVersion

VARIABLES
    now,       \* the clock
    version,   \* the committed version
    missing,   \* versions without the branch or the product
    replaced,  \* when each older version was replaced
    asked,     \* for each request under way, when it began: {} or {time}
    shown      \* what the browser shows: {} or {version}

apiVars == <<now, version, missing, replaced, asked, shown>>

ApiInit ==
    /\ now = 0
    /\ version = 0
    /\ missing = {}
    /\ replaced = [v \in 0..MaxVersion |-> 0]
    /\ asked = [r \in Req |-> {}]
    /\ shown = {}

\* v is current, or was less than age ago.
Current(v, age) == v <= version /\ (v = version \/ now < replaced[v] + age)

\* Time passes.  The browser drops what is too old, or drops it sooner.
Pass ==
    /\ now' = now + 1
    /\ shown' \in {shown, {}}
    /\ \A v \in shown' : v = version \/ now' < replaced[v] + Late + Keep
    /\ UNCHANGED <<version, missing, replaced, asked>>

\* The data change, and with them whether the address exists.
Change ==
    /\ version < MaxVersion
    /\ version' = version + 1
    /\ replaced' = [replaced EXCEPT ![version] = now]
    /\ missing' \in {missing, missing \cup {version'}}
    /\ UNCHANGED <<now, asked, shown>>

Ask(r) ==
    /\ asked[r] = {}
    /\ asked' = [asked EXCEPT ![r] = {now}]
    /\ UNCHANGED <<now, version, missing, replaced, shown>>

\* 200: a version that existed, and not too old.
Show(r) ==
    /\ asked[r] # {}
    /\ \E v \in (0..MaxVersion) \ missing : Current(v, Late) /\ shown' = {v}
    /\ asked' = [asked EXCEPT ![r] = {}]
    /\ UNCHANGED <<now, version, missing, replaced>>

\* 404: the address did not exist at some moment since the request began.
NotFound(r) ==
    /\ \E t \in asked[r], v \in missing : v <= version /\ (v = version \/ t <= replaced[v])
    /\ asked' = [asked EXCEPT ![r] = {}]
    /\ UNCHANGED <<now, version, missing, replaced, shown>>

ApiNext ==
    \/ Pass
    \/ Change
    \/ \E r \in Req : Ask(r) \/ Show(r) \/ NotFound(r)

ApiSpec == ApiInit /\ [][ApiNext]_apiVars
=============================================================================
