---------------------------- MODULE PublicCache ----------------------------
(***************************************************************************)
(* One key of the public API cache: PublicMenuService of                   *)
(* rest_api/app/services/domain/public_menu_service.py builds a response   *)
(* by several SELECTs, CacheService.get_or_set of cache_service.py keeps   *)
(* it in Redis for ttl seconds, and the router lets the browser keep it    *)
(* for another max-age.  The keys do not interact, so one is enough.       *)
(*                                                                         *)
(* What the SELECTs of the key can see is a sequence of versions: every    *)
(* committed write of the dashboard services that touches the response     *)
(* makes a new one, and none of them touches Redis.  A response carries    *)
(* the version of its oldest part.  For some versions the branch or the    *)
(* product is not there and the factory raises NotFoundError.              *)
(***************************************************************************)
EXTENDS Naturals

CONSTANTS
    Req,         \* request slots
    None,
    TTL,         \* ttl of get_or_set, in ticks of the clock
    MaxAge,      \* max-age of the Cache-Control header, in ticks
    MaxBuild,    \* assumption: a request is answered within so many ticks
    MaxVersion,  \* bound on the writes
    MaxTime      \* bound: the clock stops here

ASSUME CacheAssumption ==
    /\ TTL \in Nat \ {0} /\ MaxAge \in Nat \ {0}
    /\ MaxBuild \in Nat /\ MaxVersion \in Nat /\ MaxTime \in Nat

Version == 0..MaxVersion
Body    == [found : BOOLEAN, first : Version]
Entry   == [body : Body, until : Nat]

ASSUME NoneAssumption == None \notin Entry /\ None \notin Body

VARIABLES
    now,       \* the clock of Redis and of the browser
    version,   \* the committed version
    missing,   \* versions for which the factory raises NotFoundError
    replaced,  \* history: when each older version was replaced
    entry,     \* the Redis key: None, or a body and when it expires
    req,       \* what each request slot is doing
    screen     \* the last 200 answer, as a browser keeps it

vars == <<now, version, missing, replaced, entry, req, screen>>

PC == {"idle", "readBranch", "readRest", "store", "answer"}

Idle == [pc |-> "idle", begun |-> 0, body |-> None]

\* Redis still has the key.
Cached == entry # None /\ now < entry.until

SetWithoutTTL == None

TTLTwice == now + 2 * TTL

\* SETEX with the ttl: when the key will expire.
Expiry == now + TTL

AnswerOrStore(b) == "store"

\* NotFoundError leaves get_or_set before the SETEX.
AfterBuild(b) == IF b.found THEN "store" ELSE "answer"

Init ==
    /\ now = 0
    /\ version = 0
    /\ missing = {}
    /\ replaced = [v \in Version |-> 0]
    /\ entry = None
    /\ req = [r \in Req |-> Idle]
    /\ screen = None

Tick ==
    /\ now < MaxTime
    /\ \A r \in Req : req[r].pc # "idle" => now < req[r].begun + MaxBuild
    /\ now' = now + 1
    /\ UNCHANGED <<version, missing, replaced, entry, req, screen>>

\* A write of the dashboard services commits; afterwards the branch or the
\* product of the key is there or is not.
Write ==
    /\ version < MaxVersion
    /\ version' = version + 1
    /\ replaced' = [replaced EXCEPT ![version] = now]
    /\ missing' \in {missing, missing \cup {version + 1}}
    /\ UNCHANGED <<now, entry, req, screen>>

-----------------------------------------------------------------------------
(* get_or_set *)

Hit(r) ==
    /\ req[r].pc = "idle"
    /\ Cached
    /\ req' = [req EXCEPT ![r] = [pc |-> "answer", begun |-> now, body |-> entry.body]]
    /\ UNCHANGED <<now, version, missing, replaced, entry, screen>>

\* The key is not there, or the GET fails and the call falls through.
Miss(r) ==
    /\ req[r].pc = "idle"
    /\ req' = [req EXCEPT ![r] = [pc |-> "readBranch", begun |-> now, body |-> None]]
    /\ UNCHANGED <<now, version, missing, replaced, entry, screen>>

\* The first SELECT of the factory: _get_branch_by_slug, _get_tenant_by_slug.
ReadBranch(r) ==
    /\ req[r].pc = "readBranch"
    /\ LET b == [found |-> version \notin missing, first |-> version]
       IN req' = [req EXCEPT ![r].body = b,
                             ![r].pc = IF b.found THEN "readRest" ELSE AfterBuild(b)]
    /\ UNCHANGED <<now, version, missing, replaced, entry, screen>>

\* The SELECTs that follow: get_product raises when the product is not there.
ReadRest(r) ==
    /\ req[r].pc = "readRest"
    /\ LET b == IF version \in missing THEN [found |-> FALSE, first |-> version]
                ELSE req[r].body
       IN req' = [req EXCEPT ![r].body = b, ![r].pc = AfterBuild(b)]
    /\ UNCHANGED <<now, version, missing, replaced, entry, screen>>

\* SETEX, or its failure, which is logged only.
Store(r) ==
    /\ req[r].pc = "store"
    /\ \/ entry' = [body |-> req[r].body, until |-> Expiry]
       \/ UNCHANGED entry
    /\ req' = [req EXCEPT ![r].pc = "answer"]
    /\ UNCHANGED <<now, version, missing, replaced, screen>>

Answer(r) ==
    /\ req[r].pc = "answer"
    /\ screen' = IF req[r].body.found THEN [body |-> req[r].body, until |-> now + MaxAge]
                 ELSE screen
    /\ req' = [req EXCEPT ![r] = Idle]
    /\ UNCHANGED <<now, version, missing, replaced, entry>>

Next ==
    \/ Tick
    \/ Write
    \/ \E r \in Req : \/ Hit(r)
                      \/ Miss(r)
                      \/ ReadBranch(r)
                      \/ ReadRest(r)
                      \/ Store(r)
                      \/ Answer(r)

Spec == Init /\ [][Next]_vars

-----------------------------------------------------------------------------
(* Properties *)

TypeOK ==
    /\ now \in Nat
    /\ version \in Version
    /\ missing \subseteq Version
    /\ replaced \in [Version -> Nat]
    /\ entry \in Entry \cup {None}
    /\ req \in [Req -> [pc : PC, begun : Nat, body : Body \cup {None}]]
    /\ screen \in Entry \cup {None}

\* v was the committed version less than age ago.
CurrentWithin(v, age) == v = version \/ now < replaced[v] + age

\* What an answer shows was true no longer ago than the ttl, the time its
\* filling took and the time the answering itself took.
AnswerBoundedStale ==
    \A r \in Req :
      req[r].pc = "answer" => CurrentWithin(req[r].body.first, TTL + MaxBuild + MaxBuild)

\* What a browser may still show is older by its max-age at most: a change
\* nobody invalidates is on every screen after ttl + max-age and two builds.
ScreenBoundedStale ==
    screen # None /\ now < screen.until
      => CurrentWithin(screen.body.first, TTL + MaxBuild + MaxBuild + MaxAge)

\* A 404 is never cached: it answers what the database said during the request,
\* so a branch or product that is back is found by the next request.
NotFoundIsFresh ==
    \A r \in Req :
      req[r].pc = "answer" /\ ~req[r].body.found
        => LET v == req[r].body.first
           IN v \in missing /\ (v = version \/ req[r].begun <= replaced[v])

-----------------------------------------------------------------------------
(* The promise of the public API, without the cache *)

\* For each request under way, when it began.
Asked == [r \in Req |-> IF req[r].pc = "idle" THEN {} ELSE {req[r].begun}]

\* The version on the screen, as long as the browser may show it.
Shown == IF screen # None /\ now < screen.until THEN {screen.body.first} ELSE {}

Api == INSTANCE PublicApi WITH
    Late  <- TTL + MaxBuild + MaxBuild,
    Keep  <- MaxAge,
    asked <- Asked,
    shown <- Shown

\* Hits, slow fills that overwrite newer answers and failing Redis calls cannot
\* be told apart, from outside, from an API that now and then answers with a
\* state a bounded time old, never with one in which the branch or the product
\* was not there, and says 404 only of what was so during the request.
ImplementsApi == Api!ApiSpec
=============================================================================
