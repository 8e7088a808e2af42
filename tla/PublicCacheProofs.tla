------------------------- MODULE PublicCacheProofs --------------------------
(***************************************************************************)
(* Bounded staleness of the public API cache, for every number of requests *)
(* and every ttl, max-age and build time.                                  *)
(*                                                                         *)
(* The invariants of the runs speak of the moment a request answers; the   *)
(* induction needs to know how old a version may be at each earlier stop:  *)
(* while it is read, in the key, and in the answer of a hit.               *)
(***************************************************************************)
EXTENDS PublicCache, TLAPS

\* The database has reached v, and v was current at time t or later.
SeenSince(v, t) == v <= version /\ (v = version \/ t <= replaced[v])

\* v was current less than age before t.
SeenNear(v, t, age) == v <= version /\ (v = version \/ t < replaced[v] + age)

EntryInv ==
    entry # None =>
      /\ entry.body.found
      /\ entry.until <= now + TTL
      /\ entry.body.first <= version
      /\ entry.body.first = version
           \/ entry.until <= replaced[entry.body.first] + TTL + MaxBuild

ReqInv(r) ==
    req[r].pc # "idle" =>
      /\ req[r].begun <= now /\ now <= req[r].begun + MaxBuild
      /\ req[r].pc \in {"readRest", "store"} =>
           /\ req[r].body \in Body
           /\ req[r].body.found
           /\ SeenSince(req[r].body.first, req[r].begun)
      /\ req[r].pc = "answer" =>
           /\ req[r].body \in Body
           /\ SeenNear(req[r].body.first, req[r].begun, TTL + MaxBuild)
           /\ ~req[r].body.found =>
                /\ req[r].body.first \in missing
                /\ SeenSince(req[r].body.first, req[r].begun)

ScreenInv ==
    screen # None =>
      /\ screen.until <= now + MaxAge
      /\ SeenNear(screen.body.first, screen.until, TTL + MaxBuild + MaxBuild + MaxAge)

Ages == TypeOK /\ EntryInv /\ ScreenInv /\ \A r \in Req : ReqInv(r)

USE DEF SeenSince, SeenNear

-----------------------------------------------------------------------------
LEMMA InitAges == Init => Ages
BY CacheAssumption DEF Init, Ages, TypeOK, EntryInv, ReqInv, ScreenInv, Idle, Version, PC

LEMMA TickAges == ASSUME Ages, Tick PROVE Ages'
<1> USE CacheAssumption DEF Ages, Tick, Entry, Body, Version
<1>1. TypeOK' BY DEF TypeOK
<1>2. EntryInv' BY DEF TypeOK, EntryInv
<1>3. ScreenInv' BY DEF TypeOK, ScreenInv
<1>4. ASSUME NEW r \in Req PROVE ReqInv(r)' BY DEF TypeOK, ReqInv
<1> QED BY <1>1, <1>2, <1>3, <1>4

\* The version that is replaced was current until now, which is late enough
\* for every body that carries it.
LEMMA WriteAges == ASSUME Ages, Write PROVE Ages'
<1> USE CacheAssumption DEF Ages, Write, Entry, Body, Version
<1>1. TypeOK' BY DEF TypeOK
<1>2. EntryInv' BY DEF TypeOK, EntryInv
<1>3. ScreenInv' BY DEF TypeOK, ScreenInv
<1>4. ASSUME NEW r \in Req PROVE ReqInv(r)'
  <2>1. CASE req[r].pc = "idle" BY <2>1 DEF ReqInv
  <2>2. CASE req[r].pc = "readBranch" BY <2>2 DEF ReqInv
  <2>3. CASE req[r].pc \in {"readRest", "store"} BY <2>3 DEF TypeOK, ReqInv
  <2>4. CASE req[r].pc = "answer"
    <3> DEFINE v == req[r].body.first
    <3>1. /\ req[r].begun \in Nat /\ now \in Nat /\ v \in Version
          /\ req[r].begun <= now
          /\ SeenNear(v, req[r].begun, TTL + MaxBuild)
      BY <2>4 DEF TypeOK, ReqInv
    <3>2. replaced'[v] = IF v = version THEN now ELSE replaced[v]
      BY <3>1 DEF TypeOK
    <3>3. replaced[v] \in Nat BY <3>1 DEF TypeOK
    <3>4. SeenNear(v, req[r].begun, TTL + MaxBuild)'
      BY <3>1, <3>2, <3>3 DEF TypeOK
    <3>5. ~req[r].body.found => v \in missing' /\ SeenSince(v, req[r].begun)'
      BY <2>4, <3>1, <3>2, <3>3 DEF TypeOK, ReqInv
    <3> QED BY <2>4, <3>4, <3>5 DEF ReqInv
  <2> QED BY <2>1, <2>2, <2>3, <2>4 DEF TypeOK, PC
<1> QED BY <1>1, <1>2, <1>3, <1>4

LEMMA RequestAges ==
    ASSUME Ages, NEW r \in Req, Hit(r) \/ Miss(r) \/ ReadBranch(r) \/ ReadRest(r)
    PROVE  Ages'
<1> USE CacheAssumption, NoneAssumption DEF Ages, Entry, Body, Version
<1>0. UNCHANGED <<now, version, missing, replaced, entry, screen>>
  BY DEF Hit, Miss, ReadBranch, ReadRest
<1>1. TypeOK'
  <2> SUFFICES req' \in [Req -> [pc : PC, begun : Nat, body : Body \cup {None}]]
    BY <1>0 DEF TypeOK
  <2>1. CASE Hit(r) BY <2>1 DEF TypeOK, Hit, PC, Cached
  <2>2. CASE Miss(r) BY <2>2 DEF TypeOK, Miss, PC
  <2>3. CASE ReadBranch(r) BY <2>3 DEF TypeOK, ReadBranch, AfterBuild, PC
  <2>4. CASE ReadRest(r)
    <3> DEFINE b == IF version \in missing THEN [found |-> FALSE, first |-> version]
                    ELSE req[r].body
    <3>1. b \in Body BY <2>4 DEF ReadRest, ReqInv, TypeOK
    <3>2. AfterBuild(b) \in PC BY DEF AfterBuild, PC
    <3>3. req' = [req EXCEPT ![r].body = b, ![r].pc = AfterBuild(b)]
      BY <2>4 DEF ReadRest
    <3>4. req \in [Req -> [pc : PC, begun : Nat, body : Body \cup {None}]] BY DEF TypeOK
    <3> HIDE DEF b, Ages, Body
    <3> QED BY <3>1, <3>2, <3>3, <3>4
  <2> QED BY <2>1, <2>2, <2>3, <2>4
<1>2. EntryInv' BY <1>0 DEF EntryInv
<1>3. ScreenInv' BY <1>0 DEF ScreenInv
<1>4. ASSUME NEW x \in Req PROVE ReqInv(x)'
  <2>1. CASE x # r
    <3>1. req'[x] = req[x] BY <2>1 DEF TypeOK, Hit, Miss, ReadBranch, ReadRest
    <3> QED BY <1>0, <3>1 DEF ReqInv
  <2>2. CASE x = r /\ Hit(r)
    <3>1. req'[r].pc = "answer" /\ req'[r].begun = now /\ req'[r].body = entry.body
      BY <2>2 DEF TypeOK, Hit
    <3>2. /\ entry.body \in Body /\ entry.body.found /\ entry.until \in Nat
          /\ entry # None /\ now < entry.until
      BY <2>2 DEF TypeOK, EntryInv, Hit, Cached
    <3>3. SeenNear(entry.body.first, now, TTL + MaxBuild)
      BY <3>2 DEF TypeOK, EntryInv
    <3> QED BY <1>0, <2>2, <3>1, <3>2, <3>3 DEF TypeOK, ReqInv
  <2>3. CASE x = r /\ Miss(r)
    BY <1>0, <2>3 DEF TypeOK, ReqInv, Miss
  <2>4. CASE x = r /\ ReadBranch(r)
    BY <1>0, <2>4 DEF TypeOK, ReqInv, ReadBranch, AfterBuild
  <2>5. CASE x = r /\ ReadRest(r)
    BY <1>0, <2>5 DEF TypeOK, ReqInv, ReadRest, AfterBuild
  <2> QED BY <2>1, <2>2, <2>3, <2>4, <2>5
<1> QED BY <1>1, <1>2, <1>3, <1>4

LEMMA StoreAges == ASSUME Ages, NEW r \in Req, Store(r) PROVE Ages'
<1> USE CacheAssumption, NoneAssumption DEF Ages
<1>0. UNCHANGED <<now, version, missing, replaced, screen>> BY DEF Store
<1>1. /\ req[r].body \in Body
      /\ req[r].body.found
      /\ SeenSince(req[r].body.first, req[r].begun)
      /\ req[r].begun <= now /\ now <= req[r].begun + MaxBuild
  BY DEF Store, ReqInv
<1>2. /\ req[r].begun \in Nat /\ now \in Nat /\ req[r].body.first \in Version
      /\ replaced[req[r].body.first] \in Nat
  BY <1>1 DEF TypeOK, Body
<1>3. entry' \in {entry, [body |-> req[r].body, until |-> now + TTL]}
  BY DEF Store, Expiry
<1>4. TypeOK'
  <2>1. entry' \in Entry \cup {None} BY <1>1, <1>2, <1>3 DEF TypeOK, Entry
  <2>2. req' \in [Req -> [pc : PC, begun : Nat, body : Body \cup {None}]]
    BY DEF TypeOK, Store, PC
  <2> QED BY <1>0, <2>1, <2>2 DEF TypeOK
<1>5. EntryInv'
  <2>1. CASE entry' = entry BY <1>0, <2>1 DEF EntryInv
  <2>2. CASE entry' = [body |-> req[r].body, until |-> now + TTL]
    <3> HIDE DEF Ages
    <3> QED BY <1>0, <1>1, <1>2, <2>2 DEF EntryInv
  <2> QED BY <1>3, <2>1, <2>2
<1>6. ScreenInv' BY <1>0 DEF ScreenInv
<1>7. ASSUME NEW x \in Req PROVE ReqInv(x)'
  <2>1. CASE x # r
    <3>1. req'[x] = req[x] BY <2>1 DEF TypeOK, Store
    <3> QED BY <1>0, <3>1 DEF ReqInv
  <2>2. CASE x = r
    <3>1. req'[r] = [req[r] EXCEPT !.pc = "answer"] BY DEF Store, TypeOK
    <3>2. req'[r].pc = "answer" /\ req'[r].begun = req[r].begun /\ req'[r].body = req[r].body
      BY <3>1 DEF TypeOK
    <3> HIDE DEF Ages
    <3>3. SeenNear(req[r].body.first, req[r].begun, TTL + MaxBuild)
      BY <1>1, <1>2
    <3> QED BY <1>0, <1>1, <2>2, <3>2, <3>3 DEF ReqInv
  <2> QED BY <2>1, <2>2
<1> QED BY <1>4, <1>5, <1>6, <1>7

LEMMA AnswerAges == ASSUME Ages, NEW r \in Req, Answer(r) PROVE Ages'
<1> USE CacheAssumption, NoneAssumption DEF Ages, Entry, Body, Version, Answer
<1>1. TypeOK' BY DEF TypeOK, PC, ReqInv, Idle
<1>2. EntryInv' BY DEF EntryInv
<1>3. ScreenInv'
  <2>1. CASE ~req[r].body.found BY <2>1 DEF ScreenInv
  <2>2. CASE req[r].body.found
    <3>1. screen' = [body |-> req[r].body, until |-> now + MaxAge] BY <2>2
    <3>2. /\ req[r].body.first \in Version /\ req[r].begun \in Nat
          /\ now \in Nat /\ now <= req[r].begun + MaxBuild
          /\ SeenNear(req[r].body.first, req[r].begun, TTL + MaxBuild)
      BY DEF TypeOK, ReqInv
    <3>3. replaced[req[r].body.first] \in Nat BY <3>2 DEF TypeOK
    <3>4. SeenNear(req[r].body.first, now + MaxAge, TTL + MaxBuild + MaxBuild + MaxAge)
      BY <3>2, <3>3 DEF TypeOK
    <3>5. UNCHANGED <<now, version, replaced>> OBVIOUS
    <3> HIDE DEF Ages, Answer
    <3> QED BY <3>1, <3>2, <3>4, <3>5 DEF ScreenInv
  <2> QED BY <2>1, <2>2
<1>4. ASSUME NEW x \in Req PROVE ReqInv(x)' BY DEF TypeOK, ReqInv, Idle
<1> QED BY <1>1, <1>2, <1>3, <1>4

LEMMA NextAges == ASSUME Ages, [Next]_vars PROVE Ages'
<1>1. CASE UNCHANGED vars
  BY <1>1 DEF vars, Ages, TypeOK, EntryInv, ReqInv, ScreenInv
<1> QED
  BY <1>1, TickAges, WriteAges, RequestAges, StoreAges, AnswerAges DEF Next

\* How old a version can be at every stop between the database and a screen.
THEOREM AgesInvariant == Spec => []Ages
<1>1. Init => Ages BY InitAges
<1>2. Ages /\ [Next]_vars => Ages' BY NextAges
<1> QED BY <1>1, <1>2, PTL DEF Spec

\* An answer of get_or_set shows what was committed less than the ttl and two
\* build times ago, whatever Redis failures, slow fills and writes there were.
THEOREM AnswerBoundedStaleHolds == Spec => []AnswerBoundedStale
<1>1. Ages => AnswerBoundedStale
  <2> SUFFICES ASSUME Ages, NEW r \in Req, req[r].pc = "answer"
               PROVE  CurrentWithin(req[r].body.first, TTL + MaxBuild + MaxBuild)
    BY DEF AnswerBoundedStale
  <2>1. /\ req[r].body.first \in Version /\ req[r].begun \in Nat /\ now \in Nat
        /\ now <= req[r].begun + MaxBuild
        /\ SeenNear(req[r].body.first, req[r].begun, TTL + MaxBuild)
    BY DEF Ages, TypeOK, ReqInv, Body
  <2>2. replaced[req[r].body.first] \in Nat BY <2>1 DEF Ages, TypeOK
  <2> QED BY CacheAssumption, <2>1, <2>2 DEF CurrentWithin
<1> QED BY <1>1, AgesInvariant, PTL

\* What a browser shows by the Cache-Control header is older by max-age at most.
THEOREM ScreenBoundedStaleHolds == Spec => []ScreenBoundedStale
<1>1. Ages => ScreenBoundedStale
  BY CacheAssumption DEF Ages, TypeOK, ScreenInv, ScreenBoundedStale, CurrentWithin,
     Version, Body, Entry
<1> QED BY <1>1, AgesInvariant, PTL

\* A 404 is what the database answered during the request, never a cached one.
THEOREM NotFoundIsFreshHolds == Spec => []NotFoundIsFresh
<1>1. Ages => NotFoundIsFresh
  BY DEF Ages, ReqInv, NotFoundIsFresh
<1> QED BY <1>1, AgesInvariant, PTL

\* Type correctness of the public cache.
THEOREM TypeCorrect == Spec => []TypeOK
<1>1. Ages => TypeOK BY DEF Ages
<1> QED BY <1>1, AgesInvariant, PTL

-----------------------------------------------------------------------------
(* The cache implements PublicApi.  An answer also has to show a version in *)
(* which the branch and the product were there.                             *)

There ==
    /\ entry # None => entry.body.first \notin missing
    /\ \A r \in Req : req[r].pc \in {"readRest", "store", "answer"} /\ req[r].body.found
                       => req[r].body.first \notin missing

LEMMA WriteThere == ASSUME Ages, There, Write PROVE There'
<1> USE CacheAssumption DEF Ages, Write, Version
<1>1. \A v \in Version : v <= version /\ v \notin missing => v \notin missing'
  BY DEF TypeOK
<1>2. entry # None => entry.body.first \in Version /\ entry.body.first <= version
  BY DEF TypeOK, EntryInv, Entry, Body
<1>3. ASSUME NEW r \in Req, req[r].pc \in {"readRest", "store", "answer"}
      PROVE  req[r].body.first \in Version /\ req[r].body.first <= version
  BY <1>3 DEF ReqInv, Body
<1> HIDE DEF Ages
<1> QED BY <1>1, <1>2, <1>3 DEF There

LEMMA NextThere == ASSUME Ages, There, [Next]_vars PROVE There'
<1> USE DEF There
<1>1. CASE UNCHANGED vars BY <1>1 DEF vars
<1>2. CASE Tick BY <1>2 DEF Tick
<1>3. CASE Write BY <1>3, WriteThere
<1>4. ASSUME NEW r \in Req, Hit(r) \/ Miss(r) \/ ReadBranch(r) \/ ReadRest(r) \/ Store(r) \/ Answer(r)
      PROVE  There'
  <2>0. UNCHANGED missing
    BY <1>4 DEF Hit, Miss, ReadBranch, ReadRest, Store, Answer
  <2>1. req \in [Req -> [pc : PC, begun : Nat, body : Body \cup {None}]] BY DEF Ages, TypeOK
  <2>2. CASE Hit(r) BY <2>0, <2>1, <2>2 DEF Hit, Cached
  <2>3. CASE Miss(r) BY <2>0, <2>1, <2>3 DEF Miss
  <2>4. CASE ReadBranch(r) BY <2>0, <2>1, <2>4 DEF ReadBranch, AfterBuild
  <2>5. CASE ReadRest(r) BY <2>0, <2>1, <2>5 DEF ReadRest, AfterBuild
  <2>6. CASE Store(r)
    <3>1. req[r].body.found /\ req[r].body.first \notin missing
      BY <2>6 DEF Store, Ages, ReqInv
    <3>2. entry' \in {entry, [body |-> req[r].body, until |-> Expiry]}
      BY <2>6 DEF Store
    <3>3. req' = [req EXCEPT ![r].pc = "answer"] BY <2>6 DEF Store
    <3> QED BY <2>0, <2>1, <3>1, <3>2, <3>3
  <2>7. CASE Answer(r) BY <2>0, <2>1, <2>7 DEF Answer, Idle
  <2> QED BY <1>4, <2>2, <2>3, <2>4, <2>5, <2>6, <2>7
<1> QED BY <1>1, <1>2, <1>3, <1>4 DEF Next

LEMMA InitApi == Init => Api!ApiInit
BY DEF Init, Api!ApiInit, Asked, Shown, Idle, Version

\* The request x of another slot goes on being asked since the same time.
LEMMA AskedAt ==
    ASSUME NEW r \in Req, req \in [Req -> [pc : PC, begun : Nat, body : Body \cup {None}]],
           NEW q, req' = [req EXCEPT ![r] = q]
    PROVE  Asked' = [Asked EXCEPT ![r] = IF q.pc = "idle" THEN {} ELSE {q.begun}]
BY DEF Asked

LEMMA TickApi == ASSUME Ages, Ages', Tick PROVE Api!Pass
<1> USE CacheAssumption DEF Tick
<1>1. now' = now + 1 /\ UNCHANGED <<version, missing, replaced, Asked>> BY DEF Asked
<1>2. Shown' \in {Shown, {}} BY DEF Shown, Ages, TypeOK, Entry
<1>3. ASSUME NEW v \in Shown'
      PROVE  v = version \/ now' < replaced[v] + (TTL + MaxBuild + MaxBuild) + MaxAge
  <2>1. screen # None /\ v = screen.body.first /\ now + 1 < screen.until BY <1>3 DEF Shown
  <2>2. v \in Version /\ screen.until \in Nat /\ now \in Nat /\ replaced[v] \in Nat
    BY <2>1 DEF Ages, TypeOK, Entry, Body
  <2>3. v = version \/ screen.until < replaced[v] + (TTL + MaxBuild + MaxBuild + MaxAge)
    BY <2>1 DEF Ages, ScreenInv
  <2> QED BY <2>1, <2>2, <2>3
<1> QED BY <1>1, <1>2, <1>3 DEF Api!Pass

LEMMA WriteApi == ASSUME Ages, Write PROVE Api!Change
BY DEF Write, Api!Change, Asked, Shown

LEMMA AskedNow ==
    ASSUME Ages, NEW r \in Req, Hit(r) \/ Miss(r)
    PROVE  Asked' = [Asked EXCEPT ![r] = {now}]
<1>0. req \in [Req -> [pc : PC, begun : Nat, body : Body \cup {None}]] BY DEF Ages, TypeOK
<1>1. CASE Hit(r)
  <2> DEFINE q == [pc |-> "answer", begun |-> now, body |-> entry.body]
  <2>1. req' = [req EXCEPT ![r] = q] BY <1>1 DEF Hit
  <2>2. q.pc # "idle" /\ q.begun = now OBVIOUS
  <2> HIDE DEF q
  <2>3. Asked' = [Asked EXCEPT ![r] = IF q.pc = "idle" THEN {} ELSE {q.begun}]
    BY <1>0, <2>1, AskedAt
  <2> QED BY <2>2, <2>3
<1>2. CASE Miss(r)
  <2> DEFINE q == [pc |-> "readBranch", begun |-> now, body |-> None]
  <2>1. req' = [req EXCEPT ![r] = q] BY <1>2 DEF Miss
  <2>2. q.pc # "idle" /\ q.begun = now OBVIOUS
  <2> HIDE DEF q
  <2>3. Asked' = [Asked EXCEPT ![r] = IF q.pc = "idle" THEN {} ELSE {q.begun}]
    BY <1>0, <2>1, AskedAt
  <2> QED BY <2>2, <2>3
<1> QED BY <1>1, <1>2

LEMMA AskApi == ASSUME Ages, NEW r \in Req, Hit(r) \/ Miss(r) PROVE Api!Ask(r)
<1>1. Asked' = [Asked EXCEPT ![r] = {now}] BY AskedNow
<1>2. Asked[r] = {} BY DEF Asked, Hit, Miss
<1>3. UNCHANGED <<now, version, missing, replaced, screen>> BY DEF Hit, Miss
<1> QED BY <1>1, <1>2, <1>3 DEF Api!Ask, Shown

\* Reading and storing cannot be seen.
LEMMA HiddenApi ==
    ASSUME Ages, NEW r \in Req, ReadBranch(r) \/ ReadRest(r) \/ Store(r)
    PROVE  UNCHANGED <<now, version, missing, replaced, Asked, Shown>>
<1>1. UNCHANGED <<now, version, missing, replaced, screen>> BY DEF ReadBranch, ReadRest, Store
<1>2. \A x \in Req : req'[x].begun = req[x].begun /\ (req'[x].pc = "idle" <=> req[x].pc = "idle")
  BY DEF ReadBranch, ReadRest, Store, AfterBuild, Ages, TypeOK
<1> QED BY <1>1, <1>2 DEF Asked, Shown

LEMMA AnswerApi ==
    ASSUME Ages, There, NEW r \in Req, Answer(r)
    PROVE  Api!Show(r) \/ Api!NotFound(r)
<1> DEFINE v == req[r].body.first
<1>1. Asked[r] = {req[r].begun} BY DEF Asked, Answer
<1>2. Asked' = [Asked EXCEPT ![r] = {}]
  <2>1. req \in [Req -> [pc : PC, begun : Nat, body : Body \cup {None}]] BY DEF Ages, TypeOK
  <2>2. req' = [req EXCEPT ![r] = Idle] BY DEF Answer
  <2>3. Asked' = [Asked EXCEPT ![r] = IF Idle.pc = "idle" THEN {} ELSE {Idle.begun}]
    BY <2>1, <2>2, AskedAt
  <2> QED BY <2>3 DEF Idle
<1>3. UNCHANGED <<now, version, missing, replaced>> BY DEF Answer
<1>4. /\ v \in Version /\ req[r].begun \in Nat /\ now \in Nat
      /\ now <= req[r].begun + MaxBuild
      /\ SeenNear(v, req[r].begun, TTL + MaxBuild)
  BY DEF Answer, Ages, TypeOK, ReqInv, Body
<1>5. replaced[v] \in Nat BY <1>4 DEF Ages, TypeOK
<1>6. CASE req[r].body.found
  <2>1. v \notin missing BY <1>6 DEF There, Answer
  <2>2. screen' = [body |-> req[r].body, until |-> now + MaxAge] BY <1>6 DEF Answer
  <2>3. screen' # None
    <3>1. screen' \in Entry BY <2>2, <1>4, CacheAssumption DEF Entry, Answer, Ages, ReqInv
    <3> QED BY <3>1, NoneAssumption
  <2>4. Shown' = {v} BY <1>3, <1>4, <2>2, <2>3, CacheAssumption DEF Shown
  <2>5. Api!Current(v, TTL + MaxBuild + MaxBuild)
    BY <1>4, <1>5, CacheAssumption DEF Api!Current
  <2> HIDE DEF v
  <2> QED BY <1>1, <1>2, <1>3, <1>4, <2>1, <2>4, <2>5 DEF Api!Show, Version
<1>7. CASE ~req[r].body.found
  <2>1. v \in missing /\ SeenSince(v, req[r].begun) BY <1>7 DEF Answer, Ages, ReqInv
  <2>2. screen' = screen BY <1>7 DEF Answer
  <2>3. Shown' = Shown BY <1>3, <2>2 DEF Shown
  <2> HIDE DEF v
  <2> QED BY <1>1, <1>2, <1>3, <2>1, <2>3 DEF Api!NotFound
<1> QED BY <1>6, <1>7

LEMMA NextApi == ASSUME Ages, Ages', There, [Next]_vars PROVE [Api!ApiNext]_(Api!apiVars)
<1>1. CASE UNCHANGED vars BY <1>1 DEF vars, Api!apiVars, Asked, Shown
<1>2. CASE Tick BY <1>2, TickApi DEF Api!ApiNext
<1>3. CASE Write BY <1>3, WriteApi DEF Api!ApiNext
<1>4. ASSUME NEW r \in Req, Hit(r) \/ Miss(r) PROVE Api!ApiNext
  BY <1>4, AskApi DEF Api!ApiNext
<1>5. ASSUME NEW r \in Req, ReadBranch(r) \/ ReadRest(r) \/ Store(r) PROVE UNCHANGED Api!apiVars
  BY <1>5, HiddenApi DEF Api!apiVars
<1>6. ASSUME NEW r \in Req, Answer(r) PROVE Api!ApiNext
  BY <1>6, AnswerApi DEF Api!ApiNext
<1> QED BY <1>1, <1>2, <1>3, <1>4, <1>5, <1>6 DEF Next

\* From outside, the cache is an API that answers with a state a bounded time
\* old in which the branch and the product were there, or with a true 404.
THEOREM ImplementsApiHolds == Spec => ImplementsApi
<1>1. Init => There BY DEF Init, There, Idle
<1>2. Ages /\ There /\ [Next]_vars => There' BY NextThere
<1>3. Spec => []There BY <1>1, <1>2, AgesInvariant, PTL DEF Spec
<1>4. Ages /\ Ages' /\ There /\ [Next]_vars => [Api!ApiNext]_(Api!apiVars) BY NextApi
<1> QED BY <1>3, <1>4, InitApi, AgesInvariant, PTL DEF Spec, ImplementsApi, Api!ApiSpec
=============================================================================
