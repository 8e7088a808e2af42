----------------------------- MODULE AuthTokens -----------------------------
(***************************************************************************)
(* Token sessions of the back end: rest_api/app/services/auth_service.py   *)
(* with the routes of rest_api/app/routers/auth/routes.py, the Redis       *)
(* blacklist of shared/security/blacklist.py and get_current_user of       *)
(* rest_api/app/dependencies/__init__.py.                                  *)
(*                                                                         *)
(* login and refresh both mint one access and one refresh JWT at the same  *)
(* moment, so one member of Token names the pair.  status is the           *)
(* refresh_tokens row of the pair; a family is named by the token of the   *)
(* login that founded it (family_id is a fresh uuid4).  Every request      *)
(* runs in a database session of its own at READ COMMITTED: a SELECT sees  *)
(* committed rows, an UPDATE locks the rows it writes until its            *)
(* transaction ends, and what was not committed is rolled back by get_db.  *)
(*                                                                         *)
(* Any call to Redis can fail.  A failed GET answers 401 (is_blacklisted   *)
(* is fail-closed) and changes nothing, so it is no step of the model; a   *)
(* failed SETEX ends logout before any row is written.                     *)
(***************************************************************************)
EXTENDS Naturals, FiniteSets

CONSTANTS
    Token,        \* the token pairs login and refresh can mint
    User,         \* users
    Req,          \* request slots: how many HTTP requests are in flight at once
    None,         \* a model value outside every other set
    AccessTTL,    \* JWT_ACCESS_EXPIRE_MINUTES, in ticks of the clock
    RefreshTTL,   \* JWT_REFRESH_EXPIRE_DAYS, in ticks
    MaxTime       \* bound: the clock stops here

ASSUME TTLAssumption == AccessTTL \in Nat \ {0} /\ RefreshTTL \in Nat \ {0}
ASSUME NoneAssumption == None \notin Token /\ None \notin User

VARIABLES
    now,        \* the clock both JWT decoding and Redis key expiry read
    status,     \* the row of each token: not yet minted, live, or revoked_at set
    claim,      \* the claims of each minted token, None before
    known,      \* tokens whose response reached a client
    blacklist,  \* when the Redis key of the access jti expires, 0 if never set
    active,     \* users whose is_active flag is set
    req         \* what each request slot is doing

vars == <<now, status, claim, known, blacklist, active, req>>

Claims == [user : User, family : Token, parent : Token, born : Nat]

PC == {"idle",                       \* slot free
       "issue",                      \* login: credentials accepted, nothing written
       "flush", "commit",            \* refresh: row read as live / row locked, user loaded
       "familySweep", "familyApply", \* refresh: reuse detected, UPDATE of the family
       "blacklisting",               \* logout: route check passed
       "userSweep", "userApply",     \* logout: UPDATE of the user's rows
       "serving",                    \* some endpoint behind get_current_user
       "issued", "reused", "loggedOut"} \* the three answers of the handlers

Idle == [pc |-> "idle", tok |-> None, user |-> None, targets |-> {}]

-----------------------------------------------------------------------------
(* Clock and claims *)

AccessExp(t)  == claim[t].born + AccessTTL
RefreshExp(t) == claim[t].born + RefreshTTL

\* python-jose rejects a token only when exp < now.
AccessDecodes(t)  == now <= AccessExp(t)
RefreshDecodes(t) == now <= RefreshExp(t)

BlacklistedFailOpen(t) == FALSE

\* The key of a blacklisted jti is there while its TTL runs.
Blacklisted(t) == now < blacklist[t]

BlacklistTTLShort(t) == 1

\* Remaining lifetime, at least one second.
BlacklistTTL(t) == IF AccessExp(t) > now THEN AccessExp(t) - now ELSE 1

-----------------------------------------------------------------------------
(* Rows and transactions *)

Minted == {t \in Token : status[t] # "free"}
Live   == {t \in Token : status[t] = "live"}

LockedOnceSpent(t) ==
    \/ status[t] = "revoked"
    \/ \E r \in Req : req[r].pc = "commit" /\ req[r].tok = t

\* The row of t is written by an open transaction.
Locked(t) == \E r \in Req : req[r].pc = "commit" /\ req[r].tok = t

\* Bound: a handler that mints starts only while the pool of tokens has room.
HasRoom ==
    Cardinality({r \in Req : req[r].pc \in {"issue", "flush", "commit"}})
      < Cardinality(Token \ Minted)

UsableUnlessMissing(t) == status[t] # "free"

\* db_token is found and its revoked_at is None.
Usable(t) == status[t] = "live"

UserExists(u) == u \in User

\* The user is found with is_active set.
UserIsActive(u) == u \in active

OnlyPresented(t) == {t} \cap Live

FamilyLive(t) == {x \in Live : claim[x].family = claim[t].family}

SameSessionLive(t) == {x \in Live : claim[x].family = claim[t].family}

UserLive(t) == {x \in Live : claim[x].user = claim[t].user}

Delete(S) == [x \in Token |-> IF x \in S THEN "deleted" ELSE status[x]]

Revoke(S) == [x \in Token |-> IF x \in S THEN "revoked" ELSE status[x]]

InsertOnly(old, new) == [status EXCEPT ![new] = "live"]

\* What the commit of a refresh writes: the old row revoked, the new row there.
Rotate(old, new) == [status EXCEPT ![old] = "revoked", ![new] = "live"]

FamilyOfPresented(old, new) ==
    [user |-> claim[old].user, family |-> old, parent |-> old, born |-> now]

\* The claims of the new pair: the user and the family of the presented token.
SuccessorClaims(old, new) ==
    [user |-> claim[old].user, family |-> claim[old].family, parent |-> old, born |-> now]

Become(r, pc, tok) == req' = [req EXCEPT ![r].pc = pc, ![r].tok = tok]
Release(r)         == req' = [req EXCEPT ![r] = Idle]

-----------------------------------------------------------------------------
Init ==
    /\ now = 0
    /\ status = [t \in Token |-> "free"]
    /\ claim = [t \in Token |-> None]
    /\ known = {}
    /\ blacklist = [t \in Token |-> 0]
    /\ active = User
    /\ req = [r \in Req |-> Idle]

Tick ==
    /\ now < MaxTime
    /\ now' = now + 1
    /\ UNCHANGED <<status, claim, known, blacklist, active, req>>

\* AuditMixin.soft_delete clears is_active, AuditMixin.restore sets it.
DeactivateUser(u) ==
    /\ u \in active
    /\ active' = active \ {u}
    /\ UNCHANGED <<now, status, claim, known, blacklist, req>>

RestoreUser(u) ==
    /\ u \notin active
    /\ active' = active \cup {u}
    /\ UNCHANGED <<now, status, claim, known, blacklist, req>>

-----------------------------------------------------------------------------
(* login: credentials are checked, then the row is committed *)

LoginStart(r, u) ==
    /\ req[r].pc = "idle"
    /\ UserIsActive(u)
    /\ HasRoom
    /\ req' = [req EXCEPT ![r].pc = "issue", ![r].user = u]
    /\ UNCHANGED <<now, status, claim, known, blacklist, active>>

LoginCommit(r, t) ==
    /\ req[r].pc = "issue"
    /\ status[t] = "free"
    /\ status' = [status EXCEPT ![t] = "live"]
    /\ claim' = [claim EXCEPT ![t] =
                   [user |-> req[r].user, family |-> t, parent |-> t, born |-> now]]
    /\ Become(r, "issued", t)
    /\ UNCHANGED <<now, known, blacklist, active>>

-----------------------------------------------------------------------------
(* refresh *)

\* The row is read as live: revoked_at is set on the loaded object only.
RefreshRead(r, t) ==
    /\ req[r].pc = "idle"
    /\ t \in known
    /\ RefreshDecodes(t)
    /\ Usable(t)
    /\ HasRoom
    /\ Become(r, "flush", t)
    /\ UNCHANGED <<now, status, claim, known, blacklist, active>>

\* The row is read as revoked: the family is to be revoked.
RefreshReuse(r, t) ==
    /\ req[r].pc = "idle"
    /\ t \in known
    /\ RefreshDecodes(t)
    /\ ~Usable(t)
    /\ Become(r, "familySweep", t)
    /\ UNCHANGED <<now, status, claim, known, blacklist, active>>

\* The SELECT of the user flushes UPDATE refresh_tokens ... WHERE id = :id,
\* which waits for the row lock and does not look at revoked_at again.
RefreshFlush(r) ==
    /\ req[r].pc = "flush"
    /\ ~Locked(req[r].tok)
    /\ \/ /\ UserIsActive(claim[req[r].tok].user)
          /\ Become(r, "commit", req[r].tok)
       \/ /\ ~UserIsActive(claim[req[r].tok].user)
          /\ Release(r)
    /\ UNCHANGED <<now, status, claim, known, blacklist, active>>

RefreshCommit(r, t) ==
    /\ req[r].pc = "commit"
    /\ status[t] = "free"
    /\ status' = Rotate(req[r].tok, t)
    /\ claim' = [claim EXCEPT ![t] = SuccessorClaims(req[r].tok, t)]
    /\ Become(r, "issued", t)
    /\ UNCHANGED <<now, known, blacklist, active>>

-----------------------------------------------------------------------------
(* logout *)

\* The route: the access token decodes and Redis answers it is not blacklisted.
LogoutStart(r, t) ==
    /\ req[r].pc = "idle"
    /\ t \in known
    /\ AccessDecodes(t)
    /\ ~Blacklisted(t)
    /\ Become(r, "blacklisting", t)
    /\ UNCHANGED <<now, status, claim, known, blacklist, active>>

\* AuthService.logout decodes again and writes the key; a decode error (401)
\* or a Redis error (500) ends the request before any row is revoked.
LogoutBlacklist(r) ==
    /\ req[r].pc = "blacklisting"
    /\ LET t == req[r].tok IN
         \/ /\ AccessDecodes(t)
            /\ blacklist' = [blacklist EXCEPT ![t] = now + BlacklistTTL(t)]
            /\ Become(r, "userSweep", t)
         \/ /\ Release(r)
            /\ UNCHANGED blacklist
    /\ UNCHANGED <<now, status, claim, known, active>>

-----------------------------------------------------------------------------
(* UPDATE refresh_tokens SET revoked_at ... WHERE scope AND revoked_at IS   *)
(* NULL: the statement picks its rows from one snapshot, waits for those    *)
(* another transaction has locked, and is committed.                        *)

SweepSnapshot(r) ==
    /\ \/ /\ req[r].pc = "familySweep"
          /\ req' = [req EXCEPT ![r].pc = "familyApply",
                                ![r].targets = FamilyLive(req[r].tok)]
       \/ /\ req[r].pc = "userSweep"
          /\ req' = [req EXCEPT ![r].pc = "userApply",
                                ![r].targets = UserLive(req[r].tok)]
    /\ UNCHANGED <<now, status, claim, known, blacklist, active>>

SweepApply(r) ==
    /\ req[r].pc \in {"familyApply", "userApply"}
    /\ \A t \in req[r].targets : ~Locked(t)
    /\ status' = Revoke(req[r].targets)
    /\ req' = [req EXCEPT ![r].pc = IF req[r].pc = "familyApply" THEN "reused" ELSE "loggedOut",
                          ![r].targets = {}]
    /\ UNCHANGED <<now, claim, known, blacklist, active>>

-----------------------------------------------------------------------------
(* Any endpoint behind get_current_user *)

ServeStart(r, t) ==
    /\ req[r].pc = "idle"
    /\ t \in known
    /\ AccessDecodes(t)
    /\ ~Blacklisted(t)
    /\ Become(r, "serving", t)
    /\ UNCHANGED <<now, status, claim, known, blacklist, active>>

-----------------------------------------------------------------------------
(* Answers: a token pair reaches the client or is lost on the way (the      *)
(* second commit of login can also fail after the row is there).            *)

Answer(r) ==
    /\ req[r].pc \in {"issued", "reused", "loggedOut", "serving"}
    /\ known' = IF req[r].pc = "issued" THEN known \cup {req[r].tok} ELSE known
    /\ Release(r)
    /\ UNCHANGED <<now, status, claim, blacklist, active>>

AnswerLost(r) ==
    /\ req[r].pc = "issued"
    /\ Release(r)
    /\ UNCHANGED <<now, status, claim, known, blacklist, active>>

-----------------------------------------------------------------------------
Begin(r) ==
    \/ \E u \in User : LoginStart(r, u)
    \/ \E t \in Token : \/ RefreshRead(r, t)
                        \/ RefreshReuse(r, t)
                        \/ LogoutStart(r, t)
                        \/ ServeStart(r, t)

Mint(r) == \E t \in Token : LoginCommit(r, t) \/ RefreshCommit(r, t)

Environment ==
    \/ Tick
    \/ \E u \in User : DeactivateUser(u) \/ RestoreUser(u)

Next ==
    \/ Environment
    \/ \E r \in Req :
         \/ Begin(r)
         \/ Mint(r)
         \/ RefreshFlush(r)
         \/ LogoutBlacklist(r)
         \/ SweepSnapshot(r)
         \/ SweepApply(r)
         \/ Answer(r)
         \/ AnswerLost(r)

Spec == Init /\ [][Next]_vars

\* A handler that can take its next step does; waiters on a row lock are
\* queued by the database, so the two steps that wait get strong fairness.
Fairness ==
    \A r \in Req :
      /\ WF_vars(Mint(r) \/ LogoutBlacklist(r) \/ SweepSnapshot(r) \/ Answer(r))
      /\ SF_vars(RefreshFlush(r))
      /\ SF_vars(SweepApply(r))

FairSpec == Spec /\ Fairness

-----------------------------------------------------------------------------
(* Properties *)

TypeOK ==
    /\ now \in Nat
    /\ status \in [Token -> {"free", "live", "revoked"}]
    /\ claim \in [Token -> Claims \cup {None}]
    /\ known \subseteq Token
    /\ blacklist \in [Token -> Nat]
    /\ active \subseteq User
    /\ req \in [Req -> [pc : PC, tok : Token \cup {None},
                        user : User \cup {None}, targets : SUBSET Token]]

\* A family belongs to the user whose login founded it: refresh copies sub and
\* family_id from the presented token and never mixes two sessions.
FamilyOneOwner ==
    \A t \in Minted : LET f == claim[t].family IN
        f \in Minted /\ claim[f].family = f /\ claim[f].user = claim[t].user

\* Rotation is atomic: a successor's row exists only with its parent revoked
\* (ROT-001), whatever other requests did in between.
SuccessorSpendsParent ==
    \A t \in Minted : claim[t].parent # t => status[claim[t].parent] = "revoked"

\* A blacklist key lives at least as long as the access token it blocks.
BlacklistOutlivesToken ==
    \A t \in Token : blacklist[t] # 0 => t \in Minted /\ AccessExp(t) <= blacklist[t]

\* Once logout has written the key, get_current_user lets no request in with
\* that access token again, up to the tick of its expiry.
NoServiceAfterLogout ==
    [][\A r \in Req :
         (req[r].pc # "serving" /\ req'[r].pc = "serving")
           => LET t == req'[r].tok IN blacklist[t] = 0 \/ now >= AccessExp(t)]_vars

\* Some request has read a token of family f as live and has not minted yet.
Spending(f) ==
    \E r \in Req : req[r].pc \in {"flush", "commit"} /\ claim[req[r].tok].family = f

FamilyDead(f) ==
    /\ f \in Minted
    /\ \A t \in Live : claim[t].family # f
    /\ ~Spending(f)

\* A session that is dead and that no refresh is rotating never comes back:
\* only a new login lets the user in again.
DeadFamilyStaysDead == [][\A f \in Token : FamilyDead(f) => FamilyDead(f)']_vars

TokensOf(u) == {t \in Minted : claim[t].user = u}

\* Some request has passed its check that u is active and has not minted yet.
Admitted(u) ==
    \E r \in Req :
      \/ /\ req[r].pc = "issue"
         /\ req[r].user = u
      \/ /\ req[r].pc = "commit"
         /\ claim[req[r].tok].user = u

\* A deactivated user that no request has admitted stays locked out: nothing
\* but a restoration lets a request through, and no token is minted before it.
LockedOut(u) == u \notin active /\ ~Admitted(u)

InactiveGainsNothing ==
    [][\A u \in User : LockedOut(u) => TokensOf(u)' = TokensOf(u) /\ ~Admitted(u)']_vars

\* With one request at a time a session has one refresh token that works.
OneLivePerFamily ==
    \A t1, t2 \in Live : claim[t1].family = claim[t2].family => t1 = t2

\* When the handler has detected reuse, no token of the family works (ROT-004).
ReuseRevokesFamily ==
    \A r \in Req : req[r].pc = "reused" =>
        \A t \in Live : claim[t].family # claim[req[r].tok].family

\* When logout has finished, no refresh token of the user works.
LogoutRevokesUser ==
    \A r \in Req : req[r].pc = "loggedOut" =>
        \A t \in Live : claim[t].user # claim[req[r].tok].user

\* Every request is answered: no two of them wait for each other's row locks.
EveryRequestEnds == \A r \in Req : req[r].pc # "idle" ~> req[r].pc = "idle"
=============================================================================
