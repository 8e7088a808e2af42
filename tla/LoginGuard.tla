----------------------------- MODULE LoginGuard -----------------------------
(***************************************************************************)
(* The counter of failed logins of one e-mail address: login and           *)
(* _check_brute_force, _increment_login_attempts and _clear_login_attempts *)
(* of rest_api/app/services/auth_service.py.                               *)
(*                                                                         *)
(* The counter is a Redis key with an expiry.  A login reads it, verifies  *)
(* the password in an executor and then counts or clears, in separate      *)
(* calls, and logins of the address run in parallel.  A Redis call that    *)
(* fails is logged and passed over.                                        *)
(***************************************************************************)
EXTENDS Naturals, FiniteSets

CONSTANTS
    Attempt,          \* slots for logins in flight
    MaxAttempts,      \* LOGIN_MAX_ATTEMPTS
    LockoutSeconds,   \* LOGIN_LOCKOUT_SECONDS, in ticks
    MaxOutages        \* bound on the Redis calls that fail

ASSUME GuardAssumption ==
    /\ IsFiniteSet(Attempt)
    /\ MaxAttempts \in Nat \ {0} /\ LockoutSeconds \in Nat \ {0}
    /\ MaxOutages \in Nat

VARIABLES
    attempts,  \* the value of the key, 0 when there is no key
    ttl,       \* ticks until the key expires
    login,     \* what each login in flight does next
    missed     \* how many Redis calls failed

guardVars == <<attempts, ttl, login, missed>>

GuardInit ==
    /\ attempts = 0
    /\ ttl = 0
    /\ login = [l \in Attempt |-> "idle"]
    /\ missed = 0

TooFew == attempts > MaxAttempts

Blocked == attempts >= MaxAttempts

Fails == missed < MaxOutages /\ missed' = missed + 1

\* The check reads the counter, and lets the login through if it cannot.
Check(l) ==
    /\ login[l] = "idle"
    /\ (~Blocked /\ UNCHANGED missed) \/ Fails
    /\ login' = [login EXCEPT ![l] = "verify"]
    /\ UNCHANGED <<attempts, ttl>>

RefuseAndExtend(l) ==
    /\ login[l] = "idle" /\ Blocked
    /\ ttl' = LockoutSeconds
    /\ UNCHANGED <<attempts, login, missed>>

\* 429, which neither counts nor extends the lockout.
Refuse429(l) ==
    /\ login[l] = "idle" /\ Blocked
    /\ UNCHANGED guardVars

\* No such active user or a wrong password, or the right one.
Verify(l) ==
    /\ login[l] = "verify"
    /\ \E outcome \in {"count", "clear"} : login' = [login EXCEPT ![l] = outcome]
    /\ UNCHANGED <<attempts, ttl, missed>>

\* INCR and EXPIRE in one MULTI: every failure starts the lockout time again.
Count(l) ==
    /\ login[l] = "count"
    /\ \/ attempts' = attempts + 1 /\ ttl' = LockoutSeconds /\ UNCHANGED missed
       \/ Fails /\ UNCHANGED <<attempts, ttl>>
    /\ login' = [login EXCEPT ![l] = "idle"]

\* DELETE, also of what other logins counted meanwhile.
Clear(l) ==
    /\ login[l] = "clear"
    /\ \/ attempts' = 0 /\ ttl' = 0 /\ UNCHANGED missed
       \/ Fails /\ UNCHANGED <<attempts, ttl>>
    /\ login' = [login EXCEPT ![l] = "idle"]

\* Time passes, and Redis drops the key when it expires.
Expire ==
    /\ ttl > 0
    /\ ttl' = ttl - 1
    /\ attempts' = IF ttl = 1 THEN 0 ELSE attempts
    /\ UNCHANGED <<login, missed>>

GuardNext ==
    \/ \E l \in Attempt :
         \/ Check(l)
         \/ Refuse429(l)
         \/ Verify(l)
         \/ Count(l)
         \/ Clear(l)
    \/ Expire

\* Time goes on, and a login in flight goes on.
GuardFairness ==
    /\ WF_guardVars(Expire)
    /\ \A l \in Attempt : WF_guardVars(Verify(l) \/ Count(l) \/ Clear(l))

GuardSpec == GuardInit /\ [][GuardNext]_guardVars /\ GuardFairness

-----------------------------------------------------------------------------
(* Properties *)

GuardTypeOK ==
    /\ attempts \in Nat
    /\ ttl \in 0..LockoutSeconds
    /\ login \in [Attempt -> {"idle", "verify", "count", "clear"}]
    /\ missed \in 0..MaxOutages

\* The key always has an expiry.
KeyExpires == attempts > 0 <=> ttl > 0

\* Check, verification and count are separate calls, so the limit is overshot,
\* but only by logins that were in flight together and by failed checks.
OvershootBounded == attempts <= MaxAttempts + Cardinality(Attempt) - 1 + missed

\* A locked address is not locked for ever, whatever is tried meanwhile.
LockoutEnds == Blocked ~> ~Blocked
=============================================================================
