---------------------------- MODULE AccessProofs ----------------------------
(***************************************************************************)
(* Who gets in: the limit of failed logins, for every limit, every number of *)
(* logins in flight and every number of Redis calls that fail; and the age of *)
(* a user's rights, for every set of branches and every life of a token.   *)
(***************************************************************************)
EXTENDS LoginGuard, Permissions, FiniteSetTheorems, TLAPS

-----------------------------------------------------------------------------
(* The login guard                                                         *)
(*                                                                         *)
(* A login that has passed the check may still count, so the bound is not  *)
(* inductive by itself: the counter and the logins past their check must be *)
(* bounded together.  At the last check that read the counter at most      *)
(* MaxAttempts - 1 were counted, and every login was past its check at most. *)

\* Logins that have passed the check and may still count.
Past == {l \in Attempt : login[l] \in {"verify", "count"}}

\* Attempts counted or still to be counted.
Sum == attempts + Cardinality(Past) <= MaxAttempts + Cardinality(Attempt) - 1 + missed

GuardInv == GuardTypeOK /\ KeyExpires /\ Sum

-----------------------------------------------------------------------------
LEMMA PastFinite == IsFiniteSet(Past) /\ Cardinality(Past) \in Nat
                      /\ Cardinality(Attempt) \in Nat /\ Cardinality(Past) <= Cardinality(Attempt)
BY GuardAssumption, FS_Subset, FS_CardinalityType DEF Past

LEMMA PastFinitePrime == IsFiniteSet(Past') /\ Cardinality(Past') \in Nat
                           /\ Cardinality(Past') <= Cardinality(Attempt)
BY GuardAssumption, FS_Subset, FS_CardinalityType DEF Past

\* A login joins those past the check.
LEMMA JoinsPast ==
    ASSUME NEW l \in Attempt, l \notin Past, Past' = Past \cup {l}
    PROVE  Cardinality(Past') = Cardinality(Past) + 1
BY PastFinite, FS_AddElement

\* A login leaves them.
LEMMA LeavesPast ==
    ASSUME NEW l \in Attempt, l \in Past, Past' = Past \ {l}
    PROVE  Cardinality(Past') = Cardinality(Past) - 1
BY PastFinite, FS_RemoveElement

LEMMA GuardInitInv == GuardInit => GuardInv
<1> SUFFICES ASSUME GuardInit PROVE GuardInv OBVIOUS
<1>1. GuardTypeOK /\ KeyExpires
  BY GuardAssumption DEF GuardInit, GuardTypeOK, KeyExpires
<1>2. Past = {} BY DEF Past, GuardInit
<1>3. Cardinality(Past) = 0 BY <1>2, FS_EmptySet
<1>4. Sum BY <1>3, PastFinite, GuardAssumption DEF Sum, GuardInit
<1> QED BY <1>1, <1>4 DEF GuardInv

LEMMA GuardStepInv == GuardInv /\ [GuardNext]_guardVars => GuardInv'
<1> SUFFICES ASSUME GuardInv, [GuardNext]_guardVars PROVE GuardInv' OBVIOUS
<1> USE GuardAssumption
<1> USE DEF GuardInv, GuardTypeOK
<1>1. ASSUME NEW l \in Attempt, Check(l) PROVE GuardInv'
  <2> USE <1>1 DEF Check
  <2>1. GuardTypeOK' /\ KeyExpires' BY DEF KeyExpires, Blocked, Fails
  <2>2. l \notin Past /\ Past' = Past \cup {l} BY DEF Past
  <2>3. Cardinality(Past') = Cardinality(Past) + 1 BY <2>2, JoinsPast
  <2>4. CASE ~Blocked /\ UNCHANGED missed
    BY <2>3, <2>4, PastFinite, PastFinitePrime, <2>1 DEF Blocked, Sum
  <2>5. CASE Fails
    BY <2>3, <2>5, PastFinite, <2>1 DEF Fails, Sum
  <2> QED BY <2>4, <2>5
<1>2. ASSUME NEW l \in Attempt, Refuse429(l) PROVE GuardInv'
  BY <1>2 DEF Refuse429, guardVars, KeyExpires, Sum, Past
<1>3. ASSUME NEW l \in Attempt, Verify(l) PROVE GuardInv'
  <2> USE <1>3 DEF Verify
  <2>1. GuardTypeOK' /\ KeyExpires' BY DEF KeyExpires
  <2>2. PICK outcome \in {"count", "clear"} : login' = [login EXCEPT ![l] = outcome] OBVIOUS
  <2>3. CASE outcome = "count"
    <3>1. Past' = Past BY <2>2, <2>3 DEF Past
    <3> QED BY <2>1, <3>1 DEF Sum
  <2>4. CASE outcome = "clear"
    <3>1. l \in Past /\ Past' = Past \ {l} BY <2>2, <2>4 DEF Past
    <3>2. Cardinality(Past') = Cardinality(Past) - 1 BY <3>1, LeavesPast
    <3> QED BY <2>1, <3>2, PastFinite DEF Sum
  <2> QED BY <2>2, <2>3, <2>4
<1>4. ASSUME NEW l \in Attempt, Count(l) PROVE GuardInv'
  <2> USE <1>4 DEF Count
  <2>1. GuardTypeOK' /\ KeyExpires' BY DEF KeyExpires, Fails
  <2>2. l \in Past /\ Past' = Past \ {l} BY DEF Past
  <2>3. Cardinality(Past') = Cardinality(Past) - 1 BY <2>2, LeavesPast
  <2> QED BY <2>1, <2>3, PastFinite DEF Sum, Fails
<1>5. ASSUME NEW l \in Attempt, Clear(l) PROVE GuardInv'
  <2> USE <1>5 DEF Clear
  <2>1. GuardTypeOK' /\ KeyExpires' BY DEF KeyExpires, Fails
  <2>2. Past' = Past BY DEF Past
  <2> QED BY <2>1, <2>2, PastFinite DEF Sum, Fails
<1>6. ASSUME Expire PROVE GuardInv'
  <2>1. GuardTypeOK' /\ KeyExpires' BY <1>6 DEF Expire, KeyExpires
  <2>2. Past' = Past BY <1>6 DEF Expire, Past
  <2> QED BY <1>6, <2>1, <2>2, PastFinite DEF Expire, Sum
<1>7. ASSUME UNCHANGED guardVars PROVE GuardInv'
  BY <1>7 DEF guardVars, KeyExpires, Sum, Past
<1> QED BY <1>1, <1>2, <1>3, <1>4, <1>5, <1>6, <1>7 DEF GuardNext

LEMMA SumBounds == GuardInv => OvershootBounded
BY PastFinite, GuardAssumption DEF GuardInv, GuardTypeOK, Sum, OvershootBounded

-----------------------------------------------------------------------------
\* The inductive invariant of the login guard.
THEOREM GuardInvariant == GuardSpec => []GuardInv
BY GuardInitInv, GuardStepInv, PTL DEF GuardSpec

\* A counter that is there always has an expiry, and none is left without one.
THEOREM KeyExpiresHolds == GuardSpec => []KeyExpires
<1>1. GuardInv => KeyExpires BY DEF GuardInv
<1> QED BY <1>1, GuardInvariant, PTL

\* Whatever the interleaving, the limit is overshot by the logins in flight and
\* by the checks that could not read the counter, and by no more.
THEOREM OvershootBoundedHolds == GuardSpec => []OvershootBounded
BY SumBounds, GuardInvariant, PTL

-----------------------------------------------------------------------------
(* The rights a token carries                                              *)
(*                                                                         *)
(* What a guard admits follows from two facts that carry each other: the   *)
(* history says of a role or branch the user has that he has it now, and of *)
(* one in the claims that he had it when they were minted or later.        *)

Claims == [roles : SUBSET Role, branches : SUBSET Site, superadmin : {FALSE}, born : Nat]

PermissionsTypeOK ==
    /\ tick \in Nat
    /\ sites \subseteq Site
    /\ grants \subseteq Site \X Role
    /\ claims \in Claims \cup {NoClaims}
    /\ roleAt \in [Role -> Int]
    /\ siteAt \in [Site -> Int]

\* What is granted is held now.
HeldNow ==
    /\ \A role \in RolesOf(grants) : roleAt[role] = tick
    /\ \A b \in SitesOf(grants) : siteAt[b] = tick

\* What is claimed was held when the claims were minted, or since.
HeldSinceMinted ==
    claims # NoClaims =>
        /\ claims.born <= tick
        /\ \A role \in claims.roles : roleAt[role] >= claims.born
        /\ \A b \in claims.branches : siteAt[b] >= claims.born

RightsInv == PermissionsTypeOK /\ HeldNow /\ HeldSinceMinted

-----------------------------------------------------------------------------
LEMMA RolesAndSites ==
    ASSUME NEW g, g \subseteq Site \X Role
    PROVE  RolesOf(g) \subseteq Role /\ SitesOf(g) \subseteq Site
BY DEF RolesOf, SitesOf

LEMMA InitRights == PermissionsInit => RightsInv
<1> SUFFICES ASSUME PermissionsInit PROVE RightsInv OBVIOUS
<1> USE PermissionsAssumption DEF PermissionsInit
<1>1. grants \subseteq Site \X Role OBVIOUS
<1>2. RolesOf(grants) \subseteq Role /\ SitesOf(grants) \subseteq Site BY <1>1, RolesAndSites
<1>3. PermissionsTypeOK BY <1>1 DEF PermissionsTypeOK, Never
<1>4. HeldNow BY <1>2 DEF HeldNow
<1> QED BY <1>3, <1>4 DEF RightsInv, HeldSinceMinted

\* login and refresh: the claims are what is granted.
LEMMA MintRights ==
    ASSUME RightsInv, claims' = MintedClaims, UNCHANGED <<tick, sites, grants, roleAt, siteAt>>
    PROVE  RightsInv'
<1> USE DEF RightsInv, PermissionsTypeOK
<1>1. RolesOf(grants) \subseteq Role /\ SitesOf(grants) \subseteq Site BY RolesAndSites
<1>2. MintedClaims \in Claims BY <1>1 DEF MintedClaims, Claims
<1>3. PermissionsTypeOK' BY <1>2
<1>4. HeldNow' BY DEF HeldNow
<1>5. HeldSinceMinted' BY <1>1 DEF HeldNow, HeldSinceMinted, MintedClaims
<1> QED BY <1>3, <1>4, <1>5

LEMMA AssignRights ==
    ASSUME RightsInv, NEW g, g \subseteq Site \X Role, Assign(g)
    PROVE  RightsInv'
<1> USE DEF RightsInv, PermissionsTypeOK
<1>1. RolesOf(g) \subseteq RolesOf(grants \cup g) /\ SitesOf(g) \subseteq SitesOf(grants \cup g)
  BY DEF RolesOf, SitesOf
<1>2. RolesOf(g) \subseteq Role /\ SitesOf(g) \subseteq Site BY RolesAndSites
<1>3. PermissionsTypeOK' BY DEF Assign
<1>4. HeldNow' BY <1>1, <1>2 DEF HeldNow, Assign
<1>5. HeldSinceMinted' BY DEF HeldSinceMinted, Assign, Claims
<1> QED BY <1>3, <1>4, <1>5

LEMMA PassRights == ASSUME RightsInv, Pass PROVE RightsInv'
<1> USE DEF RightsInv, PermissionsTypeOK, Pass
<1>1. RolesOf(grants) \subseteq Role /\ SitesOf(grants) \subseteq Site BY RolesAndSites
<1>2. PermissionsTypeOK' OBVIOUS
<1>3. HeldNow' BY <1>1 DEF HeldNow
<1>4. ASSUME claims # NoClaims PROVE HeldSinceMinted'
  <2>1. claims.roles \subseteq Role /\ claims.branches \subseteq Site /\ claims.born \in Nat
    BY <1>4 DEF Claims
  <2>2. claims.born <= tick /\ claims.born <= tick' BY <1>4, <2>1 DEF HeldSinceMinted
  <2>3. \A role \in claims.roles : roleAt'[role] >= claims.born
    BY <1>4, <2>1, <2>2 DEF HeldSinceMinted
  <2>4. \A b \in claims.branches : siteAt'[b] >= claims.born
    BY <1>4, <2>1, <2>2 DEF HeldSinceMinted
  <2> QED BY <2>2, <2>3, <2>4 DEF HeldSinceMinted
<1> QED BY <1>2, <1>3, <1>4 DEF HeldSinceMinted

LEMMA NextRights == ASSUME RightsInv, [PermissionsNext]_permissionVars PROVE RightsInv'
<1>1. CASE SignIn \/ Renew BY <1>1, MintRights DEF SignIn, Renew
<1>2. ASSUME NEW b \in sites, NEW role \in Role,
             Assign(grants \cup {<<b, role>>}) \/ Assign(grants \ {<<b, role>>})
      PROVE  RightsInv'
  <2>1. b \in Site /\ grants \subseteq Site \X Role BY DEF RightsInv, PermissionsTypeOK
  <2>2. grants \cup {<<b, role>>} \subseteq Site \X Role BY <2>1
  <2>3. grants \ {<<b, role>>} \subseteq Site \X Role BY <2>1
  <2> QED BY <1>2, <2>2, <2>3, AssignRights
<1>3. ASSUME NEW b \in Site, CreateBranch(b) \/ DeleteBranch(b) PROVE RightsInv'
  <2>1. sites' \subseteq Site BY <1>3 DEF CreateBranch, DeleteBranch, RightsInv, PermissionsTypeOK
  <2>2. UNCHANGED <<tick, grants, claims, roleAt, siteAt>> BY <1>3 DEF CreateBranch, DeleteBranch
  <2> QED BY <2>1, <2>2 DEF RightsInv, PermissionsTypeOK, HeldNow, HeldSinceMinted
<1>4. CASE Pass BY <1>4, PassRights
<1>5. CASE UNCHANGED permissionVars
  BY <1>5 DEF permissionVars, RightsInv, PermissionsTypeOK, HeldNow, HeldSinceMinted
<1> QED BY <1>1, <1>2, <1>3, <1>4, <1>5 DEF PermissionsNext

-----------------------------------------------------------------------------
\* The inductive invariant of the rights of a user.
THEOREM RightsInvariant == PermissionsSpec => []RightsInv
BY InitRights, NextRights, PTL DEF PermissionsSpec

\* Whoever a guard admits had what it asks for within the life of a token.
LEMMA AdmittedIsRecent == RightsInv => GrantsAreRecent
<1> SUFFICES ASSUME RightsInv, NEW route \in Routes, NEW b \in Site, Admits(route, b)
             PROVE  /\ \E role \in IF route.who = "admin" THEN {"ADMIN"} ELSE Management :
                          Recent(roleAt[role])
                    /\ route.branch = "own" => Recent(siteAt[b])
                    /\ route.branch = "own_unless_admin"
                         => Recent(siteAt[b]) \/ Recent(roleAt["ADMIN"])
  BY DEF GrantsAreRecent
<1> USE DEF RightsInv, PermissionsTypeOK
<1>1. claims \in Claims /\ tick <= claims.born + ClaimTTL BY DEF Admits, Decodes
<1>2. \A role \in claims.roles : Recent(roleAt[role])
  BY <1>1, PermissionsAssumption DEF HeldSinceMinted, Recent, Never, Claims, Admits, Decodes
<1>3. \A x \in claims.branches : Recent(siteAt[x])
  BY <1>1, PermissionsAssumption DEF HeldSinceMinted, Recent, Never, Claims, Admits, Decodes
<1>4. ~claims.superadmin BY <1>1 DEF Claims
<1>5. \E role \in IF route.who = "admin" THEN {"ADMIN"} ELSE Management : Recent(roleAt[role])
  BY <1>2, <1>4 DEF Admits, RequireAdmin, RequireManagement
<1>6. route.branch = "own" => Recent(siteAt[b])
  BY <1>3, <1>4 DEF Admits, RequireBranchAccess
<1>7. route.branch = "own_unless_admin" => Recent(siteAt[b]) \/ Recent(roleAt["ADMIN"])
  BY <1>2, <1>3, <1>4 DEF Admits, RequireBranchAccess
<1> QED BY <1>5, <1>6, <1>7

\* Rights that were taken away admit nobody once the life of a token has passed,
\* whatever was granted, renewed, created or deleted in between.
THEOREM GrantsAreRecentHolds == PermissionsSpec => []GrantsAreRecent
BY AdmittedIsRecent, RightsInvariant, PTL

=============================================================================
