---------------------------- MODULE Permissions -----------------------------
(***************************************************************************)
(* What a user may do in the dashboard API:                                *)
(* rest_api/app/services/permissions/context.py and the guards of the      *)
(* handlers in rest_api/app/routers/v1 and routers/dashboard.              *)
(*                                                                         *)
(* A guard reads the claims of the access token alone.  They are copied    *)
(* from the rows of user_branch_roles when the token is minted, by login   *)
(* or by refresh (AuthTokens has the tokens themselves), so a guard        *)
(* answers for a state of the database up to a token's life ago.           *)
(*                                                                         *)
(* One user is followed.  No endpoint assigns roles: their rows change     *)
(* outside the program, after the seed made the first ones.                *)
(***************************************************************************)
EXTENDS Integers

CONSTANTS
    Site,         \* branches, which exist once they were created
    FirstSite,    \* the branch of the seed
    ClaimTTL,     \* JWT_ACCESS_EXPIRE_MINUTES, in ticks of the clock
    LastTick,     \* bound: the clock stops here
    NoClaims      \* no token

ASSUME PermissionsAssumption ==
    /\ FirstSite \in Site
    /\ ClaimTTL \in Nat /\ LastTick \in Nat

Role       == {"ADMIN", "MANAGER", "WAITER"}  \* KITCHEN is like WAITER to every guard
Management == {"ADMIN", "MANAGER"}
Never      == -1

VARIABLES
    tick,     \* the clock
    sites,    \* branches that are there
    grants,   \* the user's active rows of user_branch_roles: <<branch, role>>
    claims,   \* the claims of the user's access token, or NoClaims
    roleAt,   \* history: when the user last held each role
    siteAt    \* history: when the user last had a role at each branch

permissionVars == <<tick, sites, grants, claims, roleAt, siteAt>>

RolesOf(g) == {x[2] : x \in g}
SitesOf(g) == {x[1] : x \in g}

-----------------------------------------------------------------------------
(* PermissionContext, on the claims c of a request *)

RequireManagement(c) == c.superadmin \/ c.roles \cap Management # {}

RequireAdmin(c) == c.superadmin \/ "ADMIN" \in c.roles

RequireBranchAccess(c, b) == c.superadmin \/ b \in c.branches

-----------------------------------------------------------------------------
(* The guards of the routes: who, and whether the branch of the request is  *)
(* checked against the claims.                                              *)

Route(who, branch) == [who |-> who, branch |-> branch]

\* Everyone in the management lists branches, an ADMIN creates and deletes them
\* and updates any; a MANAGER updates those of his claims.
BranchRoutes ==
    {Route("management", "any"), Route("admin", "any"), Route("management", "own_unless_admin")}

\* Categories: list, create and update; delete.
CategoryRoutes    == {Route("management", "own"), Route("admin", "own")}
SubcategoryRoutes == {Route("management", "own"), Route("admin", "own")}
ProductRoutes     == {Route("management", "own"), Route("admin", "own")}

\* Read the restaurant, and update it.
RestaurantRoutes == {Route("management", "any"), Route("admin", "any")}

\* The catalogs: deletes, and removing a cross-reaction, are for an ADMIN.
AllergenRoutes       == {Route("management", "any"), Route("admin", "any")}
BadgeRoutes          == {Route("management", "any"), Route("admin", "any")}
SealRoutes           == {Route("management", "any"), Route("admin", "any")}
CookingMethodRoutes  == {Route("management", "any"), Route("admin", "any")}
DietaryProfileRoutes == {Route("management", "any"), Route("admin", "any")}

\* The sub-resources of a product name no branch.
ProductExtendedRoutes == {Route("management", "any")}

\* Reading and replacing the rows of all branches; toggle and price of one.
BranchProductRoutes == {Route("management", "any"), Route("management", "own")}

\* Preview, and apply.
BatchPriceRoutes == {Route("management", "any"), Route("admin", "any")}

Routes ==
    UNION {BranchRoutes, CategoryRoutes, SubcategoryRoutes, ProductRoutes, RestaurantRoutes,
           AllergenRoutes, BadgeRoutes, SealRoutes, CookingMethodRoutes, DietaryProfileRoutes,
           ProductExtendedRoutes, BranchProductRoutes, BatchPriceRoutes}

\* get_current_user decodes the token until its exp has passed.
Decodes == claims # NoClaims /\ tick <= claims.born + ClaimTTL

Admits(route, b) ==
    /\ Decodes
    /\ IF route.who = "admin" THEN RequireAdmin(claims) ELSE RequireManagement(claims)
    /\ CASE route.branch = "any" -> TRUE
         [] route.branch = "own" -> RequireBranchAccess(claims, b)
         [] route.branch = "own_unless_admin" ->
              "ADMIN" \in claims.roles \/ RequireBranchAccess(claims, b)

-----------------------------------------------------------------------------
\* The user as the seed makes him.
PermissionsInit ==
    /\ tick = 0
    /\ sites = {FirstSite}
    /\ grants \in {{<<FirstSite, role>>} : role \in Role}
    /\ claims = NoClaims
    /\ roleAt = [role \in Role |-> IF role \in RolesOf(grants) THEN 0 ELSE Never]
    /\ siteAt = [b \in Site |-> IF b \in SitesOf(grants) THEN 0 ELSE Never]

\* create_access_token: is_superadmin is not among the claims, and the context
\* takes a missing one as false.
MintedClaims ==
    [roles |-> RolesOf(grants), branches |-> SitesOf(grants), superadmin |-> FALSE, born |-> tick]

\* login: the rows that are active, whatever became of the branch.
SignIn ==
    /\ claims' = MintedClaims
    /\ UNCHANGED <<tick, sites, grants, roleAt, siteAt>>

RenewOldClaims ==
    /\ claims # NoClaims
    /\ claims' = [claims EXCEPT !.born = tick]
    /\ UNCHANGED <<tick, sites, grants, roleAt, siteAt>>

\* refresh: the rows are read again.
Renew ==
    /\ claims # NoClaims
    /\ claims' = MintedClaims
    /\ UNCHANGED <<tick, sites, grants, roleAt, siteAt>>

\* A change of the user's rows of user_branch_roles.
Assign(g) ==
    /\ grants' = g
    /\ roleAt' = [role \in Role |-> IF role \in RolesOf(grants \cup g) THEN tick ELSE roleAt[role]]
    /\ siteAt' = [b \in Site |-> IF b \in SitesOf(grants \cup g) THEN tick ELSE siteAt[b]]
    /\ UNCHANGED <<tick, sites, claims>>

\* BranchService.create gives nobody a role at the new branch, its creator included.
CreateBranch(b) ==
    /\ b \notin sites
    /\ Admits(Route("admin", "any"), b)
    /\ sites' = sites \cup {b}
    /\ UNCHANGED <<tick, grants, claims, roleAt, siteAt>>

\* BranchService.delete leaves user_branch_roles alone.
DeleteBranch(b) ==
    /\ b \in sites
    /\ Admits(Route("admin", "any"), b)
    /\ sites' = sites \ {b}
    /\ UNCHANGED <<tick, grants, claims, roleAt, siteAt>>

Pass ==
    /\ tick < LastTick
    /\ tick' = tick + 1
    /\ roleAt' = [role \in Role |-> IF role \in RolesOf(grants) THEN tick' ELSE roleAt[role]]
    /\ siteAt' = [b \in Site |-> IF b \in SitesOf(grants) THEN tick' ELSE siteAt[b]]
    /\ UNCHANGED <<sites, grants, claims>>

PermissionsNext ==
    \/ SignIn
    \/ Renew
    \/ \E b \in sites, role \in Role : \/ Assign(grants \cup {<<b, role>>})
                                       \/ Assign(grants \ {<<b, role>>})
    \/ \E b \in Site : CreateBranch(b) \/ DeleteBranch(b)
    \/ Pass

PermissionsSpec == PermissionsInit /\ [][PermissionsNext]_permissionVars

-----------------------------------------------------------------------------
(* Properties *)

\* Held within the life of a token.
Recent(t) == t # Never /\ tick - t <= ClaimTTL

\* Rights that were taken away are gone everywhere once a token's life has
\* passed, however often the token was refreshed: whoever is admitted held a
\* role that admits him, and where the branch is checked a role at the branch,
\* within that time.
GrantsAreRecent ==
    \A route \in Routes, b \in Site :
        Admits(route, b) =>
            /\ \E role \in IF route.who = "admin" THEN {"ADMIN"} ELSE Management :
                  Recent(roleAt[role])
            /\ route.branch = "own" => Recent(siteAt[b])
            /\ route.branch = "own_unless_admin" => Recent(siteAt[b]) \/ Recent(roleAt["ADMIN"])
=============================================================================
