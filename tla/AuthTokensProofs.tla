------------------------- MODULE AuthTokensProofs ---------------------------
(***************************************************************************)
(* Proofs about AuthTokens for every set of tokens, users and request      *)
(* slots and every lifetime of the tokens.                                 *)
(***************************************************************************)
EXTENDS MC_Auth, TLAPS

USE DEF Usable, UserIsActive, Rotate, SuccessorClaims

\* What a request slot may refer to: a minted token, or the user of a login.
RequestsReferToMinted ==
    \A r \in Req :
      /\ req[r].pc = "issue" => req[r].user \in User
      /\ req[r].pc \notin {"idle", "issue"} => req[r].tok \in Minted
      /\ req[r].targets \subseteq Minted

\* Claims are there exactly for minted tokens and stay within them.
ClaimsClosed ==
    /\ \A t \in Minted : claim[t] \in Claims
                         /\ claim[t].family \in Minted
                         /\ claim[t].parent \in Minted
    /\ \A t \in Token \ Minted : claim[t] = None /\ blacklist[t] = 0
    /\ known \subseteq Minted

\* The inductive invariant the other proofs start from.
Shape == TypeOK /\ RequestsReferToMinted /\ ClaimsClosed

-----------------------------------------------------------------------------

LEMMA InitShape == Init => Shape
BY NoneAssumption DEF Init, Shape, TypeOK, RequestsReferToMinted, ClaimsClosed,
     Minted, Idle, PC

\* The states of a request slot, and the slot states Shape allows.
Slot == [pc : PC, tok : Token \cup {None}, user : User \cup {None}, targets : SUBSET Token]

Fits(q) ==
    /\ q \in Slot
    /\ q.pc = "issue" => q.user \in User
    /\ q.pc \notin {"idle", "issue"} => q.tok \in Minted
    /\ q.targets \subseteq Minted

LEMMA SlotFits == ASSUME Shape, NEW r \in Req PROVE Fits(req[r])
BY DEF Shape, TypeOK, RequestsReferToMinted, Fits, Slot

LEMMA IdleFits == Fits(Idle)
BY DEF Fits, Slot, Idle, PC

\* Become moves a slot that fits to one that fits, on any minted token.
LEMMA BecomeFits ==
    ASSUME Shape, NEW r \in Req, NEW pc \in PC \ {"issue"}, NEW t \in Minted, Become(r, pc, t)
    PROVE  \E q : Fits(q) /\ req' = [req EXCEPT ![r] = q]
<1> DEFINE q == [req[r] EXCEPT !.pc = pc, !.tok = t]
<1>1. Fits(req[r])
  BY SlotFits
<1>2. Fits(q)
  BY <1>1 DEF Fits, Slot, Minted
<1>3. req \in [Req -> Slot]
  BY DEF Shape, TypeOK, Slot
<1>4. req' = [req EXCEPT ![r] = q]
  BY <1>3 DEF Become, Slot
<1>5. QED
  BY <1>2, <1>4

\* A step that writes no row and moves one slot to a state that fits.
LEMMA QuietStep ==
    ASSUME Shape, NEW r \in Req, NEW q, Fits(q), req' = [req EXCEPT ![r] = q],
           UNCHANGED <<now, status, claim, active>>,
           known' \subseteq Minted,
           blacklist' \in [Token -> Nat],
           \A t \in Token \ Minted : blacklist'[t] = 0
    PROVE  Shape'
<1>1. Minted' = Minted
  BY DEF Minted
<1>2. TypeOK'
  BY DEF Shape, TypeOK, Fits, Slot, Minted
<1>3. RequestsReferToMinted'
  <2> SUFFICES ASSUME NEW x \in Req PROVE Fits(req'[x])
    BY <1>1 DEF RequestsReferToMinted, Fits
  <2>1. req \in [Req -> Slot]
    BY DEF Shape, TypeOK, Slot
  <2>2. Fits(req[x])
    BY SlotFits
  <2> QED
    BY <2>1, <2>2
<1>4. ClaimsClosed'
  BY <1>1 DEF Shape, ClaimsClosed
<1>5. QED
  BY <1>2, <1>3, <1>4 DEF Shape

\* A step that inserts the row of the free token t and moves its slot to "issued".
LEMMA MintStep ==
    ASSUME Shape, NEW r \in Req, NEW t \in Token, status[t] = "free",
           NEW c \in Claims, c.family \in Minted \cup {t}, c.parent \in Minted \cup {t},
           claim' = [claim EXCEPT ![t] = c],
           status' \in [Token -> {"free", "live", "revoked"}],
           Minted' = Minted \cup {t},
           Become(r, "issued", t),
           UNCHANGED <<now, known, blacklist, active>>
    PROVE  Shape'
<1>1. req \in [Req -> Slot]
  BY DEF Shape, TypeOK, Slot
<1>2. req' \in [Req -> Slot]
  <2> DEFINE q == [req[r] EXCEPT !.pc = "issued", !.tok = t]
  <2>1. q \in Slot
    BY <1>1 DEF Slot, PC
  <2>2. req' = [req EXCEPT ![r] = q]
    BY <1>1 DEF Become, Slot
  <2>3. QED
    BY ONLY r \in Req, <1>1, <2>1, <2>2
<1>3. TypeOK'
  BY <1>2 DEF Shape, TypeOK, Slot
<1>4. RequestsReferToMinted'
  <2> SUFFICES ASSUME NEW x \in Req
               PROVE  /\ req'[x].pc = "issue" => req'[x].user \in User
                      /\ req'[x].pc \notin {"idle", "issue"} => req'[x].tok \in Minted \cup {t}
                      /\ req'[x].targets \subseteq Minted \cup {t}
    BY DEF RequestsReferToMinted
  <2>1. Fits(req[x])
    BY SlotFits
  <2> QED
    BY <1>1, <2>1 DEF Become, Fits, Slot
<1>5. ClaimsClosed'
  BY DEF Shape, TypeOK, ClaimsClosed, Minted
<1>6. QED
  BY <1>3, <1>4, <1>5 DEF Shape

-----------------------------------------------------------------------------

LEMMA BeginShape == ASSUME Shape, NEW r \in Req, Begin(r) PROVE Shape'
<1>0. known \subseteq Minted /\ blacklist \in [Token -> Nat]
      /\ \A t \in Token \ Minted : blacklist[t] = 0
  BY DEF Shape, TypeOK, ClaimsClosed
<1>1. ASSUME NEW u \in User, LoginStart(r, u) PROVE Shape'
  <2> DEFINE q == [req[r] EXCEPT !.pc = "issue", !.user = u]
  <2>1. Fits(req[r])
    BY SlotFits
  <2>2. Fits(q)
    BY <2>1 DEF Fits, Slot, PC
  <2>3. req \in [Req -> Slot]
    BY DEF Shape, TypeOK, Slot
  <2>4. req' = [req EXCEPT ![r] = q]
    BY <1>1, <2>3 DEF LoginStart, Slot
  <2>5. QED
    BY ONLY Shape, r \in Req, <1>0, <1>1, <2>2, <2>4, QuietStep DEF LoginStart
<1>2. ASSUME NEW t \in Token,
             \/ RefreshRead(r, t) \/ RefreshReuse(r, t)
             \/ LogoutStart(r, t) \/ ServeStart(r, t)
      PROVE  Shape'
  <2>1. t \in Minted
    BY <1>0, <1>2 DEF RefreshRead, RefreshReuse, LogoutStart, ServeStart
  <2>2. PICK pc \in {"flush", "familySweep", "blacklisting", "serving"} : Become(r, pc, t)
    BY <1>2 DEF RefreshRead, RefreshReuse, LogoutStart, ServeStart
  <2>3. PICK q : Fits(q) /\ req' = [req EXCEPT ![r] = q]
    BY <2>1, <2>2, BecomeFits DEF PC
  <2>4. UNCHANGED <<now, status, claim, known, blacklist, active>>
    BY <1>2 DEF RefreshRead, RefreshReuse, LogoutStart, ServeStart
  <2>5. QED
    BY <1>0, <2>3, <2>4, QuietStep
<1>3. QED
  BY <1>1, <1>2 DEF Begin

LEMMA MintShape ==
    ASSUME Shape, NEW r \in Req, NEW t \in Token, LoginCommit(r, t) \/ RefreshCommit(r, t)
    PROVE  Shape'
<1>1. CASE LoginCommit(r, t)
  <2> DEFINE c == [user |-> req[r].user, family |-> t, parent |-> t, born |-> now]
  <2>1. c \in Claims
    BY <1>1 DEF Shape, TypeOK, RequestsReferToMinted, LoginCommit, Claims
  <2>2. status' \in [Token -> {"free", "live", "revoked"}] /\ Minted' = Minted \cup {t}
    BY <1>1 DEF Shape, TypeOK, LoginCommit, Minted
  <2>3. QED
    BY <1>1, <2>1, <2>2, MintStep DEF LoginCommit
<1>2. CASE RefreshCommit(r, t)
  <2> DEFINE o == req[r].tok
             c == [user |-> claim[o].user, family |-> claim[o].family,
                   parent |-> o, born |-> now]
  <2>1. o \in Minted
    BY <1>2 DEF Shape, RequestsReferToMinted, RefreshCommit
  <2>2. c \in Claims /\ c.family \in Minted /\ c.parent \in Minted
    BY <1>2, <2>1 DEF Shape, TypeOK, ClaimsClosed, RefreshCommit, Claims, Minted
  <2>3. status' \in [Token -> {"free", "live", "revoked"}] /\ Minted' = Minted \cup {t}
    BY <1>2, <2>1 DEF Shape, TypeOK, RefreshCommit, Minted
  <2>4. QED
    BY <1>2, <2>2, <2>3, MintStep DEF RefreshCommit
<1>3. QED
  BY <1>1, <1>2

LEMMA RequestShape ==
    ASSUME Shape, NEW r \in Req,
           \/ RefreshFlush(r) \/ LogoutBlacklist(r) \/ SweepSnapshot(r)
           \/ Answer(r) \/ AnswerLost(r)
    PROVE  Shape'
<1>0. known \subseteq Minted /\ blacklist \in [Token -> Nat]
      /\ \A t \in Token \ Minted : blacklist[t] = 0
  BY DEF Shape, TypeOK, ClaimsClosed
<1>1. CASE RefreshFlush(r)
  <2>1. req[r].tok \in Minted
    BY <1>1 DEF RefreshFlush, Shape, RequestsReferToMinted
  <2>2. PICK q : Fits(q) /\ req' = [req EXCEPT ![r] = q]
    BY <1>1, <2>1, BecomeFits, IdleFits DEF RefreshFlush, Release, PC
  <2>3. QED
    BY <1>0, <1>1, <2>2, QuietStep DEF RefreshFlush
<1>2. CASE LogoutBlacklist(r)
  <2>1. req[r].tok \in Minted
    BY <1>2 DEF LogoutBlacklist, Shape, RequestsReferToMinted
  <2>2. PICK q : Fits(q) /\ req' = [req EXCEPT ![r] = q]
    BY <1>2, <2>1, BecomeFits, IdleFits DEF LogoutBlacklist, Release, PC
  <2>3. now \in Nat /\ claim[req[r].tok].born \in Nat
    BY <2>1 DEF Shape, TypeOK, ClaimsClosed, Claims
  <2>4. now + BlacklistTTL(req[r].tok) \in Nat
    BY <2>3, TTLAssumption DEF BlacklistTTL, AccessExp
  <2>5. /\ blacklist' \in [Token -> Nat]
        /\ \A t \in Token \ Minted : blacklist'[t] = 0
    BY <1>0, <1>2, <2>1, <2>4 DEF LogoutBlacklist, Minted
  <2>6. QED
    BY <1>0, <1>2, <2>2, <2>5, QuietStep DEF LogoutBlacklist
<1>3. CASE SweepSnapshot(r)
  <2> DEFINE q == [req[r] EXCEPT
                     !.pc = IF req[r].pc = "familySweep" THEN "familyApply" ELSE "userApply",
                     !.targets = IF req[r].pc = "familySweep" THEN FamilyLive(req[r].tok)
                                                              ELSE UserLive(req[r].tok)]
  <2>1. Fits(req[r])
    BY SlotFits
  <2>2. FamilyLive(req[r].tok) \subseteq Minted /\ UserLive(req[r].tok) \subseteq Minted
    BY DEF FamilyLive, UserLive, Live, Minted
  <2>3. Fits(q)
    BY <1>3, <2>1, <2>2 DEF SweepSnapshot, Fits, Slot, PC, Minted
  <2>4. req \in [Req -> Slot]
    BY DEF Shape, TypeOK, Slot
  <2>5. req' = [req EXCEPT ![r] = q]
    BY <1>3, <2>4 DEF SweepSnapshot, Slot
  <2>6. UNCHANGED <<now, status, claim, known, blacklist, active>>
    BY <1>3 DEF SweepSnapshot
  <2>7. QED
    BY ONLY Shape, r \in Req, <1>0, <2>3, <2>5, <2>6, QuietStep
<1>4. CASE Answer(r) \/ AnswerLost(r)
  <2>1. known' \subseteq Minted
    BY <1>0, <1>4 DEF Answer, AnswerLost, Shape, RequestsReferToMinted
  <2>2. req' = [req EXCEPT ![r] = Idle]
    BY <1>4 DEF Answer, AnswerLost, Release
  <2>3. QED
    BY <1>0, <1>4, <2>1, <2>2, IdleFits, QuietStep DEF Answer, AnswerLost
<1>5. QED
  BY <1>1, <1>2, <1>3, <1>4

LEMMA SweepShape == ASSUME Shape, NEW r \in Req, SweepApply(r) PROVE Shape'
<1>1. req \in [Req -> Slot] /\ req[r].targets \subseteq Minted /\ req[r].tok \in Minted
  BY DEF Shape, TypeOK, Slot, RequestsReferToMinted, SweepApply
<1>2. Minted' = Minted /\ status' \in [Token -> {"free", "live", "revoked"}]
  BY <1>1 DEF SweepApply, Revoke, Minted, Shape, TypeOK
<1>3. req' \in [Req -> Slot]
  <2> DEFINE p == IF req[r].pc = "familyApply" THEN "reused" ELSE "loggedOut"
             q == [req[r] EXCEPT !.pc = p, !.targets = {}]
  <2>1. q \in Slot
    BY <1>1 DEF Slot, PC
  <2>2. req' = [req EXCEPT ![r] = q]
    BY <1>1 DEF SweepApply, Slot
  <2>3. QED
    BY ONLY r \in Req, <1>1, <2>1, <2>2
<1>4. TypeOK'
  BY <1>2, <1>3 DEF SweepApply, Shape, TypeOK, Slot
<1>5. RequestsReferToMinted'
  <2> SUFFICES ASSUME NEW x \in Req
               PROVE  /\ req'[x].pc = "issue" => req'[x].user \in User
                      /\ req'[x].pc \notin {"idle", "issue"} => req'[x].tok \in Minted
                      /\ req'[x].targets \subseteq Minted
    BY <1>2 DEF RequestsReferToMinted
  <2>1. Fits(req[x])
    BY SlotFits
  <2> QED
    BY <1>1, <2>1 DEF SweepApply, Fits, Slot
<1>6. ClaimsClosed'
  BY <1>2 DEF SweepApply, Shape, ClaimsClosed
<1>7. QED
  BY <1>4, <1>5, <1>6 DEF Shape

LEMMA EnvironmentShape == ASSUME Shape, Environment PROVE Shape'
<1>1. CASE Tick
  BY <1>1 DEF Tick, Shape, TypeOK, RequestsReferToMinted, ClaimsClosed, Minted
<1>2. CASE \E u \in User : DeactivateUser(u) \/ RestoreUser(u)
  BY <1>2 DEF DeactivateUser, RestoreUser, Shape, TypeOK, RequestsReferToMinted,
       ClaimsClosed, Minted
<1>3. QED
  BY <1>1, <1>2 DEF Environment

LEMMA NextShape == ASSUME Shape, [Next]_vars PROVE Shape'
<1>1. CASE UNCHANGED vars
  BY <1>1 DEF vars, Shape, TypeOK, RequestsReferToMinted, ClaimsClosed, Minted
<1>2. CASE Next
  BY <1>2, BeginShape, MintShape, RequestShape, SweepShape, EnvironmentShape DEF Next, Mint
<1>3. QED
  BY <1>1, <1>2

\* The inductive invariant holds in every reachable state.
THEOREM ShapeInvariant == Spec => []Shape
<1>1. Init => Shape
  BY InitShape
<1>2. Shape /\ [Next]_vars => Shape'
  BY NextShape
<1>3. QED
  BY <1>1, <1>2, PTL DEF Spec

\* Every variable keeps its type.
THEOREM TypeCorrect == Spec => []TypeOK
<1>1. Shape => TypeOK
  BY DEF Shape
<1>2. QED
  BY <1>1, ShapeInvariant, PTL

-----------------------------------------------------------------------------
(* Which steps write the tables *)

LEMMA RowWriters ==
    ASSUME [Next]_vars
    PROVE  \/ UNCHANGED <<status, claim>>
           \/ \E r \in Req, t \in Token : LoginCommit(r, t) \/ RefreshCommit(r, t)
           \/ \E r \in Req : SweepApply(r)
<1>1. CASE UNCHANGED vars
  BY <1>1 DEF vars
<1>2. CASE Environment
  BY <1>2 DEF Environment, Tick, DeactivateUser, RestoreUser
<1>3. ASSUME NEW r \in Req, Begin(r) PROVE UNCHANGED <<status, claim>>
  BY <1>3 DEF Begin, LoginStart, RefreshRead, RefreshReuse, LogoutStart, ServeStart
<1>4. ASSUME NEW r \in Req,
             RefreshFlush(r) \/ LogoutBlacklist(r) \/ SweepSnapshot(r) \/ Answer(r) \/ AnswerLost(r)
      PROVE  UNCHANGED <<status, claim>>
  BY <1>4 DEF RefreshFlush, LogoutBlacklist, SweepSnapshot, Answer, AnswerLost
<1>5. QED
  BY <1>1, <1>2, <1>3, <1>4 DEF Next, Mint

\* What any step does to the rows: claims of minted tokens are never rewritten
\* and a revoked row is never live again.
RowKept(t) ==
    /\ t \in Minted'
    /\ claim'[t] = claim[t]
    /\ status[t] = "revoked" => status'[t] = "revoked"

LEMMA RowsMonotone ==
    ASSUME Shape, [Next]_vars, NEW t \in Minted
    PROVE  RowKept(t)
<1> USE DEF RowKept
<1>1. CASE UNCHANGED <<status, claim>>
  BY <1>1 DEF Minted
<1>2. ASSUME NEW r \in Req, NEW n \in Token, LoginCommit(r, n) PROVE  RowKept(t)
  BY <1>2 DEF LoginCommit, Minted, Shape, TypeOK
<1>3. ASSUME NEW r \in Req, NEW n \in Token, RefreshCommit(r, n) PROVE  RowKept(t)
  BY <1>3 DEF RefreshCommit, Minted, Shape, TypeOK
<1>4. ASSUME NEW r \in Req, SweepApply(r) PROVE  RowKept(t)
  BY <1>4 DEF SweepApply, Revoke, Minted, Shape, TypeOK
<1>5. QED
  BY <1>1, <1>2, <1>3, <1>4, RowWriters

-----------------------------------------------------------------------------
(* Families *)

LEMMA OwnerStep ==
    ASSUME Shape, FamilyOneOwner, [Next]_vars
    PROVE  FamilyOneOwner'
<1>1. CASE Minted' = Minted
  BY <1>1, RowsMonotone DEF FamilyOneOwner, RowKept
<1>2. ASSUME NEW r \in Req, NEW n \in Token, LoginCommit(r, n) PROVE FamilyOneOwner'
  <2>1. Minted' = Minted \cup {n} /\ n \notin Minted
    BY <1>2 DEF LoginCommit, Minted, Shape, TypeOK
  <2>2. claim'[n].family = n
    BY <1>2 DEF LoginCommit, Shape, TypeOK
  <2>3. QED
    BY <2>1, <2>2, RowsMonotone DEF FamilyOneOwner, RowKept
<1>3. ASSUME NEW r \in Req, NEW n \in Token, RefreshCommit(r, n) PROVE FamilyOneOwner'
  <2>1. req[r].tok \in Minted
    BY <1>3 DEF RefreshCommit, Shape, RequestsReferToMinted
  <2>2. Minted' = Minted \cup {n} /\ n \notin Minted
    BY <1>3, <2>1 DEF RefreshCommit, Minted, Shape, TypeOK
  <2>3. /\ claim'[n].family = claim[req[r].tok].family
        /\ claim'[n].user = claim[req[r].tok].user
    BY <1>3 DEF RefreshCommit, Shape, TypeOK
  <2>4. QED
    BY <2>1, <2>2, <2>3, RowsMonotone DEF FamilyOneOwner, RowKept
<1>4. ASSUME NEW r \in Req, SweepApply(r) PROVE Minted' = Minted
  BY <1>4 DEF SweepApply, Revoke, Minted, Shape, TypeOK, RequestsReferToMinted
<1>5. QED
  BY <1>1, <1>2, <1>3, <1>4, RowWriters DEF Minted

\* Every token of a family, whoever minted it and when, is its founder's user's.
THEOREM FamilyOneOwnerHolds == Spec => []FamilyOneOwner
<1>1. Init => FamilyOneOwner
  BY DEF Init, FamilyOneOwner, Minted
<1>2. Shape /\ FamilyOneOwner /\ [Next]_vars => FamilyOneOwner'
  BY OwnerStep
<1>3. QED
  BY <1>1, <1>2, ShapeInvariant, PTL DEF Spec

LEMMA SuccessorStep ==
    ASSUME Shape, SuccessorSpendsParent, [Next]_vars
    PROVE  SuccessorSpendsParent'
<1>0. ASSUME NEW t \in Minted PROVE claim[t].parent \in Minted
  BY DEF Shape, ClaimsClosed
<1>1. CASE Minted' = Minted
  BY <1>0, <1>1, RowsMonotone DEF SuccessorSpendsParent, RowKept
<1>2. ASSUME NEW r \in Req, NEW n \in Token, LoginCommit(r, n) PROVE SuccessorSpendsParent'
  <2>1. Minted' = Minted \cup {n}
    BY <1>2 DEF LoginCommit, Minted, Shape, TypeOK
  <2>2. claim'[n].parent = n
    BY <1>2 DEF LoginCommit, Shape, TypeOK
  <2>3. QED
    BY <1>0, <2>1, <2>2, RowsMonotone DEF SuccessorSpendsParent, RowKept
<1>3. ASSUME NEW r \in Req, NEW n \in Token, RefreshCommit(r, n) PROVE SuccessorSpendsParent'
  <2>1. req[r].tok \in Minted
    BY <1>3 DEF RefreshCommit, Shape, RequestsReferToMinted
  <2>2. Minted' = Minted \cup {n}
    BY <1>3, <2>1 DEF RefreshCommit, Minted, Shape, TypeOK
  <2>3. claim'[n].parent = req[r].tok
    BY <1>3 DEF RefreshCommit, Shape, TypeOK
  <2>4. status'[req[r].tok] = "revoked"
    BY <1>3, <2>1 DEF RefreshCommit, Minted, Shape, TypeOK
  <2>5. QED
    BY <1>0, <2>2, <2>3, <2>4, RowsMonotone DEF SuccessorSpendsParent, RowKept
<1>4. ASSUME NEW r \in Req, SweepApply(r) PROVE Minted' = Minted
  BY <1>4 DEF SweepApply, Revoke, Minted, Shape, TypeOK, RequestsReferToMinted
<1>5. QED
  BY <1>1, <1>2, <1>3, <1>4, RowWriters DEF Minted

\* Rotation is atomic under any interleaving: where there is a successor, the
\* token it was exchanged for is revoked.
THEOREM SuccessorSpendsParentHolds == Spec => []SuccessorSpendsParent
<1>1. Init => SuccessorSpendsParent
  BY DEF Init, SuccessorSpendsParent, Minted
<1>2. Shape /\ SuccessorSpendsParent /\ [Next]_vars => SuccessorSpendsParent'
  BY SuccessorStep
<1>3. QED
  BY <1>1, <1>2, ShapeInvariant, PTL DEF Spec

\* A family nobody is rotating and with no live token gets neither back: a live
\* token of it could come only from a refresh that read one as live.
LEMMA DeadStep ==
    ASSUME Shape, [Next]_vars, NEW f \in Token, FamilyDead(f)
    PROVE  FamilyDead(f)'
<1>0. ASSUME NEW t \in Minted PROVE claim[t].family \in Minted /\ claim'[t] = claim[t]
  BY RowsMonotone DEF Shape, ClaimsClosed, RowKept
<1>1. f \in Minted'
  BY RowsMonotone DEF FamilyDead, RowKept
<1>2. ASSUME NEW t \in Live' PROVE claim'[t].family # f
  <2>1. CASE UNCHANGED <<status, claim>>
    BY <1>2, <2>1 DEF FamilyDead, Live
  <2>2. ASSUME NEW r \in Req, NEW n \in Token, LoginCommit(r, n) PROVE claim'[t].family # f
    BY <1>2, <2>2 DEF LoginCommit, FamilyDead, Live, Minted, Shape, TypeOK
  <2>3. ASSUME NEW r \in Req, NEW n \in Token, RefreshCommit(r, n) PROVE claim'[t].family # f
    <3>1. claim[req[r].tok].family # f
      BY <2>3 DEF FamilyDead, Spending, RefreshCommit
    <3>2. claim'[n].family = claim[req[r].tok].family
      BY <2>3 DEF RefreshCommit, Shape, TypeOK
    <3>3. t # n => t \in Live /\ claim'[t] = claim[t]
      BY <1>2, <2>3 DEF RefreshCommit, Live, Shape, TypeOK
    <3>4. QED
      BY <3>1, <3>2, <3>3 DEF FamilyDead
  <2>4. ASSUME NEW r \in Req, SweepApply(r) PROVE claim'[t].family # f
    BY <1>2, <2>4 DEF SweepApply, Revoke, FamilyDead, Live, Shape, TypeOK
  <2>5. QED
    BY <2>1, <2>2, <2>3, <2>4, RowWriters
<1>3. ASSUME NEW x \in Req, req'[x].pc \in {"flush", "commit"}
      PROVE  claim'[req'[x].tok].family # f
  <2>1. CASE req'[x] = req[x]
    <3>1. req[x].tok \in Minted
      BY <1>3, <2>1 DEF Shape, RequestsReferToMinted
    <3>2. QED
      BY <1>0, <1>3, <2>1, <3>1 DEF FamilyDead, Spending
  <2>2. ASSUME NEW t \in Token, RefreshRead(x, t) PROVE claim'[req'[x].tok].family # f
    BY <2>2 DEF RefreshRead, Become, FamilyDead, Live, Shape, TypeOK
  <2>3. CASE RefreshFlush(x)
    BY <1>3, <2>3 DEF RefreshFlush, Become, Release, Idle, FamilyDead, Spending, Shape, TypeOK
  <2>4. QED
    <3>1. ASSUME NEW r \in Req, Begin(r) PROVE req'[x] = req[x] \/ \E t \in Token : RefreshRead(x, t)
      <4>1. CASE \E u \in User : LoginStart(r, u)
        BY <1>3, <4>1 DEF LoginStart, Shape, TypeOK
      <4>2. CASE \E t \in Token : RefreshReuse(r, t) \/ LogoutStart(r, t) \/ ServeStart(r, t)
        BY <1>3, <4>2 DEF RefreshReuse, LogoutStart, ServeStart, Become, Shape, TypeOK
      <4>3. CASE r = x /\ \E t \in Token : RefreshRead(r, t)
        BY <4>3
      <4>4. CASE r # x /\ \E t \in Token : RefreshRead(r, t)
        BY <4>4 DEF RefreshRead, Become, Shape, TypeOK
      <4>5. QED
        BY <3>1, <4>1, <4>2, <4>3, <4>4 DEF Begin
    <3>2. ASSUME NEW r \in Req, Mint(r) PROVE req'[x] = req[x]
      BY <1>3, <3>2 DEF Mint, LoginCommit, RefreshCommit, Become, Shape, TypeOK
    <3>3. ASSUME NEW r \in Req, RefreshFlush(r) PROVE req'[x] = req[x] \/ RefreshFlush(x)
      BY <3>3 DEF RefreshFlush, Become, Release, Shape, TypeOK
    <3>4. ASSUME NEW r \in Req, LogoutBlacklist(r) \/ SweepSnapshot(r) PROVE req'[x] = req[x]
      BY <1>3, <3>4 DEF LogoutBlacklist, SweepSnapshot, Become, Release, Idle, Shape, TypeOK
    <3>5. ASSUME NEW r \in Req, SweepApply(r) \/ Answer(r) \/ AnswerLost(r) PROVE req'[x] = req[x]
      BY <1>3, <3>5 DEF SweepApply, Answer, AnswerLost, Release, Idle, Shape, TypeOK
    <3>6. ASSUME Environment \/ UNCHANGED vars PROVE req'[x] = req[x]
      BY <3>6 DEF Environment, Tick, DeactivateUser, RestoreUser, vars
    <3>7. QED
      BY <2>1, <2>2, <2>3, <3>1, <3>2, <3>3, <3>4, <3>5, <3>6 DEF Next
<1>4. QED
  BY <1>1, <1>2, <1>3 DEF FamilyDead, Spending

\* After reuse detection or logout has emptied a family that no refresh is
\* rotating, no sequence of requests makes one of its tokens work again.
THEOREM DeadFamilyStaysDeadHolds == Spec => DeadFamilyStaysDead
<1>1. Shape /\ [Next]_vars => [\A f \in Token : FamilyDead(f) => FamilyDead(f)']_vars
  BY DeadStep
<1>2. QED
  BY <1>1, ShapeInvariant, PTL DEF Spec, DeadFamilyStaysDead

-----------------------------------------------------------------------------
(* Blacklist *)

LEMMA BlacklistStep ==
    ASSUME Shape, BlacklistOutlivesToken, [Next]_vars
    PROVE  BlacklistOutlivesToken'
<1>1. SUFFICES ASSUME NEW t \in Token, blacklist'[t] # 0
               PROVE  t \in Minted' /\ AccessExp(t)' <= blacklist'[t]
  BY DEF BlacklistOutlivesToken
<1>2. CASE blacklist'[t] = blacklist[t]
  BY <1>1, <1>2, RowsMonotone DEF BlacklistOutlivesToken, RowKept, AccessExp
<1>3. ASSUME NEW r \in Req, LogoutBlacklist(r), blacklist'[t] # blacklist[t]
      PROVE  t \in Minted' /\ AccessExp(t)' <= blacklist'[t]
  <2>1. t = req[r].tok /\ blacklist'[t] = now + BlacklistTTL(t)
    BY <1>3 DEF LogoutBlacklist, Shape, TypeOK
  <2>2. t \in Minted
    BY <1>3, <2>1 DEF LogoutBlacklist, Shape, RequestsReferToMinted
  <2>3. now \in Nat /\ AccessExp(t) \in Nat
    BY <2>2, TTLAssumption DEF Shape, TypeOK, ClaimsClosed, Claims, AccessExp
  <2>4. AccessExp(t)' = AccessExp(t) /\ t \in Minted'
    BY <2>2, RowsMonotone DEF RowKept, AccessExp
  <2>5. QED
    BY <2>1, <2>3, <2>4 DEF BlacklistTTL
<1>4. \/ blacklist' = blacklist
      \/ \E r \in Req : LogoutBlacklist(r)
  <2>1. ASSUME NEW r \in Req, Begin(r) PROVE blacklist' = blacklist
    BY <2>1 DEF Begin, LoginStart, RefreshRead, RefreshReuse, LogoutStart, ServeStart
  <2>2. ASSUME NEW r \in Req, Mint(r) \/ RefreshFlush(r) \/ SweepSnapshot(r)
               \/ SweepApply(r) \/ Answer(r) \/ AnswerLost(r)
        PROVE  blacklist' = blacklist
    BY <2>2 DEF Mint, LoginCommit, RefreshCommit, RefreshFlush, SweepSnapshot,
         SweepApply, Answer, AnswerLost
  <2>3. ASSUME Environment \/ UNCHANGED vars PROVE blacklist' = blacklist
    BY <2>3 DEF Environment, Tick, DeactivateUser, RestoreUser, vars
  <2>4. QED
    BY <2>1, <2>2, <2>3 DEF Next
<1>5. QED
  BY <1>2, <1>3, <1>4

\* The TTL logout computes covers the rest of the access token's life.
THEOREM BlacklistOutlivesTokenHolds == Spec => []BlacklistOutlivesToken
<1>1. Init => BlacklistOutlivesToken
  BY DEF Init, BlacklistOutlivesToken
<1>2. Shape /\ BlacklistOutlivesToken /\ [Next]_vars => BlacklistOutlivesToken'
  BY BlacklistStep
<1>3. QED
  BY <1>1, <1>2, ShapeInvariant, PTL DEF Spec

\* A token logout has blacklisted passes get_current_user again only in the
\* last tick of its life.
THEOREM NoServiceAfterLogoutHolds == Spec => NoServiceAfterLogout
<1> DEFINE Refused == \A r \in Req :
             (req[r].pc # "serving" /\ req'[r].pc = "serving")
               => LET t == req'[r].tok IN blacklist[t] = 0 \/ now >= AccessExp(t)
<1>1. Shape /\ BlacklistOutlivesToken /\ [Next]_vars => [Refused]_vars
  <2> SUFFICES ASSUME Shape, BlacklistOutlivesToken, [Next]_vars,
                      NEW r \in Req, req[r].pc # "serving", req'[r].pc = "serving"
               PROVE  blacklist[req'[r].tok] = 0 \/ now >= AccessExp(req'[r].tok)
    OBVIOUS
  <2>1. ASSUME NEW x \in Req, NEW t \in Token, ServeStart(x, t)
        PROVE  blacklist[req'[r].tok] = 0 \/ now >= AccessExp(req'[r].tok)
    <3>1. req'[r].tok = t /\ ~(now < blacklist[t])
      BY <2>1 DEF ServeStart, Become, Blacklisted, Shape, TypeOK
    <3>2. t \in Minted
      BY <2>1 DEF ServeStart, Shape, ClaimsClosed
    <3>3. now \in Nat /\ AccessExp(t) \in Nat /\ blacklist[t] \in Nat
      BY <3>2, TTLAssumption DEF Shape, TypeOK, ClaimsClosed, Claims, AccessExp
    <3>4. QED
      BY <3>1, <3>3 DEF BlacklistOutlivesToken
  <2>2. ASSUME NEW x \in Req, (\E u \in User : LoginStart(x, u)) \/ SweepSnapshot(x) \/ SweepApply(x)
        PROVE  FALSE
    BY <2>2 DEF LoginStart, SweepSnapshot, SweepApply, Shape, TypeOK
  <2>3. ASSUME NEW x \in Req, \E t \in Token : RefreshRead(x, t) \/ RefreshReuse(x, t) \/ LogoutStart(x, t)
        PROVE  FALSE
    BY <2>3 DEF RefreshRead, RefreshReuse, LogoutStart, Become, Shape, TypeOK
  <2>4. ASSUME NEW x \in Req, Mint(x) \/ RefreshFlush(x) \/ LogoutBlacklist(x) PROVE FALSE
    BY <2>4 DEF Mint, LoginCommit, RefreshCommit, RefreshFlush, LogoutBlacklist,
         Become, Release, Idle, Shape, TypeOK
  <2>5. ASSUME NEW x \in Req, Answer(x) \/ AnswerLost(x) PROVE FALSE
    BY <2>5 DEF Answer, AnswerLost, Release, Idle, Shape, TypeOK
  <2>6. ~(Environment \/ UNCHANGED vars)
    BY DEF Environment, Tick, DeactivateUser, RestoreUser, vars
  <2>7. QED
    BY <2>1, <2>2, <2>3, <2>4, <2>5, <2>6 DEF Next, Begin
<1>2. QED
  BY <1>1, ShapeInvariant, BlacklistOutlivesTokenHolds, PTL DEF Spec, NoServiceAfterLogout

-----------------------------------------------------------------------------
(* Deactivation *)

\* Without an admitted request, no step gives a token to an inactive user.
LEMMA InactiveStep ==
    ASSUME Shape, [Next]_vars, NEW u \in User, ~Admitted(u)
    PROVE  TokensOf(u)' = TokensOf(u)
<1>1. CASE UNCHANGED <<status, claim>>
  BY <1>1 DEF TokensOf, Minted
<1>2. ASSUME NEW r \in Req, NEW n \in Token, LoginCommit(r, n) PROVE TokensOf(u)' = TokensOf(u)
  BY <1>2 DEF LoginCommit, Admitted, TokensOf, Minted, Shape, TypeOK
<1>3. ASSUME NEW r \in Req, NEW n \in Token, RefreshCommit(r, n) PROVE TokensOf(u)' = TokensOf(u)
  <2>1. req[r].tok \in Minted
    BY <1>3 DEF RefreshCommit, Shape, RequestsReferToMinted
  <2>2. claim'[n].user = claim[req[r].tok].user /\ claim[req[r].tok].user # u
    BY <1>3 DEF RefreshCommit, Admitted, Shape, TypeOK
  <2>3. Minted' = Minted \cup {n} /\ n \notin Minted
    BY <1>3, <2>1 DEF RefreshCommit, Minted, Shape, TypeOK
  <2>4. QED
    BY <2>2, <2>3, RowsMonotone DEF TokensOf, RowKept
<1>4. ASSUME NEW r \in Req, SweepApply(r) PROVE TokensOf(u)' = TokensOf(u)
  BY <1>4 DEF SweepApply, Revoke, TokensOf, Minted, Shape, TypeOK, RequestsReferToMinted
<1>5. QED
  BY <1>1, <1>2, <1>3, <1>4, RowWriters

\* A request admits only a user it finds active.
LEMMA AdmissionStep ==
    ASSUME Shape, [Next]_vars, NEW u \in User, LockedOut(u), NEW x \in Req
    PROVE  /\ ~(req'[x].pc = "issue" /\ req'[x].user = u)
           /\ ~(req'[x].pc = "commit" /\ claim'[req'[x].tok].user = u)
<1> DEFINE Refused == /\ ~(req'[x].pc = "issue" /\ req'[x].user = u)
                      /\ ~(req'[x].pc = "commit" /\ claim'[req'[x].tok].user = u)
<1>1. CASE req'[x] = req[x]
  <2>1. req[x].pc = "commit" => req[x].tok \in Minted
    BY DEF Shape, RequestsReferToMinted
  <2>2. QED
    BY <1>1, <2>1, RowsMonotone DEF RowKept, LockedOut, Admitted
<1>2. CASE RefreshFlush(x)
  BY <1>2 DEF RefreshFlush, Become, Release, Idle, LockedOut, Shape, TypeOK
<1>3. CASE \E v \in User : LoginStart(x, v)
  BY <1>3 DEF LoginStart, LockedOut, Shape, TypeOK
<1>4. CASE req'[x].pc \notin {"issue", "commit"}
  BY <1>4
<1>5. ASSUME NEW r \in Req, Begin(r) PROVE Refused
  <2>1. CASE \E v \in User : r # x /\ LoginStart(r, v)
    <3>1. req'[x] = req[x]
      BY <2>1 DEF LoginStart, Shape, TypeOK
    <3>2. QED
      BY <1>1, <3>1
  <2>2. CASE \E t \in Token : RefreshRead(r, t) \/ RefreshReuse(r, t)
                            \/ LogoutStart(r, t) \/ ServeStart(r, t)
    <3>1. req'[x] = req[x] \/ req'[x].pc \notin {"issue", "commit"}
      BY <2>2 DEF RefreshRead, RefreshReuse, LogoutStart, ServeStart, Become, Shape, TypeOK
    <3>2. QED
      BY <1>1, <1>4, <3>1
  <2>3. QED
    BY <1>3, <1>5, <2>1, <2>2 DEF Begin
<1>6. ASSUME NEW r \in Req, r # x, RefreshFlush(r) PROVE Refused
  <2>1. req'[x] = req[x]
    BY <1>6 DEF RefreshFlush, Become, Release, Shape, TypeOK
  <2>2. QED
    BY <1>1, <2>1
<1>7. ASSUME NEW r \in Req, Mint(r) \/ LogoutBlacklist(r) \/ SweepSnapshot(r)
      PROVE  Refused
  <2>1. req'[x] = req[x] \/ req'[x].pc \notin {"issue", "commit"}
    BY <1>7 DEF Mint, LoginCommit, RefreshCommit, LogoutBlacklist, SweepSnapshot,
         Become, Release, Idle, Shape, TypeOK
  <2>2. QED
    BY <1>1, <1>4, <2>1
<1>8. ASSUME NEW r \in Req, SweepApply(r) \/ Answer(r) \/ AnswerLost(r) PROVE Refused
  <2>1. req'[x] = req[x] \/ req'[x].pc \notin {"issue", "commit"}
    BY <1>8 DEF SweepApply, Answer, AnswerLost, Release, Idle, Shape, TypeOK
  <2>2. QED
    BY <1>1, <1>4, <2>1
<1>9. ASSUME Environment \/ UNCHANGED vars PROVE Refused
  <2>1. req'[x] = req[x]
    BY <1>9 DEF Environment, Tick, DeactivateUser, RestoreUser, vars
  <2>2. QED
    BY <1>1, <2>1
<1>10. QED
  BY <1>2, <1>5, <1>6, <1>7, <1>8, <1>9 DEF Next

\* A deactivated user stays locked out of new tokens, except for a request that
\* had loaded the user before the deactivation.
THEOREM InactiveGainsNothingHolds == Spec => InactiveGainsNothing
<1>1. Shape /\ [Next]_vars
        => [\A u \in User : LockedOut(u) => TokensOf(u)' = TokensOf(u) /\ ~Admitted(u)']_vars
  BY InactiveStep, AdmissionStep DEF LockedOut, Admitted
<1>2. QED
  BY <1>1, ShapeInvariant, PTL DEF Spec, InactiveGainsNothing

-----------------------------------------------------------------------------
(* One request at a time (MC_Auth): what two requests at once can break is  *)
(* kept when none overlaps another, and then by every step.                 *)

\* The row a rotation has read is still live, and a sweep has picked every row
\* it is for, until it is done.
SlotSerial(q) ==
    /\ q.pc \in {"flush", "commit"} => q.tok \in Live
    /\ q.pc = "familyApply" => FamilyLive(q.tok) \subseteq q.targets
    /\ q.pc = "userApply" => UserLive(q.tok) \subseteq q.targets
    /\ q.pc = "reused" => \A t \in Live : claim[t].family # claim[q.tok].family
    /\ q.pc = "loggedOut" => \A t \in Live : claim[t].user # claim[q.tok].user

Serial == OneAtATime /\ OneLivePerFamily /\ \A r \in Req : SlotSerial(req[r])

LEMMA IdleSerial == ASSUME NEW q, q.pc \in {"idle", "issue", "familySweep", "blacklisting",
                                            "userSweep", "serving", "issued"}
                    PROVE  SlotSerial(q)
BY DEF SlotSerial

\* The slot of every other request is idle, and stays so.
Lonely(r) == \A x \in Req \ {r} : req[x].pc = "idle" /\ req'[x] = req[x]

Moves(r) ==
    \/ Begin(r) \/ Mint(r) \/ RefreshFlush(r) \/ LogoutBlacklist(r) \/ SweepSnapshot(r)
    \/ SweepApply(r) \/ Answer(r) \/ AnswerLost(r)

LEMMA OthersKeep ==
    ASSUME Shape, NEW r \in Req, Moves(r), NEW x \in Req \ {r}
    PROVE  req'[x] = req[x]
<1>1. CASE Begin(r)
  BY <1>1 DEF Begin, LoginStart, RefreshRead, RefreshReuse, LogoutStart, ServeStart, Become,
              Shape, TypeOK
<1>2. CASE Mint(r)
  BY <1>2 DEF Mint, LoginCommit, RefreshCommit, Become, Shape, TypeOK
<1>3. CASE RefreshFlush(r) \/ LogoutBlacklist(r) \/ Answer(r) \/ AnswerLost(r)
  BY <1>3 DEF RefreshFlush, LogoutBlacklist, Answer, AnswerLost, Become, Release, Shape, TypeOK
<1>4. CASE SweepSnapshot(r) \/ SweepApply(r)
  BY <1>4 DEF SweepSnapshot, SweepApply, Shape, TypeOK
<1>5. QED
  BY <1>1, <1>2, <1>3, <1>4 DEF Moves

LEMMA LonelyStep ==
    ASSUME Shape, Serial, NEW r \in Req, Moves(r), OneAtATime'
    PROVE  Lonely(r)
<1>1. req[r].pc # "idle" \/ req'[r].pc # "idle"
  <2>1. CASE Begin(r)
    BY <2>1 DEF Begin, LoginStart, RefreshRead, RefreshReuse, LogoutStart, ServeStart, Become,
                Shape, TypeOK
  <2>2. CASE ~Begin(r)
    BY <2>2 DEF Moves, Mint, LoginCommit, RefreshCommit, RefreshFlush, LogoutBlacklist,
                SweepSnapshot, SweepApply, Answer, AnswerLost
  <2>3. QED
    BY <2>1, <2>2
<1>2. ASSUME NEW x \in Req \ {r} PROVE req[x].pc = "idle" /\ req'[x] = req[x]
  BY <1>1, OthersKeep DEF Serial, OneAtATime
<1>3. QED
  BY <1>2 DEF Lonely

\* Only the slot of the step has to be looked at.
LEMMA SerialBySlot ==
    ASSUME Shape, Serial, NEW r \in Req, Lonely(r), OneAtATime', OneLivePerFamily',
           SlotSerial(req[r])'
    PROVE  Serial'
<1>1. ASSUME NEW x \in Req \ {r} PROVE SlotSerial(req[x])'
  BY <1>1 DEF Lonely, SlotSerial
<1>2. QED
  BY <1>1 DEF Serial

LEMMA BeginSerial ==
    ASSUME Shape, Serial, NEW r \in Req, Begin(r), OneAtATime'
    PROVE  Serial'
<1>1. UNCHANGED <<status, claim>> /\ Lonely(r)
  BY LonelyStep
  DEF Moves, Begin, LoginStart, RefreshRead, RefreshReuse, LogoutStart, ServeStart
<1>2. OneLivePerFamily'
  BY <1>1 DEF Serial, OneLivePerFamily, Live
<1>3. SlotSerial(req[r])'
  <2>1. ASSUME NEW t \in Token, RefreshRead(r, t) PROVE SlotSerial(req[r])'
    BY <2>1 DEF RefreshRead, Become, Usable, Live, SlotSerial, Shape, TypeOK
  <2>2. CASE \E u \in User : LoginStart(r, u)
    BY <2>2 DEF LoginStart, SlotSerial, Shape, TypeOK
  <2>3. ASSUME NEW t \in Token, RefreshReuse(r, t) \/ LogoutStart(r, t) \/ ServeStart(r, t)
        PROVE  SlotSerial(req[r])'
    BY <2>3 DEF RefreshReuse, LogoutStart, ServeStart, Become, SlotSerial, Shape, TypeOK
  <2>4. QED
    BY <2>1, <2>2, <2>3 DEF Begin
<1>4. QED
  BY <1>1, <1>2, <1>3, SerialBySlot

LEMMA RequestSerial ==
    ASSUME Shape, Serial, NEW r \in Req, OneAtATime',
           \/ RefreshFlush(r) \/ LogoutBlacklist(r) \/ SweepSnapshot(r)
           \/ Answer(r) \/ AnswerLost(r)
    PROVE  Serial'
<1>1. UNCHANGED <<status, claim>>
  BY DEF RefreshFlush, LogoutBlacklist, SweepSnapshot, Answer, AnswerLost
<1>2. Lonely(r)
  BY LonelyStep DEF Moves
<1>3. OneLivePerFamily'
  BY <1>1 DEF Serial, OneLivePerFamily, Live
<1>4. SlotSerial(req[r])'
  <2>1. CASE RefreshFlush(r)
    BY <1>1, <2>1 DEF RefreshFlush, Become, Release, Idle, Live, Serial, SlotSerial, Shape, TypeOK
  <2>2. CASE LogoutBlacklist(r)
    BY <2>2 DEF LogoutBlacklist, Become, Release, Idle, SlotSerial, Shape, TypeOK
  <2>3. CASE SweepSnapshot(r)
    <3>1. CASE req[r].pc = "familySweep"
      <4>1. req'[r].pc = "familyApply" /\ req'[r].tok = req[r].tok
            /\ req'[r].targets = FamilyLive(req[r].tok)
        BY <2>3, <3>1 DEF SweepSnapshot, Shape, TypeOK
      <4>2. QED
        BY <1>1, <4>1 DEF FamilyLive, Live, SlotSerial
    <3>2. CASE req[r].pc = "userSweep"
      <4>1. req'[r].pc = "userApply" /\ req'[r].tok = req[r].tok
            /\ req'[r].targets = UserLive(req[r].tok)
        BY <2>3, <3>2 DEF SweepSnapshot, Shape, TypeOK
      <4>2. QED
        BY <1>1, <4>1 DEF UserLive, Live, SlotSerial
    <3>3. QED
      BY <2>3, <3>1, <3>2 DEF SweepSnapshot
  <2>4. CASE Answer(r) \/ AnswerLost(r)
    BY <2>4 DEF Answer, AnswerLost, Release, Idle, SlotSerial, Shape, TypeOK
  <2>5. QED
    BY <2>1, <2>2, <2>3, <2>4
<1>5. QED
  BY <1>2, <1>3, <1>4, SerialBySlot

\* A login founds a family of its own; a refresh spends the one live token there was.
LEMMA MintSerial ==
    ASSUME Shape, Serial, NEW r \in Req, NEW t \in Token, LoginCommit(r, t) \/ RefreshCommit(r, t),
           OneAtATime'
    PROVE  Serial'
<1>1. Lonely(r)
  BY LonelyStep DEF Moves, Mint
<1>2. SlotSerial(req[r])'
  BY DEF LoginCommit, RefreshCommit, Become, SlotSerial, Shape, TypeOK
<1>3. t \notin Minted /\ \A x \in Live : x \in Minted /\ claim[x].family \in Minted
  BY DEF LoginCommit, RefreshCommit, Minted, Live, Shape, ClaimsClosed
<1>4. OneLivePerFamily'
  <2>1. CASE LoginCommit(r, t)
    <3>1. claim'[t].family = t /\ \A x \in Token \ {t} : claim'[x] = claim[x]
      BY <2>1 DEF LoginCommit, Shape, TypeOK
    <3>2. Live' = Live \cup {t}
      BY <2>1 DEF LoginCommit, Live, Shape, TypeOK
    <3>3. \A x \in Live' : x # t => x \in Live /\ claim'[x] = claim[x] /\ claim'[x].family # t
      BY <1>3, <3>1, <3>2 DEF Live
    <3>4. QED
      BY <3>1, <3>3 DEF Serial, OneLivePerFamily
  <2>2. CASE RefreshCommit(r, t)
    <3> DEFINE o == req[r].tok
    <3>1. o \in Live
      BY <2>2 DEF RefreshCommit, Serial, SlotSerial
    <3>2. /\ claim'[t].family = claim[o].family
          /\ \A x \in Token \ {t} : claim'[x] = claim[x]
      BY <2>2 DEF RefreshCommit, Shape, TypeOK
    <3>3. Live' = (Live \ {o}) \cup {t}
      <4>1. status \in [Token -> {"free", "live", "revoked"}] /\ o \in Token /\ o # t
        BY <1>3, <3>1 DEF Live, Shape, TypeOK
      <4>2. status' = [status EXCEPT ![o] = "revoked", ![t] = "live"]
        BY <2>2 DEF RefreshCommit
      <4>3. /\ status'[t] = "live" /\ status'[o] = "revoked"
            /\ \A x \in Token \ {o, t} : status'[x] = status[x]
        BY <4>1, <4>2
      <4>4. QED
        BY <4>1, <4>3 DEF Live
    <3>4. \A x \in Live' : x # t => x \in Live /\ x # o /\ claim'[x] = claim[x]
      BY <1>3, <3>2, <3>3 DEF Live
    <3>5. \A x \in Live : claim[x].family = claim[o].family => x = o
      BY <3>1 DEF Serial, OneLivePerFamily
    <3>6. QED
      BY <3>2, <3>4, <3>5 DEF Serial, OneLivePerFamily
  <2>3. QED
    BY <2>1, <2>2
<1>5. QED
  BY <1>1, <1>2, <1>4, SerialBySlot

LEMMA SweepSerial ==
    ASSUME Shape, Serial, NEW r \in Req, SweepApply(r), OneAtATime'
    PROVE  Serial'
<1>1. Lonely(r)
  BY LonelyStep DEF Moves
<1>2. claim' = claim /\ Live' = Live \ req[r].targets
  BY DEF SweepApply, Revoke, Live, Shape, TypeOK
<1>3. OneLivePerFamily'
  BY <1>2 DEF Serial, OneLivePerFamily
<1>4. req'[r].tok = req[r].tok
      /\ req'[r].pc = (IF req[r].pc = "familyApply" THEN "reused" ELSE "loggedOut")
  BY DEF SweepApply, Shape, TypeOK
<1>5. SlotSerial(req[r])
  BY DEF Serial
<1>6. SlotSerial(req[r])'
  <2>1. CASE req[r].pc = "familyApply"
    <3>1. \A t \in Live' : claim'[t].family # claim'[req'[r].tok].family
      BY <1>2, <1>4, <1>5, <2>1 DEF SlotSerial, FamilyLive
    <3>2. QED
      BY <1>4, <2>1, <3>1 DEF SlotSerial
  <2>2. CASE req[r].pc = "userApply"
    <3>1. \A t \in Live' : claim'[t].user # claim'[req'[r].tok].user
      BY <1>2, <1>4, <1>5, <2>2 DEF SlotSerial, UserLive
    <3>2. QED
      BY <1>4, <2>2, <3>1 DEF SlotSerial
  <2>3. QED
    BY <2>1, <2>2 DEF SweepApply
<1>7. QED
  BY <1>1, <1>3, <1>6, SerialBySlot

LEMMA NextSerial ==
    ASSUME Shape, Serial, Next, OneAtATime'
    PROVE  Serial'
<1>1. CASE Environment
  BY <1>1 DEF Environment, Tick, DeactivateUser, RestoreUser, Serial, OneLivePerFamily, SlotSerial,
              FamilyLive, UserLive, Live
<1>2. QED
  BY <1>1, BeginSerial, RequestSerial, MintSerial, SweepSerial DEF Next, Mint

LEMMA QuietSerial ==
    ASSUME Serial, UNCHANGED vars
    PROVE  Serial'
BY DEF vars, Serial, OneAtATime, OneLivePerFamily, SlotSerial, FamilyLive, UserLive, Live

\* While no two requests overlap, the rows are as the request that ended left them:
\* one live token per family, and every slot but one at rest.
THEOREM AloneInvariant == MCSpec => [](Shape /\ (part = "alone" => Serial))
<1> DEFINE Inv == Shape /\ (part = "alone" => Serial)
<1>1. MCInit => Inv
  <2>1. Init => Serial
    BY DEF Init, Idle, Serial, OneAtATime, OneLivePerFamily, SlotSerial, Live
  <2>2. QED
    BY <2>1, InitShape DEF MCInit
<1>2. Inv /\ [MCNext]_<<part, vars, permissionVars>> => Inv'
  <2> SUFFICES ASSUME Inv, [MCNext]_<<part, vars, permissionVars>>
               PROVE  Inv'
    OBVIOUS
  <2>1. [Next]_vars /\ part' = part
    BY DEF MCNext
  <2>2. Shape'
    BY <2>1, NextShape
  <2>3. part = "alone" => (Next /\ OneAtATime') \/ UNCHANGED vars
    BY DEF MCNext
  <2>4. part = "alone" => Serial'
    BY <2>3, NextSerial, QuietSerial
  <2>5. QED
    BY <2>1, <2>2, <2>4
<1>3. QED
  BY <1>1, <1>2, PTL DEF MCSpec

\* A session whose refreshes never overlap has one refresh token that works.
THEOREM AloneOneLivePerFamilyHolds == MCSpec => []AloneOneLivePerFamily
<1>1. Shape /\ (part = "alone" => Serial) => AloneOneLivePerFamily
  BY DEF Serial, AloneOneLivePerFamily
<1>2. QED
  BY <1>1, AloneInvariant, PTL

\* Reuse detected by a request that overlaps no other ends the session for good:
\* with the theorem on dead families, no token of it works again.
THEOREM AloneReuseRevokesFamilyHolds == MCSpec => []AloneReuseRevokesFamily
<1>1. Shape /\ (part = "alone" => Serial) => AloneReuseRevokesFamily
  BY DEF Serial, SlotSerial, AloneReuseRevokesFamily, ReuseRevokesFamily
<1>2. QED
  BY <1>1, AloneInvariant, PTL

\* A logout that overlaps nothing leaves its user no refresh token that works.
THEOREM AloneLogoutRevokesUserHolds == MCSpec => []AloneLogoutRevokesUser
<1>1. Shape /\ (part = "alone" => Serial) => AloneLogoutRevokesUser
  BY DEF Serial, SlotSerial, AloneLogoutRevokesUser, LogoutRevokesUser
<1>2. QED
  BY <1>1, AloneInvariant, PTL

=============================================================================
