---------------------------- MODULE ServicesProofs ----------------------------
(***************************************************************************)
(* What is proved of each part holds of the part that is awake in any      *)
(* behaviour of Services.                                                  *)
(***************************************************************************)
EXTENDS Services, CollabDocumentProofs, SequenceTheorems, WellFoundedInduction

-----------------------------------------------------------------------------
(* TokenRotation. *)

TokensHold == awake = "tokens" => Tokens!Inv

LEMMA TokensStep ==
    ASSUME [AllNext]_allVars, awake = "tokens"
    PROVE  [Tokens!Next]_Tokens!vars /\ awake' = "tokens"
  BY DEF AllNext, allVars, tokenVars, stepVars, Tokens!vars

LEMMA TokensInv == AllSpec => []TokensHold
<1>1. AllInit => TokensHold
  BY Tokens!InitInv, PartsAssumption DEF AllInit, TokensHold
<1>2. TokensHold /\ [AllNext]_allVars => TokensHold'
  <2>1. CASE awake = "tokens"
    BY <2>1, TokensStep, Tokens!NextInv, PartsAssumption DEF TokensHold
  <2>2. CASE awake # "tokens"
    BY <2>2 DEF TokensHold, AllNext, allVars
  <2> QED
    BY <2>1, <2>2
<1> QED
  BY <1>1, <1>2, PTL DEF AllSpec

\* The tokens of a family that a call has finished revoking are dead, for any requests
\* (oauth.ts:623-630).
THEOREM ClosedFamiliesAreDead == AllSpec => []ClosedFamilyIsDead
<1>1. TokensHold => ClosedFamilyIsDead
  BY DEF TokensHold, ClosedFamilyIsDead, Tokens!Inv
<1> QED
  BY <1>1, TokensInv, PTL

\* A rotation never loses the token a family keeps (oauth.ts:363-381).
THEOREM FamiliesKeepToken == AllSpec => []FamilyKeepsToken
<1>1. TokensHold => FamilyKeepsToken
  BY DEF TokensHold, FamilyKeepsToken, Tokens!Inv
<1> QED
  BY <1>1, TokensInv, PTL

\* A password reset that is over has revoked every family it found
\* (password-reset.ts:147-157).
THEOREM ResetsCoverFamilies == AllSpec => []ResetCoversFamilies
<1>1. TokensHold => ResetCoversFamilies
  BY Tokens!InvCovers, PartsAssumption DEF TokensHold, ResetCoversFamilies
<1> QED
  BY <1>1, TokensInv, PTL

\* A call that finds its token live does not take it for reused (oauth.ts:311-331).
THEOREM LiveTokensAreSpared == AllSpec => LiveTokenIsSpared
<1>1. TokensHold /\ [AllNext]_allVars => [awake = "tokens" => Tokens!SparedStep]_allVars
  BY TokensStep, Tokens!InvSpares, PartsAssumption DEF TokensHold
<1> QED
  BY <1>1, TokensInv, PTL DEF AllSpec, LiveTokenIsSpared

-----------------------------------------------------------------------------
(* SubtreeRename. *)

TreeHolds == awake = "tree" => Tree!Inv

LEMMA TreeStep ==
    ASSUME [AllNext]_allVars, awake = "tree"
    PROVE  [Tree!Next]_Tree!vars /\ awake' = "tree"
  BY DEF AllNext, allVars, treeVars, stepVars, Tree!vars

LEMMA TreeInv == AllSpec => []TreeHolds
<1>1. AllInit => TreeHolds
  BY Tree!InitInv, PartsAssumption DEF AllInit, TreeHolds
<1>2. TreeHolds /\ [AllNext]_allVars => TreeHolds'
  <2>1. CASE awake = "tree"
    BY <2>1, TreeStep, Tree!NextInv, PartsAssumption DEF TreeHolds
  <2>2. CASE awake # "tree"
    BY <2>2 DEF TreeHolds, AllNext, allVars
  <2> QED
    BY <2>1, <2>2
<1> QED
  BY <1>1, <1>2, PTL DEF AllSpec

\* A request's record says that it succeeded only when every sealed member's record says
\* how that member ended (subtree-rename.ts:367-376).
THEOREM RootsAreHonest == AllSpec => []RootIsHonest
<1>1. TreeHolds => RootIsHonest
  BY DEF TreeHolds, RootIsHonest, Tree!Inv
<1> QED
  BY <1>1, TreeInv, PTL

\* Deliveries of one key never take each other for another request, unless others moved
\* the member or the root page (subtree-rename.ts:297-300).
THEOREM RepliesAgree == AllSpec => []DeliveriesAgree
<1>1. TreeHolds => DeliveriesAgree
  BY Tree!InvMoves DEF TreeHolds, DeliveriesAgree
<1> QED
  BY <1>1, TreeInv, PTL

\* A member is moved once, and is reported as moved only if it was
\* (subtree-rename.test.ts:468).
THEOREM MovesHappenOnce == AllSpec => []MembersMoveOnce
<1>1. TreeHolds => MembersMoveOnce
  BY Tree!InvMoves DEF TreeHolds, MembersMoveOnce
<1> QED
  BY <1>1, TreeInv, PTL

\* No delivery takes a member for unmoved once its move was there to be read
\* (subtree-rename.ts:105-109).
THEOREM FailuresAreHonest == AllSpec => FailureIsHonest
<1>1. TreeHolds /\ [AllNext]_allVars => [awake = "tree" => Tree!HonestStep]_allVars
  BY TreeStep, Tree!InvHonest, PartsAssumption DEF TreeHolds
<1> QED
  BY <1>1, TreeInv, PTL DEF AllSpec, FailureIsHonest

-----------------------------------------------------------------------------
(* AuthRegistration. *)

AccountHolds == awake = "account" => Account!Inv

LEMMA AccountStep ==
    ASSUME [AllNext]_allVars, awake = "account"
    PROVE  [Account!Next]_Account!vars /\ awake' = "account"
  BY DEF AllNext, allVars, accountVars, stepVars, Account!vars

LEMMA AccountInv == AllSpec => []AccountHolds
<1>1. AllInit => AccountHolds
  BY Account!InitInv, PartsAssumption DEF AllInit, AccountHolds
<1>2. AccountHolds /\ [AllNext]_allVars => AccountHolds'
  <2>1. CASE awake = "account"
    BY <2>1, AccountStep, Account!NextInv, PartsAssumption DEF AccountHolds
  <2>2. CASE awake # "account"
    BY <2>2 DEF AccountHolds, AllNext, allVars
  <2> QED
    BY <2>1, <2>2
<1> QED
  BY <1>1, <1>2, PTL DEF AllSpec

\* A submission overtaken by a logout reports no registration
\* (pending-auth-registration.ts:474-482).
THEOREM CutOffStaysCut == AllSpec => []CutOff
<1>1. AccountHolds => CutOff
  BY Account!InvCutOff DEF AccountHolds, CutOff
<1> QED
  BY <1>1, AccountInv, PTL

\* A logout before the activation is made good by the submission that races with it
\* (auth-registration.ts:521-548).
THEOREM LogoutIsMadeGood == AllSpec => []LogoutPrevents
<1>1. AccountHolds => LogoutPrevents
  BY Account!InvLogout, PartsAssumption DEF AccountHolds, LogoutPrevents
<1> QED
  BY <1>1, AccountInv, PTL

\* An identity is not refused for its own account (pending-auth-registration.ts:318-413).
THEOREM NeverOwnConflict == AllSpec => []NoSelfConflict
<1>1. AccountHolds => NoSelfConflict
  BY DEF AccountHolds, NoSelfConflict, Account!Inv
<1> QED
  BY <1>1, AccountInv, PTL

\* Who signs in has a user page (auth-registration.ts:78-97).
THEOREM SignInsFindHome == AllSpec => []SignedInHasHome
<1>1. AccountHolds => SignedInHasHome
  BY DEF AccountHolds, SignedInHasHome, Account!Inv
<1> QED
  BY <1>1, AccountInv, PTL

-----------------------------------------------------------------------------
(* ConfigSync. *)

SettingsHold ==
    awake = "config" => Settings!Inv /\ Settings!CellsInv /\ Settings!DriversInv

LEMMA SettingsStep ==
    ASSUME [AllNext]_allVars, awake = "config"
    PROVE  [Settings!Next]_Settings!vars /\ awake' = "config"
  BY DEF AllNext, allVars, configVars, stepVars, Settings!vars

LEMMA SettingsInv == AllSpec => []SettingsHold
<1>1. AllInit => SettingsHold
  BY Settings!InitInv, Settings!InitCells, Settings!InitDrivers, PartsAssumption DEF AllInit, SettingsHold
<1>2. SettingsHold /\ [AllNext]_allVars => SettingsHold'
  <2>1. CASE awake = "config"
    BY <2>1, SettingsStep, Settings!NextInv, Settings!NextCells, Settings!NextDrivers, PartsAssumption
       DEF SettingsHold
  <2>2. CASE awake # "config"
    BY <2>2 DEF SettingsHold, AllNext, allVars
  <2> QED
    BY <2>1, <2>2
<1> QED
  BY <1>1, <1>2, PTL DEF AllSpec

\* No call holds a driver that was closed, and none that nobody holds stays open, for any
\* replicas, saves and calls (plugin-state-cell.ts:26-78).
THEOREM DriversAreKeptOpen == AllSpec => []CellsAreSafe
<1>1. SettingsHold => CellsAreSafe
  BY DEF SettingsHold, CellsAreSafe, Settings!CellsInv
<1> QED
  BY <1>1, SettingsInv, PTL

\* Every replica's driver ends configured as its memory says (plugin-manager.ts:388-393).
THEOREM DriversEndConfigured == AllSpec => []DriversFollowMemory
<1>1. SettingsHold => DriversFollowMemory
  BY Settings!CoveredNow, PartsAssumption DEF SettingsHold, DriversFollowMemory
<1> QED
  BY <1>1, SettingsInv, PTL

\* Memory ends as what the database holds, however a save failed, and no save is left waiting
\* (service/config.ts:33-66, :192-209).
THEOREM SettingsEndMirrored == ASSUME Settings!OneWriteEach PROVE AllSpec => []StoreIsMirrored
<1> DEFINE Mirrored == awake = "config" => Settings!MirrorInv
<1>1. AllInit => Mirrored
  BY Settings!InitMirror, PartsAssumption DEF AllInit
<1>2. SettingsHold /\ Mirrored /\ [AllNext]_allVars => Mirrored'
  <2>1. CASE awake = "config"
    BY <2>1, SettingsStep, Settings!NextMirror, PartsAssumption DEF SettingsHold
  <2>2. CASE awake # "config"
    BY <2>2 DEF AllNext, allVars
  <2> QED
    BY <2>1, <2>2
<1>3. SettingsHold /\ Mirrored => StoreIsMirrored
  BY Settings!MirroredNow, PartsAssumption DEF SettingsHold, StoreIsMirrored
<1> QED
  BY <1>1, <1>2, <1>3, SettingsInv, PTL DEF AllSpec

-----------------------------------------------------------------------------
(* CliRefresh. *)

ClientHolds == awake = "client" => Client!CliInv

LEMMA ClientStep ==
    ASSUME [AllNext]_allVars, awake = "client"
    PROVE  [Client!CliNext]_Client!cliVars /\ awake' = "client"
  BY DEF AllNext, allVars, tokenVars, clientVars, stepVars, Client!cliVars, Client!vars

LEMMA ClientInv == AllSpec => []ClientHolds
<1>1. AllInit => ClientHolds
  BY Client!CliInitInv, PartsAssumption DEF AllInit, ClientHolds
<1>2. ClientHolds /\ [AllNext]_allVars => ClientHolds'
  <2>1. CASE awake = "client"
    BY <2>1, ClientStep, Client!CliNextInv, PartsAssumption DEF ClientHolds
  <2>2. CASE awake # "client"
    BY <2>2 DEF ClientHolds, AllNext, allVars
  <2> QED
    BY <2>1, <2>2
<1> QED
  BY <1>1, <1>2, PTL DEF AllSpec

\* However many commands of the client refresh one stored token, it ends live
\* (packages/cli/src/lib/refresh.ts:49-63).
THEOREM StoredTokensLive == AllSpec => []StoredTokenLives
<1>1. ClientHolds => StoredTokenLives
  BY Client!CliInvLives DEF ClientHolds, StoredTokenLives
<1> QED
  BY <1>1, ClientInv, PTL

-----------------------------------------------------------------------------
(* Naturals and sequences. *)

\* A set of naturals that is not empty has a least element.
LEMMA LeastOf == ASSUME NEW T, T \subseteq Nat, T # {} PROVE \E n \in T : \A m \in T : n <= m
<1> DEFINE R == {ss \in Nat \X Nat : ss[1] < ss[2]}
<1>1. IsWellFoundedOn(R, Nat)
  BY NatLessThanWellFounded DEF OpToRel
<1>2. \A m, n \in Nat : m < n => <<m, n>> \in R
  OBVIOUS
<1> HIDE DEF R
<1>3. PICK n \in T : \A m \in T : ~ (<<m, n>> \in R)
  BY <1>1, WFMin
<1>4. ASSUME NEW m \in T PROVE n <= m
  <2>1. m \in Nat /\ n \in Nat /\ ~ (m < n)
    BY <1>2, <1>3
  <2> QED
    BY <2>1
<1> QED
  BY <1>4

\* Induction, for the set of the naturals that have a property.
LEMMA AllNat == ASSUME NEW T, 0 \in T, \A n \in Nat \cap T : n + 1 \in T PROVE Nat \subseteq T
<1>1. SUFFICES ASSUME Nat \ T # {} PROVE FALSE
  OBVIOUS
<1>2. PICK n \in Nat \ T : \A m \in Nat \ T : n <= m
  BY <1>1, LeastOf
<1>3. n # 0 /\ n - 1 \in Nat
  BY <1>2
<1>4. n - 1 \in T
  BY <1>2, <1>3
<1> QED
  BY <1>2, <1>3, <1>4

\* A sequence without one of its places.
LEMMA WithoutPlace ==
    ASSUME NEW S, NEW s \in Seq(S), NEW i \in 1 .. Len(s)
    PROVE  /\ Render!RemoveAt(s, i) \in Seq(S) /\ Len(Render!RemoveAt(s, i)) = Len(s) - 1
           /\ \A j \in 1 .. (Len(s) - 1) :
                Render!RemoveAt(s, i)[j] = IF j < i THEN s[j] ELSE s[j + 1]
<1> DEFINE a == SubSeq(s, 1, i - 1)
           b == SubSeq(s, i + 1, Len(s))
<1>1. Render!RemoveAt(s, i) = a \o b
  BY DEF Render!RemoveAt
<1>2. Len(s) \in Nat /\ \A j \in 1 .. Len(s) : s[j] \in S
  BY LenProperties
<1>3. a \in Seq(S) /\ Len(a) = i - 1 /\ \A j \in 1 .. (i - 1) : a[j] = s[j]
  <2>1. \A j \in 1 .. (i - 1) : s[j] \in S
    BY <1>2
  <2> QED
    BY <1>2, <2>1, SubSeqProperties
<1>4. b \in Seq(S) /\ Len(b) = Len(s) - i /\ \A j \in 1 .. (Len(s) - i) : b[j] = s[j + i]
  <2>1. \A j \in (i + 1) .. Len(s) : s[j] \in S
    BY <1>2
  <2>2. i + 1 \in Int /\ Len(s) \in Int
    BY <1>2
  <2>3. /\ b \in Seq(S) /\ Len(b) = IF i + 1 <= Len(s) THEN Len(s) - (i + 1) + 1 ELSE 0
        /\ \A j \in 1 .. (Len(s) - (i + 1) + 1) : b[j] = s[(i + 1) + j - 1]
    BY <2>1, <2>2, SubSeqProperties
  <2> QED
    BY <1>2, <2>3
<1> HIDE DEF a, b
<1>5. /\ a \o b \in Seq(S) /\ Len(a \o b) = Len(a) + Len(b)
      /\ \A j \in 1 .. (Len(a) + Len(b)) :
           (a \o b)[j] = IF j <= Len(a) THEN a[j] ELSE b[j - Len(a)]
  BY <1>3, <1>4, ConcatProperties
<1>6. /\ a \o b \in Seq(S) /\ Len(a \o b) = (i - 1) + (Len(s) - i)
      /\ \A j \in 1 .. ((i - 1) + (Len(s) - i)) :
           (a \o b)[j] = IF j <= i - 1 THEN a[j] ELSE b[j - (i - 1)]
  BY <1>3, <1>4, <1>5
<1>7. ASSUME NEW j \in 1 .. (Len(s) - 1)
      PROVE  (a \o b)[j] = IF j < i THEN s[j] ELSE s[j + 1]
  <2>1. CASE j < i
    <3>1. j \in 1 .. (i - 1) /\ j <= i - 1 /\ j \in 1 .. ((i - 1) + (Len(s) - i))
      BY <1>2, <2>1
    <3> QED
      BY <1>3, <1>6, <2>1, <3>1
  <2>2. CASE ~ (j < i)
    <3>1. j - (i - 1) \in 1 .. (Len(s) - i) /\ (j - (i - 1)) + i = j + 1
      BY <1>2, <2>2
    <3>2. (a \o b)[j] = b[j - (i - 1)]
      BY <1>2, <1>6, <2>2
    <3> QED
      BY <1>4, <2>2, <3>1, <3>2
  <2> QED
    BY <2>1, <2>2
<1>8. (i - 1) + (Len(s) - i) = Len(s) - 1
  BY <1>2
<1> QED
  BY <1>1, <1>6, <1>7, <1>8

-----------------------------------------------------------------------------
(* RenderAdmission, for any number of calls, users and slots: the pool. *)

\* HasCapacity beside the renders of a set, and what waits.
Fits(a, vs, v) ==
    /\ Cardinality(vs) < MaxGlobal
    /\ a[v].user = None \/ Cardinality({w \in vs : a[w].user = a[v].user}) < MaxPerUser

Queued(p) == {p.queue[i] : i \in 1 .. Len(p.queue)}
Inside(p) == p.running \cup Queued(p)

\* The cap of all and the cap of each user.
Capped(a, vs) ==
    /\ IsFiniteSet(vs) /\ Cardinality(vs) <= MaxGlobal
    /\ \A u \in Users : Cardinality({w \in vs : a[w].user = u}) <= MaxPerUser

\* A render waits or runs, and once only; the caps hold.
PoolInv(a, p) ==
    /\ p \in [running : SUBSET Views, queue : Seq(Views)]
    /\ Len(p.queue) <= QueueDepth
    /\ \A i, j \in 1 .. Len(p.queue) : p.queue[i] = p.queue[j] => i = j
    /\ \A i \in 1 .. Len(p.queue) : p.queue[i] \notin p.running
    /\ Capped(a, p.running)

\* Nobody waits who could run.
Full(a, p) == \A i \in 1 .. Len(p.queue) : ~Fits(a, p.running, p.queue[i])

Asking == Render!ConstantsAssumption /\ ask \in [Views -> Render!Ask]

LEMMA CapacityIsFits == \A p, v : Render!HasCapacity(p, v) <=> Fits(ask, p.running, v)
<1>1. \A S : Render!Cardinality(S) = Cardinality(S)
  BY DEF Render!Cardinality, Cardinality
<1> QED
  BY <1>1 DEF Render!HasCapacity, Render!UserHasCapacity, Render!OfUser, Fits

\* Who fits beside more fits beside fewer.
LEMMA FitsFewer ==
    ASSUME Render!ConstantsAssumption, NEW a, NEW vs, NEW ws, NEW v,
           vs \subseteq ws, IsFiniteSet(ws), Fits(a, ws, v)
    PROVE  Fits(a, vs, v)
<1>1. MaxGlobal \in Nat /\ MaxPerUser \in Nat
  BY DEF Render!ConstantsAssumption
<1>2. \A P, Q : P \subseteq Q /\ IsFiniteSet(Q) =>
        /\ Cardinality(P) <= Cardinality(Q) /\ Cardinality(P) \in Nat /\ Cardinality(Q) \in Nat
  BY FS_Subset, FS_CardinalityType
<1>3. Cardinality(vs) < MaxGlobal
  BY <1>1, <1>2 DEF Fits
<1> DEFINE P == {w \in vs : a[w].user = a[v].user}
           Q == {w \in ws : a[w].user = a[v].user}
<1>4. P \subseteq Q /\ IsFiniteSet(Q)
  BY FS_Subset
<1>5. a[v].user # None => Cardinality(Q) < MaxPerUser
  BY DEF Fits
<1> HIDE DEF P, Q
<1>6. a[v].user # None => Cardinality(P) < MaxPerUser
  BY <1>1, <1>2, <1>4, <1>5
<1> QED
  BY <1>3, <1>6 DEF Fits, P

\* One that fits may run, too.
LEMMA OneRunsMore ==
    ASSUME Asking, NEW vs, Capped(ask, vs), NEW v, v \notin vs, Fits(ask, vs, v)
    PROVE  Capped(ask, vs \cup {v})
<1>1. MaxGlobal \in Nat /\ MaxPerUser \in Nat /\ None \notin Users
  BY DEF Asking, Render!ConstantsAssumption
<1>2. IsFiniteSet(vs) /\ Cardinality(vs) \in Nat
  BY FS_CardinalityType DEF Capped
<1> DEFINE ws == vs \cup {v}
<1>3. IsFiniteSet(ws) /\ Cardinality(ws) = Cardinality(vs) + 1
  BY <1>2, FS_AddElement
<1>4. Cardinality(ws) <= MaxGlobal
  BY <1>1, <1>2, <1>3 DEF Fits
<1>5. ASSUME NEW u \in Users
      PROVE  Cardinality({w \in ws : ask[w].user = u}) <= MaxPerUser
  <2> DEFINE P == {w \in vs : ask[w].user = u}
             Q == {w \in ws : ask[w].user = u}
  <2>1. IsFiniteSet(P) /\ v \notin P /\ Cardinality(P) <= MaxPerUser
    BY <1>2, FS_Subset DEF Capped
  <2>2. Cardinality(P) \in Nat /\ Cardinality(P \cup {v}) = Cardinality(P) + 1
    BY <2>1, FS_CardinalityType, FS_AddElement
  <2>3. CASE ask[v].user = u
    <3>1. Q = P \cup {v}
      BY <2>3
    <3>2. Cardinality(P) < MaxPerUser
      BY <1>1, <2>3 DEF Fits
    <3> HIDE DEF P, Q
    <3>3. Cardinality(Q) <= MaxPerUser
      BY <1>1, <2>2, <3>1, <3>2
    <3> QED
      BY <3>3 DEF Q
  <2>4. CASE ask[v].user # u
    <3>1. Q = P
      BY <2>4
    <3> QED
      BY <2>1, <3>1
  <2> QED
    BY <2>3, <2>4
<1> QED
  BY <1>3, <1>4, <1>5 DEF Capped

\* The head of drainQueue's loop: someone who fits, if anybody does.
LEMMA NextFits ==
    ASSUME Asking, NEW p, PoolInv(ask, p)
    PROVE  \/ Render!NextGrantable(p) = 0 /\ Full(ask, p)
           \/ /\ Render!NextGrantable(p) \in 1 .. Len(p.queue)
              /\ Fits(ask, p.running, p.queue[Render!NextGrantable(p)])
<1> DEFINE can == {i \in DOMAIN p.queue : Render!HasCapacity(p, p.queue[i])}
           high == {i \in can : ~ask[p.queue[i]].preview}
           best(i) == \A j \in can : Render!Precedes(p, i, j)
<1>1. p.queue \in Seq(Views) /\ DOMAIN p.queue = 1 .. Len(p.queue) /\ Len(p.queue) \in Nat
  BY LenProperties DEF PoolInv
<1>2. can = {i \in 1 .. Len(p.queue) : Fits(ask, p.running, p.queue[i])}
  BY <1>1, CapacityIsFits
<1>3. Render!NextGrantable(p) = IF can = {} THEN 0 ELSE CHOOSE i \in can : best(i)
  BY DEF Render!NextGrantable
<1>4. ASSUME can # {} PROVE \E i \in can : best(i)
  <2>1. can \subseteq Nat /\ high \subseteq Nat
    BY <1>1, <1>2
  <2>2. CASE high # {}
    <3>1. PICK i \in high : \A j \in high : i <= j
      BY <2>1, <2>2, LeastOf
    <3>2. ASSUME NEW j \in can PROVE Render!Precedes(p, i, j)
      <4>1. CASE j \in high
        BY <3>1, <4>1 DEF Render!Precedes
      <4>2. CASE j \notin high
        <5>1. ask[p.queue[j]].preview /\ ~ask[p.queue[i]].preview
          BY <3>1, <4>2
        <5> QED
          BY <5>1 DEF Render!Precedes
      <4> QED
        BY <4>1, <4>2
    <3> QED
      BY <3>1, <3>2
  <2>3. CASE high = {}
    <3>1. PICK i \in can : \A j \in can : i <= j
      BY <1>4, <2>1, LeastOf
    <3>2. best(i)
      BY <2>3, <3>1 DEF Render!Precedes
    <3> QED
      BY <3>1, <3>2
  <2> QED
    BY <2>2, <2>3
<1> HIDE DEF best
<1>5. CASE can = {}
  BY <1>2, <1>3, <1>5 DEF Full
<1>6. CASE can # {}
  <2>1. Render!NextGrantable(p) \in can
    BY <1>3, <1>4, <1>6
  <2> QED
    BY <1>2, <2>1
<1> QED
  BY <1>5, <1>6

\* An iteration keeps the pool sound, and shortens the queue unless nobody fits.
LEMMA GrantedPool ==
    ASSUME Asking, NEW p, PoolInv(ask, p)
    PROVE  /\ PoolInv(ask, Render!Granted(p)) /\ Inside(Render!Granted(p)) = Inside(p)
           /\ \/ Full(ask, p) /\ Render!Granted(p) = p
              \/ Len(Render!Granted(p).queue) = Len(p.queue) - 1
<1> DEFINE i == Render!NextGrantable(p)
           v == p.queue[i]
           r == Render!RemoveAt(p.queue, i)
           q == [running |-> p.running \cup {v}, queue |-> r]
<1>1. Render!Granted(p) = IF i = 0 THEN p ELSE q
  BY DEF Render!Granted
<1> HIDE DEF i
<1>2. \/ i = 0 /\ Full(ask, p)
      \/ i \in 1 .. Len(p.queue) /\ Fits(ask, p.running, p.queue[i])
  BY NextFits DEF i
<1>3. CASE i = 0
  <2>1. Full(ask, p)
    BY <1>2, <1>3
  <2> QED
    BY <1>1, <1>3, <2>1
<1>4. CASE i # 0
  <2>1. i \in 1 .. Len(p.queue) /\ Fits(ask, p.running, v)
    BY <1>2, <1>4
  <2>2. p.queue \in Seq(Views) /\ Len(p.queue) \in Nat /\ \A j \in 1 .. Len(p.queue) : p.queue[j] \in Views
    BY LenProperties DEF PoolInv
  <2>3. v \in Views \ p.running
    BY <2>1, <2>2 DEF PoolInv
  <2>4. /\ r \in Seq(Views) /\ Len(r) = Len(p.queue) - 1
        /\ \A j \in 1 .. (Len(p.queue) - 1) :
             r[j] = IF j < i THEN p.queue[j] ELSE p.queue[j + 1]
    BY <2>1, <2>2, WithoutPlace
  <2> HIDE DEF r
  <2>5. q \in [running : SUBSET Views, queue : Seq(Views)] /\ q.running = p.running \cup {v}
        /\ q.queue = r
    BY <2>3, <2>4 DEF PoolInv
  <2> HIDE DEF q
  <2>6. Capped(ask, q.running)
    <3> HIDE DEF v
    <3> QED
      BY <2>1, <2>3, <2>5, OneRunsMore DEF PoolInv
  <2>7. \A j \in 1 .. Len(r) : \E k \in 1 .. Len(p.queue) : k # i /\ r[j] = p.queue[k]
    <3> TAKE j \in 1 .. Len(r)
    <3>1. j \in 1 .. (Len(p.queue) - 1)
      BY <2>4
    <3>2. CASE j < i
      <4>1. j \in 1 .. Len(p.queue) /\ j # i /\ r[j] = p.queue[j]
        BY <2>1, <2>2, <2>4, <3>1, <3>2
      <4> QED
        BY <4>1
    <3>3. CASE ~ (j < i)
      <4>1. j + 1 \in 1 .. Len(p.queue) /\ j + 1 # i /\ r[j] = p.queue[j + 1]
        BY <2>1, <2>2, <2>4, <3>1, <3>3
      <4> QED
        BY <4>1
    <3> QED
      BY <3>2, <3>3
  <2>8. \A k \in 1 .. Len(p.queue) : k # i => \E j \in 1 .. Len(r) : r[j] = p.queue[k]
    <3> TAKE k \in 1 .. Len(p.queue)
    <3>1. CASE k < i
      BY <2>1, <2>2, <2>4, <3>1
    <3>2. CASE k > i
      <4>1. k - 1 \in 1 .. (Len(p.queue) - 1) /\ ~ (k - 1 < i) /\ (k - 1) + 1 = k
        BY <2>1, <2>2, <3>2
      <4>2. r[k - 1] = p.queue[k]
        BY <2>4, <4>1
      <4> QED
        BY <2>4, <4>1, <4>2
    <3> QED
      BY <2>1, <3>1, <3>2
  <2>9. \A j, k \in 1 .. Len(r) : r[j] = r[k] => j = k
    <3> TAKE j, k \in 1 .. Len(r)
    <3> DEFINE at1(n) == IF n < i THEN n ELSE n + 1
    <3>1. /\ r[j] = p.queue[at1(j)] /\ r[k] = p.queue[at1(k)]
          /\ at1(j) \in 1 .. Len(p.queue) /\ at1(k) \in 1 .. Len(p.queue)
      BY <2>1, <2>2, <2>4
    <3>2. r[j] = r[k] => at1(j) = at1(k)
      BY <3>1 DEF PoolInv
    <3>3. at1(j) = at1(k) => j = k
      BY <2>1, <2>2, <2>4
    <3> QED
      BY <3>2, <3>3
  <2>10. \A j \in 1 .. Len(r) : r[j] \notin q.running
    BY <2>1, <2>5, <2>7 DEF PoolInv
  <2>11. Len(r) <= QueueDepth
    BY <2>2, <2>4 DEF PoolInv, Asking, Render!ConstantsAssumption
  <2>12. PoolInv(ask, q)
    BY <2>5, <2>6, <2>9, <2>10, <2>11 DEF PoolInv
  <2>13. Inside(q) = Inside(p)
    <3>1. \A x \in Queued(q) : x \in Queued(p)
      BY <2>5, <2>7 DEF Queued
    <3>2. \A x \in Queued(p) : x = v \/ x \in Queued(q)
      BY <2>5, <2>8 DEF Queued
    <3>3. v \in Queued(p)
      BY <2>1 DEF Queued
    <3> QED
      BY <2>5, <3>1, <3>2, <3>3 DEF Inside
  <2> QED
    BY <1>1, <1>4, <2>4, <2>5, <2>12, <2>13
<1> QED
  BY <1>3, <1>4

\* What the loop computes after each iteration.
LEMMA IterationsExist ==
    ASSUME NEW p, NEW n \in Nat
    PROVE  \E f : f = [i \in 0 .. n |-> IF i = 0 THEN p ELSE Render!Granted(f[i - 1])]
<1> DEFINE Iterates(f, m) == f = [i \in 0 .. m |-> IF i = 0 THEN p ELSE Render!Granted(f[i - 1])]
           T == {m \in Nat : \E f : Iterates(f, m)}
<1>1. 0 \in T
  <2> DEFINE f == [i \in 0 .. 0 |-> p]
  <2>1. Iterates(f, 0)
    OBVIOUS
  <2> QED
    BY <2>1
<1>2. ASSUME NEW m \in Nat, NEW f, Iterates(f, m) PROVE \E g : Iterates(g, m + 1)
  <2> DEFINE g == [i \in 0 .. (m + 1) |-> IF i = m + 1 THEN Render!Granted(f[m]) ELSE f[i]]
  <2>1. \A i \in 0 .. m : f[i] = IF i = 0 THEN p ELSE Render!Granted(f[i - 1])
    BY <1>2
  <2>2. ASSUME NEW i \in 0 .. (m + 1)
        PROVE  g[i] = IF i = 0 THEN p ELSE Render!Granted(g[i - 1])
    <3>1. CASE i = m + 1
      BY <3>1
    <3>2. CASE i \in 0 .. m
      BY <2>1, <3>2
    <3> QED
      BY <3>1, <3>2
  <2> HIDE DEF g
  <2>3. g = [i \in 0 .. (m + 1) |-> g[i]]
    BY DEF g
  <2>4. Iterates(g, m + 1)
    BY <2>2, <2>3
  <2> QED
    BY <2>4
<1> HIDE DEF Iterates
<1>3. \A m \in Nat \cap T : m + 1 \in T
  BY <1>2
<1> HIDE DEF T
<1>4. n \in T
  BY <1>1, <1>3, AllNat
<1> QED
  BY <1>4 DEF T, Iterates

\* drainQueue keeps the pool sound, and leaves nobody waiting who fits.
LEMMA DrainedPool ==
    ASSUME Asking, NEW p, PoolInv(ask, p)
    PROVE  /\ PoolInv(ask, Render!Drained(p)) /\ Full(ask, Render!Drained(p))
           /\ Inside(Render!Drained(p)) = Inside(p)
<1> DEFINE N == Len(p.queue)
           f == CHOOSE f : f = [i \in 0 .. N |-> IF i = 0 THEN p ELSE Render!Granted(f[i - 1])]
           Fine(n) == /\ PoolInv(ask, f[n]) /\ Inside(f[n]) = Inside(p)
                      /\ Full(ask, f[n]) \/ Len(f[n].queue) <= N - n
           T == {n \in Nat : n <= N => Fine(n)}
<1>1. N \in Nat
  BY LenProperties DEF PoolInv
<1>2. f = [i \in 0 .. N |-> IF i = 0 THEN p ELSE Render!Granted(f[i - 1])]
  BY <1>1, IterationsExist
<1>3. Render!Drained(p) = f[N]
  BY DEF Render!Drained
<1> HIDE DEF f
<1>4. f[0] = p /\ \A n \in Nat : n + 1 <= N => f[n + 1] = Render!Granted(f[n])
  <2>1. \A i \in 0 .. N : f[i] = IF i = 0 THEN p ELSE Render!Granted(f[i - 1])
    BY <1>2
  <2> QED
    BY <1>1, <2>1
<1>5. 0 \in T
  BY <1>1, <1>4
<1>6. ASSUME NEW n \in Nat, n + 1 <= N, Fine(n) PROVE Fine(n + 1)
  <2>1. f[n + 1] = Render!Granted(f[n])
    BY <1>4, <1>6
  <2>2. PoolInv(ask, f[n + 1]) /\ Inside(f[n + 1]) = Inside(p)
    BY <1>6, <2>1, GrantedPool
  <2>3. CASE Full(ask, f[n]) /\ f[n + 1] = f[n]
    BY <2>2, <2>3
  <2>4. CASE Len(f[n + 1].queue) = Len(f[n].queue) - 1 /\ ~ Full(ask, f[n])
    <3>1. Len(f[n].queue) \in Nat
      BY <1>6, LenProperties DEF PoolInv
    <3> QED
      BY <1>1, <1>6, <2>2, <2>4, <3>1
  <2>5. CASE Len(f[n + 1].queue) = Len(f[n].queue) - 1 /\ Full(ask, f[n])
    <3>1. Render!NextGrantable(f[n]) = 0
      BY <1>6, <2>5, NextFits DEF Full
    <3>2. f[n + 1] = f[n]
      BY <2>1, <3>1 DEF Render!Granted
    <3> QED
      BY <2>2, <2>5, <3>2
  <2> QED
    BY <1>6, <2>1, <2>3, <2>4, <2>5, GrantedPool
<1> HIDE DEF Fine
<1>7. \A n \in Nat \cap T : n + 1 \in T
  BY <1>1, <1>6
<1> HIDE DEF T
<1>8. N \in T
  BY <1>1, <1>5, <1>7, AllNat
<1>9. Fine(N)
  BY <1>1, <1>8 DEF T
<1>10. Full(ask, f[N])
  <2>1. Len(f[N].queue) \in Nat
    BY <1>9, LenProperties DEF Fine, PoolInv
  <2> QED
    BY <1>1, <1>9, <2>1 DEF Fine, Full
<1> QED
  BY <1>3, <1>9, <1>10 DEF Fine

-----------------------------------------------------------------------------
(* RenderAdmission: the calls. *)

RenderTypes ==
    /\ ask \in Asked /\ entry \in [Embeds -> Render!EntryAges]
    /\ flight \in [Embeds -> Views \cup {None}]
    /\ storing \subseteq Views /\ aborted \subseteq Views
    /\ at \in [Views -> {"start", "decide", "due", "wait", "ended"}]
    /\ locals \in [Views -> Render!EntryAges]

\* A call is in the pool only after it asked for a slot, and is stored after it left.
Placed(v) ==
    /\ at[v] \in {"start", "decide", "due"} => v \notin Inside(pool) \cup storing
    /\ v \in storing => v \notin Inside(pool) /\ ~ask[v].preview

\* OneRenderPerKey, of one call.
Shared(v) ==
    ~ask[v].preview =>
        /\ v \in Inside(pool) \cup storing => flight[ask[v].key] = v
        /\ at[v] = "wait" => flight[ask[v].key] # None

RenderInv ==
    /\ RenderTypes /\ PoolInv(ask, pool) /\ Full(ask, pool)
    /\ \A v \in Views : Placed(v) /\ Shared(v)

LEMMA AsksTyped ==
    ASSUME Render!ConstantsAssumption, RenderInv
    PROVE  /\ Asking /\ None \notin Views
           /\ \A v \in Views : ask[v].key \in Embeds /\ ask[v].preview \in BOOLEAN
  BY DEF RenderInv, RenderTypes, Asking, Render!ConstantsAssumption, Render!Ask

LEMMA WaitingIsQueued == ASSUME PoolInv(ask, pool) PROVE Render!Waiting = Queued(pool)
<1>1. DOMAIN pool.queue = 1 .. Len(pool.queue)
  BY LenProperties DEF PoolInv
<1> QED
  BY <1>1 DEF Render!Waiting, Render!ToSet, Queued

LEMMA RenderInitInv == ASSUME Render!ConstantsAssumption, Render!Init PROVE RenderInv
<1>1. pool = [running |-> {}, queue |-> <<>>]
  BY DEF Render!Init
<1>2. pool.queue = <<>> /\ pool.queue \in Seq(Views) /\ Len(pool.queue) = 0 /\ pool.running = {}
  BY <1>1, EmptySeq
<1>3. IsFiniteSet({}) /\ Cardinality({}) = 0 /\ \A u \in Users : {w \in {} : ask[w].user = u} = {}
  BY FS_EmptySet
<1>4. Capped(ask, {})
  BY <1>3 DEF Capped, Render!ConstantsAssumption
<1>5. PoolInv(ask, pool) /\ Full(ask, pool)
  BY <1>1, <1>2, <1>4 DEF PoolInv, Full, Render!ConstantsAssumption
<1>6. Inside(pool) = {}
  BY <1>2 DEF Inside, Queued
<1>7. RenderTypes
  BY DEF RenderTypes, Render!Init, Render!EntryAges
<1>8. \A v \in Views : Placed(v) /\ Shared(v)
  BY <1>6 DEF Placed, Shared, Render!Init
<1> QED
  BY <1>5, <1>7, <1>8 DEF RenderInv

\* acquireRenderSlot keeps the pool sound.
LEMMA AdmittedPool ==
    ASSUME Asking, PoolInv(ask, pool), Full(ask, pool), NEW v \in Views, v \notin Inside(pool),
           ~Render!Refused(v)
    PROVE  /\ PoolInv(ask, Render!Admitted(v)) /\ Full(ask, Render!Admitted(v))
           /\ Inside(Render!Admitted(v)) = Inside(pool) \cup {v}
<1> DEFINE q == Render!Admitted(v)
<1>1. pool.queue \in Seq(Views) /\ Len(pool.queue) \in Nat /\ pool \in [running : SUBSET Views, queue : Seq(Views)]
  BY LenProperties DEF PoolInv
<1>2. v \notin pool.running /\ \A i \in 1 .. Len(pool.queue) : pool.queue[i] # v
  BY DEF Inside, Queued
<1>3. CASE Fits(ask, pool.running, v)
  <2>1. q = [pool EXCEPT !.running = @ \cup {v}]
    BY <1>3, CapacityIsFits DEF Render!Admitted
  <2>2. q.running = pool.running \cup {v} /\ q.queue = pool.queue
        /\ q \in [running : SUBSET Views, queue : Seq(Views)]
    BY <1>1, <2>1
  <2> HIDE DEF q
  <2>3. Capped(ask, q.running)
    BY <1>2, <1>3, <2>2, OneRunsMore DEF PoolInv
  <2>4. PoolInv(ask, q)
    BY <1>2, <2>2, <2>3 DEF PoolInv
  <2>5. \A w : Fits(ask, q.running, w) => Fits(ask, pool.running, w)
    BY <2>2, <2>3, FitsFewer DEF Asking, Capped
  <2>6. Full(ask, q)
    BY <2>2, <2>5 DEF Full
  <2>7. Inside(q) = Inside(pool) \cup {v}
    BY <2>2 DEF Inside, Queued
  <2> QED
    BY <2>4, <2>6, <2>7 DEF q
<1>4. CASE ~Fits(ask, pool.running, v)
  <2>1. q = [pool EXCEPT !.queue = Append(@, v)] /\ Len(pool.queue) < QueueDepth
    BY <1>1, <1>4, CapacityIsFits DEF Render!Admitted, Render!Refused, Asking, Render!ConstantsAssumption
  <2>2. q.running = pool.running /\ q.queue = Append(pool.queue, v)
        /\ q \in [running : SUBSET Views, queue : Seq(Views)]
    BY <1>1, <2>1
  <2>3. /\ Len(q.queue) = Len(pool.queue) + 1
        /\ \A i \in 1 .. Len(pool.queue) : q.queue[i] = pool.queue[i]
        /\ q.queue[Len(pool.queue) + 1] = v
    BY <1>1, <2>2
  <2> HIDE DEF q
  <2>4. \A i \in 1 .. Len(q.queue) : i \in 1 .. Len(pool.queue) \/ i = Len(pool.queue) + 1
    BY <1>1, <2>3
  <2>5. PoolInv(ask, q)
    <3>1. Len(q.queue) <= QueueDepth
      BY <1>1, <2>1, <2>3 DEF Asking, Render!ConstantsAssumption
    <3>2. \A i, j \in 1 .. Len(q.queue) : q.queue[i] = q.queue[j] => i = j
      BY <1>2, <2>3, <2>4 DEF PoolInv
    <3>3. \A i \in 1 .. Len(q.queue) : q.queue[i] \notin q.running
      BY <1>2, <2>2, <2>3, <2>4 DEF PoolInv
    <3> QED
      BY <2>2, <3>1, <3>2, <3>3 DEF PoolInv
  <2>6. Full(ask, q)
    BY <1>4, <2>2, <2>3, <2>4 DEF Full
  <2>7. Inside(q) = Inside(pool) \cup {v}
    <3>1. \A x \in Queued(q) : x = v \/ x \in Queued(pool)
      BY <2>3, <2>4 DEF Queued
    <3>2. \A i \in 1 .. Len(pool.queue) : i \in 1 .. Len(q.queue)
      BY <1>1, <2>3
    <3>3. \A x \in Queued(pool) : x \in Queued(q)
      BY <2>3, <3>2 DEF Queued
    <3>4. Len(pool.queue) + 1 \in 1 .. Len(q.queue)
      BY <1>1, <2>3
    <3>5. v \in Queued(q)
      BY <2>3, <3>4 DEF Queued
    <3> QED
      BY <2>2, <3>1, <3>3, <3>5 DEF Inside
  <2> QED
    BY <2>5, <2>6, <2>7 DEF q
<1> QED
  BY <1>3, <1>4

\* A call that only goes on, without a slot, waits for nobody but a render in flight.
LEMMA GoesOnOnly ==
    ASSUME RenderInv, NEW v \in Views, NEW l \in {"decide", "due", "wait", "ended"}, Render!Stage(v, l),
           UNCHANGED <<ask, flight, pool, storing, aborted>>,
           entry' \in [Embeds -> Render!EntryAges], locals' \in [Views -> Render!EntryAges],
           l \in {"decide", "due"} => at[v] \in {"start", "decide"},
           l = "wait" => flight[ask[v].key] # None
    PROVE  RenderInv'
<1>1. /\ at' \in [Views -> {"start", "decide", "due", "wait", "ended"}]
      /\ at'[v] = l /\ \A w \in Views \ {v} : at'[w] = at[w]
  BY DEF RenderInv, RenderTypes, Render!Stage
<1>2. \A w \in Views : Placed(w)' /\ Shared(w)'
  BY <1>1 DEF RenderInv, Placed, Shared
<1> QED
  BY <1>1, <1>2 DEF RenderInv, RenderTypes

LEMMA PreviewKeeps ==
    ASSUME Render!ConstantsAssumption, RenderInv, NEW v \in Views, Render!Preview(v)
    PROVE  RenderInv'
<1>1. /\ at[v] = "start" /\ ask[v].preview
      /\ UNCHANGED <<ask, entry, flight, storing, aborted, locals>>
  BY DEF Render!Preview
<1>2. CASE Render!Refused(v)
  <2>1. pool' = pool /\ Render!Stage(v, "ended")
    BY <1>2 DEF Render!Preview
  <2> QED
    BY <1>1, <2>1, GoesOnOnly DEF RenderInv, RenderTypes
<1>3. CASE ~Render!Refused(v)
  <2>1. pool' = Render!Admitted(v) /\ Render!Stage(v, "wait")
    BY <1>3 DEF Render!Preview
  <2>2. v \notin Inside(pool) \cup storing
    BY <1>1 DEF RenderInv, Placed
  <2>3. PoolInv(ask, pool') /\ Full(ask, pool') /\ Inside(pool') = Inside(pool) \cup {v}
    BY <1>3, <2>1, <2>2, AsksTyped, AdmittedPool DEF RenderInv
  <2>4. /\ at' \in [Views -> {"start", "decide", "due", "wait", "ended"}]
        /\ at'[v] = "wait" /\ \A w \in Views \ {v} : at'[w] = at[w]
    BY <2>1 DEF RenderInv, RenderTypes, Render!Stage
  <2>5. \A w \in Views : Placed(w)' /\ Shared(w)'
    BY <1>1, <2>2, <2>3, <2>4 DEF RenderInv, Placed, Shared
  <2> QED
    BY <1>1, <2>3, <2>4, <2>5 DEF RenderInv, RenderTypes
<1> QED
  BY <1>2, <1>3

\* The render of an embed that has none in flight.
LEMMA LaunchKeeps ==
    ASSUME Render!ConstantsAssumption, RenderInv, NEW v \in Views, NEW waits \in BOOLEAN,
           Render!Launch(v, waits), flight[ask[v].key] = None, at[v] \in {"decide", "due"},
           UNCHANGED <<ask, entry, storing, aborted, locals>>
    PROVE  RenderInv'
<1>1. CASE Render!Refused(v)
  <2>1. UNCHANGED <<pool, flight>> /\ Render!Stage(v, "ended")
    BY <1>1 DEF Render!Launch
  <2> QED
    BY <2>1, GoesOnOnly DEF RenderInv, RenderTypes
<1>2. CASE ~Render!Refused(v)
  <2> DEFINE k == ask[v].key
             l == IF waits THEN "wait" ELSE "ended"
  <2>1. pool' = Render!Admitted(v) /\ flight' = [flight EXCEPT ![k] = v] /\ Render!Stage(v, l)
    BY <1>2 DEF Render!Launch
  <2>2. v \notin Inside(pool) \cup storing
    BY DEF RenderInv, Placed
  <2>3. PoolInv(ask, pool') /\ Full(ask, pool') /\ Inside(pool') = Inside(pool) \cup {v}
    BY <1>2, <2>1, <2>2, AsksTyped, AdmittedPool DEF RenderInv
  <2>4. /\ at' \in [Views -> {"start", "decide", "due", "wait", "ended"}]
        /\ at'[v] = l /\ \A w \in Views \ {v} : at'[w] = at[w]
    BY <2>1 DEF RenderInv, RenderTypes, Render!Stage
  <2>5. k \in Embeds /\ None \notin Views
    BY AsksTyped
  <2>6. /\ flight' \in [Embeds -> Views \cup {None}]
        /\ flight'[k] = v /\ \A j \in Embeds \ {k} : flight'[j] = flight[j]
    BY <2>1, <2>5 DEF RenderInv, RenderTypes
  <2>7. l \in {"wait", "ended"}
    OBVIOUS
  <2> HIDE DEF l
  <2>8. Placed(v)' /\ Shared(v)'
    BY <2>2, <2>3, <2>4, <2>5, <2>6, <2>7 DEF Placed, Shared
  <2>9. ASSUME NEW w \in Views, w # v PROVE Placed(w)' /\ Shared(w)'
    <3>1. Placed(w) /\ Shared(w) /\ ask[w].key \in Embeds
      BY AsksTyped DEF RenderInv
    <3>2. Placed(w)'
      BY <2>3, <2>4, <2>9, <3>1 DEF Placed
    <3>3. Shared(w)'
      BY <2>3, <2>4, <2>5, <2>6, <2>9, <3>1 DEF Shared
    <3> QED
      BY <3>2, <3>3
  <2> QED
    BY <2>3, <2>4, <2>6, <2>8, <2>9 DEF RenderInv, RenderTypes
<1> QED
  BY <1>1, <1>2

LEMMA JoinKeeps ==
    ASSUME Render!ConstantsAssumption, RenderInv, NEW v \in Views, NEW waits \in BOOLEAN,
           Render!Join(v, waits), at[v] \in {"decide", "due"},
           UNCHANGED <<ask, entry, storing, aborted, locals>>
    PROVE  RenderInv'
<1>1. CASE flight[ask[v].key] # None
  <2>1. PICK l \in {"wait", "ended"} : Render!Stage(v, l) /\ UNCHANGED <<pool, flight>>
    BY <1>1 DEF Render!Join
  <2> QED
    BY <1>1, <2>1, GoesOnOnly DEF RenderInv, RenderTypes
<1>2. CASE flight[ask[v].key] = None
  BY <1>2, LaunchKeeps DEF Render!Join
<1> QED
  BY <1>1, <1>2

LEMMA DecideKeeps ==
    ASSUME Render!ConstantsAssumption, RenderInv, NEW v \in Views, Render!Decide(v)
    PROVE  RenderInv'
<1>1. at[v] = "decide" /\ UNCHANGED <<ask, entry, storing, aborted, locals>>
  BY DEF Render!Decide
<1>2. CASE Render!Join(v, TRUE)
  BY <1>1, <1>2, JoinKeeps
<1>3. CASE \E l \in {"due", "ended"} : Render!Stage(v, l) /\ UNCHANGED <<pool, flight>>
  BY <1>1, <1>3, GoesOnOnly DEF RenderInv, RenderTypes
<1> QED
  BY <1>2, <1>3 DEF Render!Decide

LEMMA GetKeeps == ASSUME RenderInv, Render!ConstantsAssumption, NEW v \in Views, Render!Get(v) PROVE RenderInv'
<1>1. /\ at[v] = "start" /\ Render!Stage(v, "decide")
      /\ locals' = [locals EXCEPT ![v] = entry[ask[v].key]]
      /\ UNCHANGED <<ask, entry, flight, pool, storing, aborted>>
  BY DEF Render!Get
<1>2. locals' \in [Views -> Render!EntryAges]
  BY <1>1, AsksTyped DEF RenderInv, RenderTypes
<1> QED
  BY <1>1, <1>2, GoesOnOnly DEF RenderInv, RenderTypes

\* A view's render is over: it was the one that its embed's map named.
LEMMA OverKeeps ==
    ASSUME Render!ConstantsAssumption, RenderInv, NEW v \in Views, ~ask[v].preview,
           v \in Inside(pool) \cup storing, Render!Over(ask[v].key),
           PoolInv(ask, pool'), Full(ask, pool'), Inside(pool') \subseteq Inside(pool),
           storing' \subseteq storing, v \notin Inside(pool') \cup storing',
           UNCHANGED <<ask, aborted, locals>>, entry' \in [Embeds -> Render!EntryAges]
    PROVE  RenderInv'
<1> DEFINE k == ask[v].key
<1>1. k \in Embeds /\ None \notin Views /\ flight[k] = v
  BY AsksTyped DEF RenderInv, Shared
<1>2. /\ flight' \in [Embeds -> Views \cup {None}]
      /\ \A j \in Embeds \ {k} : flight'[j] = flight[j]
  BY <1>1 DEF Render!Over, RenderInv, RenderTypes
<1>3. /\ at' \in [Views -> {"start", "decide", "due", "wait", "ended"}]
      /\ \A w \in Views : at'[w] # at[w] => at'[w] = "ended"
      /\ \A w \in Views : at'[w] = "wait" => at[w] = "wait" /\ (ask[w].preview \/ ask[w].key # k)
  BY DEF Render!Over, RenderInv, RenderTypes
<1>4. ASSUME NEW w \in Views PROVE Placed(w)' /\ Shared(w)'
  <2>1. Placed(w) /\ Shared(w) /\ ask[w].key \in Embeds
    BY AsksTyped DEF RenderInv
  <2>2. Placed(w)'
    BY <1>3, <2>1 DEF Placed
  <2>3. Shared(w)'
    BY <1>1, <1>2, <1>3, <2>1 DEF Shared
  <2> QED
    BY <2>2, <2>3
<1> QED
  BY <1>2, <1>3, <1>4 DEF RenderInv, RenderTypes

\* The pool without one of its renders.
LEMMA OneRunsLess ==
    ASSUME Asking, PoolInv(ask, pool), NEW v \in pool.running
    PROVE  LET q == [pool EXCEPT !.running = @ \ {v}]
           IN  PoolInv(ask, q) /\ Inside(q) = Inside(pool) \ {v}
<1> DEFINE q == [pool EXCEPT !.running = @ \ {v}]
<1>1. q.running = pool.running \ {v} /\ q.queue = pool.queue
      /\ q \in [running : SUBSET Views, queue : Seq(Views)]
  BY DEF PoolInv
<1> HIDE DEF q
<1>2. MaxGlobal \in Nat /\ MaxPerUser \in Nat
  BY DEF Asking, Render!ConstantsAssumption
<1>3. \A P, Q : P \subseteq Q /\ IsFiniteSet(Q) =>
        /\ Cardinality(P) <= Cardinality(Q) /\ Cardinality(P) \in Nat /\ Cardinality(Q) \in Nat
        /\ IsFiniteSet(P)
  BY FS_Subset, FS_CardinalityType
<1>4. IsFiniteSet(q.running) /\ Cardinality(q.running) <= MaxGlobal
  BY <1>1, <1>2, <1>3 DEF PoolInv, Capped
<1>5. ASSUME NEW u \in Users
      PROVE  Cardinality({w \in q.running : ask[w].user = u}) <= MaxPerUser
  <2> DEFINE P == {w \in q.running : ask[w].user = u}
             Q == {w \in pool.running : ask[w].user = u}
  <2>1. P \subseteq Q /\ IsFiniteSet(Q) /\ Cardinality(Q) <= MaxPerUser
    BY <1>1, <1>3 DEF PoolInv, Capped
  <2> HIDE DEF P, Q
  <2>2. Cardinality(P) <= MaxPerUser
    BY <1>2, <1>3, <2>1
  <2> QED
    BY <2>2 DEF P
<1>6. PoolInv(ask, q)
  BY <1>1, <1>4, <1>5 DEF PoolInv, Capped
<1>7. Inside(q) = Inside(pool) \ {v}
  BY <1>1 DEF Inside, Queued, PoolInv
<1> QED
  BY <1>6, <1>7 DEF q

LEMMA FinishKeeps ==
    ASSUME Render!ConstantsAssumption, RenderInv, NEW v \in Views, Render!Finish(v)
    PROVE  RenderInv'
<1> DEFINE q == [pool EXCEPT !.running = @ \ {v}]
<1>1. v \in pool.running /\ pool' = Render!Drained(q) /\ UNCHANGED <<ask, entry, aborted, locals>>
  BY DEF Render!Finish
<1>2. Asking /\ PoolInv(ask, q) /\ Inside(q) = Inside(pool) \ {v}
  BY <1>1, AsksTyped, OneRunsLess DEF RenderInv
<1> HIDE DEF q
<1>3. PoolInv(ask, pool') /\ Full(ask, pool') /\ Inside(pool') = Inside(pool) \ {v}
  BY <1>1, <1>2, DrainedPool
<1>4. v \in Inside(pool) /\ v \notin storing
  BY <1>1 DEF Inside, RenderInv, Placed
<1>5. CASE ask[v].preview /\ Render!Stage(v, "ended") /\ UNCHANGED <<storing, flight>>
  <2>1. /\ at' \in [Views -> {"start", "decide", "due", "wait", "ended"}]
        /\ at'[v] = "ended" /\ \A w \in Views \ {v} : at'[w] = at[w]
    BY <1>5 DEF RenderInv, RenderTypes, Render!Stage
  <2>2. \A w \in Views : Placed(w)' /\ Shared(w)'
    BY <1>1, <1>3, <1>5, <2>1 DEF RenderInv, Placed, Shared
  <2> QED
    BY <1>1, <1>3, <1>5, <2>1, <2>2 DEF RenderInv, RenderTypes
<1>6. CASE ~ask[v].preview /\ storing' = storing \cup {v} /\ UNCHANGED <<flight, at>>
  <2>1. at[v] \notin {"start", "decide", "due"}
    BY <1>4 DEF RenderInv, Placed
  <2>2. \A w \in Views : Placed(w)' /\ Shared(w)'
    BY <1>1, <1>3, <1>4, <1>6, <2>1 DEF RenderInv, Placed, Shared
  <2> QED
    BY <1>1, <1>3, <1>6, <2>2 DEF RenderInv, RenderTypes
<1>7. CASE ~ask[v].preview /\ Render!Over(ask[v].key) /\ UNCHANGED storing
  BY <1>1, <1>3, <1>4, <1>7, OverKeeps DEF RenderInv, RenderTypes
<1> QED
  BY <1>5, <1>6, <1>7 DEF Render!Finish

LEMMA RenderStoreKeeps ==
    ASSUME Render!ConstantsAssumption, RenderInv, NEW v \in Views, Render!Store(v)
    PROVE  RenderInv'
<1>1. /\ v \in storing /\ storing' = storing \ {v} /\ Render!Over(ask[v].key)
      /\ UNCHANGED <<ask, pool, aborted, locals>>
  BY DEF Render!Store
<1>2. ~ask[v].preview /\ v \notin Inside(pool)
  BY <1>1 DEF RenderInv, Placed
<1>3. entry' \in [Embeds -> Render!EntryAges]
  BY DEF Render!Store, RenderInv, RenderTypes, Render!EntryAges
<1> QED
  BY <1>1, <1>2, <1>3, OverKeeps DEF RenderInv

\* A preview that waits leaves the queue: a place less lets nobody run who could not.
LEMMA AbortKeeps ==
    ASSUME Render!ConstantsAssumption, RenderInv, NEW v \in Views, Render!Abort(v)
    PROVE  RenderInv'
<1>1. /\ ask[v].preview /\ aborted' = aborted \cup {v}
      /\ UNCHANGED <<ask, entry, flight, storing, locals>>
  BY DEF Render!Abort
<1>2. CASE UNCHANGED <<pool, at>>
  <2>1. \A w \in Views : Placed(w)' /\ Shared(w)'
    BY <1>1, <1>2 DEF RenderInv, Placed, Shared
  <2> QED
    BY <1>1, <1>2, <2>1 DEF RenderInv, RenderTypes
<1>3. ASSUME NEW i \in DOMAIN pool.queue, pool.queue[i] = v,
             pool' = [pool EXCEPT !.queue = Render!RemoveAt(@, i)], Render!Stage(v, "ended")
      PROVE  RenderInv'
  <2> DEFINE r == Render!RemoveAt(pool.queue, i)
  <2>1. pool.queue \in Seq(Views) /\ Len(pool.queue) \in Nat /\ i \in 1 .. Len(pool.queue)
        /\ pool \in [running : SUBSET Views, queue : Seq(Views)]
    BY <1>3, LenProperties DEF RenderInv, PoolInv
  <2>2. /\ r \in Seq(Views) /\ Len(r) = Len(pool.queue) - 1
        /\ \A j \in 1 .. (Len(pool.queue) - 1) :
             r[j] = IF j < i THEN pool.queue[j] ELSE pool.queue[j + 1]
    BY <2>1, WithoutPlace
  <2> HIDE DEF r
  <2>3. pool'.running = pool.running /\ pool'.queue = r
        /\ pool' \in [running : SUBSET Views, queue : Seq(Views)]
    BY <1>3, <2>1, <2>2 DEF r
  <2>4. \A j \in 1 .. Len(r) : \E n \in 1 .. Len(pool.queue) :
            n # i /\ r[j] = pool.queue[n] /\ (n = IF j < i THEN j ELSE j + 1)
    <3> TAKE j \in 1 .. Len(r)
    <3>1. j \in 1 .. (Len(pool.queue) - 1)
      BY <2>2
    <3>2. CASE j < i
      <4>1. j \in 1 .. Len(pool.queue) /\ j # i /\ r[j] = pool.queue[j]
        BY <2>1, <2>2, <3>1, <3>2
      <4> QED
        BY <3>2, <4>1
    <3>3. CASE ~ (j < i)
      <4>1. j + 1 \in 1 .. Len(pool.queue) /\ j + 1 # i /\ r[j] = pool.queue[j + 1]
        BY <2>1, <2>2, <3>1, <3>3
      <4> QED
        BY <3>3, <4>1
    <3> QED
      BY <3>2, <3>3
  <2>5. \A j, n \in 1 .. Len(r) : r[j] = r[n] => j = n
    <3> TAKE j, n \in 1 .. Len(r)
    <3> DEFINE was(m) == IF m < i THEN m ELSE m + 1
    <3>1. /\ r[j] = pool.queue[was(j)] /\ r[n] = pool.queue[was(n)]
          /\ was(j) \in 1 .. Len(pool.queue) /\ was(n) \in 1 .. Len(pool.queue)
      BY <2>1, <2>2
    <3>2. r[j] = r[n] => was(j) = was(n)
      BY <3>1 DEF RenderInv, PoolInv
    <3>3. was(j) = was(n) => j = n
      BY <2>1, <2>2
    <3> QED
      BY <3>2, <3>3
  <2>6. Len(r) <= QueueDepth
    BY <2>1, <2>2 DEF RenderInv, PoolInv, Render!ConstantsAssumption
  <2>7. PoolInv(ask, pool') /\ Full(ask, pool')
    BY <2>3, <2>4, <2>5, <2>6 DEF RenderInv, PoolInv, Full
  <2>8. Inside(pool') \subseteq Inside(pool)
    BY <2>3, <2>4 DEF Inside, Queued
  <2>9. /\ at' \in [Views -> {"start", "decide", "due", "wait", "ended"}]
        /\ at'[v] = "ended" /\ \A w \in Views \ {v} : at'[w] = at[w]
    BY <1>3 DEF RenderInv, RenderTypes, Render!Stage
  <2>10. \A w \in Views : Placed(w)' /\ Shared(w)'
    BY <1>1, <2>8, <2>9 DEF RenderInv, Placed, Shared
  <2> QED
    BY <1>1, <2>7, <2>9, <2>10 DEF RenderInv, RenderTypes
<1> QED
  BY <1>2, <1>3 DEF Render!Abort

LEMMA AgeKeeps ==
    ASSUME RenderInv, NEW k \in Embeds, Render!Age(k)
    PROVE  RenderInv'
<1>1. UNCHANGED <<ask, flight, pool, storing, aborted, at, locals>>
  BY DEF Render!Age
<1>2. entry' \in [Embeds -> Render!EntryAges]
  BY DEF Render!Age, RenderInv, RenderTypes, Render!EntryAges
<1>3. \A w \in Views : Placed(w)' /\ Shared(w)'
  BY <1>1 DEF RenderInv, Placed, Shared
<1> QED
  BY <1>1, <1>2, <1>3 DEF RenderInv, RenderTypes

LEMMA RenderNextInv ==
    ASSUME Render!ConstantsAssumption, RenderInv, [Render!Next]_Render!vars
    PROVE  RenderInv'
<1>1. ASSUME NEW v \in Views, Render!Refresh(v) PROVE RenderInv'
  BY <1>1, JoinKeeps DEF Render!Refresh
<1>2. CASE UNCHANGED Render!vars
  <2>1. UNCHANGED <<ask, entry, flight, pool, storing, aborted, at, locals>>
    BY <1>2 DEF Render!vars
  <2>2. \A w \in Views : Placed(w)' /\ Shared(w)'
    BY <2>1 DEF RenderInv, Placed, Shared
  <2> QED
    BY <2>1, <2>2 DEF RenderInv, RenderTypes
<1> QED
  BY <1>1, <1>2, PreviewKeeps, GetKeeps, DecideKeeps, FinishKeeps, RenderStoreKeeps, AbortKeeps, AgeKeeps
     DEF Render!Next

\* What the pool and the map are promised follows.
LEMMA RenderInvPromises ==
    ASSUME Render!ConstantsAssumption, RenderInv
    PROVE  Render!WorkConserving /\ Render!OneRenderPerKey
<1>1. Render!Waiting = Queued(pool)
  BY WaitingIsQueued DEF RenderInv
<1>2. Render!WorkConserving
  BY <1>1, CapacityIsFits DEF RenderInv, Full, Queued, Render!WorkConserving
<1>3. Render!OneRenderPerKey
  BY <1>1 DEF RenderInv, Shared, Inside, Render!OneRenderPerKey
<1> QED
  BY <1>2, <1>3

RenderHolds == awake = "render" => RenderInv

LEMMA RenderStep ==
    ASSUME [AllNext]_allVars, awake = "render"
    PROVE  [Render!Next]_Render!vars /\ awake' = "render"
  BY DEF AllNext, allVars, renderVars, stepVars, Render!vars

LEMMA RenderInvariant == AllSpec => []RenderHolds
<1>1. AllInit => RenderHolds
  BY RenderInitInv, PartsAssumption DEF AllInit, RenderHolds
<1>2. RenderHolds /\ [AllNext]_allVars => RenderHolds'
  <2>1. CASE awake = "render"
    BY <2>1, RenderStep, RenderNextInv, PartsAssumption DEF RenderHolds
  <2>2. CASE awake # "render"
    BY <2>2 DEF RenderHolds, AllNext, allVars
  <2> QED
    BY <2>1, <2>2
<1> QED
  BY <1>1, <1>2, PTL DEF AllSpec

\* No slot is idle that a waiting render could take, for any caps and any views
\* (render-admission.ts:186-199).
THEOREM SlotsNeverIdle == AllSpec => []WorkConserving
<1>1. RenderHolds => WorkConserving
  BY RenderInvPromises, PartsAssumption DEF RenderHolds, WorkConserving
<1> QED
  BY <1>1, RenderInvariant, PTL

\* An embed is rendered for its views once at a time, and none of them is left behind by a
\* render that ended (renderer/cache/index.ts:512-527).
THEOREM RendersAreShared == AllSpec => []OneRenderPerKey
<1>1. RenderHolds => OneRenderPerKey
  BY RenderInvPromises, PartsAssumption DEF RenderHolds, OneRenderPerKey
<1> QED
  BY <1>1, RenderInvariant, PTL

\* No more renders run than the caps allow, of all users or of one of them, and no more wait
\* than the queue takes, whatever the order of arrivals, releases and aborts
\* (render-admission.ts:145-199).
THEOREM CapsHold ==
    AllSpec => [](awake = "render" => Capped(ask, pool.running) /\ Len(pool.queue) <= QueueDepth)
<1>1. RenderHolds => (awake = "render" => Capped(ask, pool.running) /\ Len(pool.queue) <= QueueDepth)
  BY DEF RenderHolds, RenderInv, PoolInv
<1> QED
  BY <1>1, RenderInvariant, PTL

-----------------------------------------------------------------------------
(* CollabDocument, which every behaviour carries along, and the types of all parts. *)

\* A behaviour of Services is one of CollabDocument, which rests while another part is awake.
LEMMA CollabSpec == AllSpec => Spec
<1>1. AllInit => Init
  BY DEF AllInit
<1>2. [AllNext]_allVars => [Next]_vars
  BY DEF AllNext, allVars
<1> QED
  BY <1>1, <1>2, PTL DEF AllSpec, Spec

LEMMA CollabInv == AllSpec => []TInv
  BY CollabSpec, TInvHolds, PTL

\* A save that is reported as done has its text stored, saves chain, the epoch fences the
\* Page, and compaction keeps what it takes out of the log, for any tabs, requests, runs,
\* edits and moves (save-flow.ts:443-556, persist-yjs-state.ts:188, compaction.ts:298-313).
THEOREM EditingKeepsPromises ==
    AllSpec => []ReportedTextIsStored /\ SavesChain /\ FenceHolds /\ CompactionKeeps
  BY CollabSpec, ReportedTextAlwaysStored, SavesAlwaysChain, FenceAlwaysHolds, CompactionAlwaysKeeps, PTL

\* The pool and the calls keep their types.
LEMMA RenderTyped == ASSUME RenderInv, Render!ConstantsAssumption PROVE Render!TypeOK
<1>1. pool.queue \in Seq(Views) /\ Len(pool.queue) <= QueueDepth /\ pool.running \subseteq Views
  BY DEF RenderInv, PoolInv
<1>2. Len(pool.queue) \in Nat /\ pool.queue \in [1 .. Len(pool.queue) -> Views] /\ QueueDepth \in Nat
  BY <1>1, LenProperties DEF Render!ConstantsAssumption
<1>3. pool.queue \in Render!BoundedSeq(Views, QueueDepth)
  BY <1>1, <1>2 DEF Render!BoundedSeq, Render!SeqOf
<1> QED
  BY <1>1, <1>3 DEF RenderInv, RenderTypes, Render!TypeOK

\* In every part, what is kept has the type its model gives it, for any constants.
THEOREM PartsTyped == AllSpec => []PartsTypeOK
<1> DEFINE Kept == /\ TInv /\ TreeHolds /\ AccountHolds /\ TokensHold /\ ClientHolds
                   /\ RenderHolds /\ SettingsHold
<1>1. Kept => PartsTypeOK
  <2> SUFFICES ASSUME Kept PROVE PartsTypeOK
    OBVIOUS
  <2>1. TypeOK
    BY TInvTypes
  <2>2. awake = "tree" => Tree!TypeOK
    BY DEF TreeHolds, Tree!Inv
  <2>3. awake = "account" => Account!TypeOK
    BY DEF AccountHolds, Account!Inv
  <2>4. awake = "tokens" => Tokens!TypeOK
    BY DEF TokensHold, Tokens!Inv
  <2>5. awake = "client" => Client!TypeOK
    BY DEF ClientHolds, Client!CliInv, Client!CliTypes
  <2>6. awake = "render" => Render!TypeOK
    BY RenderTyped, PartsAssumption DEF RenderHolds
  <2>7. awake = "config" => Settings!TypeOK
    BY DEF SettingsHold, Settings!Inv
  <2> QED
    BY <2>1, <2>2, <2>3, <2>4, <2>5, <2>6, <2>7 DEF PartsTypeOK
<1> QED
  BY <1>1, CollabInv, TreeInv, AccountInv, TokensInv, ClientInv, RenderInvariant, SettingsInv, PTL

=============================================================================
