------------------------------- MODULE Services -------------------------------
(***************************************************************************)
(* One instance each of CollabDocument, SubtreeRename, AuthRegistration,   *)
(* TokenRotation, CliRefresh, RenderAdmission and ConfigSync.  These parts *)
(* of the system share no state, so a behaviour is one of the part that is *)
(* `awake': the others have no state, and variables of one name serve all  *)
(* of them.  The collaborative editing, whose variables are those of this  *)
(* module, sleeps in one of its initial states, with nobody in the cast.   *)
(* A part whose theorems are proved is instanced with them.                *)
(***************************************************************************)
EXTENDS CollabDocument

CONSTANTS
    Members, Root, Deliveries, Sweeps, TreeCasts, Width,         \* SubtreeRename
    Auths, Submits, Logouts, Approvers, Rival, MaxIssue,         \* AuthRegistration
    Requests, Plans, Codes,                                      \* TokenRotation
    CliRequests, SignIn, Commands, Rereads,                      \* CliRefresh
    Views, Asked, Embeds, MaxGlobal, MaxPerUser, QueueDepth,     \* RenderAdmission
    Replicas, Admins, Backs, Uses, SettingsCasts, Origin, Site, \* ConfigSync
    Group, Keys, Wants

VARIABLES
    awake,
    slot, stored, root, record, dpc, base, list, moves, strays,
    status, identity, marker, homes, grants, used, early, cut, sweeps,
    row, code, revoked, held, profile, cmd,
    ask, entry, flight, pool, storing, aborted,
    db, mem, turns, messages, cell, using,
    at, locals, lost

treeVars == <<slot, stored, root, record, dpc, base, list, moves, strays>>
accountVars == <<status, identity, marker, homes, grants, used, early, cut, sweeps>>
tokenVars == <<code, revoked, held>>
clientVars == <<profile, cmd>>
renderVars == <<ask, entry, flight, pool, storing, aborted>>
configVars == <<db, mem, turns, messages, cell, using>>
stepVars == <<at, locals, lost>>
allVars == <<vars, awake, treeVars, accountVars, row, tokenVars, clientVars, renderVars, configVars, stepVars>>

Tree == INSTANCE SubtreeRenameProofs WITH
    Casts <- TreeCasts, page <- slot, pc <- at, loc <- locals, faults <- lost

Account == INSTANCE AuthRegistrationProofs WITH
    Restricted <- BOOLEAN, pc <- at, loc <- locals, faults <- lost

Tokens == INSTANCE TokenRotationProofs WITH pc <- at, loc <- locals, faults <- lost

Client == INSTANCE TokenRotationProofs WITH
    Requests <- CliRequests, Plans <- {}, Codes <- {}, First <- SignIn,
    pc <- at, loc <- locals, faults <- lost

Render == INSTANCE RenderAdmission WITH
    Calls <- Views, Keys <- Embeds, pc <- at, seen <- locals

Settings == INSTANCE ConfigSyncProofs WITH
    Requests <- Admins, Calls <- Uses, Casts <- SettingsCasts, Of <- Origin,
    pc <- at, loc <- locals, faults <- lost

ASSUME PartsAssumption ==
    /\ Tree!ConstantsAssumption /\ Account!ConstantsAssumption
    /\ Tokens!ConstantsAssumption /\ Client!ConstantsAssumption /\ Client!CliAssumption
    /\ Render!ConstantsAssumption /\ Settings!ConstantsAssumption

-----------------------------------------------------------------------------
\* A part that is not awake.
NoTree ==
    /\ slot = None /\ stored = None /\ root = None /\ record = None /\ dpc = None
    /\ base = None /\ list = None /\ moves = None /\ strays = None
NoAccount ==
    /\ status = None /\ identity = None /\ marker = None /\ homes = None /\ grants = None
    /\ used = None /\ early = None /\ cut = None /\ sweeps = None
NoTokens == code = None /\ revoked = None /\ held = None
NoClient == profile = None /\ cmd = None
NoRender ==
    /\ ask = None /\ entry = None /\ flight = None /\ pool = None /\ storing = None
    /\ aborted = None
NoConfig ==
    /\ db = None /\ mem = None /\ turns = None /\ messages = None /\ cell = None
    /\ using = None
Asleep == typed = Marks /\ page.snap = None /\ revs[First].body = {}

AllInit ==
    /\ Init
    /\ \/ /\ awake = "collab" /\ at = None /\ locals = None /\ lost = None /\ row = None
          /\ NoTree /\ NoAccount /\ NoTokens /\ NoClient /\ NoRender /\ NoConfig
       \/ /\ awake = "tree" /\ Tree!Init /\ row = None
          /\ Asleep /\ NoAccount /\ NoTokens /\ NoClient /\ NoRender /\ NoConfig
       \/ /\ awake = "account" /\ Account!Init
          /\ Asleep /\ NoTree /\ NoTokens /\ NoClient /\ NoRender /\ NoConfig
       \/ /\ awake = "tokens" /\ Tokens!Init
          /\ Asleep /\ NoTree /\ NoAccount /\ NoClient /\ NoRender /\ NoConfig
       \/ /\ awake = "client" /\ Client!CliInit
          /\ Asleep /\ NoTree /\ NoAccount /\ NoRender /\ NoConfig
       \/ /\ awake = "render" /\ Render!Init /\ lost = None /\ row = None
          /\ Asleep /\ NoTree /\ NoAccount /\ NoTokens /\ NoClient /\ NoConfig
       \/ /\ awake = "config" /\ Settings!Init /\ row = None
          /\ Asleep /\ NoTree /\ NoAccount /\ NoTokens /\ NoClient /\ NoRender

AllNext ==
    \/ /\ awake = "collab" /\ Next
       /\ UNCHANGED <<awake, treeVars, accountVars, row, tokenVars, clientVars, renderVars, configVars, stepVars>>
    \/ /\ awake = "tree" /\ Tree!Next
       /\ UNCHANGED <<vars, awake, accountVars, row, tokenVars, clientVars, renderVars, configVars>>
    \/ /\ awake = "account" /\ Account!Next
       /\ UNCHANGED <<vars, awake, treeVars, tokenVars, clientVars, renderVars, configVars>>
    \/ /\ awake = "tokens" /\ Tokens!Next
       /\ UNCHANGED <<vars, awake, treeVars, accountVars, clientVars, renderVars, configVars>>
    \/ /\ awake = "client" /\ Client!CliNext
       /\ UNCHANGED <<vars, awake, treeVars, accountVars, renderVars, configVars>>
    \/ /\ awake = "render" /\ Render!Next
       /\ UNCHANGED <<vars, awake, treeVars, accountVars, row, tokenVars, clientVars, configVars, lost>>
    \/ /\ awake = "config" /\ Settings!Next
       /\ UNCHANGED <<vars, awake, treeVars, accountVars, row, tokenVars, clientVars, renderVars>>

AllSpec == AllInit /\ [][AllNext]_allVars

-----------------------------------------------------------------------------
\* The types of the state of the part that is awake: each module's own TypeOK.
PartsTypeOK ==
    /\ TypeOK
    /\ awake = "tree" => Tree!TypeOK
    /\ awake = "account" => Account!TypeOK
    /\ awake = "tokens" => Tokens!TypeOK
    /\ awake = "client" => Client!TypeOK
    /\ awake = "render" => Render!TypeOK
    /\ awake = "config" => Settings!TypeOK

\* SubtreeRename.RootIsHonest: a root is finished only when every sealed member is
\* (subtree-rename.ts:367-376).
RootIsHonest == awake = "tree" => Tree!RootIsHonest

\* SubtreeRename.DeliveriesAgree: deliveries of one key name the same move for a member
\* (subtree-rename.ts:297-300).
DeliveriesAgree == awake = "tree" => Tree!DeliveriesAgree

\* SubtreeRename.MembersMoveOnce: a member is moved once, and reported as moved only if it
\* was (transition.ts:172-207).
MembersMoveOnce == awake = "tree" => Tree!MembersMoveOnce

\* SubtreeRename.FailureIsHonest: no delivery answers that a member failed when it had been
\* moved (subtree-rename.ts:105-109).
FailureIsHonest == [][awake = "tree" => Tree!HonestStep]_allVars

\* AuthRegistration.LogoutPrevents: a logout before the activation is made good by the
\* submission that races with it (auth-registration.ts:521-548).
LogoutPrevents == awake = "account" => Account!LogoutPrevents

\* AuthRegistration.CutOff: a submission overtaken by a logout reports no registration
\* (pending-auth-registration.ts:474-482).
CutOff == awake = "account" => Account!CutOff

\* AuthRegistration.NoSelfConflict: an identity is not refused for its own account
\* (pending-auth-registration.ts:318-413).
NoSelfConflict == awake = "account" => Account!NoSelfConflict

\* AuthRegistration.SignedInHasHome: who signs in has a user page
\* (auth-registration.ts:78-97).
SignedInHasHome == awake = "account" => Account!SignedInHasHome

\* TokenRotation.ClosedFamilyIsDead: a revoked family keeps no usable token
\* (oauth.ts:623-630).
ClosedFamilyIsDead == awake = "tokens" => Tokens!ClosedFamilyIsDead

\* TokenRotation.FamilyKeepsToken: a rotation leaves its family an unrevoked token
\* (oauth.ts:363-381).
FamilyKeepsToken == awake = "tokens" => Tokens!FamilyKeepsToken

\* TokenRotation.ResetCoversFamilies: a password reset revokes every family it found
\* (password-reset.ts:147-157).
ResetCoversFamilies == awake = "tokens" => Tokens!ResetCoversFamilies

\* TokenRotation.LiveTokenIsSpared: reuse detection fires only on a token that was
\* rotated, revoked or has expired (oauth.ts:311-338).
LiveTokenIsSpared == [][awake = "tokens" => Tokens!SparedStep]_allVars

\* CliRefresh.StoredTokenLives: racing commands leave the live token in the profile
\* (packages/cli/src/lib/refresh.ts:49-63).
StoredTokenLives == awake = "client" => Client!StoredTokenLives

\* RenderAdmission.WorkConserving: no slot is idle that a waiting render could take
\* (render-admission.ts:186-199).
WorkConserving == awake = "render" => Render!WorkConserving

\* RenderAdmission.OneRenderPerKey: views share one render of an embed and never wait for
\* one that is over (renderer/cache/index.ts:512-527).
OneRenderPerKey == awake = "render" => Render!OneRenderPerKey

\* ConfigSync.StoreIsMirrored: memory ends as what the database holds, however a save
\* failed, and no save is left waiting (service/config.ts:33-66, :192-209).
StoreIsMirrored == awake = "config" => Settings!StoreIsMirrored

\* ConfigSync.DriversFollowMemory: every replica's driver ends configured as its memory
\* says (plugin-manager.ts:388-393).
DriversFollowMemory == awake = "config" => Settings!DriversFollowMemory

\* ConfigSync.CellsAreSafe: no driver is closed under a call or kept open without one
\* (plugin-state-cell.ts:26-78).
CellsAreSafe == awake = "config" => Settings!CellsAreSafe
===============================================================================
