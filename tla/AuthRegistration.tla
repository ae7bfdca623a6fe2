--------------------------- MODULE AuthRegistration ---------------------------
(***************************************************************************)
(* Federated registration of ONE identity of a provider                    *)
(* (packages/api/src/services/auth-registration.ts, the models             *)
(* pending-auth-registration.ts and user-activation.ts, and the handlers   *)
(* of hono/handlers/federated-registration.ts).                            *)
(*                                                                         *)
(* A sign-in at the provider ends in an account or in a grant to register; *)
(* a submission with the grant makes the account in several steps under a  *)
(* lease on the journal row; a logout cancels the row; an administrator    *)
(* may approve an account.  All of them race, die and are repeated.  A     *)
(* process makes one request, so it names the grant, the lease token or    *)
(* the account it makes.  An action is one database call with the code up  *)
(* to the next one; reads that a unique index confirms are merged with the *)
(* insert.                                                                 *)
(***************************************************************************)
EXTENDS Naturals

CONSTANTS
    Auths,     \* sign-ins at the provider; each names the grant it may mint
    Submits,   \* submissions; each names its lease token and its candidate account
    Logouts,   \* uses of the registration screen's logout
    Approvers, \* approvals of an account by an administrator
    Restricted,\* what the registration mode may be read as
    MaxIssue,  \* ISSUE_GRANT_MAX_ATTEMPTS
    MaxFaults, \* bound on crashes, lapsed leases, expiries and rival accounts
    Rival,     \* another account that may link the identity
    None

Procs == Auths \cup Submits \cup Approvers

States == {"PENDING", "PROVISIONING", "ACTIVE", "APPROVAL_PENDING", "CANCELLED"}

\* `live': the lease has not lapsed; `old': expiresAt has passed.
RowType == [state : States, user : Submits \cup {None}, grant : Auths,
            lease : Submits \cup {None}, live : BOOLEAN, old : BOOLEAN]

ConstantsAssumption ==
    /\ Auths \cap Submits = {} /\ (Auths \cup Submits) \cap Approvers = {}
    /\ Restricted \subseteq BOOLEAN
    /\ MaxIssue \in Nat \ {0} /\ MaxFaults \in Nat
    /\ {Rival, None} \cap Procs = {} /\ Rival # None /\ None \notin RowType

VARIABLES
    row,      \* the PendingAuthRegistration of the identity, or None
    status,   \* the accounts: none, registered or active
    identity, \* the account the UserIdentity links, or None
    marker,   \* the UserActivation of each account
    homes,    \* the accounts with their user page
    grants,   \* the grants handed out
    pc, loc,  \* where each process is, and its locals
    used,     \* the logouts that have happened
    early,    \* the last cancellation came before the account was active (history only)
    cut,      \* the submissions a logout found at work before they took effect (history only)
    sweeps,   \* the rows deleted by their expiry
    faults

vars == <<row, status, identity, marker, homes, grants, pc, loc, used, early, cut, sweeps, faults>>

\* `gen' is how many rows had gone before the one a submission works on: a row that
\* takes the place of a deleted one is another document.
LocType == [user : Submits \cup {None}, resuming : BOOLEAN, mine : BOOLEAN, grant : Auths \cup {None},
            tries : Nat, gen : Nat,
            answer : {"none", "active", "approval", "conflict", "other"}]

Labels == {"start", "row", "gate", "fresh", "reissue", "revive", "resume", "marker", "reserve",
           "create", "link", "remove", "mark", "approve", "finalize", "activate", "after", "revert",
           "reload", "final", "release", "claim", "home", "markdone", "legacy", "done", "dead"}

NoLoc == [user |-> None, resuming |-> FALSE, mine |-> FALSE, grant |-> None, tries |-> 0, gen |-> 0,
          answer |-> "none"]

Init ==
    /\ row = None /\ identity = None
    /\ status = [s \in Submits |-> "none"]
    /\ marker = [s \in Submits |-> "none"]
    /\ homes = {} /\ grants = {} /\ used = {} /\ early = FALSE /\ cut = {} /\ sweeps = 0
    /\ faults = 0
    /\ pc = [p \in Procs |-> "start"]
    /\ loc = [p \in Procs |-> NoLoc]

-----------------------------------------------------------------------------
Accounts == <<status, identity, marker, homes>>
History == <<used, early, cut, sweeps, faults>>

Move(p, l, x) == pc' = [pc EXCEPT ![p] = l] /\ loc' = [loc EXCEPT ![p] = x]

Goto(p, l) == Move(p, l, loc[p])

\* The lease is given back on every way out of a submission.
Answer(s, a) == Move(s, "release", [NoLoc EXCEPT !.answer = a])

Stop(p, a) == Move(p, "done", [NoLoc EXCEPT !.answer = a])

ReadOnly == UNCHANGED <<row, Accounts, grants, History>>

-----------------------------------------------------------------------------
(* The provider's callback: createAuthRegistrationTerminal. *)

\* A linked identity stays linked, so its account is read with it.
Identify(a) ==
    /\ pc[a] = "start"
    /\ \/ identity = None /\ Goto(a, "row")
       \/ identity = Rival /\ Stop(a, "active")
       \/ /\ identity \in Submits
          /\ IF status[identity] = "active" THEN Move(a, "marker", [NoLoc EXCEPT !.user = identity])
             ELSE IF status[identity] = "registered" THEN Goto(a, "fresh")
             ELSE Stop(a, "other")
    /\ ReadOnly

\* An unfinished activation is finished before the sign-in is answered.
AuthMarker(a) ==
    /\ pc[a] = "marker" /\ a \in Auths
    /\ IF marker[loc[a].user] \in {"none", "done"} THEN Stop(a, "active") ELSE Goto(a, "claim")
    /\ ReadOnly

\* Mutant: a cancelled row starts anew although it has reserved an account.
AnyCancelledEligible == row = None \/ row.state \in {"PENDING", "CANCELLED"}

\* Only a row that has reserved no account goes through the gates of a first one.
FreshEligible ==
    \/ row = None
    \/ row.state = "PENDING"
    \/ row.state = "CANCELLED" /\ row.user = None

LookRow(a) ==
    /\ pc[a] = "row"
    /\ Goto(a, IF FreshEligible THEN "gate" ELSE "fresh")
    /\ ReadOnly

\* No account is ever linked by its address.
Gate(a) ==
    /\ pc[a] = "gate"
    /\ IF \E s \in Submits : status[s] # "none" THEN Stop(a, "conflict") ELSE Goto(a, "fresh")
    /\ ReadOnly

Minted(a) == grants' = grants \cup {a} /\ Stop(a, "other")

IssueFresh(a) ==
    /\ pc[a] = "fresh"
    /\ IF FreshEligible
         THEN /\ row' = [state |-> "PENDING", user |-> None, grant |-> a, lease |-> None,
                         live |-> FALSE, old |-> FALSE]
              /\ Minted(a)
         ELSE Goto(a, "reissue") /\ UNCHANGED <<row, grants>>
    /\ UNCHANGED <<Accounts, History>>

IssueAgain(a) ==
    /\ pc[a] = "reissue"
    /\ IF row # None /\ row.state \in {"PROVISIONING", "ACTIVE", "APPROVAL_PENDING"}
         THEN /\ row' = [row EXCEPT !.grant = a, !.old = @ /\ row.state # "APPROVAL_PENDING"]
              /\ Minted(a)
         ELSE Goto(a, "revive") /\ UNCHANGED <<row, grants>>
    /\ UNCHANGED <<Accounts, History>>

Revived(a) == [row EXCEPT !.state = "PROVISIONING", !.grant = a, !.lease = None,
                          !.live = FALSE, !.old = FALSE]

IssueRevived(a) ==
    /\ pc[a] = "revive"
    /\ IF row # None /\ row.state = "CANCELLED" /\ row.user # None
         THEN row' = Revived(a) /\ Minted(a)
         ELSE /\ IF loc[a].tries + 1 = MaxIssue THEN Stop(a, "other")
                 ELSE Move(a, "fresh", [loc[a] EXCEPT !.tries = @ + 1])
              /\ UNCHANGED <<row, grants>>
    /\ UNCHANGED <<Accounts, History>>

-----------------------------------------------------------------------------
(* A submission: beginProvisioning and provisionClaimedRow. *)

Leased(s, state) ==
    [row EXCEPT !.state = state, !.lease = s, !.live = TRUE, !.old = FALSE]

Begin(s, g) ==
    /\ pc[s] = "start" /\ g \in grants
    /\ IF row # None /\ row.grant = g /\ row.state = "PENDING" /\ ~row.old
         THEN /\ row' = Leased(s, "PROVISIONING")
              /\ Move(s, "marker", [NoLoc EXCEPT !.user = row.user, !.gen = sweeps])
         ELSE Move(s, "resume", [NoLoc EXCEPT !.grant = g]) /\ UNCHANGED row
    /\ UNCHANGED <<Accounts, grants, History>>

Reclaimable == row.lease = None \/ ~row.live

Resume(s) ==
    /\ pc[s] = "resume"
    /\ IF /\ row # None /\ row.grant = loc[s].grant /\ row.state \in {"PROVISIONING", "ACTIVE"}
          /\ Reclaimable /\ ~row.old
         THEN /\ row' = Leased(s, row.state)
              /\ Move(s, "marker", [NoLoc EXCEPT !.user = row.user, !.gen = sweeps,
                                                 !.resuming = row.state = "ACTIVE"])
         ELSE Stop(s, "other") /\ UNCHANGED row
    /\ UNCHANGED <<Accounts, grants, History>>

\* A registration that is complete cannot be replayed.
SubmitMarker(s) ==
    /\ pc[s] = "marker" /\ s \in Submits
    /\ IF loc[s].resuming /\ loc[s].user # None /\ marker[loc[s].user] = "done"
         THEN Answer(s, "other")
         ELSE Goto(s, IF loc[s].user = None THEN "reserve" ELSE "create")
    /\ ReadOnly

Holds(s) == row # None /\ row.lease = s

\* Mutant: a logout that slipped in goes unnoticed.
Unnoticed(s) == FALSE

Cancelled(s) == row # None /\ loc[s].gen = sweeps /\ row.state = "CANCELLED"

\* A reservation that is lost means the lease is.
Reserve(s) ==
    /\ pc[s] = "reserve"
    /\ IF Holds(s) /\ row.user = None
         THEN /\ row' = [row EXCEPT !.user = s]
              /\ Move(s, "create", [loc[s] EXCEPT !.user = s])
         ELSE Answer(s, "other") /\ UNCHANGED row
    /\ UNCHANGED <<Accounts, grants, History>>

\* Another account with the address, or with the name, is a conflict.
Create(s) ==
    /\ pc[s] = "create"
    /\ LET u == loc[s].user
       IN  IF status[u] # "none" THEN Goto(s, "link") /\ UNCHANGED status
           ELSE IF \E v \in Submits : status[v] # "none"
             THEN Answer(s, "conflict") /\ UNCHANGED status
           ELSE \/ status' = [status EXCEPT ![u] = "registered"] /\ Goto(s, "link")
                \/ Answer(s, "other") /\ UNCHANGED status
    /\ UNCHANGED <<row, identity, marker, homes, grants, History>>

Link(s) ==
    /\ pc[s] = "link"
    /\ IF identity \in {None, loc[s].user}
         THEN identity' = loc[s].user /\ Goto(s, "mark")
         ELSE Goto(s, "remove") /\ UNCHANGED identity
    /\ UNCHANGED <<row, status, marker, homes, grants, History>>

\* The identity is somebody else's: the account made for it is taken back.
Remove(s) ==
    /\ pc[s] = "remove"
    /\ status' = [status EXCEPT ![loc[s].user] = IF @ = "registered" THEN "none" ELSE @]
    /\ Answer(s, "other")
    /\ UNCHANGED <<row, identity, marker, homes, grants, History>>

\* ensurePendingMarker, and the registration mode unless the row was active.
Mark(s) ==
    /\ pc[s] = "mark"
    /\ marker' = [marker EXCEPT ![loc[s].user] = IF @ = "none" THEN "pending" ELSE @]
    /\ \/ TRUE \in Restricted /\ ~loc[s].resuming /\ Goto(s, "approve")
       \/ (FALSE \in Restricted \/ loc[s].resuming) /\ Goto(s, "finalize")
    /\ UNCHANGED <<row, status, identity, homes, grants, History>>

\* Mutant: only a cancelled row is refused, not the loss of the lease.
NotCancelled(s) == row # None /\ row.state # "CANCELLED"

MayFinish(s) == Holds(s) /\ row.state # "CANCELLED"

Approve(s) ==
    /\ pc[s] = "approve"
    /\ IF MayFinish(s)
         THEN /\ row' = [row EXCEPT !.state = "APPROVAL_PENDING", !.user = loc[s].user, !.old = FALSE]
              /\ Answer(s, "approval")
         ELSE Answer(s, "other") /\ UNCHANGED row
    /\ UNCHANGED <<Accounts, grants, History>>

Finalize(s) ==
    /\ pc[s] = "finalize"
    /\ IF MayFinish(s)
         THEN /\ row' = [row EXCEPT !.state = "ACTIVE", !.user = loc[s].user,
                                    !.old = @ /\ loc[s].resuming]
              /\ Goto(s, "activate")
         ELSE Answer(s, "other") /\ UNCHANGED row
    /\ UNCHANGED <<Accounts, grants, History>>

Activate(s) ==
    /\ pc[s] = "activate"
    /\ LET u == loc[s].user
           mine == status[u] = "registered"
       IN  /\ status' = [status EXCEPT ![u] = IF mine THEN "active" ELSE @]
           /\ Move(s, "after", [loc[s] EXCEPT !.mine = mine])
    /\ UNCHANGED <<row, identity, marker, homes, grants, History>>

\* A logout that slipped in is made good; a lease that was lost ends the call.
After(s) ==
    /\ pc[s] = "after"
    /\ IF Cancelled(s)
         THEN IF loc[s].mine THEN Goto(s, "revert") ELSE Answer(s, "other")
       ELSE IF Holds(s) THEN Goto(s, "reload") ELSE Answer(s, "other")
    /\ ReadOnly

Revert(s) ==
    /\ pc[s] = "revert"
    /\ status' = [status EXCEPT ![loc[s].user] = IF @ = "active" THEN "registered" ELSE @]
    /\ Answer(s, "other")
    /\ UNCHANGED <<row, identity, marker, homes, grants, History>>

\* A user that is gone is an error; one that is not active is not drained.
Reload(s) ==
    /\ pc[s] = "reload"
    /\ LET found == status[loc[s].user]
       IN  IF found = "none" THEN Answer(s, "other")
           ELSE Goto(s, IF found = "active" THEN "claim" ELSE "final")
    /\ ReadOnly

\* A row that was cancelled meanwhile does not take the answer back.
Final(s) ==
    /\ pc[s] = "final"
    /\ Answer(s, IF Cancelled(s) \/ Holds(s) THEN "active" ELSE "other")
    /\ ReadOnly

Release(s) ==
    /\ pc[s] = "release"
    /\ row' = IF Holds(s) THEN [row EXCEPT !.lease = None, !.live = FALSE] ELSE row
    /\ Stop(s, loc[s].answer)
    /\ UNCHANGED <<Accounts, grants, History>>

-----------------------------------------------------------------------------
(* drainUserActivation, which whoever activates an account runs. *)

Failed(p) == IF p \in Submits THEN Answer(p, "other") ELSE Stop(p, "other")

Drained(p) == IF p \in Submits THEN Goto(p, "final") ELSE Stop(p, "active")

\* Mutant: a marker somebody else holds is taken for a success.
ClaimOrTrust(p) ==
    /\ pc[p] = "claim"
    /\ LET u == loc[p].user
       IN  \/ /\ marker[u] \in {"pending", "lapsed"}
              /\ marker' = [marker EXCEPT ![u] = "running"] /\ Goto(p, "home")
           \/ marker[u] \in {"running", "done"} /\ Drained(p) /\ UNCHANGED marker
    /\ UNCHANGED <<row, status, identity, homes, grants, History>>

\* A marker somebody else holds is no success.
ClaimMarker(p) ==
    /\ pc[p] = "claim"
    /\ LET u == loc[p].user
       IN  \/ /\ marker[u] \in {"pending", "lapsed"}
              /\ marker' = [marker EXCEPT ![u] = "running"] /\ Goto(p, "home")
           \/ marker[u] = "done" /\ Drained(p) /\ UNCHANGED marker
           \/ marker[u] \in {"none", "running"} /\ Failed(p) /\ UNCHANGED marker
    /\ UNCHANGED <<row, status, identity, homes, grants, History>>

MakeHome(p) ==
    /\ pc[p] = "home"
    /\ homes' = IF status[loc[p].user] = "none" THEN homes ELSE homes \cup {loc[p].user}
    /\ Goto(p, "markdone")
    /\ UNCHANGED <<row, status, identity, marker, grants, History>>

MarkDone(p) ==
    /\ pc[p] = "markdone"
    /\ marker' = [marker EXCEPT ![loc[p].user] = "done"]
    /\ Drained(p)
    /\ UNCHANGED <<row, status, identity, homes, grants, History>>

\* statusActivate, and the event it emits.
AdminApproves(p, u) ==
    /\ pc[p] = "start" /\ p \in Approvers /\ status[u] = "registered"
    /\ status' = [status EXCEPT ![u] = "active"]
    /\ Move(p, IF marker[u] = "none" THEN "legacy" ELSE "claim", [NoLoc EXCEPT !.user = u])
    /\ UNCHANGED <<row, identity, marker, homes, grants, History>>

\* An account without a marker gets its page from the listener of old.
LegacyHome(p) ==
    /\ pc[p] = "legacy"
    /\ homes' = homes \cup {loc[p].user}
    /\ Stop(p, "other")
    /\ UNCHANGED <<row, status, identity, marker, grants, History>>

-----------------------------------------------------------------------------
\* Where a submission has not yet finalized the row.
Undecided == {"marker", "reserve", "create", "link", "mark", "approve", "finalize"}

Logout(l, g) ==
    /\ l \in Logouts \ used /\ g \in grants
    /\ used' = used \cup {l}
    /\ IF row # None /\ row.grant = g /\ row.state # "CANCELLED"
         THEN /\ row' = [row EXCEPT !.state = "CANCELLED", !.lease = None, !.live = FALSE,
                                    !.old = FALSE]
              /\ early' = (row.user = None \/ status[row.user] # "active")
              /\ cut' = cut \cup {s \in Submits : Holds(s) /\ pc[s] \in Undecided}
         ELSE UNCHANGED <<row, early, cut>>
    /\ UNCHANGED <<Accounts, grants, pc, loc, sweeps, faults>>

Fault == faults < MaxFaults /\ faults' = faults + 1

\* A lease lapses while its holder is at work, or long after it died.
LeaseLapses ==
    /\ row # None /\ row.live /\ Fault
    /\ row' = [row EXCEPT !.live = FALSE]
    /\ UNCHANGED <<Accounts, grants, pc, loc, used, early, cut, sweeps>>

MarkerLapses(u) ==
    /\ marker[u] = "running" /\ Fault
    /\ marker' = [marker EXCEPT ![u] = "lapsed"]
    /\ UNCHANGED <<row, status, identity, homes, grants, pc, loc, used, early, cut, sweeps>>

\* expiresAt passes, and some time later the row is deleted.
Expires ==
    /\ row # None /\ row.state # "PROVISIONING" /\ ~row.old /\ Fault
    /\ row' = [row EXCEPT !.old = TRUE]
    /\ UNCHANGED <<Accounts, grants, pc, loc, used, early, cut, sweeps>>

Sweep ==
    /\ row # None /\ row.old
    /\ row' = None /\ sweeps' = sweeps + 1
    /\ UNCHANGED <<Accounts, grants, pc, loc, used, early, cut, faults>>

\* An existing account links the identity from its settings.
LinkedElsewhere ==
    /\ identity = None /\ Fault
    /\ identity' = Rival
    /\ UNCHANGED <<row, status, marker, homes, grants, pc, loc, used, early, cut, sweeps>>

Crash(p) ==
    /\ pc[p] \notin {"start", "done", "dead"} /\ Fault
    /\ Move(p, "dead", NoLoc)
    /\ UNCHANGED <<row, Accounts, grants, used, early, cut, sweeps>>

Next ==
    \/ \E a \in Auths : \/ Identify(a) \/ AuthMarker(a) \/ LookRow(a) \/ Gate(a)
                        \/ IssueFresh(a) \/ IssueAgain(a) \/ IssueRevived(a)
    \/ \E s \in Submits : \/ \E g \in Auths : Begin(s, g)
                          \/ Resume(s) \/ SubmitMarker(s) \/ Reserve(s) \/ Create(s) \/ Link(s)
                          \/ Remove(s) \/ Mark(s) \/ Approve(s) \/ Finalize(s) \/ Activate(s)
                          \/ After(s) \/ Revert(s) \/ Reload(s) \/ Final(s) \/ Release(s)
                          \/ MarkerLapses(s) \/ \E p \in Approvers : AdminApproves(p, s)
    \/ \E l \in Logouts, g \in Auths : Logout(l, g)
    \/ \E p \in Procs : ClaimMarker(p) \/ MakeHome(p) \/ MarkDone(p) \/ LegacyHome(p) \/ Crash(p)
    \/ LeaseLapses \/ Expires \/ Sweep \/ LinkedElsewhere

Spec == Init /\ [][Next]_vars

-----------------------------------------------------------------------------
TypeOK ==
    /\ row \in RowType \cup {None}
    /\ status \in [Submits -> {"none", "registered", "active"}]
    /\ identity \in Submits \cup {Rival, None}
    /\ marker \in [Submits -> {"none", "pending", "running", "lapsed", "done"}]
    /\ homes \subseteq Submits /\ grants \subseteq Auths
    /\ pc \in [Procs -> Labels]
    /\ loc \in [Procs -> LocType]
    /\ used \subseteq Logouts /\ early \in BOOLEAN /\ cut \subseteq Submits /\ sweeps \in Nat /\ faults \in Nat

\* Nobody is at work, and no administrator has decided anything.
AtRest ==
    /\ \A p \in Procs : pc[p] \in {"start", "done"}
    /\ \A p \in Approvers : pc[p] = "start"

\* A logout that came before the account was active keeps it from becoming so, whatever
\* submission was between the row and the account at the time, as long as none dies
\* there (the check provisionClaimedRow makes after its two writes).
LogoutPrevents ==
    AtRest /\ row # None /\ row.state = "CANCELLED" /\ early /\ row.user # None
        => status[row.user] # "active"

\* A submission that a logout overtook before it finalized the row never reports a
\* registration, even if another sign-in has opened the row again meanwhile (the lease
\* tokens that the logout and the reissue clear).
CutOff == \A s \in cut : loc[s].answer \notin {"active", "approval"}

\* A submission is never told that the address is taken by the account that was made for
\* the same identity, as long as the journal row has not expired: a cancelled row that
\* had reserved an account is opened again and not replaced (FreshEligible, the two
\* filters of issueGrant).
NoSelfConflict == sweeps = 0 => \A s \in Submits : loc[s].answer # "conflict"

\* A sign-in that is answered with the account finds its user page, whoever was making
\* it and died (drainUserActivation's `holding' is no success).
SignedInHasHome ==
    \A a \in Auths : loc[a].answer = "active" /\ identity \in Submits
                        /\ (\A p \in Approvers : pc[p] = "start") => identity \in homes

\* auth-registration.ts:516-519 says that every interleaving of a submission and a logout
\* settles on an active row with an active account or on a cancelled row.
SettledTogether == AtRest /\ row # None /\ row.state = "ACTIVE" => status[row.user] = "active"
=============================================================================
