---------------------------- MODULE TokenRotation ----------------------------
(***************************************************************************)
(* The OAuth tokens of ONE user: device and authorization codes, refresh   *)
(* with rotation and reuse detection, and the revocation of a sign-in      *)
(* family (packages/api/src/hono/handlers/oauth.ts, oauth-session.ts,      *)
(* password-reset.ts and the models oauth-*.ts).                           *)
(*                                                                         *)
(* A request makes one call and mints at most one token, so the token, and *)
(* the family of a first grant, bear the name of the request.  An action   *)
(* is one database call with the code up to the next one; two are merged   *)
(* only where the second reads a record that is never taken back.          *)
(***************************************************************************)
EXTENDS Naturals

CONSTANTS
    Requests,  \* requests, each also the name of the token it mints
    Plans,     \* what the requests may be sent for: see Kinds
    Codes,     \* device codes and authorization codes
    MaxFaults, \* bound on requests that die or whose answer is lost
    None

\* What a request is sent for; `done' is one that is never sent.
Kinds == {"verify", "exchange", "refresh", "revoke", "reset", "done"}

\* How long ago a row was revoked, as far as isWithinReuseGrace tells.
Ages == {"no", "fresh", "stale"}

RowType == [family : Requests, revoked : Ages, expired : BOOLEAN,
            next : Requests \cup {None}]

ConstantsAssumption ==
    /\ Plans \subseteq [Requests -> Kinds]
    /\ None \notin Requests \cup Codes \cup RowType
    /\ MaxFaults \in Nat

VARIABLES
    code,    \* each code: its status, and whether it was exchanged
    row,     \* the OAuthRefreshToken rows
    revoked, \* the families with a revocation record
    held,    \* the tokens some client has been answered with
    pc, loc, \* where each request is, and its locals
    faults

vars == <<code, row, revoked, held, pc, loc, faults>>

LocType == [code : Codes \cup {None}, token : Requests \cup {None},
            family : Requests \cup {None}, todo : SUBSET Requests,
            swept : SUBSET Requests, owed : SUBSET Requests]

NoLoc == [code |-> None, token |-> None, family |-> None, todo |-> {}, swept |-> {},
          owed |-> {}]

Rows == {t \in Requests : row[t] # None}

Of(f) == {t \in Rows : row[t].family = f}

Families == {row[t].family : t \in Rows}

\* Device codes start pending, authorization codes approved by their consent.
Init ==
    /\ code \in [Codes -> [status : {"pending", "approved"}, consumed : {FALSE}]]
    /\ row = [t \in Requests |-> None]
    /\ revoked = {} /\ held = {} /\ faults = 0
    /\ pc \in Plans
    /\ loc = [r \in Requests |-> NoLoc]

-----------------------------------------------------------------------------
Move(r, l, x) == pc' = [pc EXCEPT ![r] = l] /\ loc' = [loc EXCEPT ![r] = x]

Goto(r, l) == pc' = [pc EXCEPT ![r] = l] /\ UNCHANGED loc

(* The consent to a device: a pending code is read, then saved whatever has
   become of it in between. *)
VerifyRead(r, c) ==
    /\ pc[r] = "verify" /\ code[c].status = "pending"
    /\ Move(r, "verdict", [NoLoc EXCEPT !.code = c])
    /\ UNCHANGED <<code, row, revoked, held, faults>>

VerifySave(r) ==
    /\ pc[r] = "verdict"
    /\ \E verdict \in {"approved", "denied"} :
         code' = [code EXCEPT ![loc[r].code].status = verdict]
    /\ Goto(r, "done")
    /\ UNCHANGED <<row, revoked, held, faults>>

\* A poll, or the exchange of an authorization code; early answers change nothing.
Poll(r, c) ==
    /\ pc[r] = "exchange" /\ ~code[c].consumed /\ code[c].status = "approved"
    /\ Move(r, "consume", [NoLoc EXCEPT !.code = c])
    /\ UNCHANGED <<code, row, revoked, held, faults>>

Usable(c) == code[c].status = "approved" /\ ~code[c].consumed

Consume(r) ==
    /\ pc[r] = "consume"
    /\ IF Usable(loc[r].code)
         THEN /\ code' = [code EXCEPT ![loc[r].code].consumed = TRUE]
              /\ Move(r, "insert", [loc[r] EXCEPT !.family = r])
         ELSE Goto(r, "done") /\ UNCHANGED code
    /\ UNCHANGED <<row, revoked, held, faults>>

-----------------------------------------------------------------------------
(* issueTokens, and the rotation around it. *)

Insert(r) ==
    /\ pc[r] = "insert"
    /\ row' = [row EXCEPT ![r] = [family |-> loc[r].family, revoked |-> "no",
                                  expired |-> FALSE, next |-> None]]
    /\ Goto(r, "recheck")
    /\ UNCHANGED <<code, revoked, held, faults>>

\* Mutant: no second look.
NeverRevoked(r) == FALSE

\* The family may have been revoked since the presented token was found active.
RevokedMeanwhile(r) == loc[r].family \in revoked

Recheck(r) ==
    /\ pc[r] = "recheck"
    /\ Goto(r, IF RevokedMeanwhile(r) THEN "undo"
               ELSE IF loc[r].token = None THEN "respond" ELSE "rotate")
    /\ UNCHANGED <<code, row, revoked, held, faults>>

\* `revokedAt: null' filters the rows that are revoked already.
Killed(ts) == [t \in Requests |-> IF t \in ts /\ row[t].revoked = "no"
                                  THEN [row[t] EXCEPT !.revoked = "fresh"] ELSE row[t]]

Undo(r) ==
    /\ pc[r] = "undo"
    /\ row' = Killed({r})
    /\ Goto(r, "done")
    /\ UNCHANGED <<code, revoked, held, faults>>

\* Mutant: the presented token is revoked before its successor is stored.
RotateFirst(r) ==
    /\ pc[r] = "insert" /\ loc[r].token # None /\ row[loc[r].token].revoked = "no"
    /\ row' = Killed({loc[r].token})
    /\ UNCHANGED <<code, revoked, held, pc, loc, faults>>

\* active.save() sets revokedAt and rotatedTo whatever they hold by now.
Rotate(r) ==
    /\ pc[r] = "rotate"
    /\ row' = [row EXCEPT ![loc[r].token].revoked = "fresh", ![loc[r].token].next = r]
    /\ Goto(r, "respond")
    /\ UNCHANGED <<code, revoked, held, faults>>

Respond(r) ==
    /\ pc[r] = "respond"
    /\ held' = held \cup {r}
    /\ Goto(r, "done")
    /\ UNCHANGED <<code, row, revoked, faults>>

-----------------------------------------------------------------------------
(* Refresh. *)

\* Mutant: a token counts as rotated as soon as its successor is stored.
ActiveAlone(t) ==
    \A s \in Of(row[t].family) : s = t \/ row[s].revoked # "no"

\* What findActiveByHash finds.
Active(t) ==
    row[t].revoked = "no" /\ ~row[t].expired /\ row[t].family \notin revoked

Present(r, t) ==
    /\ pc[r] = "refresh" /\ t \in held
    /\ Move(r, IF Active(t) THEN "insert" ELSE "known",
            [NoLoc EXCEPT !.token = t, !.family = row[t].family])
    /\ UNCHANGED <<code, row, revoked, held, faults>>

\* Reuse detection: a replay soon after the revocation is taken for a race; a token
\* that expired unrevoked is not.
Spared(t) == row[t].revoked = "fresh"

LookUp(r) ==
    /\ pc[r] = "known"
    /\ IF Spared(loc[r].token) THEN Goto(r, "done")
       ELSE Move(r, "record", [loc[r] EXCEPT !.todo = {loc[r].family}])
    /\ UNCHANGED <<code, row, revoked, held, faults>>

-----------------------------------------------------------------------------
(* revokeFamily, over the families a call has to revoke. *)

\* The revocation endpoint and the deletion of a session.
Revoke(r, t) ==
    /\ pc[r] = "revoke" /\ t \in Rows
    /\ Move(r, "record", [NoLoc EXCEPT !.todo = {row[t].family}])
    /\ UNCHANGED <<code, row, revoked, held, faults>>

\* Mutant: the rows that the list of the user's sessions shows.
ListedRows ==
    {t \in Rows : row[t].revoked = "no" /\ ~row[t].expired /\ row[t].next = None}

\* Revoked or not, as revokeAllByUser asks: an expired one may be in a rotation.
LiveRows == {t \in Rows : row[t].revoked = "no"}

\* revokeAllByUser, called by a password reset; `owed' is only remembered.
Reset(r) ==
    /\ pc[r] = "reset"
    /\ LET live == {row[t].family : t \in LiveRows}
       IN Move(r, IF live = {} THEN "done" ELSE "record",
               [NoLoc EXCEPT !.todo = live, !.owed = Families])
    /\ UNCHANGED <<code, row, revoked, held, faults>>

Record(r) ==
    /\ pc[r] = "record"
    /\ \E f \in loc[r].todo :
        /\ revoked' = revoked \cup {f}
        /\ Move(r, "bulk", [loc[r] EXCEPT !.family = f])
    /\ UNCHANGED <<code, row, held, faults>>

Bulk(r) ==
    /\ pc[r] = "bulk"
    /\ LET f == loc[r].family
           rest == loc[r].todo \ {f}
       IN /\ row' = Killed(Of(f))
          /\ Move(r, IF rest = {} THEN "done" ELSE "record",
                  [loc[r] EXCEPT !.todo = rest, !.swept = @ \cup {f}])
    /\ UNCHANGED <<code, revoked, held, faults>>

-----------------------------------------------------------------------------
\* The grace window of a revoked row passes.
Age(t) ==
    /\ t \in Rows /\ row[t].revoked = "fresh"
    /\ row' = [row EXCEPT ![t].revoked = "stale"]
    /\ UNCHANGED <<code, revoked, held, pc, loc, faults>>

\* The life of a row ends; of a revoked one nobody asks.
Expire(t) ==
    /\ t \in Rows /\ row[t].revoked = "no" /\ ~row[t].expired
    /\ row' = [row EXCEPT ![t].expired = TRUE]
    /\ UNCHANGED <<code, revoked, held, pc, loc, faults>>

\* A request dies between two calls, or nobody hears its answer.
Crash(r) ==
    /\ pc[r] \notin Kinds \cup {"dead"} /\ faults < MaxFaults
    /\ faults' = faults + 1
    /\ Goto(r, "dead")
    /\ UNCHANGED <<code, row, revoked, held>>

Step(r) ==
    \/ VerifySave(r) \/ Consume(r) \/ Insert(r) \/ Recheck(r) \/ Undo(r) \/ Rotate(r)
    \/ Respond(r) \/ LookUp(r) \/ Record(r) \/ Bulk(r)

Next ==
    \E r \in Requests :
        \/ \E c \in Codes : VerifyRead(r, c) \/ Poll(r, c)
        \/ \E t \in Requests : Present(r, t) \/ Revoke(r, t)
        \/ Reset(r) \/ Step(r) \/ Age(r) \/ Expire(r) \/ Crash(r)

Spec == Init /\ [][Next]_vars

-----------------------------------------------------------------------------
TypeOK ==
    /\ code \in [Codes -> [status : {"pending", "approved", "denied"}, consumed : BOOLEAN]]
    /\ row \in [Requests -> RowType \cup {None}]
    /\ revoked \subseteq Requests /\ held \subseteq Requests
    /\ pc \in [Requests -> Kinds \cup {"verdict", "consume", "insert", "recheck",
                            "undo", "rotate", "respond", "known", "record", "bulk", "dead"}]
    /\ loc \in [Requests -> LocType]
    /\ faults \in Nat

\* The families some call has finished revoking.
Closed == UNION {loc[r].swept : r \in Requests}

(* Once a call has revoked a family, no request in flight leaves a token behind: a
   row still unrevoked is one that no client has or will be answered with
   (oauth-refresh-token.ts:174-177, oauth.ts:623-630). *)
ClosedFamilyIsDead ==
    \A t \in Rows : row[t].family \in Closed /\ row[t].revoked = "no" =>
        t \notin held /\ pc[t] \in {"recheck", "undo", "dead"}

(* A rotation never leaves a family with revoked tokens alone: whatever races or
   dies, one that was not revoked has an unrevoked token, be it one whose answer
   nobody heard, or one that has expired (oauth.ts:363-381). *)
FamilyKeepsToken ==
    \A f \in Families \ revoked : \E t \in Of(f) : row[t].revoked = "no"

(* A password reset that has ended has revoked every family that had a token when
   it began, those in the middle of a rotation too (password-reset.ts:147-157). *)
ResetCoversFamilies ==
    \A r \in Requests : pc[r] = "done" => loc[r].owed \subseteq revoked

(* Reuse detection fires only on a token that was rotated, revoked or has expired: a
   client that presents the live token never loses its session to its own refresh,
   whatever requests race with it (oauth.ts:311-338). *)
SparedStep ==
    \A r \in Requests : pc[r] = "record" /\ loc[r].token # None
        /\ loc[r].family \in revoked' \ revoked =>
      row[loc[r].token].revoked # "no" \/ row[loc[r].token].expired

LiveTokenIsSpared == [][SparedStep]_vars
=============================================================================
