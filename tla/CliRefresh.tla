------------------------------ MODULE CliRefresh ------------------------------
(***************************************************************************)
(* Commands of the command-line client that share one stored profile and   *)
(* refresh its token at the server of TokenRotation                        *)
(* (packages/cli/src/lib/refresh.ts, http.ts, config.ts).                  *)
(*                                                                         *)
(* A command loads the profile when it starts, presents that token when    *)
(* its access token is refused, and stores what it gets; a refused refresh *)
(* looks a few times whether another command has stored a newer token.     *)
(* One command refreshes once (inFlight coalesces the others).  The file   *)
(* is read, changed and written in one step.  The commands run within the  *)
(* life of the tokens they present, and the server answers all of them.    *)
(***************************************************************************)
EXTENDS TokenRotation

CONSTANTS
    Commands, \* processes of the client
    First,    \* the request that signed the profile in
    Rereads   \* REREAD_ATTEMPTS

CliAssumption == First \in Requests /\ Rereads \in Nat \ {0}

VARIABLES
    profile, \* the refresh token stored in the profile
    cmd      \* each command: where it is, its token, its request, its re-reads

cliVars == <<vars, profile, cmd>>

CliInit ==
    /\ code = [c \in Codes |-> [status |-> "approved", consumed |-> TRUE]]
    /\ row = [t \in Requests |-> IF t = First
                THEN [family |-> First, revoked |-> "no", expired |-> FALSE, next |-> None]
                ELSE None]
    /\ revoked = {} /\ held = {First} /\ faults = 0
    /\ pc = [r \in Requests |-> IF r = First THEN "done" ELSE "refresh"]
    /\ loc = [r \in Requests |-> NoLoc]
    /\ profile = First
    /\ cmd = [c \in Commands |-> [at |-> "off", token |-> First, request |-> First, tries |-> 0]]

Load(c) ==
    /\ cmd[c].at = "off"
    /\ cmd' = [cmd EXCEPT ![c].at = "ready", ![c].token = profile]
    /\ UNCHANGED <<vars, profile>>

\* refreshTokens: with the token in memory, and once more with the stored one.
Refresh(c, r) ==
    /\ cmd[c].at \in {"ready", "again"}
    /\ Present(r, cmd[c].token)
    /\ cmd' = [cmd EXCEPT ![c].at = IF @ = "ready" THEN "first" ELSE "last",
                          ![c].request = r]
    /\ UNCHANGED profile

Answer(c) ==
    /\ cmd[c].at \in {"first", "last"} /\ pc[cmd[c].request] = "done"
    /\ cmd' = [cmd EXCEPT ![c].at = IF cmd[c].request \in held THEN "store"
                                    ELSE IF @ = "first" THEN "reread" ELSE "failed"]
    /\ UNCHANGED <<vars, profile>>

\* Mutant: what was in memory is written back.
StoredSnapshot(c) == cmd[c].token

\* persistIfNamed.
Stored(c) == cmd[c].request

Store(c) ==
    /\ cmd[c].at = "store"
    /\ profile' = Stored(c)
    /\ cmd' = [cmd EXCEPT ![c].at = "ended"]
    /\ UNCHANGED vars

Reread(c) ==
    /\ cmd[c].at = "reread"
    /\ cmd' = IF profile # cmd[c].token
                THEN [cmd EXCEPT ![c].at = "again", ![c].token = profile]
              ELSE IF cmd[c].tries + 1 = Rereads THEN [cmd EXCEPT ![c].at = "failed"]
              ELSE [cmd EXCEPT ![c].tries = @ + 1]
    /\ UNCHANGED <<vars, profile>>

\* No command outlives the grace window of the token it loaded.
InTime(t) == \A c \in Commands : cmd[c].token = t => cmd[c].at \in {"off", "ended", "failed"}

CliNext ==
    \/ \E c \in Commands :
         \/ Load(c) \/ Answer(c) \/ Store(c) \/ Reread(c)
         \/ \E r \in Requests : Refresh(c, r)
    \/ /\ \/ \E r \in Requests : Step(r)
          \/ \E t \in Requests : InTime(t) /\ Age(t)
       /\ UNCHANGED <<profile, cmd>>

CliSpec == CliInit /\ [][CliNext]_cliVars

-----------------------------------------------------------------------------
AtRest == \A c \in Commands : cmd[c].at \in {"off", "ended", "failed"}

(* However commands race, as long as none outlives the grace window of its token
   and none dies, once they have ended the profile holds the live token and the
   session goes on (refresh.ts:49-63). *)
StoredTokenLives == AtRest => Active(profile)
=============================================================================
