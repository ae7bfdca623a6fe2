-------------------------- MODULE TokenRotationProofs --------------------------
(***************************************************************************)
(* Proofs about TokenRotation, for any number of requests, whatever they   *)
(* are sent for, any number of codes and of faults.                        *)
(***************************************************************************)
EXTENDS CliRefresh, TLAPS

\* Where a request is that has stored its token, and before it ends.
Minting == {"recheck", "undo", "rotate", "respond"}

\* Where a request is that revokes families.
Revoking == {"record", "bulk"}

\* A row is that of the request it bears the name of, and its request knows the family.
Minted(r) ==
    /\ row[r] # None => pc[r] \in Minting \cup {"done", "dead"} /\ loc[r].family = row[r].family
    /\ pc[r] \in Minting => row[r] # None
    /\ pc[r] = "insert" => loc[r].family \in Requests
    /\ r \in held => row[r] # None /\ pc[r] = "done"

\* A presented token is one that a client has, and it is of the family to act upon.
Presented(r) ==
    /\ loc[r].token # None =>
         /\ loc[r].token \in held /\ row[loc[r].token].family = loc[r].family
         /\ loc[r].todo \subseteq {loc[r].family}
    /\ pc[r] = "consume" => loc[r].token = None
    /\ pc[r] \in {"known", "rotate"} => loc[r].token # None

\* The families to revoke are revoked or still to do, the swept ones are revoked.
Sweeping(r) ==
    /\ loc[r].swept \subseteq revoked
    /\ pc[r] = "bulk" => loc[r].family \in revoked \cap loc[r].todo
    /\ pc[r] \in Revoking => loc[r].owed \subseteq revoked \cup loc[r].todo
    /\ pc[r] = "done" => loc[r].owed \subseteq revoked
    /\ pc[r] \notin Revoking \cup {"done", "dead"} => loc[r].owed = {}

\* What a request has seen of the family and of the presented token stays true.
Seen(r) ==
    /\ pc[r] = "undo" => loc[r].family \in revoked
    /\ pc[r] \in {"recheck", "rotate", "respond"} =>
         row[r].revoked = "no" \/ loc[r].family \in revoked
    /\ pc[r] \in {"known", "record"} /\ loc[r].token # None =>
         \/ row[loc[r].token].revoked # "no" \/ row[loc[r].token].expired
         \/ loc[r].family \in revoked

Sound(r) == Minted(r) /\ Presented(r) /\ Sweeping(r) /\ Seen(r)

Inv ==
    /\ TypeOK /\ ClosedFamilyIsDead /\ FamilyKeepsToken
    /\ \A r \in Requests : Sound(r)

\* The invariant holds at first: no request has done anything.
LEMMA InitInv == ASSUME ConstantsAssumption, Init PROVE Inv
<1>1. TypeOK
  BY DEF Init, TypeOK, ConstantsAssumption, LocType, NoLoc, RowType, Kinds
<1>2. \A r \in Requests : pc[r] \in Kinds /\ loc[r] = NoLoc /\ row[r] = None
  BY DEF Init, ConstantsAssumption
<1>3. ASSUME NEW r \in Requests PROVE Sound(r)
  <2>. pc[r] \notin Minting \cup Revoking \cup {"insert", "consume", "known"}
    BY <1>2 DEF Kinds, Minting, Revoking
  <2>1. Minted(r)
    BY <1>2 DEF Minted, Init
  <2>2. Presented(r)
    BY <1>2 DEF Presented, NoLoc, Minting
  <2>3. Sweeping(r)
    BY <1>2 DEF Sweeping, NoLoc, Revoking
  <2>4. Seen(r)
    BY <1>2 DEF Seen, NoLoc, Minting, Revoking
  <2> QED
    BY <2>1, <2>2, <2>3, <2>4 DEF Sound
<1>4. ClosedFamilyIsDead /\ FamilyKeepsToken
  BY <1>2 DEF ClosedFamilyIsDead, FamilyKeepsToken, Rows, Families
<1> QED
  BY <1>1, <1>3, <1>4 DEF Inv

-----------------------------------------------------------------------------
(* Every value keeps its type. *)

LEMMA MoveTyped ==
    ASSUME TypeOK, NEW r \in Requests, NEW l, NEW x \in LocType, Move(r, l, x),
           l \in Kinds \cup {"verdict", "consume", "insert", "recheck", "undo", "rotate",
                             "respond", "known", "record", "bulk", "dead"}
    PROVE  /\ pc' \in [Requests -> Kinds \cup {"verdict", "consume", "insert", "recheck",
                            "undo", "rotate", "respond", "known", "record", "bulk", "dead"}]
           /\ loc' \in [Requests -> LocType]
           /\ pc'[r] = l /\ loc'[r] = x
           /\ \A s \in Requests \ {r} : pc'[s] = pc[s] /\ loc'[s] = loc[s]
  BY DEF TypeOK, Move

\* A request that only goes on keeps what it remembers.
LEMMA GotoMoves ==
    ASSUME TypeOK, NEW r \in Requests, NEW l, Goto(r, l)
    PROVE  Move(r, l, loc[r]) /\ loc[r] \in LocType
  BY DEF TypeOK, Goto, Move

LEMMA NoLocTyped == NoLoc \in LocType
  BY DEF NoLoc, LocType

\* Any code may be saved as decided upon or as exchanged.
CodeType == [Codes -> [status : {"pending", "approved", "denied"}, consumed : BOOLEAN]]

LEMMA CodeTyped ==
    ASSUME TypeOK, NEW c
    PROVE  /\ \A v \in {"approved", "denied"} : [code EXCEPT ![c].status = v] \in CodeType
           /\ [code EXCEPT ![c].consumed = TRUE] \in CodeType
<1> USE DEF CodeType
<1> DEFINE K == [status : {"pending", "approved", "denied"}, consumed : BOOLEAN]
<1>1. code \in [Codes -> K]
  BY DEF TypeOK
<1>2. CASE c \in Codes
  <2>1. code[c] \in K
    BY <1>1, <1>2
  <2>2. ASSUME NEW v \in {"approved", "denied"}
        PROVE  [code[c] EXCEPT !.status = v] \in K /\ [code[c] EXCEPT !.consumed = TRUE] \in K
    BY <2>1
  <2> HIDE DEF K
  <2> QED
    BY <1>1, <2>2 DEF K
<1>3. CASE c \notin Codes
  BY <1>1, <1>3
<1> QED
  BY <1>2, <1>3

\* The rows keep their type, whichever of them are revoked.
LEMMA KilledTyped ==
    ASSUME TypeOK, NEW ts \in SUBSET Rows
    PROVE  /\ Killed(ts) \in [Requests -> RowType \cup {None}]
           /\ \A t \in Requests : Killed(ts)[t] =
                IF t \in ts /\ row[t].revoked = "no"
                  THEN [row[t] EXCEPT !.revoked = "fresh"] ELSE row[t]
<1>1. \A t \in ts : row[t] \in RowType
  BY DEF TypeOK, Rows
<1>2. \A t \in ts : [row[t] EXCEPT !.revoked = "fresh"] \in RowType
  BY <1>1 DEF RowType, Ages
<1> QED
  BY <1>2 DEF Killed, TypeOK

-----------------------------------------------------------------------------
(* A request that goes on without touching a row, a record or an answer. *)

\* Only a token that is stored and not yet answered may outlive its family, for now.
Leaves(r, l) ==
    row[r] # None /\ row[r].family \in Closed /\ row[r].revoked = "no" =>
        l \in {"recheck", "undo", "dead"}

LEMMA Quiet ==
    ASSUME Inv, NEW r \in Requests, NEW l, NEW x \in LocType, Move(r, l, x), TypeOK',
           UNCHANGED <<row, revoked, held>>, Sound(r)',
           x.swept \subseteq loc[r].swept, Leaves(r, l)
    PROVE  Inv'
<1>1. /\ pc'[r] = l /\ loc'[r] = x
      /\ \A s \in Requests \ {r} : pc'[s] = pc[s] /\ loc'[s] = loc[s]
  BY DEF Inv, TypeOK, Move
<1>2. ASSUME NEW s \in Requests, s # r PROVE Sound(s)'
  BY <1>1, <1>2 DEF Inv, Sound, Minted, Presented, Sweeping, Seen
<1>3. Closed' \subseteq Closed
  BY <1>1 DEF Closed
<1>4. Rows' = Rows /\ Families' = Families /\ \A f : Of(f)' = Of(f)
  BY DEF Rows, Families, Of
<1>5. FamilyKeepsToken'
  BY <1>4 DEF FamilyKeepsToken, Inv
<1>6. ClosedFamilyIsDead'
  BY <1>1, <1>3, <1>4 DEF ClosedFamilyIsDead, Leaves, Rows, Inv, Sound, Minted
<1> QED
  BY <1>2, <1>5, <1>6 DEF Inv

\* A row is stored by a request that has ended or is about to.
LEMMA NoRow ==
    ASSUME Inv, NEW r \in Requests, pc[r] \notin Minting \cup {"done", "dead"}
    PROVE  row[r] = None /\ r \notin held
  BY DEF Inv, Sound, Minted, Minting

LEMMA VerifyReadKeeps ==
    ASSUME Inv, NEW r \in Requests, NEW c \in Codes, VerifyRead(r, c) PROVE Inv'
<1> DEFINE x == [NoLoc EXCEPT !.code = c]
<1>1. Move(r, "verdict", x) /\ pc[r] = "verify" /\ UNCHANGED <<row, revoked, held, code, faults>>
  BY DEF VerifyRead
<1>2. x \in LocType /\ x.token = None /\ x.swept = {} /\ x.owed = {}
  BY DEF LocType, NoLoc
<1>3. row[r] = None /\ r \notin held
  BY <1>1, NoRow DEF Minting
<1> HIDE DEF x
<1>4. pc'[r] = "verdict" /\ loc'[r] = x /\ TypeOK'
  BY <1>1, <1>2, MoveTyped DEF Inv, TypeOK
<1>5. Sound(r)'
  BY <1>1, <1>2, <1>3, <1>4 DEF Sound, Minted, Presented, Sweeping, Seen, Minting, Revoking
<1> QED
  BY <1>1, <1>2, <1>3, <1>4, <1>5, Quiet DEF Leaves

LEMMA PollKeeps ==
    ASSUME Inv, NEW r \in Requests, NEW c \in Codes, Poll(r, c) PROVE Inv'
<1> DEFINE x == [NoLoc EXCEPT !.code = c]
<1>1. Move(r, "consume", x) /\ pc[r] = "exchange" /\ UNCHANGED <<row, revoked, held, code, faults>>
  BY DEF Poll
<1>2. x \in LocType /\ x.token = None /\ x.swept = {} /\ x.owed = {}
  BY DEF LocType, NoLoc
<1>3. row[r] = None /\ r \notin held
  BY <1>1, NoRow DEF Minting
<1> HIDE DEF x
<1>4. pc'[r] = "consume" /\ loc'[r] = x /\ TypeOK'
  BY <1>1, <1>2, MoveTyped DEF Inv, TypeOK
<1>5. Sound(r)'
  BY <1>1, <1>2, <1>3, <1>4 DEF Sound, Minted, Presented, Sweeping, Seen, Minting, Revoking
<1> QED
  BY <1>1, <1>2, <1>3, <1>4, <1>5, Quiet DEF Leaves

LEMMA VerifySaveKeeps == ASSUME Inv, NEW r \in Requests, VerifySave(r) PROVE Inv'
<1>1. Move(r, "done", loc[r]) /\ loc[r] \in LocType /\ pc[r] = "verdict"
  BY GotoMoves DEF VerifySave, Inv
<1>2. UNCHANGED <<row, revoked, held, faults>>
  BY DEF VerifySave
<1>3. row[r] = None /\ r \notin held
  BY <1>1, NoRow DEF Minting
<1>4. code' \in CodeType
  <2>1. PICK v \in {"approved", "denied"} : code' = [code EXCEPT ![loc[r].code].status = v]
    BY DEF VerifySave
  <2> QED
    BY <2>1, CodeTyped DEF Inv
<1>5. pc'[r] = "done" /\ loc'[r] = loc[r] /\ TypeOK'
  BY <1>1, <1>2, <1>4, MoveTyped DEF Inv, TypeOK, Kinds, CodeType
<1>6. Sound(r) /\ Sound(r)'
  BY <1>1, <1>2, <1>3, <1>5
     DEF Inv, Sound, Minted, Presented, Sweeping, Seen, Minting, Revoking
<1> QED
  BY <1>1, <1>2, <1>3, <1>5, <1>6, Quiet DEF Leaves

LEMMA ConsumeKeeps == ASSUME Inv, NEW r \in Requests, Consume(r) PROVE Inv'
<1>1. pc[r] = "consume" /\ loc[r] \in LocType /\ UNCHANGED <<row, revoked, held, faults>>
  BY DEF Consume, Inv, TypeOK
<1>2. row[r] = None /\ r \notin held /\ Sound(r)
  BY <1>1, NoRow DEF Minting, Inv
<1>3. CASE Usable(loc[r].code)
  <2> DEFINE x == [loc[r] EXCEPT !.family = r]
  <2>1. x \in LocType /\ x.token = loc[r].token /\ x.swept = loc[r].swept /\ x.owed = loc[r].owed
        /\ x.family = r
    BY <1>1 DEF LocType
  <2>2. Move(r, "insert", x)
    BY <1>3 DEF Consume
  <2> HIDE DEF x
  <2>3. code' \in CodeType
    BY <1>3, CodeTyped DEF Consume, Inv
  <2>4. pc'[r] = "insert" /\ loc'[r] = x /\ TypeOK'
    BY <1>1, <2>1, <2>2, <2>3, MoveTyped DEF Inv, TypeOK, CodeType
  <2>5. Sound(r)'
    BY <1>1, <1>2, <2>1, <2>4 DEF Sound, Minted, Presented, Sweeping, Seen, Minting, Revoking
  <2> QED
    BY <1>1, <1>2, <2>1, <2>2, <2>4, <2>5, Quiet DEF Leaves
<1>4. CASE ~Usable(loc[r].code)
  <2>1. Move(r, "done", loc[r]) /\ UNCHANGED code
    BY <1>4, GotoMoves DEF Consume, Inv
  <2>2. pc'[r] = "done" /\ loc'[r] = loc[r] /\ TypeOK'
    BY <1>1, <2>1, MoveTyped DEF Inv, TypeOK, Kinds
  <2>3. Sound(r)'
    BY <1>1, <1>2, <2>2 DEF Sound, Minted, Presented, Sweeping, Seen, Minting, Revoking
  <2> QED
    BY <1>1, <1>2, <2>1, <2>2, <2>3, Quiet DEF Leaves
<1> QED
  BY <1>3, <1>4

\* The second look: who goes on has seen no record of the family's revocation.
LEMMA RecheckKeeps == ASSUME Inv, NEW r \in Requests, Recheck(r) PROVE Inv'
<1> DEFINE l == IF RevokedMeanwhile(r) THEN "undo"
                ELSE IF loc[r].token = None THEN "respond" ELSE "rotate"
<1>1. Move(r, l, loc[r]) /\ loc[r] \in LocType /\ pc[r] = "recheck"
      /\ UNCHANGED <<code, row, revoked, held, faults>>
  BY GotoMoves DEF Recheck, Inv
<1>2. /\ l \in {"undo", "respond", "rotate"} /\ (l = "undo" => loc[r].family \in revoked)
      /\ l = "rotate" => loc[r].token # None
      /\ loc[r].family \in revoked => l = "undo"
  BY DEF RevokedMeanwhile
<1> HIDE DEF l
<1>3. pc'[r] = l /\ loc'[r] = loc[r] /\ TypeOK'
  BY <1>1, <1>2, MoveTyped DEF Inv, TypeOK
<1>4. Sound(r) /\ Sound(r)'
  BY <1>1, <1>2, <1>3
     DEF Inv, Sound, Minted, Presented, Sweeping, Seen, Minting, Revoking
<1>5. Closed \subseteq revoked
  BY DEF Inv, Sound, Sweeping, Closed
<1>6. row[r] # None => row[r].family = loc[r].family
  BY <1>4 DEF Sound, Minted
<1>7. Leaves(r, l)
  BY <1>2, <1>5, <1>6 DEF Leaves
<1> QED
  BY <1>1, <1>2, <1>3, <1>4, <1>7, Quiet

LEMMA PresentKeeps ==
    ASSUME ConstantsAssumption, Inv, NEW r \in Requests, NEW t \in Requests, Present(r, t)
    PROVE  Inv'
<1> DEFINE x == [NoLoc EXCEPT !.token = t, !.family = row[t].family]
           l == IF Active(t) THEN "insert" ELSE "known"
<1>1. pc[r] = "refresh" /\ t \in held /\ Move(r, l, x) /\ UNCHANGED <<code, row, revoked, held, faults>>
  BY DEF Present
<1>2. row[t].family \in Requests /\ t # None
  BY <1>1 DEF Inv, Sound, Minted, TypeOK, RowType, ConstantsAssumption
<1>3. /\ x \in LocType /\ x.token = t /\ x.family = row[t].family /\ x.todo = {}
      /\ x.swept = {} /\ x.owed = {}
  BY <1>2 DEF LocType, NoLoc
<1>4. /\ l \in {"insert", "known"}
      /\ l = "known" => row[t].revoked # "no" \/ row[t].expired \/ row[t].family \in revoked
  BY DEF Active
<1>5. row[r] = None /\ r \notin held
  BY <1>1, NoRow DEF Minting
<1> HIDE DEF x, l
<1>6. pc'[r] = l /\ loc'[r] = x /\ TypeOK'
  BY <1>1, <1>3, <1>4, MoveTyped DEF Inv, TypeOK
<1>7. Sound(r)'
  BY <1>1, <1>2, <1>3, <1>4, <1>5, <1>6
     DEF Sound, Minted, Presented, Sweeping, Seen, Minting, Revoking
<1> QED
  BY <1>1, <1>3, <1>4, <1>5, <1>6, <1>7, Quiet DEF Leaves

LEMMA LookUpKeeps == ASSUME Inv, NEW r \in Requests, LookUp(r) PROVE Inv'
<1>1. pc[r] = "known" /\ loc[r] \in LocType /\ UNCHANGED <<code, row, revoked, held, faults>>
  BY DEF LookUp, Inv, TypeOK
<1>2. row[r] = None /\ r \notin held /\ Sound(r)
  BY <1>1, NoRow DEF Minting, Inv
<1>3. CASE Spared(loc[r].token)
  <2>1. Move(r, "done", loc[r])
    BY <1>3, GotoMoves DEF LookUp, Inv
  <2>2. pc'[r] = "done" /\ loc'[r] = loc[r] /\ TypeOK'
    BY <1>1, <2>1, MoveTyped DEF Inv, TypeOK, Kinds
  <2>3. Sound(r)'
    BY <1>1, <1>2, <2>2 DEF Sound, Minted, Presented, Sweeping, Seen, Minting, Revoking
  <2> QED
    BY <1>1, <1>2, <2>1, <2>2, <2>3, Quiet DEF Leaves
<1>4. CASE ~Spared(loc[r].token)
  <2> DEFINE x == [loc[r] EXCEPT !.todo = {loc[r].family}]
  <2>1. /\ x.token = loc[r].token /\ x.swept = loc[r].swept /\ x.owed = loc[r].owed
        /\ x.family = loc[r].family /\ x.todo = {loc[r].family}
    BY <1>1 DEF LocType
  <2>2. Move(r, "record", x)
    BY <1>4 DEF LookUp
  <2>3. x \in LocType
    <3>1. loc[r].token \in held /\ row[loc[r].token].family = loc[r].family
      BY <1>1, <1>2 DEF Sound, Presented
    <3>2. loc[r].family \in Requests
      BY <3>1 DEF Inv, Sound, Minted, TypeOK, RowType
    <3> QED
      BY <1>1, <3>2 DEF LocType
  <2> HIDE DEF x
  <2>4. pc'[r] = "record" /\ loc'[r] = x /\ TypeOK'
    BY <1>1, <2>1, <2>2, <2>3, MoveTyped DEF Inv, TypeOK
  <2>5. Sound(r)'
    BY <1>1, <1>2, <2>1, <2>4 DEF Sound, Minted, Presented, Sweeping, Seen, Minting, Revoking
  <2> QED
    BY <1>1, <1>2, <2>1, <2>2, <2>3, <2>4, <2>5, Quiet DEF Leaves
<1> QED
  BY <1>3, <1>4

LEMMA RevokeKeeps ==
    ASSUME ConstantsAssumption, Inv, NEW r \in Requests, NEW t \in Requests, Revoke(r, t)
    PROVE  Inv'
<1> DEFINE x == [NoLoc EXCEPT !.todo = {row[t].family}]
<1>1. /\ pc[r] = "revoke" /\ row[t] # None /\ Move(r, "record", x)
      /\ UNCHANGED <<code, row, revoked, held, faults>>
  BY DEF Revoke, Rows
<1>2. row[t].family \in Requests
  BY <1>1 DEF Inv, TypeOK, RowType
<1>3. x \in LocType /\ x.token = None /\ x.swept = {} /\ x.owed = {}
  BY <1>2 DEF LocType, NoLoc
<1>4. row[r] = None /\ r \notin held
  BY <1>1, NoRow DEF Minting
<1> HIDE DEF x
<1>5. pc'[r] = "record" /\ loc'[r] = x /\ TypeOK'
  BY <1>1, <1>3, MoveTyped DEF Inv, TypeOK
<1>6. Sound(r)'
  BY <1>1, <1>3, <1>4, <1>5 DEF Sound, Minted, Presented, Sweeping, Seen, Minting, Revoking
<1> QED
  BY <1>1, <1>3, <1>4, <1>5, <1>6, Quiet DEF Leaves

\* A reset that finds no live token finds every family revoked: FamilyKeepsToken.
LEMMA ResetKeeps ==
    ASSUME ConstantsAssumption, Inv, NEW r \in Requests, Reset(r) PROVE Inv'
<1> DEFINE live == {row[t].family : t \in LiveRows}
           l == IF live = {} THEN "done" ELSE "record"
           x == [NoLoc EXCEPT !.todo = live, !.owed = Families]
<1>1. pc[r] = "reset" /\ Move(r, l, x) /\ UNCHANGED <<code, row, revoked, held, faults>>
  BY DEF Reset
<1>2. live \subseteq Requests /\ Families \subseteq Requests
  BY DEF Inv, TypeOK, RowType, LiveRows, Families, Rows
<1>3. Families \subseteq revoked \cup live
  BY DEF Inv, FamilyKeepsToken, LiveRows, Of
<1>4. l \in {"done", "record"} /\ (l = "done" => live = {})
  OBVIOUS
<1> HIDE DEF live, l
<1>5. /\ x \in LocType /\ x.token = None /\ x.swept = {} /\ x.owed = Families
      /\ x.todo = live
  BY <1>2 DEF LocType, NoLoc
<1>6. row[r] = None /\ r \notin held
  BY <1>1, NoRow DEF Minting
<1> HIDE DEF x
<1>7. pc'[r] = l /\ loc'[r] = x /\ TypeOK'
  BY <1>1, <1>4, <1>5, MoveTyped DEF Inv, TypeOK, Kinds
<1>8. Sound(r)'
  BY <1>1, <1>3, <1>4, <1>5, <1>6, <1>7
     DEF Sound, Minted, Presented, Sweeping, Seen, Minting, Revoking
<1> QED
  BY <1>1, <1>5, <1>6, <1>7, <1>8, Quiet DEF Leaves

\* Who dies in the middle leaves what it has stored.
LEMMA CrashKeeps == ASSUME Inv, NEW r \in Requests, Crash(r) PROVE Inv'
<1>1. /\ Move(r, "dead", loc[r]) /\ loc[r] \in LocType /\ pc[r] # "done"
      /\ UNCHANGED <<code, row, revoked, held>>
  BY GotoMoves DEF Crash, Inv, Kinds
<1>2. pc'[r] = "dead" /\ loc'[r] = loc[r]
      /\ TypeOK'
  BY <1>1, MoveTyped DEF Crash, Inv, TypeOK
<1>3. Sound(r) /\ Sound(r)'
  BY <1>1, <1>2 DEF Inv, Sound, Minted, Presented, Sweeping, Seen, Minting, Revoking
<1> QED
  BY <1>1, <1>2, <1>3, Quiet DEF Leaves

-----------------------------------------------------------------------------
(* The steps that store, revoke or answer. *)

\* A token that a client was answered with is not that of a request still at work.
LEMMA Apart ==
    ASSUME Inv, NEW r \in Requests, loc[r].token # None
    PROVE  /\ loc[r].token \in held \cap Requests /\ row[loc[r].token] # None
           /\ pc[loc[r].token] = "done" /\ row[loc[r].token].family = loc[r].family
           /\ loc[r].family \in Requests
  BY DEF Inv, Sound, Minted, Presented, TypeOK, RowType

LEMMA InsertKeeps ==
    ASSUME ConstantsAssumption, Inv, NEW r \in Requests, Insert(r) PROVE Inv'
<1> DEFINE e == [family |-> loc[r].family, revoked |-> "no", expired |-> FALSE, next |-> None]
<1>1. /\ pc[r] = "insert" /\ row' = [row EXCEPT ![r] = e] /\ Move(r, "recheck", loc[r])
      /\ loc[r] \in LocType /\ UNCHANGED <<code, revoked, held, faults>>
  BY GotoMoves DEF Insert, Inv
<1>2. row[r] = None /\ r \notin held /\ loc[r].family \in Requests
  BY <1>1, NoRow DEF Minting, Inv, Sound, Minted
<1>3. /\ e \in RowType /\ e.family = loc[r].family /\ e.revoked = "no"
      /\ e # None
  <2>1. e \in RowType
    <3>1. "no" \in Ages /\ FALSE \in BOOLEAN
      BY DEF Ages
    <3> QED BY <1>2, <3>1, Zenon DEF RowType
  <2> QED BY <2>1 DEF ConstantsAssumption
<1> HIDE DEF e
<1>4. /\ row' \in [Requests -> RowType \cup {None}] /\ row'[r] = e
      /\ \A t \in Requests \ {r} : row'[t] = row[t]
  BY <1>1, <1>3 DEF Inv, TypeOK
<1>5. /\ pc'[r] = "recheck" /\ loc'[r] = loc[r] /\ TypeOK'
      /\ \A s \in Requests \ {r} : pc'[s] = pc[s] /\ loc'[s] = loc[s]
  BY <1>1, <1>4, MoveTyped DEF Inv, TypeOK
<1>6. ASSUME NEW s \in Requests PROVE Sound(s)'
  <2>1. \A t \in held : t # r
    BY <1>2
  <2> QED
    BY <1>1, <1>2, <1>3, <1>4, <1>5, <2>1
       DEF Inv, Sound, Minted, Presented, Sweeping, Seen, Minting, Revoking
<1>7. Closed' = Closed
  BY <1>5 DEF Closed
<1>8. ClosedFamilyIsDead'
  BY <1>1, <1>4, <1>5, <1>7, <1>2 DEF ClosedFamilyIsDead, Rows, Inv
<1>9. FamilyKeepsToken'
  BY <1>1, <1>3, <1>4, <1>2 DEF FamilyKeepsToken, Families, Of, Rows, Inv
<1> QED
  BY <1>5, <1>6, <1>8, <1>9 DEF Inv

\* Rows are only ever revoked, never deleted and never made live again.
LEMMA Worn ==
    ASSUME ConstantsAssumption, Inv, NEW ts \in SUBSET Rows, row' = Killed(ts)
    PROVE  /\ row' \in [Requests -> RowType \cup {None}]
           /\ \A t \in Requests :
                /\ row'[t] # None <=> row[t] # None
                /\ row[t] # None => row'[t].family = row[t].family
                /\ row[t] # None /\ row'[t].revoked = "no" => row[t].revoked = "no" /\ t \notin ts
                /\ row[t] # None /\ t \notin ts => row'[t] = row[t]
<1>1. /\ row' \in [Requests -> RowType \cup {None}]
      /\ \A t \in Requests : row'[t] = IF t \in ts /\ row[t].revoked = "no"
                               THEN [row[t] EXCEPT !.revoked = "fresh"] ELSE row[t]
  BY KilledTyped DEF Inv
<1>2. ASSUME NEW t \in Requests, row[t] # None
      PROVE  /\ row[t] \in RowType
             /\ [row[t] EXCEPT !.revoked = "fresh"].family = row[t].family
             /\ [row[t] EXCEPT !.revoked = "fresh"].revoked = "fresh"
             /\ [row[t] EXCEPT !.revoked = "fresh"] \in RowType
  BY <1>2 DEF Inv, TypeOK, RowType, Ages
<1>3. ASSUME NEW t \in Requests
      PROVE  /\ row'[t] # None <=> row[t] # None
             /\ row[t] # None => row'[t].family = row[t].family
             /\ row[t] # None /\ row'[t].revoked = "no" => row[t].revoked = "no" /\ t \notin ts
             /\ row[t] # None /\ t \notin ts => row'[t] = row[t]
  <2>1. CASE t \in ts /\ row[t].revoked = "no"
    <3>1. row[t] # None /\ row'[t] = [row[t] EXCEPT !.revoked = "fresh"]
      BY <1>1, <2>1 DEF Rows
    <3>2. row'[t] # None
      BY <1>2, <3>1 DEF ConstantsAssumption
    <3> QED
      BY <1>2, <2>1, <3>1, <3>2
  <2>2. CASE ~(t \in ts /\ row[t].revoked = "no")
    BY <1>1, <2>2
  <2> QED
    BY <2>1, <2>2
<1> QED
  BY <1>1, <1>3

\* A row that is revoked by its own request, whose family has been revoked.
LEMMA UndoKeeps == ASSUME ConstantsAssumption, Inv, NEW r \in Requests, Undo(r) PROVE Inv'
<1>1. /\ pc[r] = "undo" /\ Move(r, "done", loc[r]) /\ loc[r] \in LocType
      /\ row' = Killed({r}) /\ UNCHANGED <<code, revoked, held, faults>>
  BY GotoMoves DEF Undo, Inv
<1>2. /\ row[r] # None /\ r \notin held /\ row[r].family = loc[r].family
      /\ loc[r].family \in revoked /\ Sound(r)
  BY <1>1 DEF Inv, Sound, Minted, Seen, Minting
<1>3. /\ row' \in [Requests -> RowType \cup {None}]
      /\ \A t \in Requests :
           /\ row'[t] # None <=> row[t] # None
           /\ row[t] # None => row'[t].family = row[t].family
           /\ row[t] # None /\ row'[t].revoked = "no" => row[t].revoked = "no" /\ t # r
           /\ row[t] # None /\ t # r => row'[t] = row[t]
  <2> DEFINE ts == {r}
  <2>1. ts \in SUBSET Rows /\ \A t \in Requests : t \in ts <=> t = r
    BY <1>2 DEF Rows
  <2>2. row' = Killed(ts)
    BY <1>1
  <2> HIDE DEF ts
  <2> QED
    BY <2>1, <2>2, Worn
<1>4. /\ pc'[r] = "done" /\ loc'[r] = loc[r] /\ TypeOK'
      /\ \A s \in Requests \ {r} : pc'[s] = pc[s] /\ loc'[s] = loc[s]
  BY <1>1, <1>3, MoveTyped DEF Inv, TypeOK, Kinds
<1>5. ASSUME NEW s \in Requests PROVE Sound(s)'
  <2>1. loc'[s] = loc[s]
    BY <1>4
  <2>2. loc[s].token # None =>
          /\ loc[s].token \in held' /\ row'[loc[s].token].family = row[loc[s].token].family
          /\ row'[loc[s].token] = row[loc[s].token]
    BY <1>1, <1>2, <1>3, Apart
  <2>3. Minted(s)'
    BY <1>1, <1>2, <1>3, <1>4 DEF Inv, Sound, Minted, Minting
  <2>4. Presented(s)'
    BY <1>1, <1>4, <2>1, <2>2 DEF Inv, Sound, Presented
  <2>5. Sweeping(s)'
    BY <1>1, <1>2, <1>4 DEF Inv, Sound, Sweeping, Revoking
  <2>6. Seen(s)'
    <3>1. CASE s = r
      BY <1>4, <3>1 DEF Seen
    <3>2. CASE s # r
      <4>1. pc[s] \in Minting => row'[s] = row[s]
        BY <1>3, <3>2 DEF Inv, Sound, Minted
      <4> QED
        BY <1>1, <1>4, <2>1, <2>2, <3>2, <4>1 DEF Inv, Sound, Seen, Minting
    <3> QED
      BY <3>1, <3>2
  <2> QED
    BY <2>3, <2>4, <2>5, <2>6 DEF Sound
<1>6. Closed' = Closed
  BY <1>4 DEF Closed
<1>7. ClosedFamilyIsDead'
  BY <1>1, <1>3, <1>4, <1>6 DEF ClosedFamilyIsDead, Rows, Inv
<1>8. FamilyKeepsToken'
  <2>1. Rows' = Rows /\ Families' = Families
    BY <1>3 DEF Rows, Families
  <2>2. ASSUME NEW f \in Families \ revoked PROVE \E t \in Of(f)' : row'[t].revoked = "no"
    <3>1. PICK t \in Of(f) : row[t].revoked = "no"
      BY DEF Inv, FamilyKeepsToken
    <3>2. t # r /\ t \in Requests /\ row[t] # None /\ row[t].family = f
      BY <1>2 DEF Of, Rows
    <3> QED
      BY <1>3, <3>1, <3>2 DEF Of, Rows
  <2> QED
    BY <1>1, <2>1, <2>2 DEF FamilyKeepsToken
<1> QED
  BY <1>4, <1>5, <1>7, <1>8 DEF Inv

\* The successor of a rotated token keeps the family alive.
LEMMA RotateKeeps == ASSUME ConstantsAssumption, Inv, NEW r \in Requests, Rotate(r) PROVE Inv'
<1> DEFINE o == loc[r].token
           e == [[row[o] EXCEPT !.revoked = "fresh"] EXCEPT !.next = r]
<1>1. /\ pc[r] = "rotate" /\ Move(r, "respond", loc[r]) /\ loc[r] \in LocType
      /\ UNCHANGED <<code, revoked, held, faults>>
  BY GotoMoves DEF Rotate, Inv
<1>2. /\ row[r] # None /\ row[r].family = loc[r].family /\ Sound(r)
      /\ row[r].revoked = "no" \/ loc[r].family \in revoked
      /\ loc[r].token # None
  BY <1>1 DEF Inv, Sound, Minted, Presented, Seen, Minting
<1>3. /\ o \in held \cap Requests /\ row[o] # None /\ pc[o] = "done" /\ o # r
      /\ row[o].family = loc[r].family
  BY <1>1, <1>2, Apart
<1>4. row' = [row EXCEPT ![o] = e]
  BY <1>3 DEF Rotate, Inv, TypeOK
<1>5. e \in RowType /\ e.family = loc[r].family /\ e.revoked = "fresh" /\ e # None
  <2>1. row[o] \in RowType
    BY <1>3 DEF Inv, TypeOK
  <2>2. e \in RowType /\ e.family = row[o].family /\ e.revoked = "fresh"
    BY <2>1 DEF RowType, Ages
  <2> QED
    BY <1>3, <2>2 DEF ConstantsAssumption
<1> HIDE DEF e
<1>6. /\ row' \in [Requests -> RowType \cup {None}] /\ row'[o] = e
      /\ \A t \in Requests \ {o} : row'[t] = row[t]
  BY <1>3, <1>4, <1>5 DEF Inv, TypeOK
<1>7. /\ pc'[r] = "respond" /\ loc'[r] = loc[r] /\ TypeOK'
      /\ \A s \in Requests \ {r} : pc'[s] = pc[s] /\ loc'[s] = loc[s]
  BY <1>1, <1>6, MoveTyped DEF Inv, TypeOK
<1> HIDE DEF o
<1>8. ASSUME NEW s \in Requests PROVE Sound(s)'
  <2>. loc[s].token # None => loc[s].token \in held \cap Requests /\ row[loc[s].token] # None
    BY Apart
  <2>1. Minted(s)'
    BY <1>1, <1>2, <1>3, <1>5, <1>6, <1>7 DEF Inv, Sound, Minted, Minting
  <2>2. Presented(s)'
    BY <1>1, <1>2, <1>3, <1>5, <1>6, <1>7 DEF Inv, Sound, Presented
  <2>3. Sweeping(s)'
    BY <1>1, <1>2, <1>7 DEF Inv, Sound, Sweeping, Revoking
  <2>4. Seen(s)'
    BY <1>1, <1>2, <1>3, <1>5, <1>6, <1>7 DEF Inv, Sound, Seen, Minted, Minting
  <2> QED
    BY <2>1, <2>2, <2>3, <2>4 DEF Sound
<1>9. Closed' = Closed
  BY <1>7 DEF Closed
<1>10. Closed \subseteq revoked
  BY DEF Inv, Sound, Sweeping, Closed
<1>11. ClosedFamilyIsDead'
  BY <1>1, <1>3, <1>5, <1>6, <1>7, <1>9 DEF ClosedFamilyIsDead, Rows, Inv
<1>12. FamilyKeepsToken'
  BY <1>1, <1>2, <1>3, <1>5, <1>6 DEF FamilyKeepsToken, Families, Of, Rows, Inv
<1> QED
  BY <1>7, <1>8, <1>11, <1>12 DEF Inv

LEMMA RespondKeeps == ASSUME Inv, NEW r \in Requests, Respond(r) PROVE Inv'
<1>1. /\ pc[r] = "respond" /\ Move(r, "done", loc[r]) /\ loc[r] \in LocType
      /\ held' = held \cup {r} /\ UNCHANGED <<code, row, revoked, faults>>
  BY GotoMoves DEF Respond, Inv
<1>2. /\ pc'[r] = "done" /\ loc'[r] = loc[r] /\ TypeOK'
      /\ \A s \in Requests \ {r} : pc'[s] = pc[s] /\ loc'[s] = loc[s]
  BY <1>1, MoveTyped DEF Inv, TypeOK, Kinds
<1>3. ASSUME NEW s \in Requests PROVE Sound(s)'
  BY <1>1, <1>2 DEF Inv, Sound, Minted, Presented, Sweeping, Seen, Minting, Revoking
<1>4. Closed' = Closed /\ Rows' = Rows /\ Families' = Families /\ \A f : Of(f)' = Of(f)
  BY <1>1, <1>2 DEF Closed, Rows, Families, Of
<1>5. ClosedFamilyIsDead'
  BY <1>1, <1>2, <1>4 DEF ClosedFamilyIsDead, Rows, Inv
<1>6. FamilyKeepsToken'
  BY <1>1, <1>4 DEF FamilyKeepsToken, Inv
<1> QED
  BY <1>2, <1>3, <1>5, <1>6 DEF Inv

\* A record only ever adds a family to the revoked ones.
LEMMA RecordKeeps == ASSUME Inv, NEW r \in Requests, Record(r) PROVE Inv'
<1>1. PICK f \in loc[r].todo :
         revoked' = revoked \cup {f} /\ Move(r, "bulk", [loc[r] EXCEPT !.family = f])
  BY DEF Record
<1> DEFINE x == [loc[r] EXCEPT !.family = f]
<1>2. pc[r] = "record" /\ UNCHANGED <<code, row, held, faults>> /\ Sound(r)
  BY DEF Record, Inv
<1>3. loc[r] \in LocType /\ f \in Requests
  BY DEF Inv, TypeOK, LocType
<1>4. /\ x \in LocType /\ x.family = f /\ x.token = loc[r].token /\ x.todo = loc[r].todo
      /\ x.swept = loc[r].swept /\ x.owed = loc[r].owed
  BY <1>3 DEF LocType
<1>5. Move(r, "bulk", x)
  BY <1>1
<1> HIDE DEF x
<1>6. /\ pc'[r] = "bulk" /\ loc'[r] = x /\ TypeOK'
      /\ \A s \in Requests \ {r} : pc'[s] = pc[s] /\ loc'[s] = loc[s]
  BY <1>1, <1>2, <1>3, <1>4, <1>5, MoveTyped DEF Inv, TypeOK
<1>7. Sound(r)'
  BY <1>1, <1>2, <1>4, <1>6 DEF Sound, Minted, Presented, Sweeping, Seen, Minting, Revoking
<1>8. ASSUME NEW s \in Requests, s # r PROVE Sound(s)'
  BY <1>1, <1>2, <1>6, <1>8 DEF Inv, Sound, Minted, Presented, Sweeping, Seen
<1>9. Closed' = Closed /\ Rows' = Rows /\ Families' = Families /\ \A g : Of(g)' = Of(g)
  <2>1. Closed' = Closed
    BY <1>4, <1>6 DEF Closed
  <2> QED
    BY <1>2, <2>1 DEF Rows, Families, Of
<1>10. ClosedFamilyIsDead'
  BY <1>2, <1>6, <1>9 DEF ClosedFamilyIsDead, Rows, Inv, Sound, Minted, Minting
<1>11. FamilyKeepsToken'
  BY <1>1, <1>2, <1>9 DEF FamilyKeepsToken, Inv
<1> QED
  BY <1>6, <1>7, <1>8, <1>10, <1>11 DEF Inv

\* The rows of a family that has its record are revoked; those stored later will be undone.
LEMMA BulkKeeps == ASSUME ConstantsAssumption, Inv, NEW r \in Requests, Bulk(r) PROVE Inv'
<1> DEFINE f == loc[r].family
           rest == loc[r].todo \ {f}
           l == IF rest = {} THEN "done" ELSE "record"
           x == [loc[r] EXCEPT !.todo = rest, !.swept = @ \cup {f}]
           ts == Of(f)
<1>1. /\ pc[r] = "bulk" /\ Move(r, l, x) /\ row' = Killed(ts)
      /\ UNCHANGED <<code, revoked, held, faults>>
  BY DEF Bulk
<1>2. Sound(r) /\ loc[r] \in LocType /\ f \in revoked \cap loc[r].todo /\ f \in Requests
  BY <1>1 DEF Inv, Sound, Sweeping, TypeOK, LocType
<1>3. /\ x \in LocType /\ x.family = f /\ x.token = loc[r].token /\ x.todo = rest
      /\ x.swept = loc[r].swept \cup {f} /\ x.owed = loc[r].owed
  BY <1>2 DEF LocType
<1>4. l \in {"done", "record"} /\ (l = "done" => rest = {})
  OBVIOUS
<1>5. ts \in SUBSET Rows /\ \A t \in Requests : t \in ts <=> row[t] # None /\ row[t].family = f
  BY DEF Of, Rows
<1> HIDE DEF x, l, ts
<1>6. /\ row' \in [Requests -> RowType \cup {None}]
      /\ \A t \in Requests :
           /\ row'[t] # None <=> row[t] # None
           /\ row[t] # None => row'[t].family = row[t].family
           /\ row[t] # None /\ row'[t].revoked = "no" => row[t].revoked = "no" /\ t \notin ts
           /\ row[t] # None /\ t \notin ts => row'[t] = row[t]
  BY <1>1, <1>5, Worn
<1>7. /\ pc'[r] = l /\ loc'[r] = x /\ TypeOK'
      /\ \A s \in Requests \ {r} : pc'[s] = pc[s] /\ loc'[s] = loc[s]
  BY <1>1, <1>3, <1>4, <1>6, MoveTyped DEF Inv, TypeOK, Kinds
<1>8. ASSUME NEW t \in Requests, row[t] # None
      PROVE  row'[t] = row[t] \/ row[t].family \in revoked
  BY <1>2, <1>5, <1>6, <1>8
<1>9. ASSUME NEW s \in Requests PROVE Sound(s)'
  <2>1. /\ loc'[s].token = loc[s].token /\ loc'[s].family = loc[s].family
        /\ loc'[s].owed = loc[s].owed
    BY <1>3, <1>7
  <2>2. Minted(s)'
    BY <1>1, <1>2, <1>4, <1>6, <1>7, <2>1 DEF Inv, Sound, Minted, Minting
  <2>3. loc[s].token # None =>
          /\ loc[s].token \in held' /\ row[loc[s].token] # None
          /\ row'[loc[s].token].family = row[loc[s].token].family
          /\ row'[loc[s].token].revoked = "no" => row[loc[s].token].revoked = "no"
    BY <1>1, <1>6, Apart
  <2>4. Presented(s)'
    BY <1>1, <1>2, <1>3, <1>4, <1>7, <2>1, <2>3 DEF Inv, Sound, Presented
  <2>5. Sweeping(s)'
    BY <1>1, <1>2, <1>3, <1>4, <1>7 DEF Inv, Sound, Sweeping, Revoking
  <2>6. Seen(s)'
    <3>1. CASE s = r
      BY <1>1, <1>2, <1>4, <1>7, <2>1, <3>1 DEF Seen
    <3>2. CASE s # r
      <4>1. pc[s] \in Minting => row[s] # None /\ row[s].family = loc[s].family
        BY DEF Inv, Sound, Minted
      <4>2. pc[s] \in Minting => row'[s] = row[s] \/ loc[s].family \in revoked
        BY <1>8, <4>1
      <4>3. loc[s].token # None =>
              row'[loc[s].token] = row[loc[s].token] \/ loc[s].family \in revoked
        <5>1. loc[s].token # None => loc[s].token \in Requests
          BY <1>1, <2>3 DEF Inv, TypeOK
        <5> QED BY <1>8, <2>3, <5>1 DEF Inv, Sound, Presented
      <4> QED
        BY <1>1, <1>7, <2>1, <2>3, <3>2, <4>2, <4>3 DEF Inv, Sound, Seen, Minting
    <3> QED
      BY <3>1, <3>2
  <2> QED
    BY <2>2, <2>4, <2>5, <2>6 DEF Sound
<1>10. Closed' \subseteq Closed \cup {f}
  BY <1>3, <1>7 DEF Closed
<1>11. Rows' = Rows /\ Families' = Families
  BY <1>6 DEF Rows, Families
<1>12. ClosedFamilyIsDead'
  <2> SUFFICES ASSUME NEW t \in Rows, row'[t].family \in Closed', row'[t].revoked = "no"
               PROVE  t \notin held' /\ pc'[t] \in {"recheck", "undo", "dead"}
    BY <1>11 DEF ClosedFamilyIsDead
  <2>1. row[t] # None /\ t \in Requests
    BY DEF Rows
  <2>2. row[t].revoked = "no" /\ t \notin ts /\ row[t].family \in Closed
    BY <1>5, <1>6, <1>10, <2>1
  <2>3. t \notin held /\ pc[t] \in {"recheck", "undo", "dead"}
    BY <2>2 DEF Inv, ClosedFamilyIsDead
  <2> QED
    BY <1>1, <1>7, <2>1, <2>3
<1>13. FamilyKeepsToken'
  <2>1. ASSUME NEW g \in Families \ revoked PROVE \E t \in Of(g)' : row'[t].revoked = "no"
    <3>1. PICK t \in Of(g) : row[t].revoked = "no"
      BY DEF Inv, FamilyKeepsToken
    <3>2. t \in Requests /\ row[t] # None /\ row[t].family = g /\ row'[t] = row[t]
      BY <1>8, <3>1 DEF Of, Rows
    <3> QED
      BY <3>1, <3>2 DEF Of, Rows
  <2> QED
    BY <1>1, <1>11, <2>1 DEF FamilyKeepsToken
<1> QED
  BY <1>7, <1>9, <1>12, <1>13 DEF Inv

LEMMA AgeKeeps == ASSUME ConstantsAssumption, Inv, NEW o \in Requests, Age(o) PROVE Inv'
<1> DEFINE e == [row[o] EXCEPT !.revoked = "stale"]
<1>1. /\ row[o] # None /\ row[o].revoked = "fresh" /\ row' = [row EXCEPT ![o] = e]
      /\ UNCHANGED <<code, revoked, held, pc, loc, faults>>
  BY DEF Age, Rows, Inv, TypeOK
<1>2. e \in RowType /\ e.family = row[o].family /\ e.revoked = "stale" /\ e # None
      /\ e.expired = row[o].expired
  <2>1. row[o] \in RowType
    BY <1>1 DEF Inv, TypeOK
  <2>2. /\ e \in RowType /\ e.family = row[o].family /\ e.revoked = "stale"
        /\ e.expired = row[o].expired
    BY <2>1 DEF RowType, Ages
  <2> QED
    BY <2>2 DEF ConstantsAssumption
<1> HIDE DEF e
<1>3. /\ row' \in [Requests -> RowType \cup {None}] /\ row'[o] = e
      /\ \A t \in Requests \ {o} : row'[t] = row[t]
  BY <1>1, <1>2 DEF Inv, TypeOK
<1>4. TypeOK'
  BY <1>1, <1>3 DEF Inv, TypeOK
<1>5. ASSUME NEW s \in Requests PROVE Sound(s)'
  <2>1. /\ row'[s] # None <=> row[s] # None
        /\ row[s] # None => row'[s].family = row[s].family
        /\ row[s] # None => (row'[s].revoked = "no" <=> row[s].revoked = "no")
    BY <1>1, <1>2, <1>3
  <2>2. loc[s].token # None =>
          /\ loc[s].token \in held
          /\ row'[loc[s].token].family = row[loc[s].token].family
          /\ row'[loc[s].token].revoked = "no" <=> row[loc[s].token].revoked = "no"
          /\ row[loc[s].token].expired => row'[loc[s].token].expired
    BY <1>1, <1>2, <1>3, Apart
  <2>3. Minted(s)'
    BY <1>1, <2>1 DEF Inv, Sound, Minted
  <2>4. Presented(s)'
    BY <1>1, <2>2 DEF Inv, Sound, Presented
  <2>5. Sweeping(s)'
    BY <1>1 DEF Inv, Sound, Sweeping
  <2>6. Seen(s)'
    BY <1>1, <2>1, <2>2 DEF Inv, Sound, Seen, Minted, Minting
  <2> QED
    BY <2>3, <2>4, <2>5, <2>6 DEF Sound
<1>6. Closed' = Closed /\ Rows' = Rows /\ Families' = Families
  BY <1>1, <1>2, <1>3 DEF Closed, Rows, Families
<1>7. ClosedFamilyIsDead'
  BY <1>1, <1>2, <1>3, <1>6 DEF ClosedFamilyIsDead, Inv, Rows
<1>8. FamilyKeepsToken'
  BY <1>1, <1>2, <1>3, <1>6 DEF FamilyKeepsToken, Inv, Of, Rows
<1> QED
  BY <1>4, <1>5, <1>7, <1>8 DEF Inv

\* What expires stays unrevoked, and what was seen expired stays so.
LEMMA ExpireKeeps == ASSUME ConstantsAssumption, Inv, NEW o \in Requests, Expire(o) PROVE Inv'
<1> DEFINE e == [row[o] EXCEPT !.expired = TRUE]
<1>1. /\ row[o] # None /\ row[o].revoked = "no" /\ row' = [row EXCEPT ![o] = e]
      /\ UNCHANGED <<code, revoked, held, pc, loc, faults>>
  BY DEF Expire, Rows, Inv, TypeOK
<1>2. e \in RowType /\ e.family = row[o].family /\ e.revoked = "no" /\ e # None
      /\ e.expired = TRUE
  <2>1. row[o] \in RowType
    BY <1>1 DEF Inv, TypeOK
  <2>2. e \in RowType
    BY <2>1 DEF RowType
  <2>3. e.family = row[o].family /\ e.revoked = "no"
    BY <1>1, <2>1 DEF RowType
  <2>4. e.expired = TRUE
    BY <2>1 DEF RowType
  <2> QED
    BY <2>2, <2>3, <2>4 DEF ConstantsAssumption
<1> HIDE DEF e
<1>3. /\ row' \in [Requests -> RowType \cup {None}] /\ row'[o] = e
      /\ \A t \in Requests \ {o} : row'[t] = row[t]
  BY <1>1, <1>2 DEF Inv, TypeOK
<1>4. TypeOK'
  BY <1>1, <1>3 DEF Inv, TypeOK
<1>5. ASSUME NEW s \in Requests PROVE Sound(s)'
  <2>1. /\ row'[s] # None <=> row[s] # None
        /\ row[s] # None => row'[s].family = row[s].family
        /\ row[s] # None => (row'[s].revoked = "no" <=> row[s].revoked = "no")
    BY <1>1, <1>2, <1>3
  <2>2. loc[s].token # None =>
          /\ loc[s].token \in held
          /\ row'[loc[s].token].family = row[loc[s].token].family
          /\ row'[loc[s].token].revoked = "no" <=> row[loc[s].token].revoked = "no"
          /\ row[loc[s].token].expired => row'[loc[s].token].expired
    BY <1>1, <1>2, <1>3, Apart
  <2>3. Minted(s)'
    BY <1>1, <2>1 DEF Inv, Sound, Minted
  <2>4. Presented(s)'
    BY <1>1, <2>2 DEF Inv, Sound, Presented
  <2>5. Sweeping(s)'
    BY <1>1 DEF Inv, Sound, Sweeping
  <2>6. Seen(s)'
    BY <1>1, <2>1, <2>2 DEF Inv, Sound, Seen, Minted, Minting
  <2> QED
    BY <2>3, <2>4, <2>5, <2>6 DEF Sound
<1>6. Closed' = Closed /\ Rows' = Rows /\ Families' = Families
  BY <1>1, <1>2, <1>3 DEF Closed, Rows, Families
<1>7. ClosedFamilyIsDead'
  BY <1>1, <1>2, <1>3, <1>6 DEF ClosedFamilyIsDead, Inv, Rows
<1>8. FamilyKeepsToken'
  BY <1>1, <1>2, <1>3, <1>6 DEF FamilyKeepsToken, Inv, Of, Rows
<1> QED
  BY <1>4, <1>5, <1>7, <1>8 DEF Inv

-----------------------------------------------------------------------------
(* The invariant is kept by every step. *)

LEMMA NextInv == ASSUME ConstantsAssumption, Inv, [Next]_vars PROVE Inv'
<1>1. ASSUME NEW r \in Requests, NEW c \in Codes, VerifyRead(r, c) \/ Poll(r, c) PROVE Inv'
  BY <1>1, VerifyReadKeeps, PollKeeps
<1>2. ASSUME NEW r \in Requests, NEW t \in Requests, Present(r, t) \/ Revoke(r, t) PROVE Inv'
  BY <1>2, PresentKeeps, RevokeKeeps
<1>3. ASSUME NEW r \in Requests, Step(r) PROVE Inv'
  BY <1>3, VerifySaveKeeps, ConsumeKeeps, InsertKeeps, RecheckKeeps, UndoKeeps, RotateKeeps,
     RespondKeeps, LookUpKeeps, RecordKeeps, BulkKeeps DEF Step
<1>4. ASSUME NEW r \in Requests, Reset(r) \/ Age(r) \/ Expire(r) \/ Crash(r) PROVE Inv'
  BY <1>4, ResetKeeps, AgeKeeps, ExpireKeeps, CrashKeeps
<1>5. CASE UNCHANGED vars
  <2>1. \A r \in Requests : Sound(r)'
    BY <1>5 DEF vars, Inv, Sound, Minted, Presented, Sweeping, Seen
  <2>2. TypeOK'
    BY <1>5 DEF vars, Inv, TypeOK
  <2>3. ClosedFamilyIsDead'
    BY <1>5 DEF vars, Inv, ClosedFamilyIsDead, Closed, Rows
  <2>4. FamilyKeepsToken'
    BY <1>5 DEF vars, Inv, FamilyKeepsToken, Families, Of, Rows
  <2> QED
    BY <2>1, <2>2, <2>3, <2>4 DEF Inv
<1> QED
  BY <1>1, <1>2, <1>3, <1>4, <1>5 DEF Next

\* What has been seen of the presented token tells that it is not a live one.
LEMMA InvSpares == ASSUME Inv, [Next]_vars PROVE SparedStep
  BY DEF Inv, SparedStep, Sound, Seen

\* What the families and the resets are promised follows.
LEMMA InvCovers == Inv => ResetCoversFamilies
  BY DEF Inv, Sound, Sweeping, ResetCoversFamilies

(* At any time the types hold, a request knows the family it acts for, what it has
   seen of a token stays true, and the families to revoke are revoked or to do
   (oauth.ts, oauth-session.ts, password-reset.ts). *)
THEOREM Invariance == ASSUME ConstantsAssumption PROVE Spec => []Inv
<1>1. Init => Inv
  BY InitInv
<1>2. Inv /\ [Next]_vars => Inv'
  BY NextInv
<1> QED
  BY <1>1, <1>2, PTL DEF Spec

(* A family that a call has finished revoking keeps no token that a client has or
   will be answered with, however many refreshes were in flight: each of them looks
   again after storing its token (oauth.ts:623-630). *)
THEOREM ClosedFamiliesAreDead == ASSUME ConstantsAssumption PROVE Spec => []ClosedFamilyIsDead
<1>1. Inv => ClosedFamilyIsDead
  BY DEF Inv
<1> QED
  BY <1>1, Invariance, PTL

(* However many refreshes rotate a token at once, and whichever of them die, a family
   that nobody revoked has a live token (oauth.ts:363-381). *)
THEOREM FamiliesKeepToken == ASSUME ConstantsAssumption PROVE Spec => []FamilyKeepsToken
<1>1. Inv => FamilyKeepsToken
  BY DEF Inv
<1> QED
  BY <1>1, Invariance, PTL

(* A password reset looks for the families of the live tokens only, and still it
   misses none, a rotation in flight or not (password-reset.ts:147-157). *)
THEOREM ResetsCoverFamilies == ASSUME ConstantsAssumption PROVE Spec => []ResetCoversFamilies
  BY Invariance, InvCovers, PTL

(* A family is revoked for the reuse of a token only when the token is not the live
   one (oauth.ts:311-331). *)
THEOREM LiveTokensAreSpared == ASSUME ConstantsAssumption PROVE Spec => LiveTokenIsSpared
<1>1. Inv /\ [Next]_vars => [SparedStep]_vars
  BY InvSpares
<1> QED
  BY <1>1, Invariance, PTL DEF Spec, LiveTokenIsSpared

-----------------------------------------------------------------------------
(* CliRefresh: the commands of the client, for any number of them. *)

\* Where a command is that has a refresh in flight, and until it has stored the answer.
Awaiting == {"first", "last"}
Busy == Awaiting \cup {"store"}
Idle == {"off", "ended", "failed"}

\* Where the request of a refresh is; it never gets to revoke or to undo anything.
Calls == {"insert", "known", "recheck", "rotate", "respond"}

CmdType == [at : Busy \cup Idle \cup {"ready", "again", "reread"}, token : Requests,
            request : Requests, tries : Nat]

CliTypes ==
    /\ TypeOK
    /\ cmd \in [Commands -> CmdType]
    /\ profile \in held /\ \A c \in Commands : cmd[c].token \in held
    /\ pc \in [Requests -> Calls \cup {"refresh", "done"}]
    /\ revoked = {}
    /\ \A t \in Requests : row[t] # None => ~row[t].expired

\* A request in flight is some command's, and acts for a token that was answered with.
Flight(r) ==
    /\ r \in held => row[r] # None /\ pc[r] = "done"
    /\ loc[r].token \in held \cup {None}
    /\ pc[r] = "refresh" => row[r] = None /\ loc[r].token = None
    /\ pc[r] \in Calls =>
         /\ loc[r].token # None /\ loc[r].family \in Requests
         /\ \E c \in Commands : cmd[c].at \in Awaiting /\ cmd[c].request = r
    /\ pc[r] \in {"recheck", "rotate", "respond"} => row[r] # None
    /\ pc[r] = "known" => row[loc[r].token].revoked # "no"

\* Nobody has seen the token that the request mints.
Unseen(r) ==
    /\ profile # r
    /\ \A d \in Commands : cmd[d].token # r
    /\ \A s \in Requests : loc[s].token # r

\* A busy command's request is its own, and its new token is live until it is stored.
Owned(c, r) ==
    /\ pc[r] # "refresh" /\ loc[r].token = cmd[c].token
    /\ cmd[c].at = "store" => r \in held
    /\ \A d \in Commands \ {c} : cmd[d].at \in Busy => cmd[d].request # r
    /\ Unseen(r)
    /\ row[r] # None => row[r].revoked = "no"

Waits(c) ==
    /\ cmd[c].at \in Busy => Owned(c, cmd[c].request)
    /\ cmd[c].at \notin Idle => row[cmd[c].token].revoked # "stale"

\* A command that has replaced the profile's token, and is yet to store the next one.
Replaces(c) ==
    /\ cmd[c].at \in Busy /\ cmd[c].token = profile
    /\ pc[cmd[c].request] = "respond" \/ cmd[c].request \in held

GoesOn ==
    /\ row[profile].revoked # "stale"
    /\ row[profile].revoked = "no" \/ \E c \in Commands : Replaces(c)

CliInv ==
    /\ CliTypes /\ GoesOn
    /\ \A r \in Requests : Flight(r)
    /\ \A c \in Commands : Waits(c)

\* The invariant holds at first: the profile holds the token of the sign-in.
LEMMA CliInitInv == ASSUME ConstantsAssumption, CliAssumption, CliInit PROVE CliInv
<1> USE DEF CliInit, CliAssumption
<1>1. /\ First \in Requests /\ None \notin Requests /\ NoLoc.token = None
      /\ row[First].revoked = "no" /\ row[First] \in RowType /\ None \notin RowType
  BY DEF ConstantsAssumption, NoLoc, RowType, Ages
<1>2. TypeOK
  <2>1. code \in [Codes -> [status : {"pending", "approved", "denied"}, consumed : BOOLEAN]]
    OBVIOUS
  <2>2. row \in [Requests -> RowType \cup {None}]
    BY <1>1
  <2>3. pc \in [Requests -> Kinds] /\ loc \in [Requests -> LocType]
    BY NoLocTyped DEF Kinds
  <2> QED
    BY <1>1, <2>1, <2>2, <2>3 DEF TypeOK
<1>3. CliTypes
  BY <1>1, <1>2 DEF CliTypes, CmdType, Idle
<1>4. GoesOn
  BY <1>1 DEF GoesOn
<1>5. \A r \in Requests : Flight(r)
  BY <1>1 DEF Flight, Calls
<1>6. \A c \in Commands : Waits(c)
  BY DEF Waits, Busy, Awaiting, Idle
<1> QED
  BY <1>3, <1>4, <1>5, <1>6 DEF CliInv

-----------------------------------------------------------------------------
(* Steps of the commands. *)

\* A refresh: the request is new, and nobody knows its token.
LEMMA RefreshKeeps ==
    ASSUME ConstantsAssumption, CliInv, NEW c \in Commands, NEW r \in Requests, Refresh(c, r)
    PROVE  CliInv'
<1> DEFINE t == cmd[c].token
           x == [NoLoc EXCEPT !.token = t, !.family = row[t].family]
           l == IF Active(t) THEN "insert" ELSE "known"
           a == IF cmd[c].at = "ready" THEN "first" ELSE "last"
<1>1. /\ cmd[c].at \in {"ready", "again"} /\ pc[r] = "refresh" /\ t \in held
      /\ Move(r, l, x) /\ UNCHANGED <<code, row, revoked, held, faults, profile>>
      /\ cmd' = [cmd EXCEPT ![c].at = a, ![c].request = r]
  BY DEF Refresh, Present
<1>2. t \in Requests /\ row[t] \in RowType /\ TypeOK /\ t # None /\ None \notin Requests
  BY <1>1 DEF CliInv, CliTypes, Flight, TypeOK, ConstantsAssumption
<1>3. x \in LocType /\ x.token = t /\ x.family \in Requests
  BY <1>2 DEF LocType, NoLoc, RowType
<1>4. l \in {"insert", "known"} /\ (l = "known" => row[t].revoked # "no") /\ a \in Awaiting
  BY <1>1, <1>2 DEF Active, CliInv, CliTypes, Awaiting, Flight
<1>5. cmd[c] \in CmdType
  BY DEF CliInv, CliTypes
<1>6. /\ cmd'[c] \in CmdType /\ cmd'[c].at = a /\ cmd'[c].token = t /\ cmd'[c].request = r
      /\ \A d \in Commands \ {c} : cmd'[d] = cmd[d]
      /\ cmd' \in [Commands -> CmdType]
  <2>1. cmd'[c] = [cmd[c] EXCEPT !.at = a, !.request = r]
        /\ \A d \in Commands \ {c} : cmd'[d] = cmd[d]
    BY <1>1 DEF CliInv, CliTypes
  <2>2. cmd'[c] \in CmdType /\ cmd'[c].at = a /\ cmd'[c].token = t /\ cmd'[c].request = r
    BY <1>4, <1>5, <2>1 DEF CmdType, Busy
  <2>3. cmd' \in [Commands -> CmdType]
    BY <1>1, <2>1, <2>2 DEF CliInv, CliTypes
  <2> QED
    BY <2>1, <2>2, <2>3
<1>7. row[r] = None /\ r \notin held /\ \A d \in Commands : cmd[d].at \in Busy => cmd[d].request # r
  BY <1>1 DEF CliInv, Flight, Waits, Owned
<1> HIDE DEF x, l, a
<1>8. pc'[r] = l /\ loc'[r] = x /\ TypeOK'
      /\ \A s \in Requests \ {r} : pc'[s] = pc[s] /\ loc'[s] = loc[s]
  BY <1>1, <1>2, <1>3, <1>4, MoveTyped DEF TypeOK
<1>9. \A d \in Commands : cmd'[d].token = cmd[d].token
  BY <1>6
<1>10. CliTypes'
  BY <1>1, <1>4, <1>6, <1>8, <1>9 DEF CliInv, CliTypes, Calls, Move
<1>11. GoesOn'
  <2>1. \A d \in Commands : Replaces(d) => Replaces(d)'
    BY <1>1, <1>6, <1>7, <1>8 DEF Replaces, Busy, Awaiting, CliInv, CliTypes, CmdType
  <2> QED
    BY <1>1, <2>1 DEF GoesOn, CliInv
<1>12. ASSUME NEW s \in Requests PROVE Flight(s)'
  <2>1. \A d \in Commands : cmd[d].at \in Awaiting => cmd'[d] = cmd[d]
    BY <1>1, <1>6 DEF Awaiting
  <2>2. CASE s = r
    BY <1>1, <1>2, <1>3, <1>4, <1>6, <1>7, <1>8, <2>2 DEF Flight, Calls
  <2>3. CASE s # r
    BY <1>1, <1>8, <2>1, <2>3 DEF CliInv, Flight
  <2> QED
    BY <2>2, <2>3
<1>13. ASSUME NEW d \in Commands PROVE Waits(d)'
  <2>1. \A s \in Requests : s # r /\ Unseen(s) => Unseen(s)'
    BY <1>1, <1>3, <1>8, <1>9 DEF Unseen
  <2>2. Unseen(r)'
    BY <1>1, <1>2, <1>3, <1>7, <1>8, <1>9 DEF Unseen, CliInv, CliTypes, Flight
  <2>3. CASE d = c
    <3>1. Owned(c, r)'
      BY <1>1, <1>3, <1>4, <1>6, <1>7, <1>8, <2>2, <2>3 DEF Owned, Awaiting
    <3> QED
      BY <1>1, <1>4, <1>6, <2>3, <3>1 DEF Waits, CliInv, Idle, Awaiting
  <2>4. CASE d # c
    <3>1. cmd[d].at \in Busy => Owned(d, cmd[d].request) /\ cmd[d].request # r
                                /\ cmd[d].request \in Requests
      BY <1>7 DEF CliInv, Waits, CliTypes, CmdType
    <3>2. cmd[d].at \in Busy => Owned(d, cmd[d].request)'
      BY <1>1, <1>6, <1>8, <2>1, <2>4, <3>1 DEF Owned
    <3> QED
      BY <1>1, <1>6, <2>4, <3>2 DEF CliInv, Waits, Owned
  <2> QED
    BY <2>3, <2>4
<1> QED
  BY <1>10, <1>11, <1>12, <1>13 DEF CliInv

\* A step of one command alone.
Alone(c, x) == cmd' = [cmd EXCEPT ![c] = x] /\ UNCHANGED vars

LEMMA AloneSets ==
    ASSUME CliInv, NEW c \in Commands, NEW x \in CmdType, Alone(c, x), x.token \in held,
           profile' \in held
    PROVE  CliTypes' /\ cmd'[c] = x /\ \A d \in Commands \ {c} : cmd'[d] = cmd[d]
<1>1. cmd' \in [Commands -> CmdType] /\ cmd'[c] = x
      /\ \A d \in Commands \ {c} : cmd'[d] = cmd[d]
  BY DEF Alone, CliInv, CliTypes
<1>2. TypeOK'
  BY DEF Alone, CliInv, CliTypes, TypeOK, vars
<1>3. \A d \in Commands : cmd'[d].token \in held
  BY <1>1 DEF CliInv, CliTypes
<1> QED
  BY <1>1, <1>2, <1>3 DEF CliTypes, CliInv, Alone, vars

\* A command takes the profile's token, which nobody can have outlived.
LEMMA TakeKeeps ==
    ASSUME CliInv, NEW c \in Commands, NEW x \in CmdType, Alone(c, x), UNCHANGED profile,
           cmd[c].at \notin Busy, x.at \notin Busy, x.token = profile
    PROVE  CliInv'
<1>1. CliTypes' /\ cmd'[c] = x /\ \A d \in Commands \ {c} : cmd'[d] = cmd[d]
  BY AloneSets DEF CliInv, CliTypes
<1>2. UNCHANGED <<code, row, revoked, held, pc, loc, faults>>
  BY DEF Alone, vars
<1>3. \A d \in Commands : Replaces(d) => Replaces(d)'
  BY <1>1, <1>2 DEF Replaces
<1>4. GoesOn'
  BY <1>2, <1>3 DEF GoesOn, CliInv
<1>5. \A r \in Requests : Flight(r)'
  BY <1>1, <1>2 DEF CliInv, Flight, Busy
<1>6. ASSUME NEW d \in Commands PROVE Waits(d)'
  <2>1. \A r \in Requests : Unseen(r) => Unseen(r)'
    BY <1>1, <1>2 DEF Unseen
  <2>2. CASE d = c
    BY <1>1, <1>2, <2>2 DEF Waits, CliInv, GoesOn
  <2>3. CASE d # c
    BY <1>1, <1>2, <2>1, <2>3 DEF Waits, Owned, CliInv, CliTypes, CmdType
  <2> QED
    BY <2>2, <2>3
<1> QED
  BY <1>1, <1>4, <1>5, <1>6 DEF CliInv

\* A command goes on with the token it has, or gives up.
LEMMA StayKeeps ==
    ASSUME CliInv, NEW c \in Commands, NEW x \in CmdType, Alone(c, x), UNCHANGED profile,
           x.token = cmd[c].token, x.request = cmd[c].request, ~ Replaces(c) \/ x.at \in Busy,
           x.at \in Busy => cmd[c].at \in Busy,
           x.at = "store" => x.request \in held,
           x.at \notin Idle => cmd[c].at \notin Idle,
           cmd[c].at \in Awaiting => pc[cmd[c].request] = "done"
    PROVE  CliInv'
<1>1. CliTypes' /\ cmd'[c] = x /\ \A d \in Commands \ {c} : cmd'[d] = cmd[d]
  BY AloneSets DEF CliInv, CliTypes
<1>2. UNCHANGED <<code, row, revoked, held, pc, loc, faults>>
  BY DEF Alone, vars
<1>3. \A d \in Commands : Replaces(d) => Replaces(d)'
  BY <1>1, <1>2 DEF Replaces
<1>4. GoesOn'
  BY <1>2, <1>3 DEF GoesOn, CliInv
<1>5. \A r \in Requests : Flight(r)'
  BY <1>1, <1>2 DEF CliInv, Flight, Calls
<1>6. ASSUME NEW d \in Commands PROVE Waits(d)'
  <2>1. \A r \in Requests : Unseen(r) => Unseen(r)'
    BY <1>1, <1>2 DEF Unseen
  <2>2. \A e \in Commands : /\ cmd'[e].request = cmd[e].request
                            /\ cmd'[e].token = cmd[e].token
                            /\ cmd'[e].at \in Busy => cmd[e].at \in Busy
                            /\ cmd[e].request \in Requests
    BY <1>1 DEF CliInv, CliTypes, CmdType
  <2>3. cmd'[d].at = "store" => cmd[d].request \in held
    BY <1>1 DEF CliInv, Waits, Owned, Busy
  <2>4. cmd'[d].at \in Busy => Owned(d, cmd[d].request)'
    <3>1. cmd'[d].at \in Busy => Owned(d, cmd[d].request)
      BY <2>2 DEF CliInv, Waits
    <3> QED
      BY <1>2, <2>1, <2>2, <2>3, <3>1 DEF Owned
  <2>5. cmd'[d].at \notin Idle => row'[cmd'[d].token].revoked # "stale"
    BY <1>1, <1>2 DEF CliInv, Waits
  <2> QED
    BY <2>4, <2>5 DEF Waits
<1> QED
  BY <1>1, <1>4, <1>5, <1>6 DEF CliInv

LEMMA LoadKeeps == ASSUME CliInv, NEW c \in Commands, Load(c) PROVE CliInv'
<1> DEFINE x == [cmd[c] EXCEPT !.at = "ready", !.token = profile]
<1>1. cmd[c] \in CmdType /\ profile \in Requests /\ cmd[c].at = "off" /\ UNCHANGED <<vars, profile>>
  BY DEF Load, CliInv, CliTypes, TypeOK
<1>2. x \in CmdType /\ x.at = "ready" /\ x.token = profile
  BY <1>1 DEF CmdType
<1>3. Alone(c, x)
  BY DEF Load, Alone
<1> QED
  BY <1>1, <1>2, <1>3, TakeKeeps DEF Busy, Awaiting

LEMMA AnswerKeeps == ASSUME CliInv, NEW c \in Commands, Answer(c) PROVE CliInv'
<1> DEFINE a == IF cmd[c].request \in held THEN "store"
                ELSE IF cmd[c].at = "first" THEN "reread" ELSE "failed"
           x == [cmd[c] EXCEPT !.at = a]
<1>1. cmd[c] \in CmdType /\ cmd[c].at \in Awaiting /\ pc[cmd[c].request] = "done"
      /\ UNCHANGED <<vars, profile>>
  BY DEF Answer, CliInv, CliTypes, Awaiting
<1>2. x \in CmdType /\ x.at = a /\ x.token = cmd[c].token /\ x.request = cmd[c].request
  BY <1>1 DEF CmdType, Busy, Idle
<1>3. Alone(c, x)
  BY DEF Answer, Alone
<1>4. ~ Replaces(c) \/ x.at \in Busy
  BY <1>1, <1>2 DEF Replaces, Busy
<1>5. /\ x.at = "store" => cmd[c].request \in held
      /\ cmd[c].at \in Busy /\ cmd[c].at \notin Idle
  BY <1>1, <1>2 DEF Busy, Awaiting, Idle
<1> HIDE DEF x, a
<1> QED
  BY <1>1, <1>2, <1>3, <1>4, <1>5, StayKeeps

LEMMA RereadKeeps ==
    ASSUME CliAssumption, CliInv, NEW c \in Commands, Reread(c)
    PROVE  CliInv'
<1>1. cmd[c] \in CmdType /\ cmd[c].at = "reread" /\ profile \in Requests
      /\ UNCHANGED <<vars, profile>>
  BY DEF Reread, CliInv, CliTypes, TypeOK
<1>2. cmd[c].at \notin Busy /\ cmd[c].at \notin Idle /\ ~ Replaces(c)
  BY <1>1 DEF Busy, Awaiting, Idle, Replaces
<1>3. CASE profile # cmd[c].token
  <2> DEFINE x == [cmd[c] EXCEPT !.at = "again", !.token = profile]
  <2>1. x \in CmdType /\ x.at = "again" /\ x.token = profile
    BY <1>1 DEF CmdType
  <2>2. Alone(c, x)
    BY <1>3 DEF Reread, Alone
  <2> QED
    BY <1>1, <1>2, <2>1, <2>2, TakeKeeps DEF Busy, Awaiting
<1>4. CASE profile = cmd[c].token /\ cmd[c].tries + 1 = Rereads
  <2> DEFINE x == [cmd[c] EXCEPT !.at = "failed"]
  <2>1. x \in CmdType /\ x.at = "failed" /\ x.token = cmd[c].token /\ x.request = cmd[c].request
    BY <1>1 DEF CmdType, Idle
  <2>2. Alone(c, x)
    BY <1>4 DEF Reread, Alone
  <2>3. x.at \notin Busy /\ cmd[c].at \notin Awaiting
    BY <1>1, <2>1 DEF Busy, Awaiting
  <2> HIDE DEF x
  <2> QED
    BY <1>1, <1>2, <2>1, <2>2, <2>3, StayKeeps
<1>5. CASE profile = cmd[c].token /\ cmd[c].tries + 1 # Rereads
  <2> DEFINE x == [cmd[c] EXCEPT !.tries = cmd[c].tries + 1]
  <2>1. x \in CmdType /\ x.at = "reread" /\ x.token = cmd[c].token /\ x.request = cmd[c].request
    BY <1>1 DEF CmdType
  <2>2. Alone(c, x)
    BY <1>5 DEF Reread, Alone
  <2>3. x.at \notin Busy /\ cmd[c].at \notin Awaiting
    BY <1>1, <2>1 DEF Busy, Awaiting
  <2> HIDE DEF x
  <2> QED
    BY <1>1, <1>2, <2>1, <2>2, <2>3, StayKeeps
<1> QED
  BY <1>3, <1>4, <1>5

\* The answer is stored: it is the live token, and nobody else waits to store it.
LEMMA StoreKeeps == ASSUME ConstantsAssumption, CliInv, NEW c \in Commands, Store(c) PROVE CliInv'
<1> DEFINE x == [cmd[c] EXCEPT !.at = "ended"]
           r == cmd[c].request
<1>1. cmd[c] \in CmdType /\ cmd[c].at = "store" /\ profile' = r
  BY DEF Store, Stored, CliInv, CliTypes
<1>2. x \in CmdType /\ x.at = "ended" /\ x.token = cmd[c].token /\ x.request = cmd[c].request
  BY <1>1 DEF CmdType, Idle
<1>3. Alone(c, x)
  BY DEF Store, Alone
<1>4. Owned(c, r) /\ r \in held /\ r \in Requests
  BY <1>1 DEF CliInv, Waits, Owned, Busy, CmdType
<1>5. row[r].revoked = "no" /\ r # None
  BY <1>4 DEF CliInv, Flight, Owned, ConstantsAssumption
<1> HIDE DEF x
<1>6. CliTypes' /\ cmd'[c] = x /\ \A d \in Commands \ {c} : cmd'[d] = cmd[d]
  BY <1>1, <1>2, <1>3, <1>4, AloneSets DEF CliInv, CliTypes
<1>7. UNCHANGED <<code, row, revoked, held, pc, loc, faults>>
  BY <1>3 DEF Alone, vars
<1>8. GoesOn'
  BY <1>1, <1>5, <1>7 DEF GoesOn
<1>9. \A s \in Requests : Flight(s)'
  BY <1>1, <1>6, <1>7 DEF CliInv, Flight, Awaiting
<1>10. ASSUME NEW d \in Commands PROVE Waits(d)'
  <2>1. CASE d = c
    BY <1>2, <1>6, <2>1 DEF Waits, Busy, Awaiting, Idle
  <2>2. CASE d # c
    <3>1. cmd'[d] = cmd[d] /\ \A e \in Commands : cmd'[e].token = cmd[e].token
      BY <1>2, <1>6, <2>2
    <3>2. \A e \in Commands : cmd'[e].at \in Busy => cmd'[e] = cmd[e]
      BY <1>2, <1>6 DEF Busy, Awaiting
    <3>3. cmd[d].at \in Busy => Owned(d, cmd[d].request) /\ cmd[d].request # r
      BY <1>4, <2>2 DEF CliInv, Waits, Owned
    <3>4. cmd[d].at \in Busy => Owned(d, cmd[d].request)'
      BY <1>1, <1>7, <3>1, <3>2, <3>3 DEF Owned, Unseen
    <3> QED
      BY <1>7, <3>1, <3>4 DEF CliInv, Waits
  <2> QED
    BY <2>1, <2>2
<1> QED
  BY <1>6, <1>8, <1>9, <1>10 DEF CliInv

-----------------------------------------------------------------------------
(* Steps of the server. *)

\* A request in flight goes on: of the other rows, it may only replace its own token's.
LEMMA ServesKeeps ==
    ASSUME ConstantsAssumption, CliInv, NEW r \in Requests, CliTypes', Flight(r)',
           UNCHANGED <<profile, cmd, revoked, loc>>,
           held \subseteq held', held' \subseteq held \cup {r},
           pc[r] \in Calls, pc'[r] # "refresh", \A s \in Requests \ {r} : pc'[s] = pc[s],
           pc[r] = "respond" => r \in held',
           row'[r] # row[r] => row'[r].revoked = "no",
           \A t \in Requests \ {r} : row'[t] # row[t] =>
               /\ t = loc[r].token /\ row'[t] # None /\ row'[t].revoked = "fresh"
               /\ pc'[r] = "respond"
    PROVE  CliInv'
<1>1. PICK c \in Commands : cmd[c].at \in Awaiting /\ cmd[c].request = r
  BY DEF CliInv, Flight
<1>2. cmd[c].at \in Busy /\ Owned(c, r)
  BY <1>1 DEF CliInv, Waits, Busy
<1>3. r \notin held /\ r # profile /\ profile \in Requests /\ profile \in held
  BY DEF CliInv, Flight, CliTypes, TypeOK, Calls
<1>4. GoesOn'
  <2>1. CASE row'[profile] # row[profile]
    <3>1. Replaces(c)'
      BY <1>1, <1>2, <1>3, <2>1 DEF Replaces, Owned
    <3> QED
      BY <1>3, <2>1, <3>1 DEF GoesOn
  <2>2. CASE row'[profile] = row[profile]
    <3>1. ASSUME NEW d \in Commands, Replaces(d) PROVE Replaces(d)'
      <4>1. cmd[d].request \in Requests
        BY DEF CliInv, CliTypes, CmdType
      <4> QED
        BY <1>3, <3>1, <4>1 DEF Replaces
    <3> QED
      BY <2>2, <3>1 DEF CliInv, GoesOn
  <2> QED
    BY <2>1, <2>2
<1>5. ASSUME NEW s \in Requests, s # r PROVE Flight(s)'
  <2>1. Flight(s) /\ pc'[s] = pc[s] /\ (s \in held' => s \in held)
    BY <1>5 DEF CliInv
  <2>2. row[s] # None => row'[s] # None
    BY <1>5
  <2>3. pc[s] = "refresh" => row'[s] = None
    <3>1. loc[r].token # None /\ loc[r].token \in held
      BY DEF CliInv, Flight
    <3>2. \A t \in held : pc[t] = "done"
      BY DEF CliInv, CliTypes, TypeOK, Flight
    <3> QED
      BY <1>5, <2>1, <3>1, <3>2 DEF Flight
  <2>4. loc[s].token \in held => loc[s].token # r /\ loc[s].token \in Requests
    BY <1>3 DEF CliInv, CliTypes, TypeOK
  <2>5. pc[s] = "known" => row'[loc[s].token].revoked # "no"
    <3>1. pc[s] = "known" => loc[s].token \in held
      BY <2>1 DEF Flight, Calls
    <3> QED
      BY <2>1, <2>4, <3>1 DEF Flight
  <2> QED
    BY <2>1, <2>2, <2>3, <2>5 DEF Flight
<1>6. ASSUME NEW d \in Commands PROVE Waits(d)'
  <2>1. cmd[d].token \in held /\ cmd[d].token \in Requests /\ cmd[d].request \in Requests
    BY DEF CliInv, CliTypes, CmdType
  <2>2. cmd[d].token # r
    BY <1>3, <2>1
  <2>3. cmd[d].at \notin Idle => row'[cmd[d].token].revoked # "stale"
    BY <2>1, <2>2 DEF CliInv, Waits
  <2>4. cmd[d].at \in Busy => Owned(d, cmd[d].request)'
    <3>1. cmd[d].at \in Busy => Owned(d, cmd[d].request)
      BY DEF CliInv, Waits
    <3>2. Owned(d, cmd[d].request) => Unseen(cmd[d].request)'
      BY DEF Owned, Unseen
    <3>3. Owned(d, cmd[d].request) => pc'[cmd[d].request] # "refresh"
      BY <2>1 DEF Owned
    <3>4. Owned(d, cmd[d].request) =>
            (row'[cmd[d].request] # None => row'[cmd[d].request].revoked = "no")
      BY <2>1 DEF Owned, Unseen
    <3> QED
      BY <3>1, <3>2, <3>3, <3>4 DEF Owned
  <2> QED
    BY <2>3, <2>4 DEF Waits
<1> QED
  BY <1>4, <1>5, <1>6 DEF CliInv

\* No request of a refresh stops to revoke or to undo, and none dies.
LEMMA StepServes ==
    ASSUME ConstantsAssumption, CliInv, NEW r \in Requests, Step(r), UNCHANGED <<profile, cmd>>
    PROVE  CliInv'
<1>1. TypeOK /\ Flight(r) /\ loc[r] \in LocType /\ pc[r] \in Calls \cup {"refresh", "done"}
      /\ revoked = {} /\ r \in Requests /\ None \notin Requests
  BY DEF CliInv, CliTypes, TypeOK, ConstantsAssumption
<1>2. ASSUME NEW l \in Calls \cup {"done"}, Goto(r, l), UNCHANGED <<code, revoked, faults>>,
             row' \in [Requests -> RowType \cup {None}], held \subseteq held',
             held' \subseteq Requests, \A t \in Requests : row'[t] # None => ~row'[t].expired
      PROVE  /\ CliTypes' /\ loc' = loc /\ pc'[r] = l
             /\ \A s \in Requests \ {r} : pc'[s] = pc[s]
  <2>1. pc'[r] = l /\ loc' = loc /\ \A s \in Requests \ {r} : pc'[s] = pc[s]
    BY <1>1, <1>2 DEF Goto, TypeOK
  <2>2. pc' \in [Requests -> Calls \cup {"refresh", "done"}]
    BY <1>2 DEF CliInv, CliTypes, Goto
  <2>3. TypeOK'
    BY <1>1, <1>2, <2>1, <2>2 DEF TypeOK, Calls, Kinds
  <2> QED
    BY <1>2, <2>1, <2>2, <2>3 DEF CliInv, CliTypes
<1>3. CASE Insert(r)
  <2> DEFINE n == [family |-> loc[r].family, revoked |-> "no", expired |-> FALSE,
                   next |-> None]
  <2>1. pc[r] = "insert" /\ Goto(r, "recheck") /\ row' = [row EXCEPT ![r] = n]
        /\ UNCHANGED <<code, revoked, held, faults>>
    BY <1>3 DEF Insert
  <2>2. n \in RowType /\ n # None /\ n.revoked = "no" /\ ~n.expired
    <3>1. loc[r].family \in Requests /\ "no" \in Ages /\ FALSE \in BOOLEAN
      BY <1>1, <2>1 DEF Ages, Flight, Calls
    <3>2. n.revoked = "no" /\ ~n.expired
      OBVIOUS
    <3>3. n \in RowType
      BY <3>1, Zenon DEF RowType
    <3> QED BY <3>2, <3>3 DEF ConstantsAssumption
  <2> HIDE DEF n
  <2>3. row' \in [Requests -> RowType \cup {None}] /\ row'[r] = n
        /\ \A t \in Requests \ {r} : row'[t] = row[t]
    BY <1>1, <2>1, <2>2 DEF TypeOK
  <2>4. /\ CliTypes' /\ loc' = loc /\ pc'[r] = "recheck"
        /\ \A s \in Requests \ {r} : pc'[s] = pc[s]
    <3>1. \A t \in Requests : row'[t] # None => ~row'[t].expired
      BY <2>2, <2>3 DEF CliInv, CliTypes
    <3> QED BY <1>1, <1>2, <2>1, <2>3, <3>1 DEF Calls, TypeOK
  <2>5. Flight(r)'
    BY <1>1, <2>1, <2>2, <2>3, <2>4 DEF Flight, Calls
  <2> QED
    BY <2>1, <2>2, <2>3, <2>4, <2>5, ServesKeeps DEF Calls
<1>4. CASE Recheck(r)
  <2>1. pc[r] = "recheck" /\ Goto(r, "rotate") /\ UNCHANGED <<code, row, revoked, held, faults>>
    BY <1>1, <1>4 DEF Recheck, RevokedMeanwhile, Flight, Calls
  <2>2. /\ CliTypes' /\ loc' = loc /\ pc'[r] = "rotate"
        /\ \A s \in Requests \ {r} : pc'[s] = pc[s]
    BY <1>1, <1>2, <2>1 DEF Calls, TypeOK, CliInv, CliTypes
  <2>3. Flight(r)'
    BY <1>1, <2>1, <2>2 DEF Flight, Calls
  <2> QED
    BY <2>1, <2>2, <2>3, ServesKeeps DEF Calls
<1>5. CASE Rotate(r)
  <2> DEFINE t == loc[r].token
             n == [row[t] EXCEPT !.revoked = "fresh", !.next = r]
  <2>1. pc[r] = "rotate" /\ Goto(r, "respond") /\ UNCHANGED <<code, revoked, held, faults>>
    BY <1>5 DEF Rotate
  <2>2. t \in held /\ t \in Requests /\ row[t] \in RowType /\ row[t] # None
    BY <1>1, <2>1 DEF CliInv, CliTypes, TypeOK, Flight, Calls
  <2>3. row' = [row EXCEPT ![t] = n]
    BY <1>1, <1>5, <2>2 DEF Rotate, TypeOK
  <2>4. n \in RowType /\ n # None /\ n.revoked = "fresh" /\ ~n.expired
    BY <2>2 DEF RowType, Ages, ConstantsAssumption, CliInv, CliTypes
  <2> HIDE DEF n
  <2>5. row' \in [Requests -> RowType \cup {None}] /\ row'[t] = n
        /\ \A s \in Requests \ {t} : row'[s] = row[s]
    BY <1>1, <2>2, <2>3, <2>4 DEF TypeOK
  <2>6. /\ CliTypes' /\ loc' = loc /\ pc'[r] = "respond"
        /\ \A s \in Requests \ {r} : pc'[s] = pc[s]
    <3>1. \A s \in Requests : row'[s] # None => ~row'[s].expired
      BY <2>4, <2>5 DEF CliInv, CliTypes
    <3> QED BY <1>1, <1>2, <2>1, <2>5, <3>1 DEF Calls, TypeOK
  <2>7. t # r
    BY <2>1, <2>2 DEF CliInv, Flight
  <2>8. Flight(r)'
    BY <1>1, <2>1, <2>2, <2>5, <2>6, <2>7 DEF Flight, Calls
  <2> QED
    BY <2>1, <2>4, <2>5, <2>6, <2>7, <2>8, ServesKeeps DEF Calls
<1>6. CASE Respond(r)
  <2>1. pc[r] = "respond" /\ Goto(r, "done") /\ held' = held \cup {r}
        /\ UNCHANGED <<code, row, revoked, faults>>
    BY <1>6 DEF Respond
  <2>2. /\ CliTypes' /\ loc' = loc /\ pc'[r] = "done"
        /\ \A s \in Requests \ {r} : pc'[s] = pc[s]
    BY <1>1, <1>2, <2>1 DEF TypeOK, CliInv, CliTypes
  <2>3. Flight(r)'
    BY <1>1, <2>1, <2>2 DEF Flight, Calls
  <2> QED
    BY <2>1, <2>2, <2>3, ServesKeeps DEF Calls
<1>7. CASE LookUp(r)
  <2>1. pc[r] = "known" /\ UNCHANGED <<code, row, revoked, held, faults>>
    BY <1>7 DEF LookUp
  <2>2. Spared(loc[r].token)
    <3>1. PICK c \in Commands : cmd[c].at \in Awaiting /\ cmd[c].request = r
      BY <1>1, <2>1 DEF Flight, Calls
    <3>2. cmd[c].token = loc[r].token /\ row[cmd[c].token].revoked # "stale"
      BY <3>1 DEF CliInv, Waits, Owned, Busy, Awaiting, Idle
    <3>3. loc[r].token \in Requests /\ row[loc[r].token] # None /\ row[loc[r].token].revoked # "no"
      BY <1>1, <2>1 DEF CliInv, CliTypes, TypeOK, Flight, Calls
    <3>4. row[loc[r].token].revoked \in Ages
      BY <1>1, <3>3 DEF TypeOK, RowType
    <3> QED
      BY <3>2, <3>3, <3>4 DEF Spared, Ages
  <2>3. Goto(r, "done")
    BY <1>7, <2>2 DEF LookUp
  <2>4. /\ CliTypes' /\ loc' = loc /\ pc'[r] = "done"
        /\ \A s \in Requests \ {r} : pc'[s] = pc[s]
    BY <1>1, <1>2, <2>1, <2>3 DEF TypeOK, CliInv, CliTypes
  <2>5. Flight(r)'
    BY <1>1, <2>1, <2>4 DEF Flight, Calls
  <2> QED
    BY <2>1, <2>4, <2>5, ServesKeeps DEF Calls
<1>8. ~ VerifySave(r) /\ ~ Consume(r) /\ ~ Undo(r) /\ ~ Record(r) /\ ~ Bulk(r)
  BY <1>1 DEF VerifySave, Consume, Undo, Record, Bulk, Calls
<1> QED
  BY <1>3, <1>4, <1>5, <1>6, <1>7, <1>8 DEF Step

\* The grace of a token passes when no command goes on with it: it is not the profile's.
LEMMA AgeServes ==
    ASSUME ConstantsAssumption, CliInv, NEW t \in Requests, InTime(t), Age(t),
           UNCHANGED <<profile, cmd>>
    PROVE  CliInv'
<1> DEFINE n == [row[t] EXCEPT !.revoked = "stale"]
<1>1. row[t] # None /\ row[t].revoked = "fresh" /\ row' = [row EXCEPT ![t] = n]
      /\ UNCHANGED <<code, revoked, held, pc, loc, faults>>
  BY DEF Age, Rows
<1>2. row[t] \in RowType /\ TypeOK
  BY <1>1 DEF CliInv, CliTypes, TypeOK
<1>3. n \in RowType /\ n # None /\ n.revoked = "stale" /\ ~n.expired
  BY <1>1, <1>2 DEF RowType, Ages, ConstantsAssumption, CliInv, CliTypes
<1> HIDE DEF n
<1>4. row' \in [Requests -> RowType \cup {None}] /\ row'[t] = n
      /\ \A s \in Requests \ {t} : row'[s] = row[s]
  BY <1>1, <1>2, <1>3 DEF TypeOK
<1>5. CliTypes'
  BY <1>1, <1>3, <1>4 DEF CliInv, CliTypes, TypeOK
<1>6. profile # t
  <2>1. profile = t => \E c \in Commands : Replaces(c)
    BY <1>1 DEF CliInv, GoesOn
  <2> QED
    BY <2>1 DEF Replaces, InTime, Busy, Awaiting
<1>7. GoesOn'
  <2>1. profile \in Requests /\ row'[profile] = row[profile]
    BY <1>4, <1>6 DEF CliInv, CliTypes, TypeOK
  <2>2. \A c \in Commands : Replaces(c) => Replaces(c)'
    BY <1>1 DEF Replaces
  <2> QED
    BY <2>1, <2>2 DEF CliInv, GoesOn
<1>8. ASSUME NEW s \in Requests PROVE Flight(s)'
  <2>1. (row'[s] = None) = (row[s] = None)
    BY <1>1, <1>3, <1>4
  <2>2. pc[s] = "known" => row'[loc[s].token].revoked # "no"
    BY <1>3, <1>4 DEF CliInv, CliTypes, TypeOK, Flight, Calls
  <2> QED
    BY <1>1, <2>1, <2>2 DEF CliInv, Flight
<1>9. ASSUME NEW c \in Commands PROVE Waits(c)'
  <2>1. cmd[c].token \in Requests /\ cmd[c].request \in Requests
    BY DEF CliInv, CliTypes, CmdType
  <2>2. cmd[c].at \notin Idle => row'[cmd[c].token].revoked # "stale"
    <3>1. cmd[c].at \notin Idle => cmd[c].token # t
      BY DEF InTime, Idle
    <3> QED
      BY <1>4, <2>1, <3>1 DEF CliInv, Waits
  <2>3. cmd[c].at \in Busy => Owned(c, cmd[c].request)'
    <3>1. cmd[c].at \in Busy => Owned(c, cmd[c].request)
      BY DEF CliInv, Waits
    <3>2. Owned(c, cmd[c].request) => cmd[c].request # t
      BY <1>1 DEF Owned
    <3>3. Owned(c, cmd[c].request) => Unseen(cmd[c].request)'
      BY <1>1 DEF Owned, Unseen
    <3> QED
      BY <1>1, <1>4, <2>1, <3>1, <3>2, <3>3 DEF Owned
  <2> QED
    BY <2>2, <2>3 DEF Waits
<1> QED
  BY <1>5, <1>7, <1>8, <1>9 DEF CliInv

LEMMA CliNextInv ==
    ASSUME ConstantsAssumption, CliAssumption, CliInv, [CliNext]_cliVars
    PROVE  CliInv'
<1>1. CASE UNCHANGED cliVars
  <2>1. UNCHANGED <<code, row, revoked, held, pc, loc, faults, profile, cmd>>
    BY <1>1 DEF cliVars, vars
  <2>2. CliTypes'
    BY <2>1 DEF CliInv, CliTypes, TypeOK
  <2>3. GoesOn'
    BY <2>1 DEF CliInv, GoesOn, Replaces
  <2>4. \A r \in Requests : Flight(r)'
    BY <2>1 DEF CliInv, Flight
  <2>5. \A c \in Commands : Waits(c)'
    BY <2>1 DEF CliInv, Waits, Owned, Unseen
  <2> QED
    BY <2>2, <2>3, <2>4, <2>5 DEF CliInv
<1>2. CASE \E c \in Commands : \/ Load(c) \/ Answer(c) \/ Store(c) \/ Reread(c)
                              \/ \E r \in Requests : Refresh(c, r)
  BY <1>2, LoadKeeps, AnswerKeeps, StoreKeeps, RereadKeeps, RefreshKeeps
<1>3. CASE /\ \/ \E r \in Requests : Step(r)
              \/ \E t \in Requests : InTime(t) /\ Age(t)
           /\ UNCHANGED <<profile, cmd>>
  BY <1>3, StepServes, AgeServes
<1> QED
  BY <1>1, <1>2, <1>3 DEF CliNext

\* With nobody about to store a token, the profile's is live.
LEMMA CliInvLives == CliInv => StoredTokenLives
  BY DEF CliInv, CliTypes, GoesOn, Replaces, StoredTokenLives, AtRest, Active, Busy,
         Awaiting, Flight, TypeOK

(* However many commands share the profile and refresh its token at once, when all have
   ended it holds a live token: whoever replaces the profile's token is the one to store
   the next, and nobody has seen that one before (refresh.ts:49-63). *)
THEOREM ProfileStaysLive ==
    ASSUME ConstantsAssumption, CliAssumption PROVE CliSpec => []StoredTokenLives
<1>1. CliInit => CliInv
  BY CliInitInv
<1>2. CliInv /\ [CliNext]_cliVars => CliInv'
  BY CliNextInv
<1> QED
  BY <1>1, <1>2, CliInvLives, PTL DEF CliSpec

(* A client whose commands end in time never loses its session to reuse detection,
   however they race: no family is ever revoked (oauth.ts:311-331). *)
THEOREM SessionSurvives ==
    ASSUME ConstantsAssumption, CliAssumption PROVE CliSpec => [](revoked = {})
<1>1. CliInit => CliInv
  BY CliInitInv
<1>2. CliInv /\ [CliNext]_cliVars => CliInv'
  BY CliNextInv
<1>3. CliInv => revoked = {}
  BY DEF CliInv, CliTypes
<1> QED
  BY <1>1, <1>2, <1>3, PTL DEF CliSpec

=============================================================================
