------------------------ MODULE AuthRegistrationProofs ------------------------
(***************************************************************************)
(* Proofs about AuthRegistration, for any number of sign-ins, submissions, *)
(* logouts and approvals, whatever the registration mode is read as.       *)
(***************************************************************************)
EXTENDS AuthRegistration, TLAPS

AuthLabels == {"start", "row", "gate", "fresh", "reissue", "revive", "marker", "claim", "home",
               "markdone", "done", "dead"}

\* Where a submission is that works on the row it has leased.
Submitting == {"marker", "reserve", "create", "link", "remove", "mark", "approve", "finalize",
               "activate", "after", "revert", "reload", "claim", "home", "markdone", "final"}

ApproverLabels == {"start", "claim", "home", "markdone", "legacy", "done", "dead"}

\* Where a submission has linked its account, and where it has made the marker.
Marked == {"approve", "finalize", "activate", "after", "revert", "reload", "claim", "home", "markdone"}
Linked == Marked \cup {"mark"}

\* No administrator has decided anything.
Calm == \A p \in Approvers : pc[p] = "start"

\* Each kind of process keeps to its steps, has an answer at the end, and a user in between.
Placed(p) ==
    /\ p \in Auths => pc[p] \in AuthLabels
    /\ p \in Submits => pc[p] \in Submitting \cup {"start", "resume", "release", "done", "dead"}
    /\ p \in Approvers => pc[p] \in ApproverLabels
    /\ pc[p] \notin {"release", "done"} => loc[p].answer = "none"
    /\ p \in Submits /\ pc[p] \in Submitting \ {"marker", "reserve", "final"} => loc[p].user # None
    /\ p \notin Submits /\ pc[p] \in {"marker", "claim", "home", "markdone", "legacy"} => loc[p].user # None

\* Only a row that somebody may still register with has a user or a lease.
RowSound ==
    row # None =>
        /\ row.state = "PENDING" => row.user = None /\ row.lease = None
        /\ row.state = "CANCELLED" => row.lease = None

\* Who holds the lease works on the row that is there, for the user it has.
LeaseSound(s) ==
    pc[s] \in Submitting /\ Holds(s) => loc[s].gen = sweeps /\ row.user = loc[s].user

\* A candidate account that anybody knows of was reserved by its submission.
Past(u) ==
    /\ pc[u] \notin {"start", "resume", "reserve"}
    /\ pc[u] = "marker" => loc[u].user # None

UserSound(u) ==
    /\ (row # None /\ row.user = u) \/ (\E s \in Submits : loc[s].user = u) => Past(u)
    /\ row # None /\ row.user = u =>
         \A s \in Submits : pc[s] \in Submitting /\ loc[s].user = u => loc[s].gen = sweeps

\* A submission that was cut off has lost the lease for good.
CutSound(s) ==
    /\ pc[s] \in Undecided \cup {"remove", "release", "done", "dead"}
    /\ loc[s].answer \notin {"active", "approval"}
    /\ row = None \/ row.lease # s

\* Before a row is deleted there is one account at most, the one that is reserved.
OneAccount ==
    sweeps = 0 =>
        /\ \A s \in Submits : loc[s].user # None => row # None /\ row.user = loc[s].user
        /\ \A u \in Submits : status[u] # "none" => row # None /\ row.user = u

\* An account that is linked stays; who has linked it has made its marker.
LinkSound(s) ==
    /\ pc[s] = "remove" => identity \notin {None, loc[s].user}
    /\ pc[s] = "link" /\ identity \in {None, loc[s].user} => status[loc[s].user] # "none"
    /\ pc[s] \in Linked => identity = loc[s].user
    /\ pc[s] \in Marked => marker[loc[s].user] # "none"
    /\ pc[s] = "markdone" => loc[s].user \in homes

\* A sign-in works for the linked account.
SignInSound(a) ==
    /\ pc[a] \in {"marker", "claim", "home", "markdone"} => identity = loc[a].user
    /\ pc[a] = "marker" /\ Calm => marker[loc[a].user] # "none"
    /\ pc[a] = "markdone" => loc[a].user \in homes
    /\ loc[a].answer = "active" => identity # None

HomesSound ==
    /\ identity \in Submits => status[identity] # "none"
    /\ Calm => \A u \in Submits : /\ marker[u] = "done" => u \in homes
                                  /\ status[u] = "active" => marker[u] # "none"

\* An account that became active behind a logout has somebody to take it back.
TakesBack(p) ==
    \/ p \in Submits /\ pc[p] \in {"after", "revert"} /\ loc[p].mine /\ loc[p].user = row.user
    \/ pc[p] = "dead"
    \/ p \in Approvers /\ pc[p] # "start"

LogoutSound ==
    row # None /\ row.state = "CANCELLED" /\ early /\ row.user # None
      /\ status[row.user] = "active" => \E p \in Procs : TakesBack(p)

Inv ==
    /\ TypeOK /\ RowSound /\ OneAccount /\ HomesSound /\ LogoutSound
    /\ NoSelfConflict /\ SignedInHasHome
    /\ \A p \in Procs : Placed(p)
    /\ \A s \in Submits : LeaseSound(s) /\ UserSound(s) /\ LinkSound(s)
    /\ \A s \in cut : CutSound(s)
    /\ \A a \in Auths : SignInSound(a)

-----------------------------------------------------------------------------
(* The invariant at first, and what the names of processes give. *)

LEMMA Kinds ==
    ASSUME ConstantsAssumption
    PROVE  /\ Auths \subseteq Procs /\ Submits \subseteq Procs /\ Approvers \subseteq Procs
           /\ Auths \cap Submits = {} /\ Auths \cap Approvers = {} /\ Submits \cap Approvers = {}
           /\ Rival \notin Procs /\ None \notin Procs /\ Rival # None /\ None \notin RowType
           /\ NoLoc \in LocType
  BY DEF ConstantsAssumption, Procs, NoLoc, LocType

LEMMA InitInv == ASSUME ConstantsAssumption, Init PROVE Inv
<1>1. TypeOK
  BY Kinds DEF Init, TypeOK, Labels
<1>2. /\ row = None /\ identity = None /\ cut = {} /\ early = FALSE /\ homes = {}
      /\ \A s \in Submits : status[s] = "none" /\ marker[s] = "none"
      /\ \A p \in Procs : pc[p] = "start" /\ loc[p] = NoLoc
  BY DEF Init
<1>3. \A p \in Procs : loc[p].user = None /\ loc[p].answer = "none"
  BY <1>2 DEF NoLoc
<1>4. RowSound /\ OneAccount /\ HomesSound /\ LogoutSound
  BY <1>2, <1>3, Kinds DEF RowSound, OneAccount, HomesSound, LogoutSound
<1>5. NoSelfConflict /\ SignedInHasHome
  BY <1>3, Kinds DEF NoSelfConflict, SignedInHasHome
<1>6. ASSUME NEW p \in Procs PROVE Placed(p)
  BY <1>2, <1>3 DEF Placed, AuthLabels, Submitting, ApproverLabels
<1>7. ASSUME NEW s \in Submits PROVE LeaseSound(s) /\ UserSound(s) /\ LinkSound(s)
  BY <1>2, <1>3, Kinds DEF LeaseSound, Holds, UserSound, LinkSound, Linked, Marked
<1>8. ASSUME NEW a \in Auths PROVE SignInSound(a)
  BY <1>2, <1>3, Kinds DEF SignInSound
<1> QED
  BY <1>1, <1>2, <1>4, <1>5, <1>6, <1>7, <1>8 DEF Inv

-----------------------------------------------------------------------------
(* What a step of one process leaves the others. *)

\* The account the row has reserved.
Owner == IF row = None THEN None ELSE row.user

\* The row stays; it gets an owner once, from the holder of its lease; nobody else gets the lease.
RowRel(p) ==
    /\ sweeps' = sweeps /\ (row # None => row' # None) /\ RowSound'
    /\ \A s \in Submits \ {p} : Holds(s)' => Holds(s)
    /\ Owner' # Owner => p \in Submits /\ Owner = None /\ Owner' = p /\ pc[p] = "reserve" /\ Holds(p)'

\* A link, a marker and a page stay, and so does an account that is or may be linked.
AccountRel(p) ==
    /\ identity' # identity => identity = None /\ p \in Submits /\ pc[p] = "link" /\ identity' = loc[p].user
    /\ homes \subseteq homes'
    /\ \A u \in Submits :
         /\ marker[u] # "none" => marker'[u] # "none"
         /\ marker'[u] = "done" => marker[u] = "done" \/ u \in homes' \/ ~Calm'
         /\ status[u] # "none" /\ identity \in {None, u} => status'[u] # "none"
         /\ status'[u] = "active" => status[u] = "active" \/ marker[u] # "none" \/ ~Calm'
         /\ sweeps = 0 /\ status'[u] # "none" => status[u] # "none" \/ Owner = u

\* A cancelled row stays, and an account becomes active behind it only if it is taken back.
LogoutRel(p) ==
    /\ early' = early /\ cut' = cut
    /\ row' # None /\ row'.state = "CANCELLED" => row' = row
    /\ row # None /\ row.state = "CANCELLED" /\ row.user # None /\ status'[row.user] = "active" =>
         /\ status[row.user] = "active" \/ TakesBack(p)'
         /\ TakesBack(p) => TakesBack(p)'

\* What the process that moves owes itself.
SelfSound(p) ==
    /\ Placed(p)'
    /\ p \in cut => CutSound(p)'
    /\ p \in Submits =>
         /\ LeaseSound(p)' /\ LinkSound(p)' /\ (sweeps = 0 => loc'[p].answer # "conflict")
         /\ loc'[p].user \in {None, loc[p].user, Owner, Owner'}
         /\ Past(p) \/ Owner' = p => Past(p)'
         /\ pc'[p] \in Submitting /\ loc'[p].user # None /\ loc'[p].user = Owner' => loc'[p].gen = sweeps
    /\ p \in Auths =>
         /\ SignInSound(p)'
         /\ loc'[p].answer = "active" /\ identity' \in Submits /\ Calm' => identity' \in homes'

LEMMA RowSame ==
    ASSUME Inv, NEW p \in Procs, UNCHANGED <<row, sweeps>>
    PROVE  RowRel(p) /\ Owner' = Owner
<1>1. Owner' = Owner
  BY DEF Owner
<1>2. RowSound'
  BY DEF Inv, RowSound
<1>3. \A s \in Submits : Holds(s)' => Holds(s)
  BY DEF Holds
<1>4. sweeps' = sweeps /\ (row # None => row' # None)
  OBVIOUS
<1>5. RowRel(p)
  BY <1>1, <1>2, <1>4 DEF RowRel, Holds
<1> QED
  BY <1>1, <1>5

LEMMA AccountsSame ==
    ASSUME NEW p \in Procs, UNCHANGED Accounts
    PROVE  AccountRel(p)
  BY DEF AccountRel, Accounts

LEMMA Lands ==
    ASSUME Inv, NEW p \in Procs, NEW l, NEW x, Move(p, l, x)
    PROVE  /\ pc'[p] = l /\ loc'[p] = x
           /\ \A q \in Procs \ {p} : pc'[q] = pc[q] /\ loc'[q] = loc[q]
  BY DEF Inv, TypeOK, Move

\* Nobody makes an administrator's decision undone.
LEMMA CalmBefore ==
    ASSUME Inv, ConstantsAssumption, NEW p \in Procs, NEW l, NEW x, Move(p, l, x), p \in Approvers => l # "start"
    PROVE  Calm' => Calm
<1>1. pc'[p] = l /\ \A q \in Procs \ {p} : pc'[q] = pc[q]
  BY Lands
<1> QED
  BY <1>1, Kinds DEF Calm

-----------------------------------------------------------------------------
(* What a step of one process keeps. *)

LEMMA KeepsRow ==
    ASSUME Inv, ConstantsAssumption, NEW p \in Procs, NEW l \in Labels, NEW x \in LocType,
           Move(p, l, x), TypeOK', RowRel(p), cut' = cut, SelfSound(p)
    PROVE  /\ \A s \in Submits : LeaseSound(s)' /\ UserSound(s)'
           /\ \A s \in cut' : CutSound(s)'
           /\ NoSelfConflict'
<1>1. /\ pc'[p] = l /\ loc'[p] = x /\ sweeps' = sweeps
      /\ \A q \in Procs \ {p} : pc'[q] = pc[q] /\ loc'[q] = loc[q]
  BY Lands DEF RowRel
<1>2. Submits \subseteq Procs /\ cut \subseteq Submits /\ None \notin Procs
  BY Kinds DEF Inv, TypeOK
<1>3. ASSUME NEW s \in Submits PROVE LeaseSound(s)'
  <2>1. CASE s = p
    BY <2>1 DEF SelfSound
  <2>2. CASE s # p
    <3>1. SUFFICES ASSUME pc[s] \in Submitting, Holds(s)'
                   PROVE  loc[s].gen = sweeps /\ row'.user = loc[s].user
      BY <1>1, <1>2, <2>2 DEF LeaseSound
    <3>2. Holds(s) /\ loc[s].gen = sweeps /\ row.user = loc[s].user
      BY <2>2, <3>1 DEF RowRel, Inv, LeaseSound
    <3>3. ~Holds(p)'
      BY <2>2, <3>1 DEF Holds
    <3>4. Owner' = Owner
      BY <3>3 DEF RowRel
    <3> QED
      BY <3>1, <3>2, <3>4 DEF Owner, Holds
  <2> QED
    BY <2>1, <2>2
<1>4. ASSUME NEW u \in Submits PROVE UserSound(u)'
  <2>1. u # None /\ UserSound(u)
    BY <1>2 DEF Inv
  <2>2. /\ (row # None /\ row.user = u) <=> Owner = u
        /\ (row' # None /\ row'.user = u) <=> Owner' = u
    BY <2>1 DEF Owner
  <2>3. Past(u) => Past(u)'
    <3>1. CASE u = p
      BY <3>1 DEF SelfSound
    <3>2. CASE u # p
      BY <1>1, <1>2, <3>2 DEF Past
    <3> QED
      BY <3>1, <3>2
  <2>4. Owner' = u => Past(u)'
    <3>1. Owner' # Owner => Owner' = p
      BY DEF RowRel
    <3> QED
      BY <2>1, <2>2, <2>3, <3>1 DEF UserSound, SelfSound
  <2>5. ASSUME NEW s \in Submits, loc'[s].user = u PROVE Past(u)'
    <3>1. CASE s = p
      <4>1. loc[p].user = u \/ Owner = u \/ Owner' = u
        BY <1>2, <2>1, <2>5, <3>1 DEF SelfSound
      <4> QED
        BY <2>1, <2>2, <2>3, <2>4, <3>1, <4>1 DEF UserSound
    <3>2. CASE s # p
      BY <1>1, <1>2, <2>1, <2>3, <2>5, <3>2 DEF UserSound
    <3> QED
      BY <3>1, <3>2
  <2>6. ASSUME NEW s \in Submits, Owner' = u, pc'[s] \in Submitting, loc'[s].user = u
        PROVE  loc'[s].gen = sweeps
    <3>1. CASE s = p
      BY <2>1, <2>6, <3>1 DEF SelfSound
    <3>2. CASE s # p
      <4>1. pc[s] \in Submitting /\ loc[s].user = u
        BY <1>1, <1>2, <2>6, <3>2
      <4>2. Past(u)
        BY <2>1, <4>1 DEF UserSound
      <4>3. Owner = u
        BY <2>6, <4>2 DEF RowRel, Past
      <4> QED
        BY <1>1, <1>2, <2>1, <2>2, <3>2, <4>1, <4>3 DEF UserSound
    <3> QED
      BY <3>1, <3>2
  <2> QED
    BY <1>1, <2>2, <2>4, <2>5, <2>6 DEF UserSound
<1>5. ASSUME NEW s \in cut PROVE CutSound(s)'
  <2>1. CASE s = p
    BY <1>5, <2>1 DEF SelfSound
  <2>2. CASE s # p
    <3>1. Holds(s)' => Holds(s)
      BY <1>2, <2>2 DEF RowRel
    <3> QED
      BY <1>1, <1>2, <2>2, <3>1 DEF Inv, CutSound, Holds
  <2> QED
    BY <2>1, <2>2
<1>6. NoSelfConflict'
  BY <1>1, <1>2 DEF Inv, NoSelfConflict, SelfSound
<1> QED
  BY <1>3, <1>4, <1>5, <1>6

LEMMA KeepsAccounts ==
    ASSUME Inv, ConstantsAssumption, NEW p \in Procs, NEW l \in Labels, NEW x \in LocType,
           Move(p, l, x), TypeOK', AccountRel(p), SelfSound(p), p \in Approvers => l # "start"
    PROVE  /\ \A s \in Submits : LinkSound(s)'
           /\ \A a \in Auths : SignInSound(a)'
           /\ HomesSound' /\ SignedInHasHome'
<1>1. /\ pc'[p] = l /\ loc'[p] = x
      /\ \A q \in Procs \ {p} : pc'[q] = pc[q] /\ loc'[q] = loc[q]
  BY Lands
<1>2. Submits \subseteq Procs /\ Auths \subseteq Procs /\ None \notin Procs /\ (Calm' => Calm)
  BY Kinds, CalmBefore
<1>3. /\ identity' # identity => identity = None /\ p \in Submits /\ pc[p] = "link" /\ identity' = loc[p].user
      /\ homes \subseteq homes'
      /\ \A u \in Submits :
           /\ marker[u] # "none" => marker'[u] # "none"
           /\ marker'[u] = "done" => marker[u] = "done" \/ u \in homes' \/ ~Calm'
           /\ status[u] # "none" /\ identity \in {None, u} => status'[u] # "none"
           /\ status'[u] = "active" => status[u] = "active" \/ marker[u] # "none" \/ ~Calm'
  BY DEF AccountRel
<1>4. \A q \in Procs : Placed(q) /\ loc[q] \in LocType
  BY DEF Inv, TypeOK
<1>5. ASSUME NEW s \in Submits, s # p PROVE LinkSound(s)'
  <2>1. pc'[s] = pc[s] /\ loc'[s] = loc[s] /\ LinkSound(s)
    BY <1>1, <1>2, <1>5 DEF Inv
  <2>2. pc[s] \in Linked \cup {"link"} => loc[s].user \in Submits
    BY <1>2, <1>4 DEF Placed, Linked, Marked, Submitting, LocType
  <2>3. pc[s] \in Marked \cup {"markdone"} => pc[s] \in Linked
    BY DEF Linked, Marked
  <2> QED
    BY <1>2, <1>3, <2>1, <2>2, <2>3 DEF LinkSound
<1>6. ASSUME NEW a \in Auths, a # p PROVE SignInSound(a)'
  <2>1. pc'[a] = pc[a] /\ loc'[a] = loc[a] /\ SignInSound(a)
    BY <1>1, <1>2, <1>6 DEF Inv
  <2>2. pc[a] \in {"marker", "claim", "home", "markdone"} => loc[a].user \in Submits
    BY <1>2, <1>4, Kinds DEF Placed, LocType
  <2> QED
    BY <1>2, <1>3, <2>1, <2>2 DEF SignInSound
<1>7. HomesSound'
  <2>1. ASSUME identity' \in Submits PROVE status'[identity'] # "none"
    <3>1. CASE identity' = identity
      BY <1>3, <2>1, <3>1 DEF Inv, HomesSound
    <3>2. CASE identity' # identity
      BY <1>3, <2>1, <3>2 DEF Inv, LinkSound
    <3> QED
      BY <3>1, <3>2
  <2>2. ASSUME Calm', NEW u \in Submits
        PROVE  /\ marker'[u] = "done" => u \in homes'
               /\ status'[u] = "active" => marker'[u] # "none"
    BY <1>2, <1>3, <2>2 DEF Inv, HomesSound
  <2> QED
    BY <2>1, <2>2 DEF HomesSound
<1>8. SignedInHasHome'
  <2>1. SUFFICES ASSUME NEW a \in Auths, loc'[a].answer = "active", identity' \in Submits, Calm'
                 PROVE  identity' \in homes'
    BY DEF SignedInHasHome, Calm
  <2>2. CASE a = p
    BY <2>1, <2>2 DEF SelfSound
  <2>3. CASE a # p
    <3>1. loc[a].answer = "active" /\ identity # None
      BY <1>1, <1>2, <2>1, <2>3 DEF Inv, SignInSound
    <3> QED
      BY <1>2, <1>3, <2>1, <3>1 DEF Inv, SignedInHasHome, Calm
  <2> QED
    BY <2>2, <2>3
<1> QED
  BY <1>5, <1>6, <1>7, <1>8 DEF SelfSound

\* A step of one process keeps the invariant.
LEMMA MoveKeeps ==
    ASSUME Inv, ConstantsAssumption, NEW p \in Procs, NEW l \in Labels, NEW x \in LocType,
           Move(p, l, x), TypeOK', RowRel(p), AccountRel(p), LogoutRel(p), SelfSound(p),
           p \in Approvers => l # "start"
    PROVE  Inv'
<1>1. /\ pc'[p] = l /\ loc'[p] = x /\ early' = early /\ cut' = cut
      /\ \A q \in Procs \ {p} : pc'[q] = pc[q] /\ loc'[q] = loc[q]
  BY Lands DEF LogoutRel
<1>2. Submits \subseteq Procs
  BY Kinds
<1>3. \A q \in Procs : Placed(q)'
  BY <1>1 DEF Inv, Placed, SelfSound
<1>4. OneAccount'
  <2>1. SUFFICES ASSUME sweeps = 0
                 PROVE  /\ \A s \in Submits : loc'[s].user # None => Owner' = loc'[s].user
                        /\ \A u \in Submits : status'[u] # "none" => Owner' = u
    BY Kinds DEF OneAccount, Owner, RowRel
  <2>2. /\ \A s \in Submits : loc[s].user # None => Owner = loc[s].user
        /\ \A u \in Submits : status[u] # "none" => Owner = u
    BY <2>1 DEF Inv, OneAccount, Owner
  <2>3. Owner # None => Owner' = Owner
    BY DEF RowRel
  <2>4. ASSUME NEW s \in Submits, loc'[s].user # None PROVE Owner' = loc'[s].user
    <3>1. CASE s = p
      BY <2>2, <2>3, <2>4, <3>1 DEF SelfSound
    <3>2. CASE s # p
      BY <1>1, <1>2, <2>2, <2>3, <2>4, <3>2
    <3> QED
      BY <3>1, <3>2
  <2>5. ASSUME NEW u \in Submits, status'[u] # "none" PROVE Owner' = u
    <3>1. Owner = u /\ u # None
      BY <2>1, <2>2, <2>5, Kinds DEF AccountRel
    <3> QED
      BY <2>3, <3>1
  <2> QED
    BY <2>4, <2>5
<1>5. LogoutSound'
  <2>1. SUFFICES ASSUME row' # None, row'.state = "CANCELLED", early', row'.user # None,
                        status'[row'.user] = "active"
                 PROVE  \E q \in Procs : TakesBack(q)'
    BY DEF LogoutSound
  <2>2. row' = row /\ (status[row.user] = "active" \/ TakesBack(p)') /\ (TakesBack(p) => TakesBack(p)')
    BY <2>1 DEF LogoutRel
  <2>3. CASE status[row.user] = "active"
    <3>1. PICK q \in Procs : TakesBack(q)
      BY <1>1, <2>1, <2>2, <2>3 DEF Inv, LogoutSound
    <3>2. CASE q = p
      BY <2>2, <3>1, <3>2
    <3>3. CASE q # p
      BY <1>1, <2>2, <3>1, <3>3 DEF TakesBack
    <3> QED
      BY <3>2, <3>3
  <2> QED
    BY <2>2, <2>3
<1>6. RowSound'
  BY DEF RowRel
<1> QED
  BY <1>1, <1>3, <1>4, <1>5, <1>6, KeepsRow, KeepsAccounts DEF Inv

-----------------------------------------------------------------------------
(* Sign-ins. *)

LEMMA TypeMoves ==
    ASSUME Inv, NEW p \in Procs, NEW l \in Labels, NEW x \in LocType, Move(p, l, x),
           row' \in RowType \cup {None}, grants' \subseteq Auths, homes' \subseteq Submits,
           status' \in [Submits -> {"none", "registered", "active"}],
           identity' \in Submits \cup {Rival, None},
           marker' \in [Submits -> {"none", "pending", "running", "lapsed", "done"}],
           UNCHANGED <<used, early, cut, sweeps>>, faults' \in Nat
    PROVE  TypeOK'
  BY DEF Inv, TypeOK, Move

\* What a sign-in owes itself.
AuthOwes(a, l, x) ==
    /\ x.answer # "none" => l = "done"
    /\ l \in {"marker", "claim", "home", "markdone"} => x.user # None /\ identity' = x.user
    /\ l = "marker" /\ Calm' => marker'[x.user] # "none"
    /\ l = "markdone" => x.user \in homes'
    /\ x.answer = "active" => identity' # None /\ (identity' \in Submits /\ Calm' => identity' \in homes')

LEMMA AuthSelf ==
    ASSUME Inv, ConstantsAssumption, NEW a \in Auths, NEW l \in AuthLabels, NEW x \in LocType,
           Move(a, l, x), AuthOwes(a, l, x)
    PROVE  SelfSound(a)
<1>1. pc'[a] = l /\ loc'[a] = x /\ a \in Procs /\ a \notin Submits /\ a \notin Approvers
      /\ a \notin cut
  BY Lands, Kinds DEF Inv, TypeOK
<1>2. Placed(a)'
  BY <1>1 DEF Placed, AuthOwes, AuthLabels
<1>3. SignInSound(a)'
  BY <1>1 DEF SignInSound, AuthOwes
<1> QED
  BY <1>1, <1>2, <1>3 DEF SelfSound, AuthOwes

LEMMA AuthMoves ==
    ASSUME Inv, ConstantsAssumption, NEW a \in Auths, NEW l \in AuthLabels, NEW x \in LocType,
           Move(a, l, x), pc[a] # "dead", AuthOwes(a, l, x), UNCHANGED <<Accounts, History>>,
           row' \in RowType \cup {None}, grants' \subseteq Auths, RowRel(a),
           row' # None /\ row'.state = "CANCELLED" => row' = row
    PROVE  Inv'
<1>1. a \in Procs /\ a \notin Approvers /\ a \notin Submits /\ l \in Labels
  BY Kinds DEF AuthLabels, Labels
<1>2. UNCHANGED <<status, identity, marker, homes, used, early, cut, sweeps, faults>>
  BY DEF Accounts, History
<1>3. TypeOK'
  BY <1>1, <1>2, TypeMoves DEF Inv, TypeOK
<1>4. AccountRel(a) /\ SelfSound(a)
  BY <1>1, AccountsSame, AuthSelf
<1>5. LogoutRel(a)
  BY <1>1, <1>2 DEF LogoutRel, TakesBack
<1> QED
  BY <1>1, <1>3, <1>4, <1>5, MoveKeeps

LEMMA AuthReads ==
    ASSUME Inv, ConstantsAssumption, NEW a \in Auths, NEW l \in AuthLabels, NEW x \in LocType,
           Move(a, l, x), pc[a] # "dead", AuthOwes(a, l, x), ReadOnly
    PROVE  Inv'
<1>1. UNCHANGED <<row, grants, sweeps>> /\ UNCHANGED <<Accounts, History>> /\ a \in Procs
  BY Kinds DEF ReadOnly, History
<1>2. row \in RowType \cup {None} /\ grants \subseteq Auths
  BY DEF Inv, TypeOK
<1> QED
  BY <1>1, <1>2, RowSame, AuthMoves

LEMMA StopOwes ==
    ASSUME ConstantsAssumption, NEW a \in {"none", "active", "approval", "conflict", "other"}
    PROVE  /\ [NoLoc EXCEPT !.answer = a] \in LocType
           /\ [NoLoc EXCEPT !.answer = a].answer = a
           /\ [NoLoc EXCEPT !.answer = a].user = None
           /\ \A u \in Submits : [NoLoc EXCEPT !.user = u] \in LocType
  BY Kinds DEF NoLoc, LocType

LEMMA IdentifyKeeps ==
    ASSUME Inv, ConstantsAssumption, NEW a \in Auths, Identify(a)
    PROVE  Inv'
<1>1. /\ pc[a] = "start" /\ ReadOnly /\ a \in Procs /\ loc[a] \in LocType /\ loc[a].answer = "none"
      /\ UNCHANGED <<status, identity, marker, homes>>
  BY Kinds DEF Identify, Inv, TypeOK, Placed, ReadOnly, Accounts
<1>2. ASSUME NEW l \in {"row", "fresh"}, Goto(a, l) PROVE Inv'
  <2>1. Move(a, l, loc[a]) /\ l \in AuthLabels /\ AuthOwes(a, l, loc[a])
    BY <1>1, <1>2 DEF Goto, AuthLabels, AuthOwes
  <2> QED
    BY <1>1, <2>1, AuthReads
<1>3. CASE identity = Rival /\ Stop(a, "active")
  <2> DEFINE x == [NoLoc EXCEPT !.answer = "active"]
  <2>1. Move(a, "done", x) /\ "done" \in AuthLabels
    BY <1>3 DEF Stop, AuthLabels
  <2>2. x \in LocType /\ x.answer = "active"
    BY StopOwes
  <2> HIDE DEF x
  <2>3. AuthOwes(a, "done", x)
    BY <1>1, <1>3, <2>2, Kinds DEF AuthOwes
  <2> QED
    BY <1>1, <2>1, <2>2, <2>3, AuthReads
<1>4. CASE Stop(a, "other")
  <2> DEFINE x == [NoLoc EXCEPT !.answer = "other"]
  <2>1. Move(a, "done", x) /\ "done" \in AuthLabels
    BY <1>4 DEF Stop, AuthLabels
  <2>2. x \in LocType /\ x.answer = "other"
    BY StopOwes
  <2> HIDE DEF x
  <2>3. AuthOwes(a, "done", x)
    BY <2>2 DEF AuthOwes
  <2> QED
    BY <1>1, <2>1, <2>2, <2>3, AuthReads
<1>5. CASE /\ identity \in Submits /\ status[identity] = "active"
           /\ Move(a, "marker", [NoLoc EXCEPT !.user = identity])
  <2> DEFINE x == [NoLoc EXCEPT !.user = identity]
  <2>1. x \in LocType /\ x.user = identity /\ x.answer = "none"
    BY <1>5, Kinds DEF NoLoc, LocType
  <2>2. Move(a, "marker", x) /\ "marker" \in AuthLabels
    BY <1>5 DEF AuthLabels
  <2> HIDE DEF x
  <2>3. Calm' => Calm
    BY <1>1, <2>2, CalmBefore, Kinds
  <2>4. AuthOwes(a, "marker", x)
    BY <1>1, <1>5, <2>1, <2>3, Kinds DEF AuthOwes, Inv, HomesSound
  <2> QED
    BY <1>1, <2>1, <2>2, <2>4, AuthReads
<1> QED
  BY <1>2, <1>3, <1>4, <1>5 DEF Identify

LEMMA AuthMarkerKeeps ==
    ASSUME Inv, ConstantsAssumption, NEW a \in Auths, AuthMarker(a)
    PROVE  Inv'
<1>1. /\ pc[a] = "marker" /\ ReadOnly /\ a \in Procs /\ loc[a] \in LocType /\ loc[a].answer = "none"
      /\ UNCHANGED <<status, identity, marker, homes>>
      /\ loc[a].user \in Submits /\ identity = loc[a].user
      /\ (Calm => marker[loc[a].user] # "none")
  BY Kinds DEF AuthMarker, Inv, TypeOK, Placed, SignInSound, ReadOnly, Accounts, LocType
<1>2. CASE marker[loc[a].user] \in {"none", "done"} /\ Stop(a, "active")
  <2> DEFINE x == [NoLoc EXCEPT !.answer = "active"]
  <2>1. Move(a, "done", x) /\ "done" \in AuthLabels
    BY <1>2 DEF Stop, AuthLabels
  <2>2. x \in LocType /\ x.answer = "active"
    BY StopOwes
  <2> HIDE DEF x
  <2>3. Calm' => Calm
    BY <1>1, <2>1, CalmBefore, Kinds
  <2>4. AuthOwes(a, "done", x)
    BY <1>1, <1>2, <2>2, <2>3, Kinds DEF AuthOwes, Inv, HomesSound
  <2> QED
    BY <1>1, <2>1, <2>2, <2>4, AuthReads
<1>3. CASE Goto(a, "claim")
  <2>1. Move(a, "claim", loc[a]) /\ "claim" \in AuthLabels /\ AuthOwes(a, "claim", loc[a])
    BY <1>1, <1>3, Kinds DEF Goto, AuthLabels, AuthOwes
  <2> QED
    BY <1>1, <2>1, AuthReads
<1> QED
  BY <1>2, <1>3 DEF AuthMarker

LEMMA LooksKeep ==
    ASSUME Inv, ConstantsAssumption, NEW a \in Auths, LookRow(a) \/ Gate(a)
    PROVE  Inv'
<1>1. /\ pc[a] \in {"row", "gate"} /\ ReadOnly /\ a \in Procs /\ loc[a] \in LocType
      /\ loc[a].answer = "none"
  BY Kinds DEF LookRow, Gate, Inv, TypeOK, Placed
<1>2. CASE Stop(a, "conflict")
  <2> DEFINE x == [NoLoc EXCEPT !.answer = "conflict"]
  <2>1. Move(a, "done", x) /\ "done" \in AuthLabels
    BY <1>2 DEF Stop, AuthLabels
  <2>2. x \in LocType /\ x.answer = "conflict"
    BY StopOwes
  <2> HIDE DEF x
  <2>3. AuthOwes(a, "done", x)
    BY <2>2 DEF AuthOwes
  <2> QED
    BY <1>1, <2>1, <2>2, <2>3, AuthReads
<1>3. ASSUME NEW l \in {"gate", "fresh"}, Goto(a, l) PROVE Inv'
  <2>1. Move(a, l, loc[a]) /\ l \in AuthLabels /\ AuthOwes(a, l, loc[a])
    BY <1>1, <1>3 DEF Goto, AuthLabels, AuthOwes
  <2> QED
    BY <1>1, <2>1, AuthReads
<1> QED
  BY <1>2, <1>3 DEF LookRow, Gate

\* A row that a sign-in opens, or opens again, keeps its owner and is nobody's to lease.
LEMMA MintKeeps ==
    ASSUME Inv, ConstantsAssumption, NEW a \in Auths, Stop(a, "other"), pc[a] # "dead",
           grants' = grants \cup {a}, UNCHANGED <<Accounts, History>>,
           row' \in RowType, row'.state # "CANCELLED", row'.user = Owner,
           row'.state = "PENDING" => Owner = None /\ row'.lease = None,
           \A s \in Submits : row'.lease = s => Holds(s)
    PROVE  Inv'
<1> DEFINE x == [NoLoc EXCEPT !.answer = "other"]
<1>1. Move(a, "done", x) /\ "done" \in AuthLabels /\ a \in Procs
  BY Kinds DEF Stop, AuthLabels
<1>2. x \in LocType /\ x.answer = "other"
  BY StopOwes
<1> HIDE DEF x
<1>3. AuthOwes(a, "done", x)
  BY <1>2 DEF AuthOwes
<1>4. row' # None
  BY Kinds
<1>5. Owner' = Owner
  BY <1>4 DEF Owner
<1>6. RowRel(a)
  <2>1. RowSound'
    BY DEF RowSound
  <2>2. sweeps' = sweeps
    BY DEF History
  <2>3. ASSUME NEW s \in Submits PROVE Holds(s)' => Holds(s)
    BY DEF Holds
  <2> QED
    BY <1>4, <1>5, <2>1, <2>2, <2>3 DEF RowRel
<1>7. grants' \subseteq Auths
  BY DEF Inv, TypeOK
<1> QED
  BY <1>1, <1>2, <1>3, <1>6, <1>7, AuthMoves

LEMMA IssueFreshKeeps ==
    ASSUME Inv, ConstantsAssumption, NEW a \in Auths, IssueFresh(a)
    PROVE  Inv'
<1>1. /\ pc[a] = "fresh" /\ a \in Procs /\ loc[a] \in LocType /\ loc[a].answer = "none"
      /\ UNCHANGED <<Accounts, History>>
  BY Kinds DEF IssueFresh, Inv, TypeOK, Placed
<1>2. CASE FreshEligible /\ Minted(a)
           /\ row' = [state |-> "PENDING", user |-> None, grant |-> a, lease |-> None,
                      live |-> FALSE, old |-> FALSE]
  <2>1. Owner = None
    BY <1>2 DEF FreshEligible, Owner, Inv, RowSound
  <2>2. row' \in RowType /\ row'.state = "PENDING" /\ row'.user = None /\ row'.lease = None
    BY <1>2 DEF RowType, States
  <2>3. \A s \in Submits : s # None
    BY Kinds
  <2> QED
    BY <1>1, <1>2, <2>1, <2>2, <2>3, MintKeeps DEF Minted
<1>3. CASE Goto(a, "reissue") /\ UNCHANGED <<row, grants>>
  <2>1. Move(a, "reissue", loc[a]) /\ "reissue" \in AuthLabels /\ AuthOwes(a, "reissue", loc[a])
    BY <1>1, <1>3 DEF Goto, AuthLabels, AuthOwes
  <2>2. ReadOnly
    BY <1>1, <1>3 DEF ReadOnly
  <2> QED
    BY <1>1, <2>1, <2>2, AuthReads
<1> QED
  BY <1>2, <1>3 DEF IssueFresh

LEMMA IssueAgainKeeps ==
    ASSUME Inv, ConstantsAssumption, NEW a \in Auths, IssueAgain(a)
    PROVE  Inv'
<1>1. /\ pc[a] = "reissue" /\ a \in Procs /\ loc[a] \in LocType /\ loc[a].answer = "none"
      /\ UNCHANGED <<Accounts, History>>
  BY Kinds DEF IssueAgain, Inv, TypeOK, Placed
<1>2. CASE row # None /\ row.state \in {"PROVISIONING", "ACTIVE", "APPROVAL_PENDING"} /\ Minted(a)
           /\ row' = [row EXCEPT !.grant = a, !.old = @ /\ row.state # "APPROVAL_PENDING"]
  <2> DEFINE old == row.old /\ row.state # "APPROVAL_PENDING"
  <2>1. row \in RowType /\ old \in BOOLEAN
    BY <1>2 DEF Inv, TypeOK, RowType
  <2>2. row' = [row EXCEPT !.grant = a, !.old = old]
    BY <1>2
  <2> HIDE DEF old
  <2>3. row' \in RowType /\ row'.state = row.state /\ row'.user = row.user /\ row'.lease = row.lease
    BY <2>1, <2>2 DEF RowType
  <2>4. row.user = Owner
    BY <1>2 DEF Owner
  <2> QED
    BY <1>1, <1>2, <2>3, <2>4, MintKeeps DEF Minted, Holds
<1>3. CASE Goto(a, "revive") /\ UNCHANGED <<row, grants>>
  <2>1. Move(a, "revive", loc[a]) /\ "revive" \in AuthLabels /\ AuthOwes(a, "revive", loc[a])
    BY <1>1, <1>3 DEF Goto, AuthLabels, AuthOwes
  <2>2. ReadOnly
    BY <1>1, <1>3 DEF ReadOnly
  <2> QED
    BY <1>1, <2>1, <2>2, AuthReads
<1> QED
  BY <1>2, <1>3 DEF IssueAgain

LEMMA IssueRevivedKeeps ==
    ASSUME Inv, ConstantsAssumption, NEW a \in Auths, IssueRevived(a)
    PROVE  Inv'
<1>1. /\ pc[a] = "revive" /\ a \in Procs /\ loc[a] \in LocType /\ loc[a].answer = "none"
      /\ UNCHANGED <<Accounts, History>>
  BY Kinds DEF IssueRevived, Inv, TypeOK, Placed
<1>2. CASE row # None /\ row' = Revived(a) /\ Minted(a)
  <2>1. row \in RowType
    BY <1>2 DEF Inv, TypeOK
  <2>2. row' \in RowType /\ row'.state = "PROVISIONING" /\ row'.user = row.user /\ row'.lease = None
    BY <1>2, <2>1 DEF RowType, States, Revived
  <2>3. row.user = Owner
    BY <1>2 DEF Owner
  <2>4. \A s \in Submits : s # None
    BY Kinds
  <2> QED
    BY <1>1, <1>2, <2>2, <2>3, <2>4, MintKeeps DEF Minted
<1>3. CASE Stop(a, "other") /\ UNCHANGED <<row, grants>>
  <2> DEFINE x == [NoLoc EXCEPT !.answer = "other"]
  <2>1. Move(a, "done", x) /\ "done" \in AuthLabels
    BY <1>3 DEF Stop, AuthLabels
  <2>2. x \in LocType /\ x.answer = "other"
    BY StopOwes
  <2> HIDE DEF x
  <2>3. AuthOwes(a, "done", x)
    BY <2>2 DEF AuthOwes
  <2>4. ReadOnly
    BY <1>1, <1>3 DEF ReadOnly
  <2> QED
    BY <1>1, <2>1, <2>2, <2>3, <2>4, AuthReads
<1>4. CASE Move(a, "fresh", [loc[a] EXCEPT !.tries = @ + 1]) /\ UNCHANGED <<row, grants>>
  <2> DEFINE x == [loc[a] EXCEPT !.tries = @ + 1]
  <2>1. x \in LocType /\ x.answer = "none"
    BY <1>1 DEF LocType
  <2>2. Move(a, "fresh", x) /\ "fresh" \in AuthLabels
    BY <1>4 DEF AuthLabels
  <2> HIDE DEF x
  <2>3. AuthOwes(a, "fresh", x)
    BY <2>1 DEF AuthOwes
  <2>4. ReadOnly
    BY <1>1, <1>4 DEF ReadOnly
  <2> QED
    BY <1>1, <2>1, <2>2, <2>3, <2>4, AuthReads
<1> QED
  BY <1>2, <1>3, <1>4 DEF IssueRevived

-----------------------------------------------------------------------------
(* Submissions. *)

SubmitLabels == Submitting \cup {"start", "resume", "release", "done", "dead"}

\* What is known of a submission before it moves.
LEMMA SubmitFacts ==
    ASSUME Inv, ConstantsAssumption, NEW s \in Submits
    PROVE  /\ s \in Procs /\ s \notin Auths /\ s \notin Approvers /\ s # None
           /\ loc[s] \in LocType /\ pc[s] \in SubmitLabels
           /\ Placed(s) /\ LeaseSound(s) /\ LinkSound(s) /\ UserSound(s)
           /\ (s \in cut => CutSound(s)) /\ (sweeps = 0 => loc[s].answer # "conflict")
  BY Kinds DEF Inv, TypeOK, Placed, SubmitLabels, NoSelfConflict

\* A submission that has its answer owes nothing more, unless it was cut off.
LEMMA EndsSelf ==
    ASSUME Inv, ConstantsAssumption, NEW s \in Submits, NEW l \in {"release", "done", "dead"},
           NEW a \in {"none", "active", "approval", "conflict", "other"},
           Move(s, l, [NoLoc EXCEPT !.answer = a]), l = "dead" => a = "none",
           s \in cut => a \notin {"active", "approval"} /\ (row' = None \/ row'.lease # s),
           sweeps = 0 => a # "conflict"
    PROVE  SelfSound(s)
<1> DEFINE x == [NoLoc EXCEPT !.answer = a]
<1>1. x \in LocType /\ x.answer = a /\ x.user = None
  BY StopOwes
<1>2. Move(s, l, x)
  OBVIOUS
<1> HIDE DEF x
<1>3. pc'[s] = l /\ loc'[s] = x /\ s \in Procs /\ s \notin Auths /\ s \notin Approvers
  BY <1>2, Lands, SubmitFacts
<1>4. l \notin Submitting /\ l \notin Linked /\ l \notin Marked
  BY DEF Submitting, Linked, Marked
<1>5. Placed(s)'
  BY <1>1, <1>3, <1>4 DEF Placed
<1>6. LeaseSound(s)' /\ LinkSound(s)' /\ Past(s)'
  BY <1>3, <1>4 DEF LeaseSound, LinkSound, Past
<1>7. s \in cut => CutSound(s)'
  BY <1>1, <1>3 DEF CutSound
<1> QED
  BY <1>1, <1>3, <1>4, <1>5, <1>6, <1>7 DEF SelfSound

\* A submission that goes on keeps its user and the age of the row it works on.
LEMMA GoesOnSelf ==
    ASSUME Inv, ConstantsAssumption, NEW s \in Submits, pc[s] \in Submitting,
           NEW l \in Submitting, NEW x \in LocType, Move(s, l, x),
           x.answer = "none", x.user = loc[s].user, x.gen = loc[s].gen,
           row' = row, sweeps' = sweeps,
           l \notin {"marker", "reserve", "final"} => x.user # None,
           l = "reserve" => pc[s] = "marker" /\ x.user = None, l # "marker",
           s \in cut => l \in Undecided \cup {"remove"}, LinkSound(s)'
    PROVE  SelfSound(s)
<1>1. pc'[s] = l /\ loc'[s] = x
  BY Lands, SubmitFacts
<1>2. Owner' = Owner /\ (Holds(s)' <=> Holds(s))
  BY DEF Owner, Holds
<1>3. Placed(s)'
  BY <1>1, SubmitFacts DEF Placed
<1>4. LeaseSound(s)'
  <2>1. Holds(s)' => x.gen = sweeps /\ row'.user = x.user
    BY <1>2, SubmitFacts DEF LeaseSound
  <2> QED
    BY <1>1, <2>1 DEF LeaseSound
<1>5. s \in cut => CutSound(s)'
  BY <1>1, SubmitFacts DEF CutSound
<1>6. Past(s) \/ Owner' = s => Past(s)'
  <2>1. Owner = s => Past(s)
    BY SubmitFacts DEF Owner, UserSound
  <2>2. l = "reserve" => ~Past(s)
    BY DEF Past
  <2>3. l # "reserve" => Past(s)'
    BY <1>1 DEF Past, Submitting
  <2> QED
    BY <1>2, <2>1, <2>2, <2>3
<1>7. x.user # None /\ x.user = Owner' => x.gen = sweeps
  <2>1. SUFFICES ASSUME x.user # None, x.user = Owner PROVE loc[s].gen = sweeps
    BY <1>2
  <2>2. row # None /\ row.user = x.user /\ x.user \in Submits
    BY <2>1 DEF Owner, LocType
  <2> QED
    BY <2>2 DEF Inv, UserSound
<1> QED
  BY <1>1, <1>3, <1>4, <1>5, <1>6, <1>7, SubmitFacts DEF SelfSound

\* Cutting off is for submissions that have not finalized the row.
LEMMA NotCut ==
    ASSUME Inv, NEW s \in Submits, pc[s] \in Submitting \ (Undecided \cup {"remove"})
    PROVE  s \notin cut
  BY DEF Inv, CutSound, Submitting

\* A submission that only reads.
LEMMA SubmitReads ==
    ASSUME Inv, ConstantsAssumption, NEW s \in Submits, NEW l \in SubmitLabels, NEW x \in LocType,
           Move(s, l, x), ReadOnly, SelfSound(s),
           row # None /\ row.state = "CANCELLED" /\ TakesBack(s) => TakesBack(s)'
    PROVE  Inv'
<1>1. s \in Procs /\ s \notin Approvers /\ l \in Labels
  BY SubmitFacts DEF SubmitLabels, Submitting, Labels
<1>2. /\ UNCHANGED <<row, sweeps>> /\ UNCHANGED Accounts
      /\ UNCHANGED <<status, identity, marker, homes, grants, used, early, cut, faults>>
  BY DEF ReadOnly, Accounts, History
<1>3. TypeOK'
  BY <1>1, <1>2, TypeMoves DEF Inv, TypeOK
<1>4. RowRel(s) /\ AccountRel(s)
  BY <1>1, <1>2, RowSame, AccountsSame
<1>5. LogoutRel(s)
  BY <1>2 DEF LogoutRel
<1> QED
  BY <1>1, <1>3, <1>4, <1>5, MoveKeeps

LEMMA SubmitMarkerKeeps ==
    ASSUME Inv, ConstantsAssumption, NEW s \in Submits, SubmitMarker(s)
    PROVE  Inv'
<1>1. /\ pc[s] = "marker" /\ ReadOnly /\ UNCHANGED <<row, sweeps, cut>>
  BY DEF SubmitMarker, ReadOnly, History
<1>2. ~TakesBack(s)
  BY <1>1, SubmitFacts DEF TakesBack
<1>3. CASE Answer(s, "other")
  <2>1. Move(s, "release", [NoLoc EXCEPT !.answer = "other"])
        /\ [NoLoc EXCEPT !.answer = "other"] \in LocType /\ "release" \in SubmitLabels
    BY <1>3, StopOwes DEF Answer, SubmitLabels
  <2>2. s \in cut => row' = None \/ row'.lease # s
    BY <1>1 DEF Inv, CutSound
  <2> QED
    BY <1>1, <1>2, <2>1, <2>2, EndsSelf, SubmitReads
<1>4. ASSUME NEW l \in {"reserve", "create"}, Goto(s, l), l = "reserve" <=> loc[s].user = None
      PROVE  Inv'
  <2>1. Move(s, l, loc[s]) /\ l \in Submitting /\ l \in SubmitLabels /\ l \in Undecided
        /\ pc[s] \in Submitting
    BY <1>1, <1>4 DEF Goto, Submitting, SubmitLabels, Undecided
  <2>2. pc'[s] = l
    BY <2>1, Lands, SubmitFacts
  <2>3. LinkSound(s)'
    BY <1>4, <2>2 DEF LinkSound, Linked, Marked
  <2>4. loc[s].answer = "none" /\ loc[s] \in LocType
    BY <1>1, SubmitFacts DEF Placed
  <2> QED
    BY <1>1, <1>2, <1>4, <2>1, <2>3, <2>4, GoesOnSelf, SubmitReads
<1> QED
  BY <1>3, <1>4 DEF SubmitMarker

LEMMA ReloadKeeps ==
    ASSUME Inv, ConstantsAssumption, NEW s \in Submits, Reload(s) \/ Final(s) \/ After(s)
    PROVE  Inv'
<1>1. /\ pc[s] \in {"reload", "final", "after"} /\ ReadOnly
      /\ UNCHANGED <<row, status, identity, marker, homes, sweeps, cut>>
  BY DEF Reload, Final, After, ReadOnly, History, Accounts
<1>2. pc[s] \in Submitting /\ s \notin cut /\ loc[s].answer = "none" /\ loc[s] \in LocType
  <2>1. pc[s] \in Submitting \ (Undecided \cup {"remove"})
    BY <1>1 DEF Submitting, Undecided
  <2> QED
    BY <1>1, <2>1, NotCut, SubmitFacts DEF Placed
<1>3. ASSUME NEW a \in {"active", "other"}, Answer(s, a),
             row # None /\ row.state = "CANCELLED" => ~TakesBack(s)
      PROVE  Inv'
  <2>1. Move(s, "release", [NoLoc EXCEPT !.answer = a])
        /\ [NoLoc EXCEPT !.answer = a] \in LocType /\ "release" \in SubmitLabels
    BY <1>3, StopOwes DEF Answer, SubmitLabels
  <2> QED
    BY <1>1, <1>2, <1>3, <2>1, EndsSelf, SubmitReads
<1>4. ASSUME NEW l \in {"final", "claim", "reload", "revert"}, Goto(s, l), pc[s] \in {"reload", "after"},
             row # None /\ row.state = "CANCELLED" /\ TakesBack(s) => TakesBack(s)'
      PROVE  Inv'
  <2>1. Move(s, l, loc[s]) /\ l \in Submitting /\ l \in SubmitLabels
    BY <1>4 DEF Goto, Submitting, SubmitLabels
  <2>2. pc'[s] = l /\ loc'[s] = loc[s]
    BY <2>1, Lands, SubmitFacts
  <2>3. LinkSound(s)'
    BY <1>1, <1>4, <2>2, SubmitFacts DEF LinkSound, Linked, Marked
  <2>4. loc[s].user # None
    BY <1>4, SubmitFacts DEF Placed, Submitting
  <2> QED
    BY <1>1, <1>2, <1>4, <2>1, <2>3, <2>4, GoesOnSelf, SubmitReads
<1>5. CASE Reload(s) \/ Final(s)
  <2>1. ~TakesBack(s) /\ pc[s] \in {"reload", "final"}
    BY <1>5, SubmitFacts DEF Reload, Final, TakesBack
  <2> QED
    BY <1>3, <1>4, <1>5, <2>1 DEF Reload, Final
<1>6. CASE After(s)
  <2>1. pc[s] = "after"
    BY <1>6 DEF After
  <2>2. CASE Cancelled(s) /\ loc[s].mine
    <3>1. Goto(s, "revert") /\ pc'[s] = "revert" /\ loc'[s] = loc[s]
      BY <1>6, <2>2, Lands, SubmitFacts DEF After, Goto
    <3>2. TakesBack(s) => TakesBack(s)'
      BY <1>1, <2>1, <2>2, <3>1, SubmitFacts DEF TakesBack
    <3> QED
      BY <1>4, <2>1, <3>1, <3>2
  <2>3. CASE Cancelled(s) /\ ~loc[s].mine
    <3>1. ~TakesBack(s)
      BY <2>1, <2>3, SubmitFacts DEF TakesBack
    <3> QED
      BY <1>3, <1>6, <2>3, <3>1 DEF After
  <2>4. CASE ~Cancelled(s)
    \* The row is not cancelled, or it is of another submission's account.
    <3>1. Goto(s, "reload") \/ Answer(s, "other")
      BY <1>6, <2>4 DEF After
    <3>2. row # None /\ row.user = loc[s].user => loc[s].gen = sweeps
      BY <1>2, <2>1, SubmitFacts DEF Inv, UserSound, Placed, Submitting, LocType
    <3>3. row # None /\ row.state = "CANCELLED" => ~TakesBack(s)
      BY <2>1, <2>4, <3>2, SubmitFacts DEF Cancelled, TakesBack
    <3> QED
      BY <1>3, <1>4, <2>1, <3>1, <3>3
  <2> QED
    BY <2>2, <2>3, <2>4
<1> QED
  BY <1>5, <1>6

-----------------------------------------------------------------------------
(* Submissions that write the row. *)

LEMMA RowMoves ==
    ASSUME Inv, ConstantsAssumption, NEW s \in Submits, NEW l \in SubmitLabels, NEW x \in LocType,
           Move(s, l, x), UNCHANGED <<Accounts, grants, History>>, RowRel(s), SelfSound(s),
           row' \in RowType \cup {None}, row' # None /\ row'.state = "CANCELLED" => row' = row,
           pc[s] \notin {"after", "revert", "dead"}
    PROVE  Inv'
<1>1. s \in Procs /\ s \notin Approvers /\ l \in Labels /\ ~TakesBack(s)
  BY SubmitFacts DEF SubmitLabels, Submitting, Labels, TakesBack
<1>2. UNCHANGED <<status, identity, marker, homes, grants, used, early, cut, sweeps, faults>>
  BY DEF Accounts, History
<1>3. TypeOK'
  BY <1>1, <1>2, TypeMoves DEF Inv, TypeOK
<1>4. AccountRel(s)
  BY <1>1, AccountsSame
<1>5. LogoutRel(s)
  BY <1>1, <1>2 DEF LogoutRel
<1> QED
  BY <1>1, <1>3, <1>4, <1>5, MoveKeeps

\* The holder of the lease changes the row, and keeps its owner unless it is the first.
LEMMA HolderRel ==
    ASSUME Inv, ConstantsAssumption, NEW s \in Submits, Holds(s), sweeps' = sweeps,
           row' \in RowType, row'.state # "PENDING", row'.state # "CANCELLED",
           row'.lease \in {s, None},
           row'.user # row.user => row.user = None /\ row'.user = s /\ pc[s] = "reserve" /\ row'.lease = s
    PROVE  RowRel(s) /\ Owner' = row'.user
<1>1. row # None /\ row' # None /\ \A q \in Submits : q # None
  BY Kinds DEF Holds
<1>2. Owner = row.user /\ Owner' = row'.user
  BY <1>1 DEF Owner
<1>3. RowSound'
  BY <1>1 DEF RowSound
<1>4. ASSUME NEW q \in Submits \ {s} PROVE Holds(q)' => Holds(q)
  BY <1>1 DEF Holds
<1>5. Owner' # Owner => s \in Submits /\ Owner = None /\ Owner' = s /\ pc[s] = "reserve" /\ Holds(s)'
  BY <1>1, <1>2 DEF Holds
<1> QED
  BY <1>1, <1>2, <1>3, <1>4, <1>5 DEF RowRel

LEMMA ReserveKeeps ==
    ASSUME Inv, ConstantsAssumption, NEW s \in Submits, Reserve(s)
    PROVE  Inv'
<1>1. /\ pc[s] = "reserve" /\ pc[s] \in Submitting /\ loc[s] \in LocType /\ loc[s].answer = "none"
      /\ UNCHANGED <<Accounts, grants, History>> /\ UNCHANGED <<sweeps, cut>> /\ s \in Procs
  BY SubmitFacts DEF Reserve, Submitting, Placed, History
<1>2. CASE Answer(s, "other") /\ UNCHANGED row
  <2>1. Move(s, "release", [NoLoc EXCEPT !.answer = "other"])
        /\ [NoLoc EXCEPT !.answer = "other"] \in LocType /\ "release" \in SubmitLabels
    BY <1>2, StopOwes DEF Answer, SubmitLabels
  <2>2. s \in cut => row' = None \/ row'.lease # s
    BY <1>2 DEF Inv, CutSound
  <2>3. row \in RowType \cup {None}
    BY DEF Inv, TypeOK
  <2> QED
    BY <1>1, <1>2, <2>1, <2>2, <2>3, EndsSelf, RowSame, RowMoves
<1>3. CASE /\ Holds(s) /\ row.user = None /\ row' = [row EXCEPT !.user = s]
           /\ Move(s, "create", [loc[s] EXCEPT !.user = s])
  <2> DEFINE x == [loc[s] EXCEPT !.user = s]
  <2>1. x \in LocType /\ x.user = s /\ x.gen = loc[s].gen /\ x.answer = "none"
    BY <1>1 DEF LocType
  <2>2. Move(s, "create", x) /\ "create" \in SubmitLabels /\ "create" \in Submitting
    BY <1>3 DEF SubmitLabels, Submitting
  <2> HIDE DEF x
  <2>3. row \in RowType /\ row # None /\ row.lease = s
    BY <1>3 DEF Inv, TypeOK, Holds
  <2>4. row' \in RowType /\ row'.state = row.state /\ row'.user = s /\ row'.lease = s
    BY <1>3, <2>3 DEF RowType
  <2>5. row.state # "PENDING" /\ row.state # "CANCELLED"
    BY <2>3, SubmitFacts DEF Inv, RowSound
  <2>6. RowRel(s) /\ Owner' = s
    BY <1>1, <1>3, <2>4, <2>5, HolderRel
  <2>7. s \notin cut /\ loc[s].gen = sweeps
    BY <1>1, <1>3, SubmitFacts DEF CutSound, LeaseSound, Holds
  <2>8. pc'[s] = "create" /\ loc'[s] = x
    BY <1>1, <2>2, Lands
  <2>9. Placed(s)' /\ LeaseSound(s)' /\ LinkSound(s)' /\ Past(s)'
    <3>1. Placed(s)'
      BY <1>1, <2>1, <2>2, <2>8, SubmitFacts DEF Placed
    <3>2. LeaseSound(s)'
      BY <1>1, <2>1, <2>4, <2>7, <2>8 DEF LeaseSound
    <3>3. LinkSound(s)' /\ Past(s)'
      BY <2>8 DEF LinkSound, Linked, Marked, Past
    <3> QED
      BY <3>1, <3>2, <3>3
  <2>10. SelfSound(s)
    BY <1>1, <2>1, <2>6, <2>7, <2>8, <2>9, SubmitFacts DEF SelfSound
  <2> QED
    BY <1>1, <2>1, <2>2, <2>4, <2>5, <2>6, <2>10, RowMoves
<1> QED
  BY <1>2, <1>3 DEF Reserve

LEMMA ApproveKeeps ==
    ASSUME Inv, ConstantsAssumption, NEW s \in Submits, Approve(s)
    PROVE  Inv'
<1>1. /\ pc[s] = "approve" /\ pc[s] \in Submitting /\ loc[s] \in LocType
      /\ UNCHANGED <<Accounts, grants, History>> /\ UNCHANGED <<sweeps, cut>> /\ s \in Procs
  BY SubmitFacts DEF Approve, Submitting, History
<1>2. ASSUME NEW a \in {"approval", "other"}, Answer(s, a), RowRel(s), row' \in RowType \cup {None},
             row' # None /\ row'.state = "CANCELLED" => row' = row,
             s \in cut => a = "other" /\ row' = row
      PROVE  Inv'
  <2>1. Move(s, "release", [NoLoc EXCEPT !.answer = a])
        /\ [NoLoc EXCEPT !.answer = a] \in LocType /\ "release" \in SubmitLabels
    BY <1>2, StopOwes DEF Answer, SubmitLabels
  <2>2. s \in cut => row' = None \/ row'.lease # s
    BY <1>2 DEF Inv, CutSound
  <2>3. SelfSound(s)
    BY <1>2, <2>1, <2>2, EndsSelf
  <2> QED
    BY <1>1, <1>2, <2>1, <2>3, RowMoves
<1>3. CASE Answer(s, "other") /\ UNCHANGED row
  <2>1. row \in RowType \cup {None}
    BY DEF Inv, TypeOK
  <2> QED
    BY <1>1, <1>2, <1>3, <2>1, RowSame
<1>4. CASE /\ MayFinish(s) /\ Answer(s, "approval")
           /\ row' = [row EXCEPT !.state = "APPROVAL_PENDING", !.user = loc[s].user, !.old = FALSE]
  <2>1. row \in RowType /\ row # None /\ row.lease = s /\ Holds(s)
    BY <1>4 DEF Inv, TypeOK, Holds, MayFinish
  <2>2. row.user = loc[s].user /\ s \notin cut
    BY <1>1, <2>1, SubmitFacts DEF LeaseSound, CutSound
  <2>3. row' \in RowType /\ row'.state = "APPROVAL_PENDING" /\ row'.user = row.user /\ row'.lease = s
    BY <1>4, <2>1, <2>2 DEF RowType, States
  <2>4. RowRel(s)
    BY <1>1, <2>1, <2>3, HolderRel
  <2> QED
    BY <1>2, <1>4, <2>2, <2>3, <2>4
<1> QED
  BY <1>3, <1>4 DEF Approve

LEMMA FinalizeKeeps ==
    ASSUME Inv, ConstantsAssumption, NEW s \in Submits, Finalize(s)
    PROVE  Inv'
<1>1. /\ pc[s] = "finalize" /\ pc[s] \in Submitting /\ loc[s] \in LocType /\ loc[s].answer = "none"
      /\ loc[s].user \in Submits
      /\ UNCHANGED <<Accounts, grants, History>> /\ UNCHANGED <<sweeps, cut>> /\ s \in Procs
  BY SubmitFacts DEF Finalize, Submitting, History, Placed, LocType
<1>2. CASE Answer(s, "other") /\ UNCHANGED row
  <2>1. Move(s, "release", [NoLoc EXCEPT !.answer = "other"])
        /\ [NoLoc EXCEPT !.answer = "other"] \in LocType /\ "release" \in SubmitLabels
    BY <1>2, StopOwes DEF Answer, SubmitLabels
  <2>2. s \in cut => row' = None \/ row'.lease # s
    BY <1>2 DEF Inv, CutSound
  <2>3. row \in RowType \cup {None}
    BY DEF Inv, TypeOK
  <2> QED
    BY <1>1, <1>2, <2>1, <2>2, <2>3, EndsSelf, RowSame, RowMoves
<1>3. CASE /\ MayFinish(s) /\ Goto(s, "activate")
           /\ row' = [row EXCEPT !.state = "ACTIVE", !.user = loc[s].user,
                                 !.old = @ /\ loc[s].resuming]
  <2> DEFINE old == row.old /\ loc[s].resuming
  <2>1. row \in RowType /\ row # None /\ row.lease = s /\ Holds(s)
    BY <1>3 DEF Inv, TypeOK, Holds, MayFinish
  <2>2. row.user = loc[s].user /\ s \notin cut /\ loc[s].gen = sweeps
    BY <1>1, <2>1, SubmitFacts DEF LeaseSound, CutSound
  <2>3. old \in BOOLEAN /\ row' = [row EXCEPT !.state = "ACTIVE", !.user = loc[s].user, !.old = old]
    BY <1>1, <1>3, <2>1 DEF RowType, LocType
  <2> HIDE DEF old
  <2>4. row' \in RowType /\ row'.state = "ACTIVE" /\ row'.user = row.user /\ row'.lease = s
    BY <2>1, <2>2, <2>3 DEF RowType, States
  <2>5. RowRel(s) /\ Owner' = row.user
    BY <1>1, <2>1, <2>4, HolderRel
  <2>6. Move(s, "activate", loc[s]) /\ "activate" \in SubmitLabels
    BY <1>3 DEF Goto, SubmitLabels, Submitting
  <2>7. pc'[s] = "activate" /\ loc'[s] = loc[s]
    BY <1>1, <2>6, Lands
  <2>8. LinkSound(s)'
    BY <1>1, <2>7, SubmitFacts DEF LinkSound, Linked, Marked, Accounts
  <2>9. Placed(s)' /\ LeaseSound(s)' /\ Past(s)'
    BY <1>1, <2>2, <2>4, <2>7, SubmitFacts DEF Placed, LeaseSound, Past, Submitting
  <2>10. SelfSound(s)
    BY <1>1, <2>2, <2>5, <2>7, <2>8, <2>9, SubmitFacts DEF SelfSound
  <2> QED
    BY <1>1, <2>4, <2>5, <2>6, <2>10, RowMoves
<1> QED
  BY <1>2, <1>3 DEF Finalize

LEMMA ReleaseKeeps ==
    ASSUME Inv, ConstantsAssumption, NEW s \in Submits, Release(s)
    PROVE  Inv'
<1> DEFINE a == loc[s].answer
<1>1. /\ pc[s] = "release" /\ loc[s] \in LocType /\ s \in Procs
      /\ a \in {"none", "active", "approval", "conflict", "other"}
      /\ UNCHANGED <<Accounts, grants, History>> /\ UNCHANGED <<sweeps, cut>>
      /\ row' = IF Holds(s) THEN [row EXCEPT !.lease = None, !.live = FALSE] ELSE row
      /\ Stop(s, a)
  BY SubmitFacts DEF Release, History, LocType
<1>2. (s \in cut => a \notin {"active", "approval"} /\ (row = None \/ row.lease # s))
      /\ (sweeps = 0 => a # "conflict")
  BY SubmitFacts DEF CutSound
<1> HIDE DEF a
<1>3. Move(s, "done", [NoLoc EXCEPT !.answer = a]) /\ [NoLoc EXCEPT !.answer = a] \in LocType
      /\ "done" \in SubmitLabels
  BY <1>1, StopOwes DEF Stop, SubmitLabels
<1>4. CASE ~Holds(s)
  <2>1. row' = row /\ row \in RowType \cup {None}
    BY <1>1, <1>4 DEF Inv, TypeOK
  <2>2. SelfSound(s)
    BY <1>1, <1>2, <1>3, <2>1, EndsSelf
  <2> QED
    BY <1>1, <1>3, <2>1, <2>2, RowSame, RowMoves
<1>5. CASE Holds(s)
  <2>1. row \in RowType /\ row # None /\ row.lease = s /\ row' = [row EXCEPT !.lease = None, !.live = FALSE]
    BY <1>1, <1>5 DEF Inv, TypeOK, Holds
  <2>2. row' \in RowType /\ row'.state = row.state /\ row'.user = row.user /\ row'.lease = None
    BY <2>1 DEF RowType
  <2>3. row.state # "PENDING" /\ row.state # "CANCELLED" /\ s # None
    BY <2>1, SubmitFacts DEF Inv, RowSound
  <2>4. RowRel(s)
    BY <1>1, <1>5, <2>2, <2>3, HolderRel
  <2>5. SelfSound(s)
    BY <1>1, <1>2, <1>3, <2>2, <2>3, EndsSelf
  <2> QED
    BY <1>1, <1>3, <2>2, <2>3, <2>4, <2>5, RowMoves
<1> QED
  BY <1>4, <1>5

\* A submission that has not begun is known to nobody.
LEMMA Fresh ==
    ASSUME Inv, ConstantsAssumption, NEW s \in Submits, pc[s] \in {"start", "resume"}
    PROVE  ~Past(s) /\ Owner # s /\ s \notin cut /\ s \in Procs /\ loc[s].answer = "none"
<1>1. ~Past(s) /\ s \in Procs /\ loc[s].answer = "none"
  BY SubmitFacts DEF Past, Placed
<1>2. Owner # s
  BY <1>1, SubmitFacts DEF Owner, UserSound
<1>3. s \notin cut
  BY SubmitFacts DEF CutSound, Undecided
<1> QED
  BY <1>1, <1>2, <1>3

\* A submission leases the row: from now on it works for the account the row has reserved.
LEMMA LeaseKeeps ==
    ASSUME Inv, ConstantsAssumption, NEW s \in Submits, pc[s] \in {"start", "resume"},
           row # None, NEW state \in {"PROVISIONING", "ACTIVE"}, row' = Leased(s, state),
           NEW x \in LocType, x.user = row.user, x.gen = sweeps, x.answer = "none",
           Move(s, "marker", x), UNCHANGED <<Accounts, grants, History>>
    PROVE  Inv'
<1>1. s \in Procs /\ s \notin cut /\ Owner = row.user /\ Owner # s /\ ~Past(s) /\ row \in RowType
  BY Fresh DEF Owner, Inv, TypeOK
<1>2. row' \in RowType /\ row'.state = state /\ row'.user = row.user /\ row'.lease = s
  BY <1>1 DEF Leased, RowType, States
<1>3. row' # None /\ sweeps' = sweeps
  BY <1>2, Kinds DEF History
<1>4. Owner' = Owner
  BY <1>1, <1>2, <1>3 DEF Owner
<1>5. RowRel(s)
  <2>1. RowSound'
    BY <1>2 DEF RowSound
  <2>2. \A q \in Submits \ {s} : Holds(q)' => Holds(q)
    BY <1>2 DEF Holds
  <2> QED
    BY <1>3, <1>4, <2>1, <2>2 DEF RowRel
<1>6. pc'[s] = "marker" /\ loc'[s] = x /\ "marker" \in SubmitLabels
  BY <1>1, Lands DEF SubmitLabels, Submitting
<1>7. SelfSound(s)
  <2>1. Placed(s)'
    BY <1>6, SubmitFacts DEF Placed, SubmitLabels
  <2>2. LeaseSound(s)' /\ LinkSound(s)'
    BY <1>2, <1>3, <1>6 DEF LeaseSound, LinkSound, Linked, Marked
  <2> QED
    BY <1>1, <1>4, <1>6, <2>1, <2>2, SubmitFacts DEF SelfSound
<1> QED
  BY <1>2, <1>5, <1>6, <1>7, RowMoves

LEMMA BeginKeeps ==
    ASSUME Inv, ConstantsAssumption, NEW s \in Submits, NEW g \in Auths, Begin(s, g)
    PROVE  Inv'
<1>1. pc[s] = "start" /\ UNCHANGED <<Accounts, grants, History>> /\ UNCHANGED <<sweeps, cut>>
      /\ ~Past(s) /\ Owner # s /\ s \notin cut /\ s \in Procs /\ sweeps \in Nat /\ NoLoc \in LocType
  BY Fresh, Kinds DEF Begin, History, Inv, TypeOK
<1>2. CASE /\ row # None /\ row.state = "PENDING" /\ row' = Leased(s, "PROVISIONING")
           /\ Move(s, "marker", [NoLoc EXCEPT !.user = row.user, !.gen = sweeps])
  <2> DEFINE x == [NoLoc EXCEPT !.user = row.user, !.gen = sweeps]
  <2>1. row.user \in Submits \cup {None}
    BY <1>2 DEF Inv, TypeOK, RowType
  <2>2. x \in LocType /\ x.user = row.user /\ x.gen = sweeps /\ x.answer = "none"
    BY <1>1, <2>1 DEF LocType, NoLoc
  <2>3. Move(s, "marker", x)
    BY <1>2
  <2> HIDE DEF x
  <2> QED
    BY <1>1, <1>2, <2>2, <2>3, LeaseKeeps
<1>3. CASE Move(s, "resume", [NoLoc EXCEPT !.grant = g]) /\ UNCHANGED row
  <2> DEFINE x == [NoLoc EXCEPT !.grant = g]
  <2>1. x \in LocType /\ x.user = None /\ x.answer = "none"
    BY <1>1 DEF LocType, NoLoc
  <2>2. Move(s, "resume", x) /\ "resume" \in SubmitLabels
    BY <1>3 DEF SubmitLabels
  <2> HIDE DEF x
  <2>3. pc'[s] = "resume" /\ loc'[s] = x /\ "resume" \notin Submitting \cup Linked
    BY <1>1, <2>2, Lands DEF Submitting, Linked, Marked
  <2>4. Owner' = Owner /\ row \in RowType \cup {None}
    BY <1>3 DEF Owner, Inv, TypeOK
  <2>5. Placed(s)' /\ LeaseSound(s)' /\ LinkSound(s)'
    BY <2>1, <2>3, SubmitFacts DEF Placed, LeaseSound, LinkSound, Linked
  <2>6. SelfSound(s)
    BY <1>1, <2>1, <2>3, <2>4, <2>5, SubmitFacts DEF SelfSound
  <2> QED
    BY <1>1, <1>3, <2>1, <2>2, <2>4, <2>6, RowSame, RowMoves
<1> QED
  BY <1>2, <1>3 DEF Begin

LEMMA ResumeKeeps ==
    ASSUME Inv, ConstantsAssumption, NEW s \in Submits, Resume(s)
    PROVE  Inv'
<1>1. pc[s] = "resume" /\ UNCHANGED <<Accounts, grants, History>> /\ UNCHANGED <<sweeps, cut>>
      /\ s \notin cut /\ s \in Procs /\ sweeps \in Nat /\ NoLoc \in LocType
  BY Fresh, Kinds DEF Resume, History, Inv, TypeOK
<1>2. CASE /\ row # None /\ row.state \in {"PROVISIONING", "ACTIVE"} /\ row' = Leased(s, row.state)
           /\ Move(s, "marker", [NoLoc EXCEPT !.user = row.user, !.gen = sweeps,
                                              !.resuming = row.state = "ACTIVE"])
  <2> DEFINE resuming == row.state = "ACTIVE"
             x == [NoLoc EXCEPT !.user = row.user, !.gen = sweeps, !.resuming = resuming]
  <2>1. row.user \in Submits \cup {None} /\ resuming \in BOOLEAN
    BY <1>2 DEF Inv, TypeOK, RowType
  <2>2. Move(s, "marker", x)
    BY <1>2
  <2> HIDE DEF resuming
  <2>3. x \in LocType /\ x.user = row.user /\ x.gen = sweeps /\ x.answer = "none"
    BY <1>1, <2>1 DEF LocType, NoLoc
  <2> HIDE DEF x
  <2> QED
    BY <1>1, <1>2, <2>2, <2>3, LeaseKeeps
<1>3. CASE Stop(s, "other") /\ UNCHANGED row
  <2>1. Move(s, "done", [NoLoc EXCEPT !.answer = "other"])
        /\ [NoLoc EXCEPT !.answer = "other"] \in LocType /\ "done" \in SubmitLabels
    BY <1>3, StopOwes DEF Stop, SubmitLabels
  <2>2. row \in RowType \cup {None}
    BY DEF Inv, TypeOK
  <2> QED
    BY <1>1, <1>3, <2>1, <2>2, EndsSelf, RowSame, RowMoves
<1> QED
  BY <1>2, <1>3 DEF Resume

-----------------------------------------------------------------------------
(* Steps that write accounts, links, markers and pages. *)

LEMMA AccountMoves ==
    ASSUME Inv, ConstantsAssumption, NEW p \in Procs, NEW l \in Labels, NEW x \in LocType, Move(p, l, x),
           UNCHANGED <<row, grants, used, early, cut, sweeps>>, faults' \in Nat, homes' \subseteq Submits,
           status' \in [Submits -> {"none", "registered", "active"}],
           identity' \in Submits \cup {Rival, None},
           marker' \in [Submits -> {"none", "pending", "running", "lapsed", "done"}],
           AccountRel(p), SelfSound(p), p \in Approvers => l # "start",
           row # None /\ row.state = "CANCELLED" /\ row.user # None /\ status'[row.user] = "active" =>
             /\ status[row.user] = "active" \/ TakesBack(p)'
             /\ TakesBack(p) => TakesBack(p)'
    PROVE  Inv'
<1>1. row' \in RowType \cup {None} /\ grants' \subseteq Auths
  BY DEF Inv, TypeOK
<1>2. TypeOK'
  BY <1>1, TypeMoves
<1>3. RowRel(p)
  BY RowSame
<1>4. LogoutRel(p)
  BY DEF LogoutRel
<1> QED
  BY <1>2, <1>3, <1>4, MoveKeeps

\* The types of what a step may leave alone.
LEMMA Types ==
    ASSUME Inv
    PROVE  /\ homes \subseteq Submits /\ status \in [Submits -> {"none", "registered", "active"}]
           /\ identity \in Submits \cup {Rival, None} /\ faults \in Nat
           /\ marker \in [Submits -> {"none", "pending", "running", "lapsed", "done"}]
           /\ row \in RowType \cup {None} /\ sweeps \in Nat
  BY DEF Inv, TypeOK

\* A submission that creates its account, or finds it, works for an account that is a submission's own.
LEMMA CreateKeeps ==
    ASSUME Inv, ConstantsAssumption, NEW s \in Submits, Create(s)
    PROVE  Inv'
<1> DEFINE u == loc[s].user
<1>1. /\ pc[s] = "create" /\ s \in Procs /\ s \notin Approvers /\ loc[s] \in LocType
      /\ loc[s].answer = "none" /\ u \in Submits /\ pc[s] \in Submitting /\ ~TakesBack(s)
  BY SubmitFacts DEF Create, Placed, Submitting, LocType, TakesBack
<1>2. /\ UNCHANGED <<row, grants, used, early, cut, sweeps>>
      /\ UNCHANGED <<identity, marker, homes, faults>>
  BY DEF Create, History
<1>3. ASSUME NEW a \in {"conflict", "other"}, Answer(s, a), UNCHANGED status, sweeps = 0 => a # "conflict"
      PROVE  Inv'
  <2>1. Move(s, "release", [NoLoc EXCEPT !.answer = a])
        /\ [NoLoc EXCEPT !.answer = a] \in LocType /\ "release" \in Labels
    BY <1>3, StopOwes DEF Answer, Labels
  <2>2. s \in cut => row' = None \/ row'.lease # s
    BY <1>2 DEF Inv, CutSound
  <2>3. SelfSound(s)
    BY <1>2, <1>3, <2>1, <2>2, EndsSelf
  <2>4. AccountRel(s)
    BY <1>1, <1>2, <1>3, AccountsSame DEF Accounts
  <2> QED
    BY <1>1, <1>2, <1>3, <2>1, <2>3, <2>4, Types, AccountMoves
<1>4. ASSUME Goto(s, "link"), status' \in [Submits -> {"none", "registered", "active"}],
             status'[u] # "none", AccountRel(s),
             \A v \in Submits : status'[v] = "active" => status[v] = "active"
      PROVE  Inv'
  <2>1. Move(s, "link", loc[s]) /\ "link" \in Labels /\ "link" \in Submitting /\ "link" \in Undecided
    BY <1>4 DEF Goto, Labels, Submitting, Undecided
  <2>2. pc'[s] = "link" /\ loc'[s] = loc[s]
    BY <1>1, <2>1, Lands
  <2>3. LinkSound(s)'
    BY <1>2, <1>4, <2>2 DEF LinkSound, Linked, Marked
  <2>4. SelfSound(s)
    BY <1>1, <1>2, <2>1, <2>3, SubmitFacts, GoesOnSelf
  <2>5. row # None /\ row.user # None => row.user \in Submits
    BY Types DEF RowType
  <2> QED
    BY <1>1, <1>2, <1>4, <2>1, <2>4, <2>5, Types, AccountMoves
<1>5. CASE status[u] # "none" /\ Goto(s, "link") /\ UNCHANGED status
  <2>1. AccountRel(s)
    BY <1>1, <1>2, <1>5, AccountsSame DEF Accounts
  <2> QED
    BY <1>4, <1>5, <2>1, Types
<1>6. CASE status[u] = "none" /\ (\E v \in Submits : status[v] # "none") /\ Answer(s, "conflict")
           /\ UNCHANGED status
  <2>1. sweeps # 0
    <3>1. u # None
      BY <1>1, SubmitFacts
    <3> QED
      BY <1>1, <1>6, <3>1 DEF Inv, OneAccount
  <2> QED
    BY <1>3, <1>6, <2>1
<1>7. CASE status[u] = "none" /\ status' = [status EXCEPT ![u] = "registered"] /\ Goto(s, "link")
  <2>1. status' \in [Submits -> {"none", "registered", "active"}] /\ status'[u] # "none"
        /\ \A v \in Submits : /\ status'[v] = "active" => status[v] = "active"
                              /\ status[v] # "none" => status'[v] # "none"
                              /\ status'[v] # "none" => status[v] # "none" \/ v = u
    BY <1>1, <1>7, Types
  <2>2. sweeps = 0 => Owner = u
    BY <1>1, SubmitFacts DEF Inv, OneAccount, Owner
  <2>3. AccountRel(s)
    BY <1>2, <2>1, <2>2 DEF AccountRel
  <2> QED
    BY <1>4, <1>7, <2>1, <2>3
<1>8. CASE Answer(s, "other") /\ UNCHANGED status
  BY <1>3, <1>8
<1> QED
  BY <1>5, <1>6, <1>7, <1>8 DEF Create

\* Who links the identity has made the account; who finds it taken did not.
LEMMA LinkKeeps ==
    ASSUME Inv, ConstantsAssumption, NEW s \in Submits, Link(s)
    PROVE  Inv'
<1> DEFINE u == loc[s].user
<1>1. /\ pc[s] = "link" /\ s \in Procs /\ s \notin Approvers /\ loc[s] \in LocType
      /\ loc[s].answer = "none" /\ u \in Submits /\ u # None /\ pc[s] \in Submitting /\ ~TakesBack(s)
  BY SubmitFacts, Kinds DEF Link, Placed, Submitting, LocType, TakesBack
<1>2. /\ UNCHANGED <<row, grants, used, early, cut, sweeps>>
      /\ UNCHANGED <<status, marker, homes, faults>>
  BY DEF Link, History
<1>3. identity \in {None, u} => status[u] # "none"
  BY <1>1, SubmitFacts DEF LinkSound
<1>4. PICK l \in {"mark", "remove"} :
        /\ Goto(s, l)
        /\ l = "mark" => identity \in {None, u} /\ identity' = u
        /\ l = "remove" => identity \notin {None, u} /\ identity' = identity
  BY DEF Link
<1>5. Move(s, l, loc[s]) /\ l \in Labels /\ l \in Submitting /\ l \in Undecided \cup {"remove"}
      /\ l \notin {"reserve", "marker"}
  BY <1>4 DEF Goto, Labels, Submitting, Undecided
<1>6. pc'[s] = l /\ loc'[s] = loc[s]
  BY <1>1, <1>5, Lands
<1>7. LinkSound(s)'
  BY <1>4, <1>6 DEF LinkSound, Linked, Marked
<1>8. SelfSound(s)
  BY <1>1, <1>2, <1>5, <1>7, SubmitFacts, GoesOnSelf
<1>9. AccountRel(s)
  <2>1. identity' # identity => identity = None /\ identity' = loc[s].user
    BY <1>4
  <2> QED
    BY <1>1, <1>2, <2>1 DEF AccountRel
<1>10. identity' \in Submits \cup {Rival, None}
  BY <1>1, <1>4, Types
<1> QED
  BY <1>1, <1>2, <1>5, <1>8, <1>9, <1>10, Types, AccountMoves

LEMMA RemoveKeeps ==
    ASSUME Inv, ConstantsAssumption, NEW s \in Submits, Remove(s)
    PROVE  Inv'
<1> DEFINE u == loc[s].user
<1>1. /\ pc[s] = "remove" /\ s \in Procs /\ s \notin Approvers /\ u \in Submits /\ ~TakesBack(s)
      /\ identity \notin {None, u}
  BY SubmitFacts, Kinds DEF Remove, Placed, Submitting, LocType, TakesBack, LinkSound
<1>2. /\ UNCHANGED <<row, grants, used, early, cut, sweeps>>
      /\ UNCHANGED <<identity, marker, homes, faults>>
  BY DEF Remove, History
<1>3. Move(s, "release", [NoLoc EXCEPT !.answer = "other"])
      /\ [NoLoc EXCEPT !.answer = "other"] \in LocType /\ "release" \in Labels
  BY StopOwes DEF Remove, Answer, Labels
<1>4. SelfSound(s)
  <2>1. s \in cut => row' = None \/ row'.lease # s
    BY <1>2 DEF Inv, CutSound
  <2> QED
    BY <1>2, <1>3, <2>1, EndsSelf
<1>5. status' \in [Submits -> {"none", "registered", "active"}]
      /\ \A v \in Submits : status'[v] = status[v] \/ (v = u /\ status[v] = "registered" /\ status'[v] = "none")
  BY <1>1, Types DEF Remove
<1>6. AccountRel(s)
  BY <1>1, <1>2, <1>5 DEF AccountRel
<1>7. row # None /\ row.user # None => row.user \in Submits
  BY Types DEF RowType
<1> QED
  BY <1>1, <1>2, <1>3, <1>4, <1>5, <1>6, <1>7, Types, AccountMoves

LEMMA MarkKeeps ==
    ASSUME Inv, ConstantsAssumption, NEW s \in Submits, Mark(s)
    PROVE  Inv'
<1> DEFINE u == loc[s].user
<1>1. /\ pc[s] = "mark" /\ s \in Procs /\ s \notin Approvers /\ loc[s] \in LocType
      /\ loc[s].answer = "none" /\ u \in Submits /\ u # None /\ pc[s] \in Submitting /\ ~TakesBack(s)
      /\ identity = u
  BY SubmitFacts, Kinds DEF Mark, Placed, Submitting, LocType, TakesBack, LinkSound, Linked
<1>2. /\ UNCHANGED <<row, grants, used, early, cut, sweeps>>
      /\ UNCHANGED <<status, identity, homes, faults>>
  BY DEF Mark, History
<1>3. PICK l \in {"approve", "finalize"} : Goto(s, l)
  BY DEF Mark
<1>4. Move(s, l, loc[s]) /\ l \in Labels /\ l \in Submitting /\ l \in Undecided
      /\ l \notin {"reserve", "marker"}
  BY <1>3 DEF Goto, Labels, Submitting, Undecided
<1>5. pc'[s] = l /\ loc'[s] = loc[s]
  BY <1>1, <1>4, Lands
<1>6. marker' \in [Submits -> {"none", "pending", "running", "lapsed", "done"}] /\ marker'[u] # "none"
      /\ \A v \in Submits : marker'[v] = marker[v] \/ (marker[v] = "none" /\ marker'[v] = "pending")
  BY <1>1, Types DEF Mark
<1>7. LinkSound(s)'
  BY <1>1, <1>2, <1>5, <1>6 DEF LinkSound
<1>8. SelfSound(s)
  BY <1>1, <1>2, <1>4, <1>7, SubmitFacts, GoesOnSelf
<1>9. AccountRel(s)
  BY <1>2, <1>6 DEF AccountRel
<1> QED
  BY <1>1, <1>2, <1>4, <1>6, <1>8, <1>9, Types, AccountMoves

LEMMA ActivateKeeps ==
    ASSUME Inv, ConstantsAssumption, NEW s \in Submits, Activate(s)
    PROVE  Inv'
<1> DEFINE u == loc[s].user
           mine == status[u] = "registered"
           x == [loc[s] EXCEPT !.mine = mine]
<1>1. /\ pc[s] = "activate" /\ s \in Procs /\ s \notin Approvers /\ loc[s] \in LocType
      /\ loc[s].answer = "none" /\ u \in Submits /\ u # None /\ pc[s] \in Submitting /\ ~TakesBack(s)
      /\ identity = u /\ marker[u] # "none" /\ mine \in BOOLEAN /\ s \notin cut
  <2>1. pc[s] = "activate"
    BY DEF Activate
  <2>2. s \notin cut
    BY <2>1, NotCut DEF Submitting, Undecided
  <2> QED
    BY <2>1, <2>2, SubmitFacts, Kinds DEF Placed, Submitting, LocType, TakesBack, LinkSound, Linked, Marked
<1>2. /\ UNCHANGED <<row, grants, used, early, cut, sweeps>>
      /\ UNCHANGED <<identity, marker, homes, faults>>
  BY DEF Activate, History
<1>3. status' = [status EXCEPT ![u] = IF mine THEN "active" ELSE @] /\ Move(s, "after", x)
  BY DEF Activate
<1>4. /\ status' \in [Submits -> {"none", "registered", "active"}]
      /\ \A v \in Submits : \/ status'[v] = status[v]
                            \/ v = u /\ mine /\ status[v] = "registered" /\ status'[v] = "active"
  BY <1>1, <1>3, Types
<1> HIDE DEF mine
<1>5. x \in LocType /\ x.user = u /\ x.gen = loc[s].gen /\ x.answer = "none" /\ x.mine = mine
  BY <1>1 DEF LocType
<1>6. "after" \in Labels /\ "after" \in Submitting
  BY DEF Labels, Submitting
<1> HIDE DEF x
<1>7. pc'[s] = "after" /\ loc'[s] = x
  BY <1>1, <1>3, <1>5, <1>6, Lands
<1>8. LinkSound(s)'
  BY <1>1, <1>2, <1>5, <1>7 DEF LinkSound
<1>9. SelfSound(s)
  BY <1>1, <1>2, <1>3, <1>5, <1>6, <1>8, GoesOnSelf
<1>10. AccountRel(s)
  BY <1>1, <1>2, <1>4 DEF AccountRel
<1>11. row # None /\ row.user # None /\ status'[row.user] = "active" =>
         status[row.user] = "active" \/ TakesBack(s)'
  <2>1. row # None /\ row.user # None => row.user \in Submits
    BY Types DEF RowType
  <2> QED
    BY <1>2, <1>4, <1>5, <1>7, <2>1 DEF TakesBack
<1> QED
  BY <1>1, <1>2, <1>3, <1>4, <1>5, <1>6, <1>9, <1>10, <1>11, Types, AccountMoves

LEMMA RevertKeeps ==
    ASSUME Inv, ConstantsAssumption, NEW s \in Submits, Revert(s)
    PROVE  Inv'
<1> DEFINE u == loc[s].user
<1>1. /\ pc[s] = "revert" /\ s \in Procs /\ s \notin Approvers /\ u \in Submits /\ s \notin cut
      /\ identity = u
  <2>1. pc[s] = "revert"
    BY DEF Revert
  <2>2. s \notin cut
    BY <2>1, NotCut DEF Submitting, Undecided
  <2> QED
    BY <2>1, <2>2, SubmitFacts DEF Placed, Submitting, LocType, LinkSound, Linked, Marked
<1>2. /\ UNCHANGED <<row, grants, used, early, cut, sweeps>>
      /\ UNCHANGED <<identity, marker, homes, faults>>
  BY DEF Revert, History
<1>3. Move(s, "release", [NoLoc EXCEPT !.answer = "other"])
      /\ [NoLoc EXCEPT !.answer = "other"] \in LocType /\ "release" \in Labels
  BY StopOwes DEF Revert, Answer, Labels
<1>4. SelfSound(s)
  BY <1>1, <1>2, <1>3, EndsSelf
<1>5. /\ status' \in [Submits -> {"none", "registered", "active"}] /\ status'[u] # "active"
      /\ \A v \in Submits : status'[v] = status[v] \/ (v = u /\ status[v] = "active" /\ status'[v] = "registered")
  BY <1>1, Types DEF Revert
<1>6. AccountRel(s)
  BY <1>1, <1>2, <1>5 DEF AccountRel
<1>7. row # None /\ row.user # None /\ status'[row.user] = "active" =>
        status[row.user] = "active" /\ ~TakesBack(s)
  <2>1. row # None /\ row.user # None => row.user \in Submits
    BY Types DEF RowType
  <2> QED
    BY <1>1, <1>5, <2>1 DEF TakesBack
<1> QED
  BY <1>1, <1>2, <1>3, <1>4, <1>5, <1>6, <1>7, Types, AccountMoves

-----------------------------------------------------------------------------
(* Draining an activation, which a process of each kind may do. *)

Draining == {"claim", "home", "markdone", "legacy"}

\* What is known of a process that drains.
LEMMA DrainFacts ==
    ASSUME Inv, ConstantsAssumption, NEW p \in Procs, pc[p] \in Draining
    PROVE  /\ loc[p] \in LocType /\ loc[p].answer = "none" /\ loc[p].user \in Submits
           /\ p \in Submits \/ p \in Auths => identity = loc[p].user /\ status[loc[p].user] # "none"
           /\ p \in Submits => pc[p] \in Submitting /\ p \notin cut /\ pc[p] \in Marked /\ marker[loc[p].user] # "none"
           /\ p \in Submits \/ p \in Auths => pc[p] # "legacy" /\ ~TakesBack(p)
<1>1. Placed(p) /\ loc[p] \in LocType
  BY DEF Inv, TypeOK
<1>2. loc[p].answer = "none" /\ loc[p].user \in Submits
  BY <1>1 DEF Placed, LocType, Draining, Submitting
<1>3. ASSUME p \in Submits
      PROVE  /\ pc[p] \in Submitting /\ p \notin cut /\ pc[p] # "legacy" /\ ~TakesBack(p)
             /\ identity = loc[p].user /\ pc[p] \in Marked /\ marker[loc[p].user] # "none"
  <2>1. pc[p] \in {"claim", "home", "markdone"}
    BY <1>1, <1>3 DEF Draining, Placed, Submitting
  <2>2. pc[p] \in Submitting /\ pc[p] \in Marked /\ pc[p] \in Linked /\ p \notin Approvers
    BY <1>3, <2>1, Kinds DEF Submitting, Marked, Linked
  <2>3. p \notin cut
    BY <1>3, <2>1, NotCut DEF Submitting, Undecided
  <2> QED
    BY <1>3, <2>1, <2>2, <2>3 DEF Inv, LinkSound, TakesBack
<1>4. ASSUME p \in Auths
      PROVE  identity = loc[p].user /\ pc[p] # "legacy" /\ ~TakesBack(p)
  <2>1. pc[p] \in {"claim", "home", "markdone"} /\ p \notin Submits /\ p \notin Approvers
    BY <1>1, <1>4, Kinds DEF Draining, Placed, AuthLabels
  <2> QED
    BY <1>4, <2>1 DEF Inv, SignInSound, TakesBack
<1>5. p \in Submits \/ p \in Auths => identity = loc[p].user
  BY <1>3, <1>4
<1>6. identity \in Submits => status[identity] # "none"
  BY DEF Inv, HomesSound
<1> QED
  BY <1>1, <1>2, <1>3, <1>4, <1>5, <1>6

\* Which step a drain takes next.
LEMMA DrainGoes ==
    ASSUME Inv, ConstantsAssumption, NEW p \in Procs, pc[p] \in Draining,
           NEW l \in {"home", "markdone"}, Goto(p, l),
           UNCHANGED <<row, identity, sweeps, cut>>,
           p \in Submits => marker'[loc[p].user] # "none",
           l = "markdone" /\ p \notin Approvers => loc[p].user \in homes'
    PROVE  SelfSound(p) /\ Move(p, l, loc[p])
<1>1. Move(p, l, loc[p]) /\ pc'[p] = l /\ loc'[p] = loc[p]
  BY Lands DEF Goto
<1>2. CASE p \in Submits
  <2>1. LinkSound(p)'
    BY <1>1, <1>2, DrainFacts, Kinds DEF LinkSound
  <2>2. l \in Submitting /\ l \notin {"marker", "reserve"} /\ loc[p].user # None
    BY <1>2, DrainFacts, Kinds DEF Submitting, Procs
  <2> QED
    BY <1>1, <1>2, <2>1, <2>2, DrainFacts, GoesOnSelf
<1>3. CASE p \in Auths
  <2>1. AuthOwes(p, l, loc[p]) /\ l \in AuthLabels
    BY <1>3, DrainFacts, Kinds DEF AuthOwes, AuthLabels
  <2> QED
    BY <1>1, <1>3, <2>1, DrainFacts, AuthSelf
<1>4. CASE p \in Approvers
  <2>1. p \notin Submits /\ p \notin Auths /\ p \notin cut
    BY <1>4, Kinds DEF Inv, TypeOK
  <2>2. Placed(p)'
    BY <1>1, <1>4, <2>1, DrainFacts, Kinds DEF Placed, ApproverLabels
  <2> QED
    BY <1>1, <2>1, <2>2 DEF SelfSound
<1> QED
  BY <1>2, <1>3, <1>4 DEF Procs

\* A drain that ends well leaves the account with its page, unless an administrator interfered.
LEMMA DrainEnds ==
    ASSUME Inv, ConstantsAssumption, NEW p \in Procs, pc[p] \in Draining, Drained(p) \/ Failed(p),
           UNCHANGED <<row, identity, sweeps, cut>>,
           Drained(p) /\ p \in Auths => (Calm' => loc[p].user \in homes')
    PROVE  /\ SelfSound(p)
           /\ \E l \in Labels \ {"start"}, x \in LocType : Move(p, l, x)
<1>1. CASE p \in Submits /\ Drained(p)
  <2>1. Move(p, "final", loc[p]) /\ "final" \in Labels \ {"start"} /\ "final" \in Submitting
    BY <1>1 DEF Drained, Goto, Labels, Submitting
  <2>2. pc'[p] = "final"
    BY <2>1, Lands
  <2>3. LinkSound(p)'
    BY <2>2 DEF LinkSound, Linked, Marked
  <2>4. SelfSound(p)
    BY <1>1, <2>1, <2>3, DrainFacts, GoesOnSelf
  <2> QED
    BY <2>1, <2>4, DrainFacts
<1>2. CASE p \in Submits /\ Failed(p)
  <2>1. Move(p, "release", [NoLoc EXCEPT !.answer = "other"]) /\ [NoLoc EXCEPT !.answer = "other"] \in LocType
        /\ "release" \in Labels \ {"start"}
    BY <1>2, StopOwes DEF Failed, Answer, Labels
  <2>2. SelfSound(p)
    BY <1>2, <2>1, DrainFacts, EndsSelf
  <2> QED
    BY <2>1, <2>2
<1>3. ASSUME p \notin Submits
      PROVE  \E a \in {"active", "other"} : Stop(p, a) /\ (a = "active" => Drained(p))
  BY <1>3 DEF Drained, Failed
<1>4. CASE p \notin Submits
  <2>1. PICK a \in {"active", "other"} : Stop(p, a) /\ (a = "active" => Drained(p))
    BY <1>3, <1>4
  <2> DEFINE x == [NoLoc EXCEPT !.answer = a]
  <2>2. Move(p, "done", x) /\ x \in LocType /\ x.answer = a /\ "done" \in Labels \ {"start"}
    BY <2>1, StopOwes DEF Stop, Labels
  <2> HIDE DEF x
  <2>3. pc'[p] = "done" /\ loc'[p] = x
    BY <2>2, Lands
  <2>4. CASE p \in Auths
    <3>1. AuthOwes(p, "done", x)
      BY <2>1, <2>2, <2>4, DrainFacts, Kinds DEF AuthOwes
    <3>2. "done" \in AuthLabels
      BY DEF AuthLabels
    <3> QED
      BY <2>2, <2>4, <3>1, <3>2, AuthSelf
  <2>5. CASE p \in Approvers
    <3>1. p \notin Submits /\ p \notin Auths /\ p \notin cut
      BY <2>5, Kinds DEF Inv, TypeOK
    <3>2. Placed(p)'
      BY <2>3, <2>5, <3>1 DEF Placed, ApproverLabels
    <3> QED
      BY <2>2, <3>1, <3>2 DEF SelfSound
  <2> QED
    BY <1>4, <2>4, <2>5 DEF Procs
<1> QED
  BY <1>1, <1>2, <1>4

\* A step of a drain touches only markers and pages.
LEMMA DrainMoves ==
    ASSUME Inv, ConstantsAssumption, NEW p \in Procs, pc[p] \in Draining,
           NEW l \in Labels \ {"start"}, NEW x \in LocType, Move(p, l, x), SelfSound(p),
           UNCHANGED <<row, status, identity, grants, History>>,
           marker' \in [Submits -> {"none", "pending", "running", "lapsed", "done"}],
           homes \subseteq homes', homes' \subseteq Submits,
           \A u \in Submits : /\ marker[u] # "none" => marker'[u] # "none"
                              /\ marker'[u] = "done" => marker[u] = "done" \/ u \in homes' \/ p \in Approvers
    PROVE  Inv'
<1>1. UNCHANGED <<row, grants, used, early, cut, sweeps>> /\ UNCHANGED <<status, identity, faults>>
  BY DEF History
<1>2. p \in Approvers => ~Calm' /\ TakesBack(p)'
  BY Lands DEF Calm, TakesBack
<1>3. AccountRel(p)
  BY <1>1, <1>2 DEF AccountRel
<1>4. TakesBack(p) => TakesBack(p)'
  BY <1>2, DrainFacts DEF Procs
<1> QED
  BY <1>1, <1>3, <1>4, Types, AccountMoves

LEMMA ClaimKeeps ==
    ASSUME Inv, ConstantsAssumption, NEW p \in Procs, ClaimMarker(p)
    PROVE  Inv'
<1> DEFINE u == loc[p].user
<1>1. /\ pc[p] \in Draining /\ u \in Submits /\ loc[p] \in LocType
      /\ UNCHANGED <<row, status, identity, homes, grants>> /\ UNCHANGED History /\ UNCHANGED <<sweeps, cut>>
  BY DrainFacts DEF ClaimMarker, Draining, History
<1>2. homes \subseteq homes' /\ homes' \subseteq Submits
  BY <1>1, Types
<1>3. CASE /\ marker[u] \in {"pending", "lapsed"}
           /\ marker' = [marker EXCEPT ![u] = "running"] /\ Goto(p, "home")
  <2>1. marker' \in [Submits -> {"none", "pending", "running", "lapsed", "done"}] /\ marker'[u] # "none"
        /\ \A v \in Submits : marker'[v] = marker[v] \/ marker'[v] = "running"
    BY <1>1, <1>3, Types
  <2>2. SelfSound(p) /\ Move(p, "home", loc[p])
    BY <1>1, <1>3, <2>1, DrainGoes
  <2>3. "home" \in Labels \ {"start"}
    BY DEF Labels
  <2> QED
    BY <1>1, <1>2, <2>1, <2>2, <2>3, DrainMoves
<1>4. CASE UNCHANGED marker /\ ((marker[u] = "done" /\ Drained(p)) \/ Failed(p))
  <2>1. p \in Auths /\ Calm' /\ marker[u] = "done" => u \in homes
    <3>1. SUFFICES ASSUME p \in Auths, Calm', marker[u] = "done" PROVE u \in homes
      OBVIOUS
    <3>2. Calm
      BY <3>1, <1>1, <1>4, Kinds DEF Calm, Drained, Failed, Stop, Move, Inv, TypeOK
    <3> QED
      BY <1>1, <3>1, <3>2 DEF Inv, HomesSound
  <2>2. Drained(p) /\ p \in Auths => marker[u] = "done"
    <3>1. p \in Auths => ~(Drained(p) /\ Failed(p))
      <4>1. SUFFICES ASSUME p \in Auths, Drained(p), Failed(p) PROVE FALSE
        OBVIOUS
      <4>2. Stop(p, "active") /\ Stop(p, "other")
        BY <4>1, Kinds DEF Drained, Failed
      <4>3. Move(p, "done", [NoLoc EXCEPT !.answer = "active"]) /\ Move(p, "done", [NoLoc EXCEPT !.answer = "other"])
        BY <4>2 DEF Stop
      <4>4. [NoLoc EXCEPT !.answer = "active"] = [NoLoc EXCEPT !.answer = "other"]
        BY <4>3, Lands
      <4> QED
        BY <4>4, StopOwes
    <3> QED
      BY <1>4, <3>1
  <2>3. SelfSound(p) /\ \E l \in Labels \ {"start"}, x \in LocType : Move(p, l, x)
    BY <1>1, <1>4, <2>1, <2>2, DrainEnds
  <2>4. PICK l \in Labels \ {"start"}, x \in LocType : Move(p, l, x)
    BY <2>3
  <2> QED
    BY <1>1, <1>2, <1>4, <2>3, <2>4, Types, DrainMoves
<1> QED
  BY <1>3, <1>4 DEF ClaimMarker

LEMMA MakeHomeKeeps ==
    ASSUME Inv, ConstantsAssumption, NEW p \in Procs, MakeHome(p)
    PROVE  Inv'
<1> DEFINE u == loc[p].user
<1>1. /\ pc[p] \in Draining /\ u \in Submits /\ loc[p] \in LocType
      /\ UNCHANGED <<row, status, identity, marker, grants>> /\ UNCHANGED History /\ UNCHANGED <<sweeps, cut>>
  BY DrainFacts DEF MakeHome, Draining, History
<1>2. homes \subseteq homes' /\ homes' \subseteq Submits /\ (p \notin Approvers => u \in homes')
  BY <1>1, Types, DrainFacts DEF MakeHome, Procs
<1>3. Goto(p, "markdone") /\ "markdone" \in Labels \ {"start"}
  BY DEF MakeHome, Labels
<1>4. p \in Submits => marker'[u] # "none"
  BY <1>1, DrainFacts
<1>5. SelfSound(p) /\ Move(p, "markdone", loc[p])
  BY <1>1, <1>2, <1>3, <1>4, DrainGoes
<1> QED
  BY <1>1, <1>2, <1>3, <1>5, Types, DrainMoves

LEMMA MarkDoneKeeps ==
    ASSUME Inv, ConstantsAssumption, NEW p \in Procs, MarkDone(p)
    PROVE  Inv'
<1> DEFINE u == loc[p].user
<1>1. /\ pc[p] = "markdone" /\ pc[p] \in Draining /\ u \in Submits /\ Drained(p)
      /\ UNCHANGED <<row, status, identity, homes, grants>> /\ UNCHANGED History /\ UNCHANGED <<sweeps, cut>>
  BY DrainFacts DEF MarkDone, Draining, History
<1>2. p \notin Approvers => u \in homes'
  BY <1>1 DEF Procs, Inv, LinkSound, SignInSound
<1>3. marker' \in [Submits -> {"none", "pending", "running", "lapsed", "done"}]
      /\ \A v \in Submits : marker'[v] = marker[v] \/ (v = u /\ marker'[v] = "done")
  BY <1>1, Types DEF MarkDone
<1>4. SelfSound(p) /\ \E l \in Labels \ {"start"}, x \in LocType : Move(p, l, x)
  BY <1>1, <1>2, DrainEnds, Kinds
<1>5. PICK l \in Labels \ {"start"}, x \in LocType : Move(p, l, x)
  BY <1>4
<1> QED
  BY <1>1, <1>2, <1>3, <1>4, <1>5, Types, DrainMoves

\* The listener of old serves only administrators' approvals.
LEMMA LegacyHomeKeeps ==
    ASSUME Inv, ConstantsAssumption, NEW p \in Procs, LegacyHome(p)
    PROVE  Inv'
<1>1. /\ pc[p] = "legacy" /\ pc[p] \in Draining /\ loc[p].user \in Submits
      /\ UNCHANGED <<row, status, identity, marker, grants>> /\ UNCHANGED History /\ UNCHANGED <<sweeps, cut>>
  BY DrainFacts DEF LegacyHome, Draining, History
<1>2. p \in Approvers /\ p \notin Submits /\ p \notin Auths
  BY <1>1, DrainFacts, Kinds DEF Procs
<1>3. Failed(p)
  BY <1>2 DEF LegacyHome, Failed
<1>4. SelfSound(p) /\ \E l \in Labels \ {"start"}, x \in LocType : Move(p, l, x)
  BY <1>1, <1>2, <1>3, DrainEnds
<1>5. PICK l \in Labels \ {"start"}, x \in LocType : Move(p, l, x)
  BY <1>4
<1>6. homes \subseteq homes' /\ homes' \subseteq Submits
  BY <1>1, Types DEF LegacyHome
<1> QED
  BY <1>1, <1>2, <1>4, <1>5, <1>6, Types, DrainMoves

\* An administrator's decision is never undone, and whatever follows it is nobody's fault.
LEMMA AdminApprovesKeeps ==
    ASSUME Inv, ConstantsAssumption, NEW p \in Approvers, NEW u \in Submits, AdminApproves(p, u)
    PROVE  Inv'
<1> DEFINE x == [NoLoc EXCEPT !.user = u]
<1>1. x \in LocType /\ x.user = u /\ x.answer = "none" /\ u # None
  BY StopOwes, Kinds DEF NoLoc
<1>2. PICK l \in {"legacy", "claim"} : Move(p, l, x)
  BY DEF AdminApproves
<1> HIDE DEF x
<1>3. /\ p \in Procs /\ p \notin Submits /\ p \notin Auths /\ p \notin cut /\ l \in Labels /\ l # "start"
      /\ UNCHANGED <<row, grants, used, early, cut, sweeps>>
      /\ UNCHANGED <<identity, marker, homes, faults>>
  BY Kinds DEF AdminApproves, Inv, TypeOK, Labels, History
<1>4. pc'[p] = l /\ loc'[p] = x
  BY <1>1, <1>2, <1>3, Lands
<1>5. ~Calm' /\ TakesBack(p)'
  BY <1>3, <1>4 DEF Calm, TakesBack
<1>6. Placed(p)'
  BY <1>1, <1>3, <1>4 DEF Placed, ApproverLabels
<1>7. SelfSound(p)
  BY <1>3, <1>6 DEF SelfSound
<1>8. status' \in [Submits -> {"none", "registered", "active"}]
      /\ \A v \in Submits : status'[v] = status[v] \/ (status[v] = "registered" /\ status'[v] = "active")
  BY Types DEF AdminApproves
<1>9. AccountRel(p)
  BY <1>3, <1>5, <1>8 DEF AccountRel
<1> QED
  BY <1>1, <1>2, <1>3, <1>5, <1>7, <1>8, <1>9, Types, AccountMoves

\* A process that dies leaves its account to whoever comes next.
LEMMA CrashKeeps ==
    ASSUME Inv, ConstantsAssumption, NEW p \in Procs, Crash(p)
    PROVE  Inv'
<1>1. /\ Move(p, "dead", NoLoc) /\ NoLoc \in LocType /\ "dead" \in Labels /\ faults' \in Nat
      /\ UNCHANGED <<row, grants, used, early, cut, sweeps>>
      /\ UNCHANGED <<status, identity, marker, homes>>
  BY Kinds, Types DEF Crash, Fault, Labels, Accounts
<1>2. pc'[p] = "dead" /\ loc'[p] = NoLoc /\ NoLoc.answer = "none" /\ NoLoc.user = None
  BY <1>1, Lands DEF NoLoc
<1>3. TakesBack(p)'
  BY <1>2 DEF TakesBack
<1>4. Placed(p)'
  BY <1>2 DEF Placed, AuthLabels, ApproverLabels, Submitting
<1>5. ASSUME p \in Submits PROVE SelfSound(p)
  <2>1. LeaseSound(p)' /\ LinkSound(p)' /\ Past(p)'
    BY <1>2 DEF LeaseSound, LinkSound, Linked, Marked, Submitting, Past
  <2>2. p \in cut => CutSound(p)'
    BY <1>1, <1>2 DEF Inv, CutSound
  <2>3. p \notin Auths /\ pc'[p] \notin Submitting
    BY <1>2, <1>5, Kinds DEF Submitting
  <2> QED
    BY <1>2, <1>4, <2>1, <2>2, <2>3 DEF SelfSound
<1>6. ASSUME p \in Auths PROVE SelfSound(p)
  <2>1. AuthOwes(p, "dead", NoLoc) /\ "dead" \in AuthLabels
    BY <1>2 DEF AuthOwes, AuthLabels
  <2> QED
    BY <1>1, <1>6, <2>1, AuthSelf
<1>7. ASSUME p \in Approvers PROVE SelfSound(p)
  <2>1. p \notin Submits /\ p \notin Auths /\ p \notin cut
    BY <1>7, Kinds DEF Inv, TypeOK
  <2> QED
    BY <1>4, <2>1 DEF SelfSound
<1>8. SelfSound(p)
  BY <1>5, <1>6, <1>7 DEF Procs
<1>9. AccountRel(p)
  BY <1>1, AccountsSame DEF Accounts
<1> QED
  BY <1>1, <1>3, <1>8, <1>9, Types, AccountMoves

-----------------------------------------------------------------------------
(* Steps of nobody: the logout, the clocks and an account that links the identity elsewhere. *)

\* A row that keeps its owner, and gets no new holder.
LEMMA RowTouched ==
    ASSUME Inv, TypeOK', UNCHANGED <<Accounts, pc, loc, sweeps>>, row # None, row' # None,
           row'.user = row.user, RowSound', LogoutSound',
           \A s \in Submits : Holds(s)' => Holds(s), \A s \in cut' : CutSound(s)'
    PROVE  Inv'
<1>1. UNCHANGED <<status, identity, marker, homes, pc, loc, sweeps>>
  BY DEF Accounts
<1>2. OneAccount' /\ HomesSound' /\ NoSelfConflict' /\ SignedInHasHome'
  BY <1>1 DEF Inv, OneAccount, HomesSound, Calm, NoSelfConflict, SignedInHasHome
<1>3. \A p \in Procs : Placed(p)'
  BY <1>1 DEF Inv, Placed
<1>4. ASSUME NEW s \in Submits PROVE LeaseSound(s)' /\ UserSound(s)' /\ LinkSound(s)'
  <2>1. LeaseSound(s) /\ UserSound(s) /\ LinkSound(s)
    BY DEF Inv
  <2>2. LeaseSound(s)'
    BY <1>1, <2>1 DEF LeaseSound
  <2>3. UserSound(s)'
    BY <1>1, <2>1 DEF UserSound, Past
  <2>4. LinkSound(s)'
    BY <1>1, <2>1 DEF LinkSound
  <2> QED
    BY <2>2, <2>3, <2>4
<1>5. \A a \in Auths : SignInSound(a)'
  BY <1>1 DEF Inv, SignInSound, Calm
<1> QED
  BY <1>2, <1>3, <1>4, <1>5 DEF Inv

LEMMA LogoutKeeps ==
    ASSUME Inv, ConstantsAssumption, NEW l \in Logouts, NEW g \in Auths, Logout(l, g)
    PROVE  Inv'
<1>1. UNCHANGED <<Accounts, grants, pc, loc, sweeps, faults>> /\ used' = used \cup {l}
  BY DEF Logout
<1>2. CASE UNCHANGED <<row, early, cut>>
  <2>1. TypeOK'
    BY <1>1, <1>2 DEF Inv, TypeOK, Accounts
  <2>2. UNCHANGED <<status, identity, marker, homes, pc, loc, sweeps, row, early, cut>>
    BY <1>1, <1>2 DEF Accounts
  <2>3. RowSound' /\ OneAccount' /\ HomesSound' /\ NoSelfConflict' /\ SignedInHasHome' /\ LogoutSound'
    BY <2>2 DEF Inv, RowSound, OneAccount, HomesSound, Calm, NoSelfConflict, SignedInHasHome, LogoutSound,
                TakesBack
  <2>4. \A p \in Procs : Placed(p)'
    BY <2>2 DEF Inv, Placed
  <2>5. ASSUME NEW s \in Submits PROVE LeaseSound(s)' /\ UserSound(s)' /\ LinkSound(s)'
    <3>1. LeaseSound(s) /\ UserSound(s) /\ LinkSound(s)
      BY DEF Inv
    <3> QED
      BY <2>2, <3>1 DEF LeaseSound, Holds, UserSound, Past, LinkSound
  <2>6. (\A s \in cut' : CutSound(s)') /\ \A a \in Auths : SignInSound(a)'
    BY <2>2 DEF Inv, CutSound, SignInSound, Calm
  <2> QED
    BY <2>1, <2>3, <2>4, <2>5, <2>6 DEF Inv
<1>3. CASE /\ row # None
           /\ row' = [row EXCEPT !.state = "CANCELLED", !.lease = None, !.live = FALSE, !.old = FALSE]
           /\ early' = (row.user = None \/ status[row.user] # "active")
           /\ cut' = cut \cup {s \in Submits : Holds(s) /\ pc[s] \in Undecided}
  <2>1. row \in RowType
    BY <1>3 DEF Inv, TypeOK
  <2>2. row' \in RowType /\ row'.state = "CANCELLED" /\ row'.user = row.user /\ row'.lease = None /\ row' # None
    BY <1>3, <2>1, Kinds DEF RowType, States
  <2>3. TypeOK'
    BY <1>1, <1>3, <2>2 DEF Inv, TypeOK, Accounts
  <2>4. RowSound'
    BY <2>2 DEF RowSound
  <2>5. LogoutSound'
    BY <1>1, <1>3, <2>2 DEF LogoutSound, Accounts
  <2>6. ASSUME NEW s \in Submits PROVE ~Holds(s)'
    BY <2>2, SubmitFacts DEF Holds
  <2>7. ASSUME NEW s \in cut' PROVE CutSound(s)'
    <3>1. s \in Submits /\ s # None
      BY <2>3, <2>7, Kinds DEF TypeOK
    <3>2. CASE s \in cut
      BY <1>1, <2>2, <3>1, <3>2 DEF Inv, CutSound
    <3>3. CASE pc[s] \in Undecided
      <4>1. loc[s].answer = "none"
        BY <3>1, <3>3, SubmitFacts DEF Placed, Undecided
      <4> QED
        BY <1>1, <2>2, <3>1, <3>3, <4>1 DEF CutSound
    <3> QED
      BY <1>3, <2>7, <3>2, <3>3
  <2> QED
    BY <1>1, <1>3, <2>2, <2>3, <2>4, <2>5, <2>6, <2>7, RowTouched
<1> QED
  BY <1>2, <1>3 DEF Logout

LEMMA ClocksKeep ==
    ASSUME Inv, ConstantsAssumption, LeaseLapses \/ Expires
    PROVE  Inv'
<1>1. /\ UNCHANGED <<Accounts, pc, loc, sweeps>> /\ UNCHANGED <<grants, used, early, cut>>
      /\ row # None /\ row \in RowType /\ faults' \in Nat
      /\ row' = [row EXCEPT !.live = FALSE] \/ row' = [row EXCEPT !.old = TRUE]
  BY Types DEF LeaseLapses, Expires, Fault
<1>2. row' \in RowType /\ row'.state = row.state /\ row'.user = row.user /\ row'.lease = row.lease /\ row' # None
  BY <1>1, Kinds DEF RowType
<1>3. TypeOK'
  BY <1>1, <1>2 DEF Inv, TypeOK, Accounts
<1>4. RowSound'
  BY <1>1, <1>2 DEF Inv, RowSound
<1>5. LogoutSound'
  BY <1>1, <1>2 DEF Inv, LogoutSound, TakesBack, Accounts
<1>6. \A s \in Submits : Holds(s)' => Holds(s)
  BY <1>1, <1>2 DEF Holds
<1>7. \A s \in cut' : CutSound(s)'
  BY <1>1, <1>2 DEF Inv, CutSound
<1> QED
  BY <1>1, <1>2, <1>3, <1>4, <1>5, <1>6, <1>7, RowTouched

LEMMA MarkerLapsesKeeps ==
    ASSUME Inv, ConstantsAssumption, NEW u \in Submits, MarkerLapses(u)
    PROVE  Inv'
<1>1. /\ UNCHANGED <<row, status, identity, homes, pc, loc, sweeps>> /\ UNCHANGED <<grants, used, early, cut>>
      /\ faults' \in Nat
  BY Types DEF MarkerLapses, Fault
<1>2. marker' \in [Submits -> {"none", "pending", "running", "lapsed", "done"}]
      /\ \A v \in Submits : (marker'[v] = "none" <=> marker[v] = "none") /\ (marker'[v] = "done" <=> marker[v] = "done")
  BY Types DEF MarkerLapses
<1>3. TypeOK'
  BY <1>1, <1>2 DEF Inv, TypeOK
<1>4. RowSound' /\ OneAccount' /\ NoSelfConflict' /\ SignedInHasHome' /\ LogoutSound'
  BY <1>1 DEF Inv, RowSound, OneAccount, Calm, NoSelfConflict, SignedInHasHome, LogoutSound, TakesBack
<1>5. HomesSound'
  BY <1>1, <1>2 DEF Inv, HomesSound, Calm
<1>6. (\A p \in Procs : Placed(p)') /\ \A s \in cut' : CutSound(s)'
  BY <1>1 DEF Inv, Placed, CutSound
<1>7. ASSUME NEW s \in Submits PROVE LeaseSound(s)' /\ UserSound(s)' /\ LinkSound(s)'
  <2>1. LeaseSound(s) /\ UserSound(s) /\ LinkSound(s)
    BY DEF Inv
  <2>2. LeaseSound(s)' /\ UserSound(s)'
    BY <1>1, <2>1 DEF LeaseSound, Holds, UserSound, Past
  <2>3. pc[s] \in Marked => loc[s].user \in Submits
    BY SubmitFacts DEF Placed, LocType, Marked, Submitting
  <2> QED
    BY <1>1, <1>2, <2>1, <2>2, <2>3 DEF LinkSound
<1>8. ASSUME NEW a \in Auths PROVE SignInSound(a)'
  <2>1. SignInSound(a) /\ Placed(a) /\ loc[a] \in LocType /\ a \notin Submits
    BY Kinds DEF Inv, TypeOK
  <2>2. pc[a] = "marker" => loc[a].user \in Submits
    BY <2>1 DEF Placed, LocType
  <2> QED
    BY <1>1, <1>2, <2>1, <2>2 DEF SignInSound, Calm
<1> QED
  BY <1>3, <1>4, <1>5, <1>6, <1>7, <1>8 DEF Inv

LEMMA SweepKeeps ==
    ASSUME Inv, ConstantsAssumption, Sweep
    PROVE  Inv'
<1>1. /\ UNCHANGED <<status, identity, marker, homes, pc, loc>> /\ UNCHANGED <<grants, used, early, cut, faults>>
      /\ row' = None /\ sweeps' \in Nat /\ sweeps' # 0
  BY Types DEF Sweep, Accounts
<1>2. TypeOK'
  BY <1>1 DEF Inv, TypeOK
<1>3. RowSound' /\ OneAccount' /\ HomesSound' /\ NoSelfConflict' /\ SignedInHasHome' /\ LogoutSound'
  BY <1>1 DEF Inv, RowSound, OneAccount, HomesSound, Calm, NoSelfConflict, SignedInHasHome, LogoutSound
<1>4. (\A p \in Procs : Placed(p)') /\ (\A s \in cut' : CutSound(s)') /\ \A a \in Auths : SignInSound(a)'
  BY <1>1 DEF Inv, Placed, CutSound, SignInSound, Calm
<1>5. ASSUME NEW s \in Submits PROVE LeaseSound(s)' /\ UserSound(s)' /\ LinkSound(s)'
  <2>1. UserSound(s) /\ LinkSound(s)
    BY DEF Inv
  <2> QED
    BY <1>1, <2>1 DEF LeaseSound, Holds, UserSound, Past, LinkSound
<1> QED
  BY <1>2, <1>3, <1>4, <1>5 DEF Inv

LEMMA LinkedElsewhereKeeps ==
    ASSUME Inv, ConstantsAssumption, LinkedElsewhere
    PROVE  Inv'
<1>1. /\ UNCHANGED <<row, status, marker, homes, pc, loc, sweeps>> /\ UNCHANGED <<grants, used, early, cut>>
      /\ faults' \in Nat /\ identity = None /\ identity' = Rival
      /\ Rival # None /\ Rival \notin Submits /\ None \notin Submits
  BY Types, Kinds DEF LinkedElsewhere, Fault
<1>2. TypeOK'
  BY <1>1 DEF Inv, TypeOK
<1>3. RowSound' /\ OneAccount' /\ HomesSound' /\ NoSelfConflict' /\ SignedInHasHome' /\ LogoutSound'
  BY <1>1 DEF Inv, RowSound, OneAccount, HomesSound, Calm, NoSelfConflict, SignedInHasHome, LogoutSound,
              TakesBack
<1>4. (\A p \in Procs : Placed(p)') /\ \A s \in cut' : CutSound(s)'
  BY <1>1 DEF Inv, Placed, CutSound
<1>5. ASSUME NEW s \in Submits PROVE LeaseSound(s)' /\ UserSound(s)' /\ LinkSound(s)'
  <2>1. LeaseSound(s) /\ UserSound(s) /\ LinkSound(s)
    BY DEF Inv
  <2>2. LeaseSound(s)' /\ UserSound(s)'
    BY <1>1, <2>1 DEF LeaseSound, Holds, UserSound, Past
  <2>3. loc[s].user # Rival /\ (pc[s] \in Linked => loc[s].user # None)
    BY <1>1, SubmitFacts DEF Placed, LocType, Linked, Marked, Submitting
  <2>4. pc[s] \in Marked \cup {"markdone"} => pc[s] \in Linked
    BY DEF Linked, Marked
  <2> QED
    BY <1>1, <2>1, <2>2, <2>3, <2>4 DEF LinkSound
<1>6. ASSUME NEW a \in Auths PROVE SignInSound(a)'
  <2>1. SignInSound(a) /\ Placed(a) /\ a \notin Submits
    BY Kinds DEF Inv
  <2> QED
    BY <1>1, <2>1 DEF SignInSound, Placed
<1> QED
  BY <1>2, <1>3, <1>4, <1>5, <1>6 DEF Inv

-----------------------------------------------------------------------------
(* What the invariant gives. *)

LEMMA AuthKeeps ==
    ASSUME Inv, ConstantsAssumption, NEW a \in Auths,
           \/ Identify(a) \/ AuthMarker(a) \/ LookRow(a) \/ Gate(a)
           \/ IssueFresh(a) \/ IssueAgain(a) \/ IssueRevived(a)
    PROVE  Inv'
  BY IdentifyKeeps, AuthMarkerKeeps, LooksKeep, IssueFreshKeeps, IssueAgainKeeps, IssueRevivedKeeps

LEMMA SubmitKeeps ==
    ASSUME Inv, ConstantsAssumption, NEW s \in Submits,
           \/ \E g \in Auths : Begin(s, g)
           \/ Resume(s) \/ SubmitMarker(s) \/ Reserve(s) \/ Create(s) \/ Link(s)
           \/ Remove(s) \/ Mark(s) \/ Approve(s) \/ Finalize(s) \/ Activate(s)
           \/ After(s) \/ Revert(s) \/ Reload(s) \/ Final(s) \/ Release(s)
           \/ MarkerLapses(s) \/ \E p \in Approvers : AdminApproves(p, s)
    PROVE  Inv'
<1>1. CASE \E g \in Auths : Begin(s, g)
  BY <1>1, BeginKeeps
<1>2. CASE \E p \in Approvers : AdminApproves(p, s)
  BY <1>2, AdminApprovesKeeps
<1>3. CASE Resume(s) \/ SubmitMarker(s) \/ Reserve(s) \/ Create(s) \/ Link(s) \/ Remove(s) \/ Mark(s)
  BY <1>3, ResumeKeeps, SubmitMarkerKeeps, ReserveKeeps, CreateKeeps, LinkKeeps, RemoveKeeps, MarkKeeps
<1>4. CASE Approve(s) \/ Finalize(s) \/ Activate(s) \/ Revert(s)
  BY <1>4, ApproveKeeps, FinalizeKeeps, ActivateKeeps, RevertKeeps
<1>5. CASE After(s) \/ Reload(s) \/ Final(s) \/ Release(s) \/ MarkerLapses(s)
  BY <1>5, ReloadKeeps, ReleaseKeeps, MarkerLapsesKeeps
<1> QED
  BY <1>1, <1>2, <1>3, <1>4, <1>5

LEMMA ProcKeeps ==
    ASSUME Inv, ConstantsAssumption, NEW p \in Procs,
           ClaimMarker(p) \/ MakeHome(p) \/ MarkDone(p) \/ LegacyHome(p) \/ Crash(p)
    PROVE  Inv'
  BY ClaimKeeps, MakeHomeKeeps, MarkDoneKeeps, LegacyHomeKeeps, CrashKeeps

LEMMA IdleKeeps ==
    ASSUME Inv, UNCHANGED vars
    PROVE  Inv'
<1>1. UNCHANGED <<row, status, identity, marker, homes, grants, pc, loc, used, early, cut, sweeps, faults>>
  BY DEF vars
<1>2. TypeOK'
  BY <1>1 DEF Inv, TypeOK
<1>3. RowSound' /\ OneAccount' /\ HomesSound' /\ NoSelfConflict' /\ SignedInHasHome' /\ LogoutSound'
  BY <1>1 DEF Inv, RowSound, OneAccount, HomesSound, Calm, NoSelfConflict, SignedInHasHome, LogoutSound,
              TakesBack
<1>4. (\A p \in Procs : Placed(p)') /\ (\A s \in cut' : CutSound(s)') /\ \A a \in Auths : SignInSound(a)'
  BY <1>1 DEF Inv, Placed, CutSound, SignInSound, Calm
<1>5. ASSUME NEW s \in Submits PROVE LeaseSound(s)' /\ UserSound(s)' /\ LinkSound(s)'
  <2>1. LeaseSound(s) /\ UserSound(s) /\ LinkSound(s)
    BY DEF Inv
  <2> QED
    BY <1>1, <2>1 DEF LeaseSound, Holds, UserSound, Past, LinkSound
<1> QED
  BY <1>2, <1>3, <1>4, <1>5 DEF Inv

LEMMA NextInv == ASSUME ConstantsAssumption, Inv, [Next]_vars PROVE Inv'
<1>1. CASE \E a \in Auths : \/ Identify(a) \/ AuthMarker(a) \/ LookRow(a) \/ Gate(a)
                            \/ IssueFresh(a) \/ IssueAgain(a) \/ IssueRevived(a)
  BY <1>1, AuthKeeps
<1>2. CASE \E s \in Submits : \/ \E g \in Auths : Begin(s, g)
                              \/ Resume(s) \/ SubmitMarker(s) \/ Reserve(s) \/ Create(s) \/ Link(s)
                              \/ Remove(s) \/ Mark(s) \/ Approve(s) \/ Finalize(s) \/ Activate(s)
                              \/ After(s) \/ Revert(s) \/ Reload(s) \/ Final(s) \/ Release(s)
                              \/ MarkerLapses(s) \/ \E p \in Approvers : AdminApproves(p, s)
  BY <1>2, SubmitKeeps
<1>3. CASE \E l \in Logouts, g \in Auths : Logout(l, g)
  BY <1>3, LogoutKeeps
<1>4. CASE \E p \in Procs : ClaimMarker(p) \/ MakeHome(p) \/ MarkDone(p) \/ LegacyHome(p) \/ Crash(p)
  BY <1>4, ProcKeeps
<1>5. CASE LeaseLapses \/ Expires \/ Sweep \/ LinkedElsewhere
  BY <1>5, ClocksKeep, SweepKeeps, LinkedElsewhereKeeps
<1>6. CASE UNCHANGED vars
  BY <1>6, IdleKeeps
<1> QED
  BY <1>1, <1>2, <1>3, <1>4, <1>5, <1>6 DEF Next

\* Nobody who takes an activation back is at rest.
LEMMA InvLogout == ASSUME ConstantsAssumption, Inv PROVE LogoutPrevents
<1>1. SUFFICES ASSUME AtRest, row # None, row.state = "CANCELLED", early, row.user # None,
                      status[row.user] = "active"
               PROVE  FALSE
  BY DEF LogoutPrevents
<1>2. PICK p \in Procs : TakesBack(p)
  BY <1>1 DEF Inv, LogoutSound
<1> QED
  BY <1>1, <1>2 DEF AtRest, TakesBack

LEMMA InvCutOff == Inv => CutOff
  BY DEF Inv, CutSound, CutOff

(* At any time the types hold, the holder of the lease works on the row there is and for
   the account it has reserved, a submission works for an account of its own identity, who
   links it has made it, and an account activated behind a logout has somebody to take it
   back (auth-registration.ts, pending-auth-registration.ts, user-activation.ts). *)
THEOREM Invariance == ASSUME ConstantsAssumption PROVE Spec => []Inv
<1>1. Init => Inv
  BY InitInv
<1>2. Inv /\ [Next]_vars => Inv'
  BY NextInv
<1> QED
  BY <1>1, <1>2, PTL DEF Spec

(* A submission that a logout overtook before it finalized the row never reports a
   registration: it has lost the lease for good, for no row ever leases to a token it
   was taken from (pending-auth-registration.ts:474-482). *)
THEOREM CutOffStaysCut == ASSUME ConstantsAssumption PROVE Spec => []CutOff
  BY Invariance, InvCutOff, PTL

(* When nobody is at work, a logout that came before the account was active has kept it
   from becoming so, if nobody died and no administrator decided otherwise
   (auth-registration.ts:521-548). *)
THEOREM LogoutIsMadeGood == ASSUME ConstantsAssumption PROVE Spec => []LogoutPrevents
<1>1. Inv => LogoutPrevents
  BY InvLogout
<1> QED
  BY <1>1, Invariance, PTL

(* Before its row expires, an identity has one account at most, so no submission is told
   that the address is taken (pending-auth-registration.ts:318-413). *)
THEOREM NeverOwnConflict == ASSUME ConstantsAssumption PROVE Spec => []NoSelfConflict
<1>1. Inv => NoSelfConflict
  BY DEF Inv
<1> QED
  BY <1>1, Invariance, PTL

(* A sign-in that is answered with the account finds its user page, whoever was making
   it, unless an administrator approved the account (auth-registration.ts:78-97). *)
THEOREM SignInsFindHome == ASSUME ConstantsAssumption PROVE Spec => []SignedInHasHome
<1>1. Inv => SignedInHasHome
  BY DEF Inv
<1> QED
  BY <1>1, Invariance, PTL

=============================================================================
