------------------------- MODULE PageTransitionProofs -------------------------
(***************************************************************************)
(* Proofs about PageTransition for any number of operations, deliveries,   *)
(* sweeps, deletions and crashes, and any paths.                           *)
(*                                                                         *)
(* A record, once made, never changes where its operation leads; what      *)
(* happened to the page never becomes untrue.  So what a process has seen  *)
(* as evidence of a move stays evidence while it is interrupted, and the   *)
(* invariant says, for each label, what the process at it has seen.        *)
(***************************************************************************)
EXTENDS PageTransition, SequenceTheorems, TLAPS

\* Where a process works on an operation that has its record.
Recorded == Labels \ {"read", "resolve", "prepare", "create", "idle", "delete", "purge", "done"}

\* What the locals of a process are at each label, with the records R.
LocalsTypedAt(p, l, x, R) ==
    /\ l \in {"resolve", "prepare", "create"} =>
         p \in Deliveries /\ x.op \in Ops /\ x.path \in Paths /\ x.status \in Statuses
    /\ l \in {"prepare", "create"} => x.status \in Settled
    /\ l = "create" /\ Command[x.op] = "trash" => x.path \in DOMAIN TrashOf
    /\ l = "create" /\ Command[x.op] = "restore" => x.path \in DOMAIN RestoreOf
    /\ l \in Recorded => x.op \in Ops /\ R[x.op] # None

LocalsTyped(p) == LocalsTypedAt(p, pc[p], loc[p], record)

Typed == TypeOK /\ \A p \in Procs : LocalsTyped(p)

-----------------------------------------------------------------------------
\* The operation moved the page, or, on a page whose history began late, one that
\* leads to the same place did.
Moved(o) ==
    \/ done[o] > 0
    \/ page.legacy /\ \E q \in Ops : done[q] > 0 /\ To(q) = To(o)

\* What the documents satisfy.
Journalled ==
    /\ \A i \in DOMAIN log : done[log[i]] > 0
    /\ \A q \in Ops : done[q] > 0 => record[q] # None
    /\ page.live /\ page.staged => log # <<>>

HeldAtDestination == page.holder # None => page.path = record[page.holder].to

\* The page is where an operation brought it, or nothing has moved it yet; and
\* then nobody has asked for it to be where it is.
Arrived == \E q \in Ops : done[q] > 0 /\ Place(page.path, page.status) = To(q)

LeavingHome(d) ==
    /\ pc[d] \in {"resolve", "prepare", "create"} => loc[d].path = Home
    /\ pc[d] = "create" /\ Command[Op(d)] = "rename" => Target[Op(d)] # Home

Untouched ==
    /\ page.path = Home /\ page.status = "published"
    /\ \A o \in Ops : record[o] # None => To(o) # Place(Home, "published")
    /\ \A d \in Deliveries : LeavingHome(d)

Positioned == page.live /\ page.holder = None => Arrived \/ Untouched

Documents ==
    /\ Journalled /\ HeldAtDestination /\ Positioned
    /\ ~page.ready => page.legacy
    /\ \A o \in Ops : Result(o) = "succeeded" => Moved(o)

\* What a process has seen.
Evident(p) ==
    /\ pc[p] \in {"assist", "complete", "correct"} \/ (pc[p] = "row" /\ loc[p].settled)
         => Moved(Op(p))
    /\ pc[p] = "purge" => ~page.live

Inv == Typed /\ Documents /\ \A p \in Procs : Evident(p)

-----------------------------------------------------------------------------
\* How the sets of processes lie in one another.
LEMMA Sets ==
    /\ Deliveries \subseteq Movers /\ Sweeps \subseteq Movers /\ Movers \subseteq Procs
    /\ Deleters \subseteq Procs /\ Deliveries \cap Sweeps = {}
    /\ \A p \in Procs : p \in Deliveries \/ p \in Sweeps \/ p \in Deleters
    /\ Deliveries \cap Deleters = {} /\ Sweeps \cap Deleters = {}
BY ConstantsAssumption DEF Movers, Procs

\* A process that has no locals is typed.
LEMMA NoLocTyped == NoLoc \in LocType
BY DEF NoLoc, LocType, Labels

\* A process that keeps its operation alone is typed.
LEMMA ForTyped ==
    ASSUME NEW p, Op(p) \in Ops
    PROVE  /\ For(p) \in LocType /\ For(p).op = Op(p)
           /\ AfterCommand(p) \in LocType /\ AfterCommand(p).op = Op(p)
BY NoLocTyped DEF For, AfterCommand, LocType, NoLoc, Labels

DocsTyped ==
    /\ page \in PageType
    /\ stubs \in [Paths -> Paths \cup {None}]
    /\ record \in [Ops -> RecordType \cup {None}]
    /\ log \in Seq(Ops) /\ done \in [Ops -> Nat] /\ faults \in Nat
    /\ (page.status = "renaming") <=> (page.holder # None)
    /\ page.holder # None => record[page.holder] # None

\* What typing says of one process.
LEMMA TypedNow ==
    ASSUME Typed, NEW p \in Procs
    PROVE  /\ loc[p] \in LocType /\ pc[p] \in Labels /\ LocalsTyped(p) /\ DocsTyped
           /\ pc \in [Procs -> Labels] /\ loc \in [Procs -> LocType]
           /\ pc[p] \in Recorded => Op(p) \in Ops /\ Rec(p) \in RecordType
BY DEF Typed, TypeOK, DocsTyped, LocalsTyped, LocalsTypedAt, Op, Rec

\* p moves, and what it takes along has the right types.
TypedMove(p) ==
    \E l \in Labels, x \in LocType : Move(p, l, x) /\ LocalsTypedAt(p, l, x, record')

\* Records are made and settled, never unmade or redirected.
RecordsKept ==
    \A o \in Ops : record[o] # None =>
      /\ record'[o] # None
      /\ record'[o].from = record[o].from /\ record'[o].fromStatus = record[o].fromStatus
      /\ record'[o].to = record[o].to /\ record'[o].toStatus = record[o].toStatus

\* A typed move beside typed documents keeps everything typed.
LEMMA TypedMoveSuffices ==
    ASSUME Typed, NEW p \in Procs, TypedMove(p), DocsTyped', RecordsKept
    PROVE  Typed'
<1>1. PICK l \in Labels, x \in LocType : Move(p, l, x) /\ LocalsTypedAt(p, l, x, record')
  BY DEF TypedMove
<1>2. /\ pc' \in [Procs -> Labels] /\ loc' \in [Procs -> LocType]
      /\ pc'[p] = l /\ loc'[p] = x
      /\ \A q \in Procs : q # p => pc'[q] = pc[q] /\ loc'[q] = loc[q]
  BY <1>1, TypedNow DEF Move
<1>3. TypeOK'
  BY <1>2 DEF TypeOK, DocsTyped
<1>4. ASSUME NEW q \in Procs PROVE LocalsTyped(q)'
  BY <1>1, <1>2 DEF Typed, LocalsTyped, LocalsTypedAt, RecordsKept
<1> QED BY <1>3, <1>4 DEF Typed

\* A move to a label whose needs the locals meet is typed.
LEMMA GotoTyped ==
    ASSUME Typed, NEW p \in Procs, NEW l \in Labels, Goto(p, l),
           LocalsTypedAt(p, l, loc[p], record')
    PROVE  TypedMove(p)
BY TypedNow DEF Goto, TypedMove

\* The same for the steps that change no document but the count of faults.
Quiet == UNCHANGED <<page, stubs, record, log, done>> /\ faults' \in Nat

LEMMA QuietTyped ==
    ASSUME Typed, NEW p \in Procs, TypedMove(p), Quiet PROVE Typed'
<1>1. DocsTyped' /\ RecordsKept
  BY TypedNow DEF Quiet, DocsTyped, RecordsKept
<1> QED BY <1>1, TypedMoveSuffices

\* A process may always end.
LEMMA FinishTyped == ASSUME NEW p \in Procs, Finish(p) PROVE TypedMove(p)
BY NoLocTyped DEF Finish, TypedMove, LocalsTypedAt, Rest, Labels, Recorded

\* A process that has a record goes on with the same operation.
LEMMA RecordedMove ==
    ASSUME Typed, NEW p \in Procs, pc[p] \in Recorded, NEW l \in Recorded, NEW x \in LocType,
           x.op = Op(p), Move(p, l, x), RecordsKept
    PROVE  TypedMove(p)
BY TypedNow DEF TypedMove, LocalsTypedAt, LocalsTyped, Recorded, RecordsKept, Op

\* The same, with the same locals.
LEMMA RecordedGoto ==
    ASSUME Typed, NEW p \in Procs, pc[p] \in Recorded, NEW l \in Recorded, Goto(p, l),
           RecordsKept
    PROVE  TypedMove(p)
BY TypedNow, RecordedMove DEF Goto, Op

\* Records that are not touched are kept.
LEMMA SameRecords == ASSUME record' = record PROVE RecordsKept
BY DEF RecordsKept

\* What a caller does on a missing page is a typed move.
LEMMA MissingTyped ==
    ASSUME Typed, NEW p \in Procs, pc[p] \in Recorded, Missing(p), RecordsKept
    PROVE  TypedMove(p)
BY FinishTyped, RecordedGoto DEF Missing, Recorded, Labels

\* The labels at which the steps of a move are taken.
LEMMA RecordedLabels ==
    {"reread", "promote", "enter", "classify", "reload", "vacate", "exit_read", "exit",
     "store", "evidence", "assist", "row", "complete", "moot", "correct", "judge", "fail"}
      = Recorded
BY DEF Recorded, Labels

-----------------------------------------------------------------------------
(* Type correctness, one action at a time. *)

\* Read keeps the state typed.
LEMMA ReadTyped == ASSUME Typed, NEW d \in Deliveries, Read(d) PROVE Typed'
<1> DEFINE x == [loc[d] EXCEPT !.op = Key[d], !.path = page.path,
                               !.status = page.status, !.ready = page.ready]
<1>1. d \in Procs /\ loc[d] \in LocType /\ page \in PageType /\ Key[d] \in Ops
  BY Sets, TypedNow, ConstantsAssumption DEF DocsTyped
<1>2. /\ x \in LocType /\ x.op = Key[d] /\ x.path = page.path /\ x.status = page.status
  BY <1>1 DEF LocType, PageType
<1>3. CASE Move(d, "resolve", x)
  <2>1. LocalsTypedAt(d, "resolve", x, record')
    BY <1>1, <1>2 DEF LocalsTypedAt, PageType, Recorded
  <2> QED BY <1>1, <1>2, <1>3, <2>1, TypedNow, QuietTyped
          DEF TypedMove, Labels, Read, ReadOnly, Quiet, DocsTyped
<1> QED BY <1>1, <1>3, FinishTyped, TypedNow, QuietTyped DEF Read, ReadOnly, Quiet, DocsTyped

\* A read-only step whose move is typed keeps the state typed.
LEMMA ReadOnlyTyped ==
    ASSUME Typed, NEW p \in Procs, TypedMove(p), ReadOnly PROVE Typed'
BY TypedNow, QuietTyped DEF ReadOnly, Quiet, DocsTyped

\* Resolve keeps the state typed.
LEMMA ResolveTyped == ASSUME Typed, NEW d \in Deliveries, Resolve(d) PROVE Typed'
<1>1. /\ d \in Procs /\ loc[d] \in LocType /\ Op(d) \in Ops /\ loc[d].path \in Paths
      /\ loc[d].status \in Statuses /\ RecordsKept
  BY Sets, TypedNow, SameRecords DEF Resolve, ReadOnly, LocalsTyped, LocalsTypedAt, Op
<1>2. ASSUME Goto(d, "prepare"), loc[d].status # "renaming" PROVE TypedMove(d)
  <2>1. LocalsTypedAt(d, "prepare", loc[d], record') /\ "prepare" \in Labels
    BY <1>1, <1>2 DEF LocalsTypedAt, Labels, Statuses, Recorded, Op
  <2> QED BY <1>1, <1>2, <2>1, GotoTyped
<1>3. ASSUME Goto(d, "reread"), Rec(d) # None PROVE TypedMove(d)
  <2>1. LocalsTypedAt(d, "reread", loc[d], record') /\ "reread" \in Labels
    BY <1>1, <1>3 DEF Resolve, ReadOnly, LocalsTypedAt, Labels, Recorded, Op, Rec
  <2> QED BY <1>1, <1>3, <2>1, GotoTyped
<1>4. TypedMove(d)
  <2>1. CASE Rec(d) = None
    BY <1>1, <1>2, <2>1, FinishTyped DEF Resolve
  <2>2. CASE Rec(d) # None
    BY <1>1, <1>3, <2>2, FinishTyped DEF Resolve
  <2> QED BY <2>1, <2>2
<1> QED BY <1>1, <1>4, ReadOnlyTyped DEF Resolve

\* Prepare keeps the state typed.
LEMMA PrepareTyped == ASSUME Typed, NEW d \in Deliveries, Prepare(d) PROVE Typed'
<1>1. /\ d \in Procs /\ loc[d] \in LocType /\ Op(d) \in Ops /\ loc[d].path \in Paths
      /\ loc[d].status \in Settled /\ RecordsKept /\ DocsTyped
  BY Sets, TypedNow, SameRecords DEF Prepare, LocalsTyped, LocalsTypedAt, Op
<1>2. ASSUME Goto(d, "create"),
             Command[Op(d)] = "trash" => loc[d].path \in DOMAIN TrashOf,
             Command[Op(d)] = "restore" => loc[d].path \in DOMAIN RestoreOf
      PROVE  TypedMove(d)
  <2>1. LocalsTypedAt(d, "create", loc[d], record') /\ "create" \in Labels
    BY <1>1, <1>2 DEF LocalsTypedAt, Labels, Statuses, Settled, Recorded, Op
  <2> QED BY <1>1, <1>2, <2>1, GotoTyped
<1>3. TypedMove(d)
  <2>1. CASE Finish(d)
    BY <1>1, <2>1, FinishTyped
  <2>2. CASE ~Finish(d)
    <3>1. /\ Goto(d, "create")
          /\ Command[Op(d)] = "trash" => loc[d].path \in DOMAIN TrashOf
          /\ Command[Op(d)] = "restore" => loc[d].path \in DOMAIN RestoreOf
      BY <2>2 DEF Prepare
    <3> QED BY <1>2, <3>1
  <2> QED BY <2>1, <2>2
<1>4. stubs' \in [Paths -> Paths \cup {None}]
  BY <1>1 DEF Prepare, DocsTyped
<1>5. DocsTyped'
  BY <1>1, <1>4 DEF Prepare, DocsTyped
<1> QED BY <1>1, <1>3, <1>5, TypedMoveSuffices

\* Where a delivery sends the page is a place.
LEMMA CreatedTyped ==
    ASSUME Typed, NEW d \in Deliveries, pc[d] = "create"
    PROVE  [from |-> loc[d].path, to |-> Destination(d), fromStatus |-> loc[d].status,
            toStatus |-> FinalStatus(d), result |-> "open", old |-> FALSE] \in RecordType
<1>1. /\ Op(d) \in Ops /\ loc[d].path \in Paths /\ loc[d].status \in Settled
      /\ Command[Op(d)] = "trash" => loc[d].path \in DOMAIN TrashOf
      /\ Command[Op(d)] = "restore" => loc[d].path \in DOMAIN RestoreOf
  BY Sets, TypedNow DEF LocalsTyped, LocalsTypedAt, Op
<1>2. Command[Op(d)] \in {"rename", "trash", "restore"} /\ Target[Op(d)] \in Paths
  BY <1>1, ConstantsAssumption
<1>3. Destination(d) \in Paths
  BY <1>1, <1>2, ConstantsAssumption DEF Destination
<1>4. FinalStatus(d) \in Settled
  BY <1>1, <1>2 DEF FinalStatus, Settled
<1> QED BY <1>1, <1>3, <1>4 DEF RecordType, Results

\* Create keeps the state typed, and the records.
LEMMA CreateTyped ==
    ASSUME Typed, NEW d \in Deliveries, Create(d) PROVE Typed' /\ RecordsKept
<1> DEFINE r == [from |-> loc[d].path, to |-> Destination(d), fromStatus |-> loc[d].status,
                 toStatus |-> FinalStatus(d), result |-> "open", old |-> FALSE]
<1>1. /\ d \in Procs /\ loc[d] \in LocType /\ Op(d) \in Ops /\ DocsTyped
      /\ For(d) \in LocType /\ For(d).op = Op(d)
  BY Sets, TypedNow, ForTyped DEF Create, LocalsTyped, LocalsTypedAt, Op
<1>2. r \in RecordType /\ r # None
  BY CreatedTyped, NoneAssumption DEF Create
<1> HIDE DEF r
<1>3. CASE /\ record' = [record EXCEPT ![Op(d)] = r] /\ record[Op(d)] = None
           /\ Move(d, Begin(Op(d), loc[d].ready), For(d))
  <2>1. RecordsKept /\ record'[Op(d)] # None
    BY <1>1, <1>2, <1>3 DEF RecordsKept, DocsTyped
  <2>2. record' \in [Ops -> RecordType \cup {None}] /\ DocsTyped'
    BY <1>1, <1>2, <1>3, <2>1 DEF Create, DocsTyped, RecordsKept, PageType
  <2>3. TypedMove(d)
    BY <1>1, <1>3, <2>1 DEF Begin, TypedMove, LocalsTypedAt, Labels, Recorded
  <2> QED BY <1>1, <2>1, <2>2, <2>3, TypedMoveSuffices
<1>4. CASE Finish(d) /\ record' = record
  <2>1. DocsTyped' /\ RecordsKept
    BY <1>1, <1>4, SameRecords DEF Create, DocsTyped
  <2> QED BY <1>1, <1>4, <2>1, FinishTyped, TypedMoveSuffices
<1> QED BY <1>3, <1>4 DEF Create, r, Rec, Op

\* The steps of a move that change no document keep the state typed.
LEMMA LookTyped ==
    ASSUME Typed, NEW p \in Movers,
           Reread(p) \/ ClassifyEntry(p) \/ Reload(p) \/ Evidence(p) \/ Row(p) \/ Judge(p)
    PROVE  Typed'
<1>1. /\ p \in Procs /\ loc[p] \in LocType /\ pc[p] \in Recorded /\ Op(p) \in Ops
      /\ For(p) \in LocType /\ For(p).op = Op(p) /\ RecordsKept
      /\ AfterCommand(p) \in LocType /\ AfterCommand(p).op = Op(p)
  BY Sets, TypedNow, ForTyped, RecordedLabels, SameRecords
     DEF Reread, ClassifyEntry, Reload, Evidence, Row, Judge, ReadOnly
<1>2. /\ \A l \in {"vacate", "evidence"} : [loc[p] EXCEPT !.next = l] \in LocType
      /\ \A b \in BOOLEAN : [loc[p] EXCEPT !.settled = b] \in LocType
      /\ [loc[p] EXCEPT !.enters = @ + 1] \in LocType
  BY <1>1 DEF LocType, Labels
<1>3. /\ \A l \in {"vacate", "evidence"} : [loc[p] EXCEPT !.next = l].op = Op(p)
      /\ \A b \in BOOLEAN : [loc[p] EXCEPT !.settled = b].op = Op(p)
      /\ [loc[p] EXCEPT !.enters = @ + 1].op = Op(p)
  BY <1>1 DEF LocType, Op
<1>4. PositionProves(Op(p)) \in BOOLEAN
  BY DEF PositionProves
<1>5. \A o \in Ops, b \in BOOLEAN : Begin(o, b) \in Recorded
  BY DEF Begin, Recorded, Labels
<1>6. TypedMove(p)
  <2>1. CASE Reread(p)
    <3>1. page.ready \in BOOLEAN
      BY <1>1, TypedNow DEF DocsTyped, PageType
    <3> QED BY <1>1, <1>5, <2>1, <3>1, MissingTyped, RecordedMove DEF Reread
  <2>2. CASE ClassifyEntry(p)
    <3>1. {"reload", "enter"} \subseteq Recorded
      BY DEF Recorded, Labels
    <3> QED BY <1>1, <1>2, <1>3, <2>2, <3>1, MissingTyped, RecordedMove, FinishTyped
            DEF ClassifyEntry
  <2>3. CASE Reload(p)
    <3>1. {"vacate", "evidence"} \subseteq Recorded
      BY DEF Recorded, Labels
    <3> QED BY <1>1, <2>3, <3>1, MissingTyped, RecordedMove DEF Reload
  <2>4. CASE Evidence(p)
    <3>1. {"assist", "row"} \subseteq Recorded
      BY DEF Recorded, Labels
    <3> QED BY <1>1, <1>2, <1>3, <1>4, <2>4, <3>1, RecordedGoto, RecordedMove DEF Evidence
  <2>5. CASE Row(p)
    <3>1. {"correct", "complete", "judge"} \subseteq Recorded
      BY DEF Recorded, Labels
    <3> QED BY <1>1, <2>5, <3>1, RecordedGoto, FinishTyped DEF Row, Proven
  <2>6. CASE Judge(p)
    <3>1. {"reread", "fail", "moot"} \subseteq Recorded
      BY DEF Recorded, Labels
    <3> QED BY <1>1, <2>6, <3>1, RecordedGoto, FinishTyped DEF Judge
  <2> QED BY <2>1, <2>2, <2>3, <2>4, <2>5, <2>6
<1> QED BY <1>1, <1>6, ReadOnlyTyped
        DEF Reread, ClassifyEntry, Reload, Evidence, Row, Judge

\* Promote, Enter and Vacate keep the state typed.
LEMMA EntryTyped ==
    ASSUME Typed, NEW p \in Movers, Promote(p) \/ Enter(p) \/ Vacate(p) PROVE Typed'
<1>1. /\ p \in Procs /\ pc[p] \in Recorded /\ Op(p) \in Ops /\ Rec(p) \in RecordType
      /\ For(p) \in LocType /\ For(p).op = Op(p) /\ RecordsKept /\ DocsTyped
  BY Sets, TypedNow, ForTyped, RecordedLabels, SameRecords DEF Promote, Enter, Vacate
<1>2. record[Op(p)] # None /\ Op(p) # None
  BY <1>1, NoneAssumption, ConstantsAssumption DEF Rec, Op
<1>3. {"enter", "classify", "vacate", "exit_read"} \subseteq Recorded
  BY DEF Recorded, Labels
<1>4. TypedMove(p)
  BY <1>1, <1>3, FinishTyped, MissingTyped, RecordedGoto, RecordedMove
     DEF Promote, Enter, Vacate
<1>5. DocsTyped'
  <2>1. CASE Promote(p)
    BY <1>1, <2>1 DEF Promote, DocsTyped, PageType
  <2>2. CASE Enter(p)
    <3>1. Rec(p).to \in Paths
      BY <1>1 DEF RecordType
    <3> QED BY <1>1, <1>2, <2>2, <3>1 DEF Enter, DocsTyped, PageType, Statuses
  <2>3. CASE Vacate(p)
    <3>1. Rec(p).to \in Paths
      BY <1>1 DEF RecordType
    <3>2. stubs' \in [Paths -> Paths \cup {None}]
      BY <1>1, <2>3, <3>1 DEF Vacate, DocsTyped
    <3> QED BY <1>1, <2>3, <3>2 DEF Vacate, DocsTyped
  <2> QED BY <2>1, <2>2, <2>3
<1> QED BY <1>1, <1>4, <1>5, TypedMoveSuffices

\* ExitRead and Exit keep the state typed.
LEMMA ExitTyped ==
    ASSUME Typed, NEW p \in Movers, ExitRead(p) \/ Exit(p) PROVE Typed'
<1>1. /\ p \in Procs /\ pc[p] \in Recorded /\ Op(p) \in Ops /\ Rec(p) \in RecordType
      /\ AfterCommand(p) \in LocType /\ AfterCommand(p).op = Op(p) /\ RecordsKept
      /\ DocsTyped /\ loc[p] \in LocType
  BY Sets, TypedNow, ForTyped, RecordedLabels, SameRecords DEF ExitRead, Exit
<1>2. {"exit_read", "exit", "store", "evidence"} \subseteq Recorded
  BY DEF Recorded, Labels
<1>3. CASE ExitRead(p)
  <2> DEFINE x == [loc[p] EXCEPT !.claims = @ + 1, !.n = Len(log), !.event = page.ready]
  <2>1. x \in LocType /\ x.op = Op(p)
    <3>1. Len(log) \in Nat /\ page.ready \in BOOLEAN /\ loc[p].claims + 1 \in Nat
      BY <1>1 DEF LocType, DocsTyped, PageType
    <3> QED BY <1>1, <3>1 DEF LocType, Op
  <2> HIDE DEF x
  <2>2. TypedMove(p)
    BY <1>1, <1>2, <1>3, <2>1, FinishTyped, RecordedGoto, RecordedMove DEF ExitRead, x
  <2>3. DocsTyped'
    BY <1>1, <1>3 DEF ExitRead, Drained, DocsTyped, PageType
  <2> QED BY <1>1, <2>2, <2>3, TypedMoveSuffices
<1>4. CASE Exit(p)
  <2>1. TypedMove(p)
    BY <1>1, <1>2, <1>4, RecordedGoto, RecordedMove DEF Exit
  <2>2. CASE ExitMatches(p)
    <3>1. log' \in Seq(Ops)
      <4>1. log \in Seq(Ops) /\ Append(log, Op(p)) \in Seq(Ops)
        BY <1>1 DEF DocsTyped
      <4> QED BY <1>4, <2>2, <4>1 DEF Exit
    <3>2. done' \in [Ops -> Nat]
      BY <1>1, <1>4, <2>2 DEF Exit, DocsTyped
    <3>3. Rec(p).toStatus \in Settled /\ loc[p].event \in BOOLEAN
      BY <1>1 DEF RecordType, LocType
    <3>4. page' \in PageType /\ page'.status # "renaming" /\ page'.holder = None
      BY <1>1, <1>4, <2>2, <3>3 DEF Exit, DocsTyped, PageType, Statuses, Settled
    <3>5. DocsTyped'
      BY <1>1, <1>4, <3>1, <3>2, <3>4 DEF Exit, DocsTyped
    <3> QED BY <1>1, <2>1, <3>5, TypedMoveSuffices
  <2>3. CASE ~ExitMatches(p)
    <3>1. DocsTyped'
      BY <1>1, <1>4, <2>3 DEF Exit, DocsTyped
    <3> QED BY <1>1, <2>1, <3>1, TypedMoveSuffices
  <2> QED BY <2>2, <2>3
<1> QED BY <1>3, <1>4

\* Storing the event keeps the state typed.
LEMMA StoreTyped ==
    ASSUME Typed, NEW p \in Movers, Store(p) \/ Assist(p) PROVE Typed'
<1>1. /\ p \in Procs /\ pc[p] \in Recorded /\ Op(p) \in Ops /\ RecordsKept /\ DocsTyped
      /\ AfterCommand(p) \in LocType /\ AfterCommand(p).op = Op(p)
  BY Sets, TypedNow, ForTyped, RecordedLabels, SameRecords DEF Store, Assist
<1>2. {"evidence", "correct", "complete"} \subseteq Recorded
  BY DEF Recorded, Labels
<1>3. TypedMove(p)
  BY <1>1, <1>2, RecordedGoto, RecordedMove DEF Store, Assist, Proven
<1>4. DocsTyped'
  BY <1>1 DEF Store, Assist, Drained, DocsTyped, PageType
<1> QED BY <1>1, <1>3, <1>4, TypedMoveSuffices

\* Settling a record and ageing it leave where it leads alone.
LEMMA UpdateTyped ==
    ASSUME DocsTyped, NEW o \in Ops, NEW r \in RecordType, record' = [record EXCEPT ![o] = r],
           record[o] # None, r.from = record[o].from, r.to = record[o].to,
           r.fromStatus = record[o].fromStatus, r.toStatus = record[o].toStatus
    PROVE  RecordsKept /\ record' \in [Ops -> RecordType \cup {None}]
BY NoneAssumption DEF DocsTyped, RecordsKept

\* The steps that settle a record keep the state typed, and the records.
LEMMA SettleTyped ==
    ASSUME Typed, NEW p \in Movers, Complete(p) \/ Moot(p) \/ Fail(p) \/ Correct(p)
    PROVE  Typed' /\ RecordsKept
<1>1. /\ p \in Procs /\ pc[p] \in Recorded /\ Op(p) \in Ops /\ DocsTyped
      /\ Rec(p) \in RecordType /\ record[Op(p)] # None /\ Rec(p) = record[Op(p)]
  BY Sets, TypedNow, RecordedLabels, NoneAssumption
     DEF Complete, Moot, Fail, Correct, Rec, Op
<1>2. \A v \in Results : [Rec(p) EXCEPT !.result = v] \in RecordType
  BY <1>1 DEF RecordType
<1>3. \/ record' = record
      \/ \E v \in Results : record' = [record EXCEPT ![Op(p)] = [Rec(p) EXCEPT !.result = v]]
  BY <1>1 DEF Complete, Moot, Fail, Correct, Settle, Results, Rec, Op
<1>4. RecordsKept /\ record' \in [Ops -> RecordType \cup {None}]
  <2>1. CASE record' = record
    BY <1>1, <2>1, SameRecords DEF DocsTyped
  <2>2. ASSUME NEW v \in Results, record' = [record EXCEPT ![Op(p)] = [Rec(p) EXCEPT !.result = v]]
        PROVE  RecordsKept /\ record' \in [Ops -> RecordType \cup {None}]
    <3>1. /\ [Rec(p) EXCEPT !.result = v].from = Rec(p).from
          /\ [Rec(p) EXCEPT !.result = v].to = Rec(p).to
          /\ [Rec(p) EXCEPT !.result = v].fromStatus = Rec(p).fromStatus
          /\ [Rec(p) EXCEPT !.result = v].toStatus = Rec(p).toStatus
      BY <1>1 DEF RecordType
    <3> QED BY <1>1, <1>2, <2>2, <3>1, UpdateTyped
  <2> QED BY <1>3, <2>1, <2>2
<1>5. Finish(p) /\ UNCHANGED <<page, stubs, log, done, faults>>
  BY DEF Complete, Moot, Fail, Correct, Settle
<1>6. DocsTyped'
  BY <1>1, <1>4, <1>5 DEF DocsTyped, RecordsKept, PageType
<1> QED BY <1>1, <1>4, <1>5, <1>6, FinishTyped, TypedMoveSuffices

\* Ageing and draining, which no process does, keep the state typed.
LEMMA OutsideTyped ==
    ASSUME Typed, OutboxDrained \/ \E o \in Ops : Age(o) PROVE Typed' /\ RecordsKept
<1>1. DocsTyped
  BY DEF Typed, TypeOK, DocsTyped
<1>2. CASE OutboxDrained
  <2>1. TypeOK'
    BY <1>2 DEF OutboxDrained, Drained, Typed, TypeOK, PageType
  <2> QED BY <1>2, <2>1, SameRecords DEF OutboxDrained, Typed, LocalsTyped
<1>3. ASSUME NEW o \in Ops, Age(o) PROVE Typed' /\ RecordsKept
  <2>1. record[o] \in RecordType
    BY <1>1, <1>3 DEF Age, DocsTyped
  <2>2. record' = [record EXCEPT ![o] = [record[o] EXCEPT !.old = TRUE]]
    BY <1>1, <1>3 DEF Age, DocsTyped
  <2>3. [record[o] EXCEPT !.old = TRUE] \in RecordType
    BY <2>1 DEF RecordType
  <2>4. /\ [record[o] EXCEPT !.old = TRUE].from = record[o].from
        /\ [record[o] EXCEPT !.old = TRUE].to = record[o].to
        /\ [record[o] EXCEPT !.old = TRUE].fromStatus = record[o].fromStatus
        /\ [record[o] EXCEPT !.old = TRUE].toStatus = record[o].toStatus
    BY <2>1 DEF RecordType
  <2>5. RecordsKept /\ record' \in [Ops -> RecordType \cup {None}]
    BY <1>1, <1>3, <2>2, <2>3, <2>4, UpdateTyped DEF Age
  <2>6. TypeOK'
    BY <1>1, <1>3, <2>5 DEF Age, Typed, TypeOK, RecordsKept, PageType
  <2>7. ASSUME NEW q \in Procs PROVE LocalsTyped(q)'
    BY <1>3, <2>5 DEF Age, Typed, LocalsTyped, LocalsTypedAt, RecordsKept
  <2> QED BY <2>5, <2>6, <2>7 DEF Typed
<1> QED BY <1>2, <1>3

\* A sweep's visit to an operation keeps the state typed.
LEMMA VisitTyped ==
    ASSUME Typed, NEW s \in Sweeps, NEW o \in Ops, Visit(s, o) PROVE Typed'
<1> DEFINE x == [NoLoc EXCEPT !.op = o, !.next = "judge",
                              !.failed = record[o].result = "failed"]
<1>1. x \in LocType /\ x.op = o
  BY NoLocTyped DEF LocType, NoLoc, Labels
<1>2. LocalsTypedAt(s, "evidence", x, record') /\ "evidence" \in Labels
  BY <1>1 DEF Visit, Unresolved, ReadOnly, LocalsTypedAt, Labels
<1>3. Move(s, "evidence", x)
  BY DEF Visit
<1>4. TypedMove(s)
  BY <1>1, <1>2, <1>3 DEF TypedMove
<1> QED BY <1>4, Sets, ReadOnlyTyped DEF Visit

\* The hard deletion keeps the state typed.
LEMMA DeleteTyped ==
    ASSUME Typed, NEW x \in Deleters, DeleteLook(x) \/ DeletePage(x) \/ PurgeEvents(x)
    PROVE  Typed'
<1>1. x \in Procs /\ DocsTyped /\ RecordsKept
  BY Sets, TypedNow, SameRecords DEF DeleteLook, DeletePage, PurgeEvents, ReadOnly
<1>2. \A l \in {"delete", "purge"} : l \in Labels /\ LocalsTypedAt(x, l, loc[x], record')
  BY DEF LocalsTypedAt, Labels, Recorded
<1>3. TypedMove(x)
  BY <1>1, <1>2, GotoTyped, FinishTyped DEF DeleteLook, DeletePage, PurgeEvents
<1>4. log' \in Seq(Ops)
  <2>1. log \in Seq(Ops) /\ <<>> \in Seq(Ops)
    BY <1>1 DEF DocsTyped
  <2> QED BY <2>1 DEF DeleteLook, DeletePage, PurgeEvents, ReadOnly
<1>5. DocsTyped'
  <2>1. /\ page' = page \/ page' = [page EXCEPT !.live = FALSE]
        /\ UNCHANGED <<stubs, record, done, faults>>
    BY DEF DeleteLook, DeletePage, PurgeEvents, ReadOnly
  <2>2. page' \in PageType /\ page'.status = page.status /\ page'.holder = page.holder
    BY <1>1, <2>1 DEF DocsTyped, PageType
  <2> QED BY <1>1, <1>4, <2>1, <2>2 DEF DocsTyped
<1> QED BY <1>1, <1>3, <1>5, TypedMoveSuffices

\* A crash keeps the state typed.
LEMMA CrashTyped == ASSUME Typed, NEW p \in Movers, Crash(p) PROVE Typed'
<1>1. p \in Procs /\ TypedMove(p) /\ Quiet
  BY Sets, TypedNow, FinishTyped DEF Crash, Quiet, DocsTyped
<1> QED BY <1>1, QuietTyped

\* Every step keeps the state typed.
LEMMA NextTyped == Typed /\ [Next]_vars => Typed'
<1> SUFFICES ASSUME Typed, [Next]_vars PROVE Typed'
  OBVIOUS
<1>1. ASSUME NEW p \in Movers, MoveStep(p) PROVE Typed'
  BY <1>1, LookTyped, EntryTyped, ExitTyped, StoreTyped, SettleTyped DEF MoveStep
<1>2. ASSUME NEW d \in Deliveries, DeliveryStep(d) PROVE Typed'
  BY <1>1, <1>2, Sets, ReadTyped, ResolveTyped, PrepareTyped, CreateTyped DEF DeliveryStep
<1>3. ASSUME NEW s \in Sweeps, SweepStep(s) PROVE Typed'
  BY <1>1, <1>3, Sets, LookTyped, SettleTyped DEF SweepStep
<1>4. CASE UNCHANGED vars
  BY <1>4 DEF vars, Typed, TypeOK, LocalsTyped
<1> QED BY <1>2, <1>3, <1>4, VisitTyped, DeleteTyped, OutsideTyped, CrashTyped DEF Next

\* Every initial state is typed.
LEMMA InitTyped == Init => Typed
<1> SUFFICES ASSUME Init PROVE Typed
  OBVIOUS
<1>1. /\ page \in PageType /\ page.status = "published" /\ page.holder = None
      /\ pc \in [Procs -> Labels]
      /\ \A p \in Procs : pc[p] \in {"read", "idle", "done"}
  BY ConstantsAssumption DEF Init, PageType, Statuses, Settled, Start, Labels
<1>2. TypeOK
  BY <1>1, NoLocTyped DEF Init, TypeOK
<1>3. ASSUME NEW p \in Procs PROVE LocalsTyped(p)
  BY <1>1 DEF LocalsTyped, LocalsTypedAt, Recorded
<1> QED BY <1>2, <1>3 DEF Typed

\* Documents and locals always have their types; a page that is hidden is held, and
\* the operation that holds it has a record to resume it from.
THEOREM TypeCorrect == Spec => []TypeOK
<1>1. Typed => TypeOK
  BY DEF Typed
<1> QED BY <1>1, InitTyped, NextTyped, PTL DEF Spec

-----------------------------------------------------------------------------
(* What the documents satisfy, and what each process has seen. *)

\* What has happened stays so.
Grows ==
    /\ RecordsKept
    /\ \A q \in Ops : done[q] > 0 => done'[q] > 0
    /\ page'.legacy = page.legacy
    /\ page'.live => page.live

OtherProcsStay(p) ==
    \A q \in Procs : q # p => pc'[q] = pc[q] /\ loc'[q] = loc[q]

\* A step that leaves the page where it is, as its readers and its holder see it.
Unmoving ==
    /\ page'.path = page.path /\ page'.status = page.status /\ page'.holder = page.holder
    /\ done' = done
    /\ page.ready => page'.ready
    /\ page'.staged => page.staged
    /\ log' = log \/ (log' = <<>> /\ ~page'.live)

\* Results are reported of moves only, and nobody asks for the page to stay.
ResultsHold ==
    \A o \in Ops : Result(o)' = "succeeded" =>
      Result(o) = "succeeded" \/ (record[o] # None /\ Moved(o))

AtHome == page.live /\ page.holder = None /\ Untouched

NewAway ==
    AtHome => \A o \in Ops : record'[o] # None =>
                record[o] # None \/ To(o)' # Place(Home, "published")

StillLeaving(p) == AtHome /\ p \in Deliveries => LeavingHome(p)'

\* Evidence of a move stays evidence.
LEMMA MovedKept ==
    ASSUME Typed, Journalled, Grows, NEW o \in Ops, record[o] # None \/ done[o] > 0, Moved(o)
    PROVE  Moved(o)'
<1>1. \A q \in Ops : done[q] > 0 => To(q)' = To(q)
  BY DEF Journalled, Grows, RecordsKept, To, Place
<1>2. record[o] # None
  BY DEF Journalled
<1>3. To(o)' = To(o)
  BY <1>2 DEF Grows, RecordsKept, To, Place
<1> QED BY <1>1, <1>3 DEF Moved, Grows

\* A step that leaves the page where it is keeps what the documents satisfy.
LEMMA DocumentsKept ==
    ASSUME Inv, Typed', Grows, Unmoving, ResultsHold, NewAway,
           AtHome => \A d \in Deliveries : LeavingHome(d)'
    PROVE  Documents'
<1>1. /\ DocsTyped /\ DocsTyped' /\ Journalled /\ HeldAtDestination /\ Positioned
      /\ ~page.ready => page.legacy
      /\ \A o \in Ops : Result(o) = "succeeded" => Moved(o)
  BY DEF Inv, Documents, Typed, TypeOK, DocsTyped
<1>2. Journalled'
  <2>1. page'.live /\ page'.staged => log' # <<>>
    BY <1>1 DEF Journalled, Unmoving, Grows
  <2>2. \A q \in Ops : done'[q] > 0 => record'[q] # None
    BY <1>1 DEF Journalled, Unmoving, Grows, RecordsKept
  <2>3. \A i \in DOMAIN log' : done'[log'[i]] > 0
    BY <1>1 DEF Journalled, Unmoving
  <2> QED BY <2>1, <2>2, <2>3 DEF Journalled
<1>3. HeldAtDestination'
  BY <1>1 DEF HeldAtDestination, Unmoving, Grows, RecordsKept, DocsTyped, PageType
<1>4. Positioned'
  <2> SUFFICES ASSUME page'.live, page'.holder = None PROVE (Arrived \/ Untouched)'
    BY DEF Positioned
  <2>1. page.live /\ page.holder = None
    BY DEF Grows, Unmoving
  <2>2. CASE Arrived
    <3>1. \A q \in Ops : done[q] > 0 => To(q)' = To(q) /\ done'[q] > 0
      BY <1>1 DEF Journalled, Grows, RecordsKept, To, Place
    <3> QED BY <2>2, <3>1 DEF Arrived, Unmoving, Place
  <2>3. CASE Untouched
    <3>1. \A o \in Ops : record'[o] # None => To(o)' # Place(Home, "published")
      BY <2>1, <2>3 DEF AtHome, NewAway, Untouched, Grows, RecordsKept, To, Place
    <3>2. \A d \in Deliveries : LeavingHome(d)'
      BY <2>1, <2>3 DEF AtHome
    <3> QED BY <2>3, <3>1, <3>2 DEF Untouched, Unmoving
  <2> QED BY <1>1, <2>1, <2>2, <2>3 DEF Positioned
<1>5. ~page'.ready => page'.legacy
  BY <1>1 DEF Unmoving, Grows
<1>6. ASSUME NEW o \in Ops, Result(o)' = "succeeded" PROVE Moved(o)'
  <2>1. Moved(o)
    BY <1>1, <1>6 DEF ResultsHold
  <2>2. record[o] # None
    BY <1>6 DEF ResultsHold, Result
  <2> QED BY <1>1, <2>1, <2>2, MovedKept DEF Inv
<1> QED BY <1>2, <1>3, <1>4, <1>5, <1>6 DEF Documents

\* The same for a step of one process.
LEMMA UnmovingDocuments ==
    ASSUME Inv, Typed', Grows, NEW p \in Procs, OtherProcsStay(p), Unmoving, ResultsHold,
           NewAway, StillLeaving(p)
    PROVE  Documents'
<1>1. AtHome => \A d \in Deliveries : LeavingHome(d)'
  BY Sets DEF AtHome, StillLeaving, Untouched, OtherProcsStay, LeavingHome, Op
<1> QED BY <1>1, DocumentsKept

\* What the other processes have seen, they still have.
LEMMA OthersEvident ==
    ASSUME Inv, Grows, NEW q \in Procs, pc'[q] = pc[q], loc'[q] = loc[q]
    PROVE  Evident(q)'
<1>1. Typed /\ Journalled /\ Evident(q) /\ Op(q)' = Op(q)
  BY DEF Inv, Documents, Op
<1>2. pc[q] \in {"assist", "complete", "correct", "row"} =>
        Op(q) \in Ops /\ record[Op(q)] # None
  BY <1>1, TypedNow DEF LocalsTyped, LocalsTypedAt, Recorded, Labels, Op
<1>3. pc[q] \in {"assist", "complete", "correct", "row"} /\ Moved(Op(q)) =>
        \E o \in Ops : o = Op(q) /\ Moved(o)'
  BY <1>1, <1>2, MovedKept
<1>4. \A o \in Ops : o = Op(q) /\ Moved(o)' => Moved(Op(q))'
  BY <1>1 DEF Moved, To
<1> QED BY <1>1, <1>3, <1>4 DEF Evident, Grows

Sound(p) == Grows /\ Documents' /\ Evident(p)' /\ OtherProcsStay(p)

\* A sound step of one process preserves the invariant of all.
LEMMA SoundSuffices ==
    ASSUME Inv, Typed', NEW p \in Procs, Sound(p) PROVE Inv'
<1>1. ASSUME NEW q \in Procs PROVE Evident(q)'
  BY OthersEvident DEF Sound, OtherProcsStay
<1> QED BY <1>1 DEF Inv, Sound

\* The entries of a process after its move.
LEMMA MovedTo ==
    ASSUME Typed, NEW p \in Procs, NEW l, NEW x, Move(p, l, x)
    PROVE  pc'[p] = l /\ loc'[p] = x /\ OtherProcsStay(p)
BY TypedNow DEF Move, OtherProcsStay

\* Where no claim is made of what the process has seen.
Silent == Labels \ {"resolve", "prepare", "create", "assist", "complete", "correct", "row",
                    "purge"}

\* A step to a label without a claim, of a process that touches no record.
LEMMA SilentSound ==
    ASSUME Inv, Typed', NEW p \in Procs, NEW l \in Silent, NEW x, Move(p, l, x), Unmoving,
           record' = record, page'.legacy = page.legacy, page'.live => page.live
    PROVE  Sound(p)
<1>1. pc'[p] = l /\ loc'[p] = x /\ OtherProcsStay(p)
  BY MovedTo DEF Inv
<1>2. Grows
  BY SameRecords DEF Grows, Unmoving
<1>3. ResultsHold /\ NewAway
  BY DEF ResultsHold, NewAway, Result
<1>4. StillLeaving(p) /\ Evident(p)'
  BY <1>1 DEF StillLeaving, LeavingHome, Evident, Silent
<1> QED BY <1>1, <1>2, <1>3, <1>4, UnmovingDocuments DEF Sound

\* The same for a process that ends.
LEMMA FinishSound ==
    ASSUME Inv, Typed', NEW p \in Procs, Finish(p), Unmoving,
           record' = record, page'.legacy = page.legacy, page'.live => page.live
    PROVE  Sound(p)
<1>1. Rest(p) \in Silent
  BY DEF Rest, Silent, Labels
<1> QED BY <1>1, SilentSound DEF Finish

\* A step that changes nothing of the page's moves, or only clears the outbox.
Still ==
    /\ UNCHANGED <<record, log, done>>
    /\ page' = page \/ page' = [page EXCEPT !.staged = FALSE]

\* Such a step leaves the page where it is.
LEMMA StillUnmoving ==
    ASSUME Typed, Still
    PROVE  /\ Unmoving /\ record' = record /\ page'.legacy = page.legacy
           /\ page'.live => page.live
BY DEF Still, Unmoving, Typed, TypeOK, PageType

\* Reading the page, and being refused, is sound.
LEMMA ReadSound == ASSUME Inv, Typed', NEW d \in Deliveries, Read(d) PROVE Sound(d)
<1>1. d \in Procs /\ Still /\ Typed
  BY Sets DEF Inv, Read, ReadOnly, Still
<1>2. CASE ~page.live
  BY <1>1, <1>2, StillUnmoving, FinishSound DEF Read
<1>3. CASE page.live
  <2> DEFINE x == [loc[d] EXCEPT !.op = Key[d], !.path = page.path,
                                 !.status = page.status, !.ready = page.ready]
  <2>1. x.path = page.path
    BY <1>1, TypedNow DEF LocType
  <2>2. pc'[d] = "resolve" /\ loc'[d] = x /\ OtherProcsStay(d)
    BY <1>1, <1>3, MovedTo DEF Read
  <2> HIDE DEF x
  <2>3. Grows /\ ResultsHold /\ NewAway /\ Unmoving
    BY <1>1, StillUnmoving, SameRecords DEF Grows, Unmoving, ResultsHold, NewAway, Result
  <2>4. StillLeaving(d)
    BY <2>1, <2>2 DEF StillLeaving, AtHome, Untouched, LeavingHome
  <2>5. Evident(d)'
    BY <2>2 DEF Evident
  <2> QED BY <1>1, <2>2, <2>3, <2>4, <2>5, UnmovingDocuments DEF Sound
<1> QED BY <1>2, <1>3

\* A delivery that goes on with what it read is still leaving home.
LEMMA LeavingSound ==
    ASSUME Inv, Typed', NEW d \in Deliveries, NEW l \in {"prepare", "create"}, Goto(d, l),
           pc[d] \in {"resolve", "prepare"}, Still,
           l = "create" /\ AtHome /\ Command[Op(d)] = "rename" => Target[Op(d)] # Home
    PROVE  Sound(d)
<1>1. d \in Procs /\ Typed
  BY Sets DEF Inv
<1>2. pc'[d] = l /\ loc'[d] = loc[d] /\ OtherProcsStay(d)
  BY <1>1, MovedTo DEF Goto
<1>3. Grows /\ ResultsHold /\ NewAway /\ Unmoving
  BY <1>1, StillUnmoving, SameRecords DEF Grows, Unmoving, ResultsHold, NewAway, Result
<1>4. StillLeaving(d)
  BY <1>2 DEF StillLeaving, AtHome, Untouched, LeavingHome, Op
<1>5. Evident(d)'
  BY <1>2 DEF Evident
<1> QED BY <1>1, <1>2, <1>3, <1>4, <1>5, UnmovingDocuments DEF Sound

\* Resolving a key is sound.
LEMMA ResolveSound == ASSUME Inv, Typed', NEW d \in Deliveries, Resolve(d) PROVE Sound(d)
<1>1. d \in Procs /\ Still /\ Typed /\ pc[d] = "resolve" /\ "reread" \in Silent
  BY Sets DEF Inv, Resolve, ReadOnly, Still, Silent, Labels
<1>2. Goto(d, "prepare") \/ Goto(d, "reread") \/ Finish(d)
  BY DEF Resolve
<1> QED BY <1>1, <1>2, LeavingSound, StillUnmoving, FinishSound, SilentSound DEF Goto

\* Checking a destination is sound: a rename to where the page is, is refused.
LEMMA PrepareSound == ASSUME Inv, Typed', NEW d \in Deliveries, Prepare(d) PROVE Sound(d)
<1>1. d \in Procs /\ Still /\ Typed /\ pc[d] = "prepare"
  BY Sets DEF Inv, Prepare, Still
<1>2. CASE Finish(d)
  BY <1>1, <1>2, StillUnmoving, FinishSound
<1>3. CASE ~Finish(d)
  <2>1. /\ Goto(d, "create")
        /\ Command[Op(d)] = "rename" => ~(page.live /\ page.path = Target[Op(d)])
    BY <1>3 DEF Prepare
  <2>2. AtHome /\ Command[Op(d)] = "rename" => Target[Op(d)] # Home
    BY <2>1 DEF AtHome, Untouched
  <2> QED BY <1>1, <2>1, <2>2, LeavingSound
<1> QED BY <1>2, <1>3

\* Making the record is sound: while nothing has moved the page, no record leads to
\* where it is.
LEMMA CreateSound == ASSUME Inv, Typed', NEW d \in Deliveries, Create(d) PROVE Sound(d)
<1> DEFINE r == [from |-> loc[d].path, to |-> Destination(d), fromStatus |-> loc[d].status,
                 toStatus |-> FinalStatus(d), result |-> "open", old |-> FALSE]
<1>1. /\ d \in Procs /\ Typed /\ RecordsKept /\ pc[d] = "create" /\ Unmoving
      /\ page' = page /\ Op(d) \in Ops /\ DocsTyped
  BY Sets, CreateTyped, TypedNow DEF Inv, Create, Unmoving, LocalsTyped, LocalsTypedAt, Op
<1>2. CASE Finish(d) /\ record' = record
  BY <1>1, <1>2, FinishSound
<1>3. CASE /\ record' = [record EXCEPT ![Op(d)] = r] /\ record[Op(d)] = None
           /\ Move(d, Begin(Op(d), loc[d].ready), For(d))
  <2>1. /\ pc'[d] \in {"promote", "enter"} /\ OtherProcsStay(d)
    BY <1>1, <1>3, MovedTo DEF Begin
  <2>2. Grows /\ Evident(d)' /\ StillLeaving(d)
    BY <1>1, <2>1 DEF Grows, Unmoving, Evident, StillLeaving, LeavingHome
  <2>3. /\ record'[Op(d)] = r
        /\ \A o \in Ops : o # Op(d) => record'[o] = record[o]
    BY <1>1, <1>3 DEF DocsTyped
  <2>4. r.result # "succeeded" /\ r.to = Destination(d) /\ r.toStatus = FinalStatus(d)
    OBVIOUS
  <2> HIDE DEF r
  <2>5. ResultsHold
    BY <2>3, <2>4 DEF ResultsHold, Result
  <2>6. AtHome => Place(Destination(d), FinalStatus(d)) # Place(Home, "published")
    <3>1. SUFFICES ASSUME AtHome
                   PROVE  Destination(d) # Home \/ FinalStatus(d) # "published"
      BY DEF Place
    <3>2. /\ loc[d].path = Home
          /\ Command[Op(d)] = "rename" => Target[Op(d)] # Home
      BY <1>1, <3>1 DEF AtHome, Untouched, LeavingHome
    <3>3. /\ Command[Op(d)] \in {"rename", "trash", "restore"}
          /\ Command[Op(d)] = "restore" => RestoreOf[Home] # Home
      BY <1>1, <3>2, ConstantsAssumption, TypedNow DEF LocalsTyped, LocalsTypedAt, Op
    <3> QED BY <3>2, <3>3 DEF Destination, FinalStatus
  <2>7. NewAway
    BY <2>3, <2>4, <2>6 DEF NewAway, To
  <2> QED BY <1>1, <2>1, <2>2, <2>5, <2>7, UnmovingDocuments DEF Sound
<1> QED BY <1>2, <1>3 DEF Create, r, Rec, Op

\* A caller that finds the page missing ends its work.
LEMMA MissingSound ==
    ASSUME Inv, Typed', NEW p \in Procs, Missing(p), Still PROVE Sound(p)
<1>1. Typed /\ "moot" \in Silent
  BY DEF Inv, Silent, Labels
<1> QED BY <1>1, StillUnmoving, FinishSound, SilentSound DEF Missing, Goto

\* Resuming, classifying and reloading are sound: they claim nothing.
LEMMA ResumeSound ==
    ASSUME Inv, Typed', NEW p \in Movers,
           Reread(p) \/ ClassifyEntry(p) \/ Reload(p) \/ Judge(p) \/ Vacate(p)
    PROVE  Sound(p)
<1>1. p \in Procs /\ Typed /\ Still
  BY Sets DEF Inv, Still, Reread, ClassifyEntry, Reload, Judge, Vacate, ReadOnly
<1>2. /\ {"promote", "enter", "reload", "vacate", "evidence", "exit_read", "reread", "fail",
          "moot"} \subseteq Silent
      /\ \A o, b : Begin(o, b) \in Silent
  BY DEF Begin, Silent, Labels
<1>3. \A l \in Silent : \A x : Move(p, l, x) => Sound(p)
  BY <1>1, StillUnmoving, SilentSound
<1>4. (Finish(p) => Sound(p)) /\ (Missing(p) => Sound(p))
  BY <1>1, StillUnmoving, FinishSound, MissingSound
<1> QED BY <1>2, <1>3, <1>4 DEF Reread, ClassifyEntry, Reload, Judge, Vacate, Goto

\* A page becomes tracked, and moves nowhere.
LEMMA PromoteSound == ASSUME Inv, Typed', NEW p \in Movers, Promote(p) PROVE Sound(p)
<1>1. /\ p \in Procs /\ DocsTyped /\ record' = record /\ log' = log /\ done' = done
      /\ "enter" \in Silent /\ Typed
  BY Sets, TypedNow DEF Inv, Promote, Silent, Labels
<1>2. CASE page' = page
  <2>1. Still
    BY <1>1, <1>2 DEF Still
  <2> QED BY <1>1, <2>1, StillUnmoving, FinishSound, SilentSound, MissingSound DEF Promote, Goto
<1>3. CASE page' = [page EXCEPT !.ready = TRUE] /\ (Goto(p, "enter") \/ Finish(p))
  <2>1. Unmoving /\ page'.legacy = page.legacy /\ page'.live => page.live
    BY <1>1, <1>3 DEF Unmoving, DocsTyped, PageType
  <2> QED BY <1>1, <1>3, <2>1, FinishSound, SilentSound DEF Goto, Unmoving, DocsTyped, PageType
<1> QED BY <1>2, <1>3 DEF Promote

\* The page is claimed: it is at the destination, hidden, and held.
LEMMA EnterSound == ASSUME Inv, Typed', NEW p \in Movers, Enter(p) PROVE Sound(p)
<1>1. /\ p \in Procs /\ DocsTyped /\ record' = record /\ log' = log /\ done' = done
      /\ {"classify", "vacate"} \subseteq Silent /\ Typed /\ Op(p) \in Ops /\ Documents
      /\ record[Op(p)] # None
  BY Sets, TypedNow, RecordedLabels
     DEF Inv, Enter, Silent, Labels, LocalsTyped, LocalsTypedAt, Op
<1>2. CASE page' = page
  <2>1. Still
    BY <1>1, <1>2 DEF Still
  <2> QED BY <1>1, <1>2, <2>1, StillUnmoving, FinishSound, SilentSound DEF Enter, Goto
<1>3. CASE /\ page' = [page EXCEPT !.path = Rec(p).to, !.status = "renaming", !.holder = Op(p)]
           /\ Move(p, "vacate", For(p))
  <2>1. /\ page'.path = record[Op(p)].to /\ page'.holder = Op(p) /\ page'.holder # None
        /\ page'.legacy = page.legacy /\ page'.live = page.live /\ page'.ready = page.ready
        /\ page'.staged = page.staged
    BY <1>1, <1>3, ConstantsAssumption DEF DocsTyped, PageType, Rec, Op
  <2>2. pc'[p] = "vacate" /\ OtherProcsStay(p)
    BY <1>1, <1>3, MovedTo
  <2>3. Grows /\ Evident(p)'
    BY <1>1, <2>1, <2>2, SameRecords DEF Grows, Evident
  <2>4. Journalled' /\ HeldAtDestination' /\ Positioned'
    BY <1>1, <2>1 DEF Documents, Journalled, HeldAtDestination, Positioned
  <2>5. ASSUME NEW o \in Ops, Result(o)' = "succeeded" PROVE Moved(o)'
    BY <1>1, <2>1, <2>5 DEF Documents, Result, Moved, To
  <2>6. Documents'
    BY <1>1, <2>1, <2>4, <2>5 DEF Documents
  <2> QED BY <2>2, <2>3, <2>6 DEF Sound
<1> QED BY <1>2, <1>3 DEF Enter

\* The snapshot before the second compare-and-set may clear the outbox.
LEMMA ExitReadSound == ASSUME Inv, Typed', NEW p \in Movers, ExitRead(p) PROVE Sound(p)
<1>1. p \in Procs /\ Typed /\ Still /\ {"exit_read", "exit"} \subseteq Silent
  BY Sets DEF Inv, Still, ExitRead, Drained, Silent, Labels
<1>2. \A l \in Silent : \A x : Move(p, l, x) => Sound(p)
  BY <1>1, StillUnmoving, SilentSound
<1> QED BY <1>1, <1>2, StillUnmoving, FinishSound DEF ExitRead, Goto

\* A journal to which a move is added is not empty.
LEMMA AppendNotEmpty ==
    ASSUME NEW S, NEW s \in Seq(S), NEW e \in S PROVE Append(s, e) # <<>>
<1>1. Len(Append(s, e)) = Len(s) + 1 /\ Len(s) \in Nat /\ Len(<<>>) = 0
  OBVIOUS
<1> QED BY <1>1

\* The page arrives: the operation has moved it, and its event says so.
LEMMA ExitSound == ASSUME Inv, Typed', NEW p \in Movers, Exit(p) PROVE Sound(p)
<1>1. /\ p \in Procs /\ DocsTyped /\ record' = record /\ Typed /\ Op(p) \in Ops /\ Documents
      /\ record[Op(p)] # None /\ {"exit_read", "store", "evidence"} \subseteq Silent
      /\ loc[p].event \in BOOLEAN
  BY Sets, TypedNow, RecordedLabels
     DEF Inv, Exit, Silent, Labels, LocalsTyped, LocalsTypedAt, Op, LocType
<1>2. CASE ~ExitMatches(p)
  <2>1. Still
    BY <1>1, <1>2 DEF Exit, Still
  <2> QED BY <1>1, <1>2, <2>1, StillUnmoving, SilentSound DEF Exit, Goto
<1>3. CASE ExitMatches(p)
  <2>1. /\ page'.path = record[Op(p)].to /\ page'.status = record[Op(p)].toStatus
        /\ page'.holder = None /\ page'.legacy = page.legacy /\ page'.live = page.live
        /\ page'.ready = page.ready /\ page'.staged = loc[p].event
    BY <1>1, <1>3 DEF Exit, ExitMatches, DocsTyped, PageType, Rec, Op
  <2>2. /\ done'[Op(p)] > 0
        /\ \A q \in Ops : q # Op(p) => done'[q] = done[q]
    BY <1>1, <1>3 DEF Exit, DocsTyped
  <2>3. OtherProcsStay(p) /\ pc'[p] \in {"store", "evidence"}
    BY <1>1, <1>3, MovedTo DEF Exit, Goto
  <2>4. Grows /\ Evident(p)'
    BY <1>1, <2>1, <2>2, <2>3, SameRecords DEF Grows, Evident
  <2>5. Journalled'
    <3>1. \A q \in Ops : done'[q] > 0 => record'[q] # None
      BY <1>1, <2>2 DEF Documents, Journalled
    <3>2. \A i \in DOMAIN log : log[i] \in Ops /\ done[log[i]] > 0
      BY <1>1 DEF Documents, Journalled, DocsTyped
    <3>3. \A i \in DOMAIN log' : log'[i] \in Ops /\ done'[log'[i]] > 0
      <4>1. CASE log' = log
        BY <2>2, <2>4, <3>2, <4>1 DEF Grows
      <4>2. CASE log' = Append(log, Op(p))
        <5>1. log \in Seq(Ops)
          BY <1>1 DEF DocsTyped
        <5>2. \A i \in DOMAIN log' : log'[i] = Op(p) \/ (i \in DOMAIN log /\ log'[i] = log[i])
          BY <1>1, <4>2, <5>1
        <5> QED BY <1>1, <2>2, <2>4, <3>2, <5>2 DEF Grows
      <4> QED BY <1>3, <4>1, <4>2 DEF Exit
    <3>4. page'.staged => log' # <<>>
      <4>1. page'.staged => log' = Append(log, Op(p))
        BY <1>3, <2>1 DEF Exit
      <4>2. Append(log, Op(p)) # <<>>
        BY <1>1, AppendNotEmpty DEF DocsTyped
      <4> QED BY <4>1, <4>2
    <3> QED BY <3>1, <3>3, <3>4 DEF Journalled
  <2>6. Arrived'
    BY <1>1, <2>1, <2>2 DEF Arrived, To, Place
  <2>7. ASSUME NEW o \in Ops, Result(o)' = "succeeded" PROVE Moved(o)'
    <3>1. Moved(o) /\ record[o] # None
      BY <1>1, <2>7 DEF Documents, Result
    <3> QED BY <1>1, <2>4, <3>1, MovedKept DEF Documents
  <2>8. Documents'
    BY <1>1, <2>1, <2>5, <2>6, <2>7 DEF Documents, HeldAtDestination, Positioned
  <2> QED BY <2>3, <2>4, <2>8 DEF Sound
<1> QED BY <1>2, <1>3

\* The event is stored; the evidence is looked for next.
LEMMA StoreSound == ASSUME Inv, Typed', NEW p \in Movers, Store(p) PROVE Sound(p)
<1>1. p \in Procs /\ Typed /\ Still /\ "evidence" \in Silent
  BY Sets DEF Inv, Still, Store, Drained, Silent, Labels
<1> QED BY <1>1, StillUnmoving, SilentSound DEF Store

\* A step that goes on with evidence of a move is sound.
LEMMA ProvenSound ==
    ASSUME Inv, Typed', NEW p \in Procs, NEW l \in Labels, NEW x, Move(p, l, x), Still,
           l \in {"assist", "row", "complete", "correct"}, x.op = Op(p), Op(p) \in Ops,
           l # "row" \/ x.settled => Moved(Op(p)), record[Op(p)] # None
    PROVE  Sound(p)
<1>1. Typed /\ pc'[p] = l /\ loc'[p] = x /\ OtherProcsStay(p) /\ Op(p)' = Op(p)
  BY MovedTo DEF Inv, Op
<1>2. Grows /\ ResultsHold /\ NewAway /\ Unmoving
  BY <1>1, StillUnmoving, SameRecords DEF Grows, Unmoving, ResultsHold, NewAway, Result
<1>3. StillLeaving(p)
  BY <1>1 DEF StillLeaving, LeavingHome
<1>4. l # "row" \/ x.settled => Moved(Op(p))'
  BY <1>1, <1>2 DEF Moved, To, Unmoving, Still, Grows
<1>5. Evident(p)'
  BY <1>1, <1>4 DEF Evident
<1> QED BY <1>1, <1>2, <1>3, <1>5, UnmovingDocuments DEF Sound

\* What is looked for as evidence shows that the operation moved the page.
LEMMA EvidenceProves ==
    ASSUME Inv, NEW o \in Ops, record[o] # None
    PROVE  (StagedFor(o) => Moved(o)) /\ (Stored(o) => Moved(o)) /\ (PositionProves(o) => Moved(o))
<1>1. Documents /\ DocsTyped
  BY DEF Inv, Documents, Typed, TypeOK, DocsTyped
<1>2. ASSUME StagedFor(o) PROVE Moved(o)
  <2>1. log # <<>> /\ log[Len(log)] = o
    BY <1>1, <1>2 DEF StagedFor, Documents, Journalled
  <2>2. Len(log) \in DOMAIN log
    BY <1>1, <2>1 DEF DocsTyped
  <2> QED BY <1>1, <2>1, <2>2 DEF Documents, Journalled, Moved
<1>3. ASSUME Stored(o) PROVE Moved(o)
  BY <1>1, <1>3 DEF Stored, Documents, Journalled, Moved
<1>4. ASSUME PositionProves(o) PROVE Moved(o)
  <2>1. /\ page.live /\ ~page.ready /\ page.holder = None
        /\ page.path = record[o].to /\ page.status = record[o].toStatus
    BY <1>4, ConstantsAssumption DEF PositionProves, Classify
  <2>2. page.legacy /\ (Arrived \/ Untouched) /\ To(o) = Place(page.path, page.status)
    BY <1>1, <2>1 DEF Documents, Positioned, To
  <2> QED BY <2>2 DEF Arrived, Untouched, Moved
<1> QED BY <1>2, <1>3, <1>4

\* Looking for evidence is sound.
LEMMA EvidenceSound ==
    ASSUME Inv, Typed', NEW p \in Movers, Evidence(p) \/ Assist(p) \/ Row(p) PROVE Sound(p)
<1>1. /\ p \in Procs /\ Typed /\ Still /\ Op(p) \in Ops /\ record[Op(p)] # None
      /\ loc[p] \in LocType /\ Evident(p) /\ "judge" \in Silent
  BY Sets, TypedNow, RecordedLabels
     DEF Inv, Evidence, Assist, Drained, Row, ReadOnly, Still, LocalsTyped, LocalsTypedAt, Op,
         Silent, Labels
<1>2. /\ {"assist", "row", "complete", "correct"} \subseteq Labels
      /\ \A b : [loc[p] EXCEPT !.settled = b].op = Op(p) /\ [loc[p] EXCEPT !.settled = b].settled = b
  BY <1>1 DEF Labels, LocType, Op
<1>3. CASE Evidence(p)
  BY <1>1, <1>2, <1>3, EvidenceProves, ProvenSound DEF Evidence, Goto, Op
<1>4. CASE Assist(p)
  BY <1>1, <1>2, <1>4, ProvenSound DEF Assist, Proven, Evident, Goto, Op
<1>5. CASE Row(p)
  <2>1. CASE Stored(Op(p)) \/ loc[p].settled
    BY <1>1, <1>2, <1>5, <2>1, EvidenceProves, ProvenSound DEF Row, Proven, Evident, Goto, Op
  <2>2. CASE ~(Stored(Op(p)) \/ loc[p].settled)
    BY <1>1, <1>5, <2>2, StillUnmoving, FinishSound, SilentSound DEF Row, Goto
  <2> QED BY <2>1, <2>2
<1> QED BY <1>3, <1>4, <1>5

\* Settling a record is sound: a success is recorded of a move only.
LEMMA SettleSound ==
    ASSUME Inv, Typed', NEW p \in Movers, Complete(p) \/ Moot(p) \/ Fail(p) \/ Correct(p)
    PROVE  Sound(p)
<1>1. /\ p \in Procs /\ Typed /\ Op(p) \in Ops /\ record[Op(p)] # None /\ RecordsKept
      /\ Evident(p) /\ DocsTyped /\ record[Op(p)] \in RecordType
  BY Sets, TypedNow, RecordedLabels, SettleTyped
     DEF Inv, Complete, Moot, Fail, Correct, LocalsTyped, LocalsTypedAt, Op, DocsTyped
<1>2. Finish(p) /\ UNCHANGED <<page, stubs, log, done, faults>>
  BY DEF Complete, Moot, Fail, Correct, Settle
<1>3. /\ pc'[p] \in {"idle", "done"} /\ OtherProcsStay(p)
  BY <1>1, <1>2, MovedTo DEF Finish, Rest
<1>4. Grows /\ Unmoving /\ Evident(p)' /\ StillLeaving(p)
  BY <1>1, <1>2, <1>3 DEF Grows, Unmoving, Evident, StillLeaving, LeavingHome
<1>5. NewAway
  BY <1>1, <1>2 DEF NewAway, Complete, Moot, Fail, Correct, Settle, DocsTyped
<1>6. ASSUME NEW o \in Ops, Result(o)' = "succeeded"
      PROVE  Result(o) = "succeeded" \/ (record[o] # None /\ Moved(o))
  <2>1. CASE o # Op(p)
    BY <1>1, <1>6, <2>1 DEF Complete, Moot, Fail, Correct, Settle, DocsTyped, Result, Op
  <2>2. CASE o = Op(p) /\ (Complete(p) \/ Correct(p))
    BY <1>1, <2>2 DEF Complete, Correct, Evident
  <2>3. CASE o = Op(p) /\ (Moot(p) \/ Fail(p))
    BY <1>1, <1>6, <2>3, NoneAssumption
       DEF Moot, Fail, Settle, DocsTyped, Result, Op, Rec, RecordType
  <2> QED BY <2>1, <2>2, <2>3
<1>7. ResultsHold
  BY <1>6 DEF ResultsHold
<1> QED BY <1>1, <1>3, <1>4, <1>5, <1>7, UnmovingDocuments DEF Sound

\* A sweep's visit, a crash and the hard deletion are sound.
LEMMA VisitSound ==
    ASSUME Inv, Typed', NEW s \in Sweeps, NEW o \in Ops, Visit(s, o) PROVE Sound(s)
<1>1. s \in Procs /\ Typed /\ Still /\ "evidence" \in Silent
  BY Sets DEF Inv, Visit, ReadOnly, Still, Silent, Labels
<1> QED BY <1>1, StillUnmoving, SilentSound DEF Visit

\* A crash forgets what the process has seen, and nothing else.
LEMMA CrashSound == ASSUME Inv, Typed', NEW p \in Movers, Crash(p) PROVE Sound(p)
<1>1. p \in Procs /\ Typed /\ Still /\ Finish(p)
  BY Sets DEF Inv, Crash, Still
<1> QED BY <1>1, StillUnmoving, FinishSound

\* A deleted page moves no more, and its events are erased after it.
LEMMA DeleteSound ==
    ASSUME Inv, Typed', NEW x \in Deleters, DeleteLook(x) \/ DeletePage(x) \/ PurgeEvents(x)
    PROVE  Sound(x)
<1>1. x \in Procs /\ Typed /\ DocsTyped /\ Evident(x) /\ "delete" \in Silent
  BY Sets, TypedNow DEF Inv, Silent, Labels
<1>2. CASE DeleteLook(x)
  <2>1. Still
    BY <1>2 DEF DeleteLook, ReadOnly, Still
  <2> QED BY <1>1, <1>2, <2>1, StillUnmoving, SilentSound, FinishSound DEF DeleteLook, Goto
<1>3. CASE DeletePage(x)
  <2>1. /\ Unmoving /\ page'.legacy = page.legacy /\ ~page'.live /\ record' = record
    BY <1>1, <1>3 DEF DeletePage, DocsTyped, PageType, Unmoving
  <2>2. pc'[x] = "purge" /\ OtherProcsStay(x)
    BY <1>1, <1>3, MovedTo DEF DeletePage, Goto
  <2>3. Grows /\ ResultsHold /\ NewAway /\ StillLeaving(x) /\ Evident(x)'
    BY <2>1, <2>2, SameRecords
       DEF Grows, Unmoving, ResultsHold, NewAway, Result, StillLeaving, LeavingHome, Evident
  <2> QED BY <1>1, <2>1, <2>2, <2>3, UnmovingDocuments DEF Sound
<1>4. CASE PurgeEvents(x)
  <2>1. /\ Unmoving /\ page' = page /\ record' = record
    BY <1>1, <1>4 DEF PurgeEvents, Evident, Unmoving
  <2> QED BY <1>1, <1>4, <2>1, FinishSound DEF PurgeEvents
<1> QED BY <1>2, <1>3, <1>4

\* What no process does leaves the page and the processes where they are.
LEMMA OutsideSound ==
    ASSUME Inv, Typed', OutboxDrained \/ \E o \in Ops : Age(o) PROVE Inv'
<1>1. /\ Typed /\ DocsTyped /\ RecordsKept /\ UNCHANGED <<pc, loc>>
      /\ \A o \in Ops : Result(o)' = Result(o)
  <2>1. Typed /\ RecordsKept /\ DocsTyped
    BY OutsideTyped DEF Inv, Typed, TypeOK, DocsTyped
  <2>2. ASSUME NEW o \in Ops, Age(o), NEW q \in Ops PROVE Result(q)' = Result(q)
    BY <2>1, <2>2, NoneAssumption DEF Age, Result, DocsTyped, RecordType
  <2> QED BY <2>1, <2>2 DEF OutboxDrained, Age, Result
<1>2. /\ Unmoving /\ page'.legacy = page.legacy /\ page'.live = page.live
  BY <1>1 DEF OutboxDrained, Drained, Age, Unmoving, DocsTyped, PageType
<1>3. Grows /\ ResultsHold
  BY <1>1, <1>2 DEF Grows, Unmoving, ResultsHold
<1>4. NewAway
  BY <1>1 DEF NewAway, OutboxDrained, Age, DocsTyped
<1>5. AtHome => \A d \in Deliveries : LeavingHome(d)'
  BY <1>1 DEF AtHome, Untouched, LeavingHome, Op
<1>6. Documents'
  BY <1>1, <1>2, <1>3, <1>4, <1>5, DocumentsKept
<1>7. ASSUME NEW p \in Procs PROVE Evident(p)'
  BY <1>1, <1>3, OthersEvident
<1> QED BY <1>6, <1>7 DEF Inv

\* Every step preserves the invariant.
LEMMA NextInv == Inv /\ [Next]_vars => Inv'
<1> SUFFICES ASSUME Inv, [Next]_vars PROVE Inv'
  OBVIOUS
<1>1. Typed'
  BY NextTyped DEF Inv
<1>2. ASSUME NEW p \in Movers, MoveStep(p) PROVE Sound(p)
  BY <1>1, <1>2, ResumeSound, PromoteSound, EnterSound, ExitReadSound, ExitSound, StoreSound,
     EvidenceSound, SettleSound DEF MoveStep
<1>3. ASSUME NEW d \in Deliveries, DeliveryStep(d) PROVE Sound(d)
  BY <1>1, <1>2, <1>3, Sets, ReadSound, ResolveSound, PrepareSound, CreateSound DEF DeliveryStep
<1>4. ASSUME NEW s \in Sweeps, SweepStep(s) PROVE Sound(s)
  BY <1>1, <1>2, <1>4, Sets, ResumeSound, SettleSound DEF SweepStep
<1>5. CASE UNCHANGED vars
  <2>1. Documents' /\ \A p \in Procs : Evident(p)'
    BY <1>5 DEF vars, Inv, Documents, Journalled, HeldAtDestination, Positioned, Arrived,
       Untouched, LeavingHome, Result, Moved, To, Evident, Op
  <2> QED BY <1>1, <2>1 DEF Inv
<1> QED BY <1>1, <1>3, <1>4, <1>5, Sets, SoundSuffices, VisitSound, CrashSound, DeleteSound,
       OutsideSound DEF Next

\* The invariant holds at the start: nothing has moved the page.
LEMMA InitInv == Init => Inv
<1> SUFFICES ASSUME Init PROVE Inv
  OBVIOUS
<1>1. /\ page.path = Home /\ page.status = "published" /\ page.holder = None
      /\ (~page.ready => page.legacy) /\ ~page.staged
      /\ \A p \in Procs : pc[p] \in {"read", "idle", "done"}
      /\ \A o \in Ops : record[o] = None /\ done[o] = 0
      /\ log = <<>>
  <2>1. PICK start \in Starts :
          /\ page = [live |-> TRUE, path |-> Home, status |-> "published", holder |-> None,
                     ready |-> start.tracked, staged |-> FALSE, legacy |-> ~start.tracked]
          /\ pc = [p \in Procs |-> IF p \in start.cast THEN Start(p) ELSE "done"]
    BY DEF Init
  <2>2. \A p \in Procs : pc[p] \in {"read", "idle", "done"}
    BY <2>1 DEF Start
  <2> QED BY <2>1, <2>2 DEF Init
<1>2. DOMAIN log = {}
  <2>1. DOMAIN <<>> = {}
    OBVIOUS
  <2> QED BY <1>1, <2>1
<1>3. Documents
  BY <1>1, <1>2, Sets
     DEF Documents, Journalled, HeldAtDestination, Positioned, Untouched, LeavingHome, Result
<1>4. \A p \in Procs : Evident(p)
  BY <1>1 DEF Evident
<1> QED BY <1>3, <1>4, InitTyped DEF Inv

\* What every reachable state satisfies: the page is where its last move brought it,
\* its history lists moves that were made, and a process interrupted with evidence
\* of a move is right about it when it resumes.
THEOREM Invariance == Spec => []Inv
BY InitInv, NextInv, PTL DEF Spec

\* An operation reported as succeeded did move the page, however often it was
\* delivered, resumed, swept, declared failed too early or crashed.
THEOREM SuccessIsTrue == Spec => []SucceededMoved
<1>1. Inv => SucceededMoved
  BY DEF Inv, Documents, Moved, SucceededMoved
<1> QED BY <1>1, Invariance, PTL

-----------------------------------------------------------------------------
(* The two compare-and-sets implement one atomic move. *)

Refines == [Moves!Next]_(Moves!vars)

Journal == [i \in DOMAIN log |-> [from |-> From(log[i]), to |-> To(log[i])]]

\* Where an operation leads never changes.
LEMMA PlacesKept ==
    ASSUME RecordsKept, NEW o \in Ops, record[o] # None
    PROVE  From(o)' = From(o) /\ To(o)' = To(o)
BY DEF RecordsKept, From, To, Place

\* The operations the journal and the page speak of have their records.
LEMMA MovesRecorded ==
    ASSUME Inv
    PROVE  /\ \A i \in DOMAIN log : log[i] \in Ops /\ record[log[i]] # None
           /\ page.holder # None => page.holder \in Ops /\ record[page.holder] # None
<1>1. Documents /\ DocsTyped
  BY DEF Inv, Documents, Typed, TypeOK, DocsTyped
<1> QED BY <1>1 DEF Documents, Journalled, DocsTyped, PageType

\* Where an operation leads is a place.
LEMMA PlacesTyped ==
    ASSUME DocsTyped, NEW o \in Ops, record[o] # None
    PROVE  From(o) \in Paths \X Settled /\ To(o) \in Paths \X Settled /\ To(o) # None
BY NoneAssumption DEF DocsTyped, From, To, Place, RecordType

\* A step that leaves the page where it is, tracked or not, is not seen.
LEMMA UnseenRefines ==
    ASSUME Inv, RecordsKept, page'.path = page.path, page'.status = page.status,
           page'.holder = page.holder, page'.ready = page.ready, page'.live = page.live,
           log' = log
    PROVE  Refines
<1>1. \A i \in DOMAIN log : From(log[i])' = From(log[i]) /\ To(log[i])' = To(log[i])
  <2>1. ASSUME NEW o \in Ops, record[o] # None, NEW i \in DOMAIN log, log[i] = o
        PROVE  From(log[i])' = From(log[i]) /\ To(log[i])' = To(log[i])
    BY <2>1 DEF RecordsKept, From, To, Place
  <2> QED BY <2>1, MovesRecorded
<1>2. page.holder # None =>
        From(page.holder)' = From(page.holder) /\ To(page.holder)' = To(page.holder)
  BY MovesRecorded DEF RecordsKept, From, To, Place
<1> QED BY <1>1, <1>2 DEF Refines, Moves!vars, Place

\* The claim is a departure: readers still see the place the page leaves.
LEMMA EnterRefines == ASSUME Inv, NEW p \in Movers, Enter(p) PROVE Refines
<1>1. /\ DocsTyped /\ Op(p) \in Ops /\ record[Op(p)] # None /\ Op(p) # None /\ RecordsKept
      /\ record' = record /\ log' = log /\ Rec(p) = record[Op(p)]
  BY Sets, TypedNow, RecordedLabels, ConstantsAssumption, SameRecords
     DEF Inv, Enter, LocalsTyped, LocalsTypedAt, Op, Rec
<1>2. CASE page' = page
  BY <1>1, <1>2, UnseenRefines
<1>3. CASE /\ EnterMatches(p)
           /\ page' = [page EXCEPT !.path = Rec(p).to, !.status = "renaming", !.holder = Op(p)]
  <2>1. /\ page'.holder = Op(p) /\ page'.holder # None /\ page'.ready = page.ready
        /\ page'.live = page.live /\ page.live /\ page.holder = None
        /\ page.path = record[Op(p)].from /\ page.status = record[Op(p)].fromStatus
    BY <1>1, <1>3 DEF EnterMatches, DocsTyped, PageType
  <2>2. From(page.holder)' = Place(page.path, page.status) /\ To(page.holder)' = To(Op(p))
    BY <1>1, <2>1 DEF From, To, Place
  <2>3. To(Op(p)) \in Paths \X Settled
    BY <1>1, PlacesTyped
  <2>4. Journal' = Journal
    BY <1>1 DEF Journal, From, To
  <2>5. Moves!Depart
    BY <2>1, <2>2, <2>3, <2>4 DEF Moves!Depart, Journal
  <2> QED BY <2>5 DEF Refines, Moves!Next
<1> QED BY <1>2, <1>3 DEF Enter

\* The journal of a log to which an operation is added.
LEMMA JournalAppended ==
    ASSUME log \in Seq(Ops), NEW o \in Ops, log' = Append(log, o), record' = record
    PROVE  Journal' = Append(Journal, [from |-> From(o), to |-> To(o)])
<1> DEFINE E(q) == [from |-> From(q), to |-> To(q)]
           S == {E(q) : q \in Ops}
<1>1. \A q : From(q)' = From(q) /\ To(q)' = To(q)
  BY DEF From, To
<1>2. Journal = [i \in DOMAIN log |-> E(log[i])]
  BY DEF Journal
<1>3. Journal' = [i \in DOMAIN Append(log, o) |-> E(Append(log, o)[i])]
  BY <1>1 DEF Journal
<1>4. \A q \in Ops : E(q) \in S
  OBVIOUS
<1> HIDE DEF E
<1>5. Len(log) \in Nat /\ DOMAIN log = 1..Len(log) /\ \A i \in DOMAIN log : log[i] \in Ops
  OBVIOUS
<1>6. Journal \in Seq(S) /\ Len(Journal) = Len(log)
  BY <1>2, <1>4, <1>5
<1>7. /\ DOMAIN Append(log, o) = 1..(Len(log) + 1)
      /\ \A i \in 1..(Len(log) + 1) :
           Append(log, o)[i] = IF i = Len(log) + 1 THEN o ELSE log[i]
  BY <1>5
<1>8. /\ DOMAIN Append(Journal, E(o)) = 1..(Len(log) + 1)
      /\ \A i \in 1..(Len(log) + 1) :
           Append(Journal, E(o))[i] = IF i = Len(log) + 1 THEN E(o) ELSE Journal[i]
      /\ Append(Journal, E(o)) \in Seq(S)
  BY <1>4, <1>5, <1>6
<1>9. Append(Journal, E(o)) = [i \in DOMAIN Append(log, o) |-> E(Append(log, o)[i])]
  <2> DEFINE A == Append(Journal, E(o))
             T == [i \in DOMAIN Append(log, o) |-> E(Append(log, o)[i])]
  <2>1. T \in Seq(S) /\ Len(T) = Len(log) + 1
    BY <1>4, <1>5, <1>7
  <2>2. A \in Seq(S) /\ Len(A) = Len(log) + 1
    BY <1>4, <1>6, <1>8
  <2>3. \A i \in 1..(Len(log) + 1) : A[i] = T[i]
    BY <1>2, <1>5, <1>7, <1>8
  <2> HIDE DEF A, T, S
  <2>4. A = T
    BY <2>1, <2>2, <2>3, SeqEqual
  <2> QED BY <2>4 DEF A, T
<1> QED BY <1>3, <1>9 DEF E

\* The second compare-and-set is the arrival, journalled on a tracked page.
LEMMA ExitRefines == ASSUME Inv, NEW p \in Movers, Exit(p) PROVE Refines
<1>1. /\ DocsTyped /\ Op(p) \in Ops /\ record[Op(p)] # None /\ Op(p) # None /\ RecordsKept
      /\ record' = record /\ Rec(p) = record[Op(p)] /\ loc[p].event \in BOOLEAN
  BY Sets, TypedNow, RecordedLabels, ConstantsAssumption, SameRecords
     DEF Inv, Exit, LocalsTyped, LocalsTypedAt, Op, Rec, LocType
<1>2. CASE ~ExitMatches(p)
  BY <1>1, <1>2, UnseenRefines DEF Exit
<1>3. CASE ExitMatches(p)
  <2>1. /\ page'.status = record[Op(p)].toStatus /\ page'.holder = None
        /\ page'.path = record[Op(p)].to /\ page'.ready = page.ready
        /\ page'.live = page.live /\ page.live /\ page.holder = Op(p)
        /\ page.ready = loc[p].event
    BY <1>1, <1>3 DEF Exit, ExitMatches, DocsTyped, PageType
  <2>2. Place(page.path, page.status)' = To(Op(p)) /\ To(Op(p)) # None
    BY <1>1, <2>1, PlacesTyped DEF To, Place
  <2>3. Journal' = IF page.ready THEN Append(Journal, [from |-> From(Op(p)), to |-> To(Op(p))])
                                 ELSE Journal
    <3>1. CASE page.ready
      BY <1>1, <1>3, <2>1, <3>1, JournalAppended DEF Exit, DocsTyped
    <3>2. CASE ~page.ready
      BY <1>1, <1>3, <2>1, <3>2 DEF Exit, Journal, From, To
    <3> QED BY <3>1, <3>2
  <2>4. Moves!Arrive
    BY <1>1, <2>1, <2>2, <2>3 DEF Moves!Arrive, Journal, Place
  <2> QED BY <2>4 DEF Refines, Moves!Next
<1> QED BY <1>2, <1>3

\* Promotion begins the journal.
LEMMA PromoteRefines == ASSUME Inv, NEW p \in Movers, Promote(p) PROVE Refines
<1>1. DocsTyped /\ RecordsKept /\ record' = record /\ log' = log
  BY Sets, TypedNow, SameRecords DEF Inv, Promote
<1>2. CASE page' = page
  BY <1>1, <1>2, UnseenRefines
<1>3. CASE page.live /\ ~page.ready /\ page' = [page EXCEPT !.ready = TRUE]
  <2>1. /\ page'.path = page.path /\ page'.status = page.status /\ page'.holder = page.holder
        /\ page'.ready = TRUE /\ page'.live = page.live
    BY <1>1, <1>3 DEF DocsTyped, PageType
  <2>2. Moves!Track
    BY <1>1, <1>3, <2>1 DEF Moves!Track, From, To, Place
  <2> QED BY <2>2 DEF Refines, Moves!Next
<1> QED BY <1>2, <1>3 DEF Promote

\* The deletion removes the page, and later its journal.
LEMMA DeleteRefines ==
    ASSUME Inv, NEW x \in Deleters, DeleteLook(x) \/ DeletePage(x) \/ PurgeEvents(x)
    PROVE  Refines
<1>1. DocsTyped /\ RecordsKept /\ record' = record /\ Evident(x)
  BY Sets, TypedNow, SameRecords DEF Inv, DeleteLook, DeletePage, PurgeEvents, ReadOnly
<1>2. CASE UNCHANGED <<page, log>>
  BY <1>1, <1>2, UnseenRefines
<1>3. CASE DeletePage(x)
  <2>1. /\ page'.path = page.path /\ page'.status = page.status /\ page'.holder = page.holder
        /\ page'.ready = page.ready /\ page'.live = FALSE /\ log' = log
    BY <1>1, <1>3 DEF DeletePage, DocsTyped, PageType
  <2>2. CASE page.live
    <3>1. Moves!Remove
      BY <1>1, <2>1, <2>2 DEF Moves!Remove, From, To, Place
    <3> QED BY <3>1 DEF Refines, Moves!Next
  <2>3. CASE ~page.live
    <3>1. page.live \in BOOLEAN
      BY <1>1 DEF DocsTyped, PageType
    <3> QED BY <1>1, <2>1, <2>3, <3>1, UnseenRefines
  <2> QED BY <2>2, <2>3
<1>4. CASE PurgeEvents(x)
  <2>1. ~page.live /\ page' = page /\ log' = <<>>
    BY <1>1, <1>4 DEF PurgeEvents, Evident
  <2>2. Journal' = <<>>
    BY <2>1 DEF Journal
  <2>3. Moves!Erase
    BY <1>1, <2>1, <2>2 DEF Moves!Erase, Journal, From, To, Place
  <2> QED BY <2>3 DEF Refines, Moves!Next
<1> QED BY <1>2, <1>3, <1>4 DEF DeleteLook, ReadOnly

\* The steps that neither move nor delete the page are not seen.
LEMMA StillRefines ==
    ASSUME Inv, RecordsKept, log' = log, page' = page \/ page' = [page EXCEPT !.staged = FALSE]
    PROVE  Refines
<1>1. /\ page'.path = page.path /\ page'.status = page.status /\ page'.holder = page.holder
      /\ page'.ready = page.ready /\ page'.live = page.live
  BY DEF Inv, Typed, TypeOK, PageType
<1> QED BY <1>1, UnseenRefines

\* Every step is a step of the abstract move or a stutter.
LEMMA StepRefines == ASSUME Inv, [Next]_vars PROVE Refines
<1>1. Typed
  BY DEF Inv
<1>2. ASSUME NEW p \in Movers, MoveStep(p) PROVE Refines
  <2>1. CASE Complete(p) \/ Moot(p)
    BY <1>1, <2>1, SettleTyped, StillRefines DEF Complete, Moot, Settle
  <2>2. CASE \/ Reread(p) \/ ClassifyEntry(p) \/ Reload(p) \/ Vacate(p) \/ ExitRead(p)
             \/ Store(p) \/ Evidence(p) \/ Assist(p) \/ Row(p)
    BY <2>2, SameRecords, StillRefines
       DEF Reread, ClassifyEntry, Reload, Vacate, ExitRead, Store, Evidence, Assist, Row,
           Drained, ReadOnly
  <2> QED BY <1>2, <2>1, <2>2, PromoteRefines, EnterRefines, ExitRefines DEF MoveStep
<1>3. ASSUME NEW d \in Deliveries, DeliveryStep(d) PROVE Refines
  <2>1. CASE Create(d)
    BY <1>1, <2>1, CreateTyped, StillRefines DEF Create
  <2>2. CASE Read(d) \/ Resolve(d) \/ Prepare(d)
    BY <2>2, SameRecords, StillRefines DEF Read, Resolve, Prepare, ReadOnly
  <2> QED BY <1>2, <1>3, <2>1, <2>2, Sets DEF DeliveryStep
<1>4. ASSUME NEW s \in Sweeps, SweepStep(s) PROVE Refines
  <2>1. CASE Correct(s) \/ Fail(s)
    BY <1>1, <2>1, Sets, SettleTyped, StillRefines DEF Correct, Fail, Settle
  <2>2. CASE Judge(s)
    BY <2>2, SameRecords, StillRefines DEF Judge, ReadOnly
  <2> QED BY <1>2, <1>4, <2>1, <2>2, Sets DEF SweepStep
<1>5. CASE OutboxDrained \/ \E o \in Ops : Age(o)
  BY <1>1, <1>5, OutsideTyped, StillRefines DEF OutboxDrained, Drained, Age
<1>6. CASE \/ \E s \in Sweeps, o \in Ops : Visit(s, o)
           \/ \E p \in Movers : Crash(p)
           \/ UNCHANGED vars
  BY <1>6, SameRecords, StillRefines DEF Visit, ReadOnly, Crash, vars
<1> QED BY <1>3, <1>4, <1>5, <1>6, DeleteRefines DEF Next

\* The initial states are initial states of the abstract move.
LEMMA InitRefines == ASSUME Init PROVE Moves!Init
<1>1. PICK start \in Starts :
        page = [live |-> TRUE, path |-> Home, status |-> "published", holder |-> None,
                ready |-> start.tracked, staged |-> FALSE, legacy |-> ~start.tracked]
  BY DEF Init
<1>2. start.tracked \in BOOLEAN /\ Home \in Paths
  BY ConstantsAssumption
<1>3. Journal = <<>>
  BY DEF Init, Journal
<1> QED BY <1>1, <1>2, <1>3 DEF Moves!Init, Journal, Place, Settled

\* A move is two writes with work, crashes and other requests in between; readers
\* see it as one, and the history of a tracked page is exactly the list of its moves.
THEOREM MovesAreAtomic == Spec => MovesSpec
<1>1. Inv /\ [Next]_vars => Refines
  BY StepRefines
<1> QED BY <1>1, Invariance, InitRefines, PTL DEF Spec, MovesSpec, Moves!Spec, Refines

=============================================================================
