-------------------------- MODULE SubtreeRenameProofs --------------------------
(***************************************************************************)
(* Proofs about SubtreeRename, for any members, deliveries and sweeps,     *)
(* and any number of faults.                                               *)
(***************************************************************************)
EXTENDS SubtreeRename, TLAPS

\* Where a worker is that acts upon its member's record.
Recorded == {"enter", "classify", "exit", "store", "judge", "row", "verdict", "complete",
             "moot", "fail", "hook"}

\* Nobody else has touched the member, nor the page the request names.
Unstrayed(m) == strays \cap {m, Root} = {}

\* What a worker on a member relies on.
Local(a, m) ==
    /\ a \in Deliveries /\ Busy(a, m) => dpc[a] = "work"
    /\ a \in Deliveries /\ pc[a][m] # "off" => root # None /\ m \in root.members
    /\ pc[a][m] \in Recorded => record[m] # None
    /\ pc[a][m] \in {"store", "complete"} => moves[m] > 0
    /\ pc[a][m] = "row" /\ loc[a][m].moved /\ page[m].live => m \in stored
    /\ Unstrayed(m) =>
         /\ pc[a][m] = "read" =>
              loc[a][m].seen = "old" \/ (loc[a][m].seen = "new" /\ record[m] # None)
         /\ pc[a][m] = "claim" => loc[a][m].from = "old" /\ loc[a][m].to = "new"
         /\ pc[a][m] # "clash"

\* The traces of a move last, and without a move there are none.
Traced(m) ==
    /\ m \in stored \/ page[m].staged \/ Succeeded(m) => moves[m] > 0
    /\ page[m].live /\ moves[m] > 0 => m \in stored \/ page[m].staged
    /\ record[m] # None => root # None

\* A member nobody else touches goes from the old place to the new one, once.
OneWay(m) ==
    /\ page[m].live /\ page[m].place \in {"old", "new"}
    /\ page[m].place = "old" => ~page[m].held /\ moves[m] = 0
    /\ page[m].place = "new" =>
         record[m] # None /\ moves[m] = (IF page[m].held THEN 0 ELSE 1)
    /\ record[m] # None => record[m].from = "old" /\ record[m].to = "new"

\* A delivery at work moves its members away from where the root page was at first.
Grounded(d) ==
    /\ dpc[d] \in {"relook", "first", "work"} => root # None
    /\ Root \notin strays =>
         /\ dpc[d] \in {"seal", "first"} =>
              base[d] = "old" \/ (base[d] = "new" /\ record[Root] # None)
         /\ dpc[d] = "work" => base[d] = "old"

Inv ==
    /\ TypeOK /\ RootIsHonest
    /\ \A a \in Actors : \A m \in Members : Local(a, m)
    /\ \A m \in Members : Traced(m) /\ (Unstrayed(m) => OneWay(m))
    /\ \A d \in Deliveries : Grounded(d)

\* The invariant holds at first: no member has moved.
LEMMA InitInv == ASSUME ConstantsAssumption, Init PROVE Inv
<1>1. PICK cast \in Casts :
        /\ dpc = [d \in Deliveries |-> IF d \in cast THEN "start" ELSE "done"]
        /\ pc = [a \in Actors |-> [m \in Members |-> IF a \in Sweeps \ cast THEN "dead" ELSE "off"]]
  BY DEF Init
<1>2. /\ \A a \in Actors : \A m \in Members : pc[a][m] \in {"off", "dead"}
      /\ \A d \in Deliveries : dpc[d] \in {"start", "done"} /\ \A m \in Members : pc[d][m] = "off"
  BY <1>1 DEF ConstantsAssumption, Actors
<1>3. TypeOK
  BY <1>1 DEF Init, TypeOK, ConstantsAssumption, PageType, Places, Labels, LocType, NoLoc
<1>4. ASSUME NEW a \in Actors, NEW m \in Members PROVE Local(a, m)
  BY <1>2 DEF Local, Busy, Answers, Recorded
<1>5. ASSUME NEW m \in Members PROVE Traced(m) /\ OneWay(m)
  BY DEF Init, Traced, OneWay, Succeeded
<1>6. ASSUME NEW d \in Deliveries PROVE Grounded(d)
  BY <1>2 DEF Grounded
<1>7. RootIsHonest
  BY DEF Init, RootIsHonest
<1> QED
  BY <1>3, <1>4, <1>5, <1>6, <1>7 DEF Inv

-----------------------------------------------------------------------------
(* What a step leaves alone stays as it was. *)

\* Nothing is taken back: no record, no root record, no move and no stray; no page comes
\* back to life, and the events of a page that lives stay.
Forward ==
    /\ root # None => root' # None /\ root'.members = root.members
    /\ strays \subseteq strays'
    /\ \A m \in Members :
         /\ record[m] # None => record'[m] # None
         /\ moves[m] > 0 => moves'[m] > 0
         /\ page'[m].live => page[m].live
         /\ page'[m].live /\ m \in stored => m \in stored'

\* A worker that does not move keeps what it relies on.
LEMMA LocalKept ==
    ASSUME Forward, NEW a \in Actors, NEW m \in Members, Local(a, m),
           pc'[a][m] = pc[a][m], loc'[a][m] = loc[a][m],
           a \in Deliveries => dpc'[a] = dpc[a]
    PROVE  Local(a, m)'
  BY DEF Local, Forward, Busy, Unstrayed

\* So does a member that is not touched.
LEMMA MemberKept ==
    ASSUME Forward, NEW m \in Members, Traced(m), Unstrayed(m) => OneWay(m),
           page'[m] = page[m], record'[m] = record[m], moves'[m] = moves[m],
           m \in stored' <=> m \in stored
    PROVE  Traced(m)' /\ (Unstrayed(m)' => OneWay(m)')
<1>1. Unstrayed(m)' => Unstrayed(m)
  BY DEF Forward, Unstrayed
<1>2. Traced(m)'
  BY DEF Forward, Traced, Succeeded
<1>3. OneWay(m) => OneWay(m)'
  BY DEF OneWay
<1> QED
  BY <1>1, <1>2, <1>3

\* So does a delivery.
LEMMA GroundKept ==
    ASSUME ConstantsAssumption, Forward, NEW d \in Deliveries, Grounded(d),
           dpc'[d] = dpc[d], base'[d] = base[d]
    PROVE  Grounded(d)'
  BY DEF Forward, Grounded, ConstantsAssumption

\* A root that was honest stays so.
LEMMA HonestKept ==
    ASSUME TypeOK, RootIsHonest, root' = root,
           \A m \in Members : record[m] # None =>
             record'[m] # None /\ (record[m].result \in Terminal => record'[m].result \in Terminal)
    PROVE  RootIsHonest'
  BY DEF TypeOK, RootType, RootIsHonest, AllFinished

-----------------------------------------------------------------------------
(* How a worker moves. *)

LEMMA MoveTyped ==
    ASSUME TypeOK, NEW a \in Actors, NEW m \in Members, NEW l \in Labels, NEW x \in LocType,
           Move(a, m, l, x)
    PROVE  /\ pc' \in [Actors -> [Members -> Labels]] /\ loc' \in [Actors -> [Members -> LocType]]
           /\ pc'[a][m] = l /\ loc'[a][m] = x
           /\ \A b \in Actors : \A n \in Members : b # a \/ n # m =>
                pc'[b][n] = pc[b][n] /\ loc'[b][n] = loc[b][n]
           /\ UNCHANGED <<dpc, base, list>>
<1>1. /\ pc' = [pc EXCEPT ![a] = [pc[a] EXCEPT ![m] = l]]
      /\ loc' = [loc EXCEPT ![a] = [loc[a] EXCEPT ![m] = x]]
      /\ UNCHANGED <<dpc, base, list>>
  BY DEF Move
<1>2. pc[a] \in [Members -> Labels] /\ loc[a] \in [Members -> LocType]
  BY DEF TypeOK
<1> QED
  BY <1>1, <1>2 DEF TypeOK

LEMMA NoLocTyped == NoLoc \in LocType
  BY DEF NoLoc, LocType, Places

-----------------------------------------------------------------------------
(* The steps of a worker that writes nothing. *)

LEMMA WorkerKeeps ==
    ASSUME ConstantsAssumption, Inv, NEW a \in Actors, NEW m \in Members,
           NEW l \in Labels, NEW x \in LocType, Move(a, m, l, x), UNCHANGED Documents,
           faults' \in Nat, Local(a, m)'
    PROVE  Inv'
<1>1. /\ pc' \in [Actors -> [Members -> Labels]] /\ loc' \in [Actors -> [Members -> LocType]]
      /\ \A b \in Actors : \A n \in Members : b # a \/ n # m =>
           pc'[b][n] = pc[b][n] /\ loc'[b][n] = loc[b][n]
      /\ UNCHANGED <<dpc, base, list>>
  BY MoveTyped DEF Inv
<1>2. Forward
  BY DEF Forward, Documents
<1>3. TypeOK'
  BY <1>1 DEF Inv, TypeOK, Documents
<1>4. ASSUME NEW b \in Actors, NEW n \in Members PROVE Local(b, n)'
  <2>1. CASE b = a /\ n = m
    BY <2>1
  <2>2. CASE b # a \/ n # m
    BY <1>1, <1>2, <2>2, LocalKept DEF Inv
  <2> QED
    BY <2>1, <2>2
<1>5. ASSUME NEW n \in Members PROVE Traced(n)' /\ (Unstrayed(n)' => OneWay(n)')
  BY <1>2, MemberKept DEF Inv, Documents
<1>6. ASSUME NEW d \in Deliveries PROVE Grounded(d)'
  BY <1>1, <1>2, GroundKept DEF Inv
<1>7. RootIsHonest'
  BY HonestKept DEF Inv, Documents
<1> QED
  BY <1>3, <1>4, <1>5, <1>6, <1>7 DEF Inv

\* Most of them only go on.
LEMMA GoesOn ==
    ASSUME ConstantsAssumption, Inv, NEW a \in Actors, NEW m \in Members, NEW l,
           Goto(a, m, l), UNCHANGED Documents, faults' \in Nat,
           l \in Labels \ {"read", "claim", "row", "clash"},
           a \in Deliveries => dpc[a] = "work" /\ pc[a][m] # "off",
           l \in Recorded => record[m] # None,
           l \in {"store", "complete"} => moves[m] > 0
    PROVE  Inv'
<1>1. Move(a, m, l, NoLoc) /\ NoLoc \in LocType
  BY NoLocTyped DEF Goto
<1>2. pc'[a][m] = l /\ dpc' = dpc
  BY <1>1, MoveTyped DEF Inv
<1>3. Local(a, m)'
  BY <1>2 DEF Inv, Local, Busy, Documents
<1> QED
  BY <1>1, <1>3, WorkerKeeps

LEMMA PeekKeeps ==
    ASSUME ConstantsAssumption, Inv, NEW d \in Deliveries, NEW m \in Members, Peek(d, m)
    PROVE  Inv'
<1> DEFINE x == [NoLoc EXCEPT !.seen = IF page[m].live THEN page[m].place ELSE None]
<1>1. /\ dpc[d] = "work" /\ Move(d, m, "read", x) /\ UNCHANGED Documents /\ faults' = faults
      /\ d \in Actors
  BY DEF Peek, ReadOnly, Actors
<1>2. x \in LocType /\ x.seen = (IF page[m].live THEN page[m].place ELSE None)
  BY DEF Inv, TypeOK, PageType, LocType, NoLoc, Places
<1> HIDE DEF x
<1>3. "read" \in Labels /\ faults' \in Nat
  BY <1>1 DEF Labels, Inv, TypeOK
<1>4. pc'[d][m] = "read" /\ loc'[d][m] = x /\ dpc' = dpc
  BY <1>1, <1>2, <1>3, MoveTyped DEF Inv
<1>5. Unstrayed(m) => x.seen = "old" \/ (x.seen = "new" /\ record[m] # None)
  BY <1>2 DEF Inv, OneWay
<1>6. Local(d, m)'
  BY <1>1, <1>4, <1>5 DEF Peek, Inv, Local, Recorded, Documents, Unstrayed
<1> QED
  BY <1>1, <1>2, <1>3, <1>6, WorkerKeeps

\* Where the root page was decides for the members that nobody has moved.
LEMMA ReadRecordKeeps ==
    ASSUME ConstantsAssumption, Inv, NEW d \in Deliveries, NEW m \in Members, ReadRecord(d, m)
    PROVE  Inv'
<1> DEFINE from == FromRecord(d, m)
           inside == m = Root \/ from \in {base[d], None}
           to == IF record[m] # None THEN record[m].to ELSE IF inside THEN "new" ELSE from
           x == [NoLoc EXCEPT !.from = from, !.to = to, !.allowed = record[m] # None \/ inside]
<1>1. /\ pc[d][m] = "read" /\ Move(d, m, "claim", x) /\ UNCHANGED Documents /\ faults' = faults
      /\ d \in Actors
  BY DEF ReadRecord, ReadOnly, Actors
<1>2. dpc[d] = "work"
  BY <1>1 DEF Inv, Local, Busy, Answers
<1>3. from \in Places \cup {None}
  BY <1>1 DEF FromRecord, Inv, TypeOK, RecordType, LocType
<1>4. to \in Places
  BY <1>3 DEF Inv, TypeOK, RecordType, Places
<1>5. Unstrayed(m) => from = "old" /\ to = "new"
  <2> SUFFICES ASSUME Unstrayed(m) PROVE from = "old" /\ to = "new"
    OBVIOUS
  <2>1. /\ loc[d][m].seen = "old" \/ (loc[d][m].seen = "new" /\ record[m] # None)
        /\ record[m] # None => record[m].from = "old" /\ record[m].to = "new"
        /\ base[d] = "old"
    BY <1>1, <1>2 DEF Inv, Local, OneWay, Grounded, Unstrayed
  <2> QED
    BY <2>1 DEF FromRecord
<1> HIDE DEF from, to, inside
<1>6. x \in LocType /\ x.from = from /\ x.to = to
  BY <1>3, <1>4 DEF LocType, NoLoc
<1> HIDE DEF x
<1>7. "claim" \in Labels /\ faults' \in Nat
  BY <1>1 DEF Labels, Inv, TypeOK
<1>8. pc'[d][m] = "claim" /\ loc'[d][m] = x /\ dpc' = dpc
  BY <1>1, <1>6, <1>7, MoveTyped DEF Inv
<1>9. Local(d, m)'
  BY <1>1, <1>2, <1>5, <1>6, <1>8 DEF Inv, Local, Recorded, Documents, Unstrayed
<1> QED
  BY <1>1, <1>6, <1>7, <1>9, WorkerKeeps

\* A worker that is busy belongs to a delivery at work.
LEMMA AtWork ==
    ASSUME Inv, NEW a \in Actors, NEW m \in Members, Busy(a, m)
    PROVE  a \in Deliveries => dpc[a] = "work" /\ pc[a][m] # "off"
  BY DEF Inv, Local, Busy, Answers

LEMMA ClassifyKeeps ==
    ASSUME ConstantsAssumption, Inv, NEW a \in Actors, NEW m \in Members, Classify(a, m)
    PROVE  Inv'
<1>1. PICK l \in {"off", "judge", "exit", "enter", "current"} : Goto(a, m, l)
  BY DEF Classify, Off
<1>2. UNCHANGED Documents /\ faults' \in Nat /\ record[m] # None /\ Busy(a, m)
  BY DEF Classify, ReadOnly, Inv, TypeOK, Local, Recorded, Busy, Answers
<1> QED
  BY <1>1, <1>2, AtWork, GoesOn DEF Labels

LEMMA RowKeeps ==
    ASSUME ConstantsAssumption, Inv, NEW a \in Actors, NEW m \in Members, Row(a, m)
    PROVE  Inv'
<1>1. PICK l \in {"complete", "off", "verdict", "moot", "no"} :
        Goto(a, m, l) /\ (l = "complete" => m \in stored)
  BY DEF Row
<1>2. UNCHANGED Documents /\ faults' \in Nat /\ record[m] # None /\ Busy(a, m)
  BY DEF Row, ReadOnly, Inv, TypeOK, Local, Recorded, Busy, Answers
<1>3. m \in stored => moves[m] > 0
  BY DEF Inv, Traced
<1> QED
  BY <1>1, <1>2, <1>3, AtWork, GoesOn DEF Labels

LEMMA CurrentKeeps ==
    ASSUME ConstantsAssumption, Inv, NEW d \in Deliveries, NEW m \in Members, Current(d, m)
    PROVE  Inv'
<1>1. PICK l \in {"no", "judge", "ok"} : Goto(d, m, l) /\ (l = "judge" => record[m] # None)
  BY DEF Current, Reported
<1>2. UNCHANGED Documents /\ faults' \in Nat /\ Busy(d, m) /\ d \in Actors
  BY DEF Current, ReadOnly, Inv, TypeOK, Busy, Answers, Actors
<1> QED
  BY <1>1, <1>2, AtWork, GoesOn DEF Labels, Recorded

LEMMA VerdictKeeps ==
    ASSUME ConstantsAssumption, Inv, NEW s \in Sweeps, NEW m \in Members, Verdict(s, m)
    PROVE  Inv'
<1>1. PICK l \in {"moot", "enter", "fail", "off"} : Goto(s, m, l)
  BY DEF Verdict
<1>2. UNCHANGED Documents /\ faults' \in Nat /\ record[m] # None /\ Busy(s, m) /\ s \in Actors
  BY DEF Verdict, ReadOnly, Inv, TypeOK, Local, Recorded, Busy, Answers, Actors
<1> QED
  BY <1>1, <1>2, AtWork, GoesOn DEF Labels

LEMMA VisitKeeps ==
    ASSUME ConstantsAssumption, Inv, NEW s \in Sweeps, NEW m \in Members, Visit(s, m)
    PROVE  Inv'
<1>1. Goto(s, m, "judge") /\ UNCHANGED Documents /\ faults' \in Nat /\ record[m] # None
  BY DEF Visit, ReadOnly, Goto, Inv, TypeOK
<1>2. s \in Actors /\ s \notin Deliveries
  BY DEF Actors, ConstantsAssumption
<1> QED
  BY <1>1, <1>2, GoesOn DEF Labels

LEMMA ThrowKeeps ==
    ASSUME ConstantsAssumption, Inv, NEW d \in Deliveries, NEW m \in Members, Throw(d, m)
    PROVE  Inv'
<1>1. /\ Goto(d, m, "current") /\ UNCHANGED Documents /\ faults' \in Nat /\ Busy(d, m)
      /\ d \in Actors
  BY DEF Throw, Fault, Inv, TypeOK, Actors
<1> QED
  BY <1>1, AtWork, GoesOn DEF Labels, Recorded

\* Without an event in the slot, one that was stored is found.
LEMMA JudgeKeeps ==
    ASSUME ConstantsAssumption, Inv, NEW a \in Actors, NEW m \in Members, Judge(a, m)
    PROVE  Inv'
<1>1. /\ UNCHANGED Documents /\ faults' \in Nat /\ record[m] # None
      /\ a \in Deliveries => dpc[a] = "work" /\ pc[a][m] # "off"
  BY AtWork DEF Judge, ReadOnly, Inv, TypeOK, Local, Recorded, Busy, Answers
<1>2. CASE Goto(a, m, "store") /\ StagedEvent(m)
  <2>1. moves[m] > 0
    BY <1>2 DEF StagedEvent, Inv, Traced
  <2> QED
    BY <1>1, <1>2, <2>1, GoesOn DEF Labels
<1> DEFINE x == [NoLoc EXCEPT !.gone = ~page[m].live, !.moved = moves[m] > 0]
<1>3. CASE Move(a, m, "row", x) /\ ~StagedEvent(m)
  <2>1. x \in LocType /\ x.moved = (moves[m] > 0)
    <3>1. \A g, v \in BOOLEAN :
            /\ [NoLoc EXCEPT !.gone = g, !.moved = v] \in LocType
            /\ [NoLoc EXCEPT !.gone = g, !.moved = v].moved = v
      BY DEF LocType, NoLoc, Places
    <3>2. (~page[m].live) \in BOOLEAN /\ (moves[m] > 0) \in BOOLEAN
      OBVIOUS
    <3> QED
      BY <3>1, <3>2
  <2> HIDE DEF x
  <2>2. "row" \in Labels
    BY DEF Labels
  <2>3. pc'[a][m] = "row" /\ loc'[a][m] = x /\ dpc' = dpc
    BY <1>3, <2>1, <2>2, MoveTyped DEF Inv
  <2>4. page[m].live /\ moves[m] > 0 => m \in stored
    BY <1>3 DEF StagedEvent, Inv, Traced
  <2>5. Local(a, m)'
    BY <1>1, <2>1, <2>3, <2>4 DEF Inv, Local, Recorded, Busy, Documents
  <2> QED
    BY <1>1, <1>3, <2>1, <2>2, <2>5, WorkerKeeps
<1> QED
  BY <1>2, <1>3 DEF Judge

-----------------------------------------------------------------------------
(* The steps of a worker that writes: to its member's documents, or the root's. *)

\* What a worker relies on after most of its steps.
LEMMA LocalOn ==
    ASSUME Inv, Forward, NEW a \in Actors, NEW m \in Members, NEW l,
           Goto(a, m, l), l \in Labels \ {"read", "claim", "row"},
           a \in Deliveries => dpc[a] = "work" /\ pc[a][m] # "off",
           l \in Recorded => record'[m] # None,
           l \in {"store", "complete"} => moves'[m] > 0,
           l = "clash" => ~Unstrayed(m)'
    PROVE  Local(a, m)'
<1>1. Move(a, m, l, NoLoc) /\ NoLoc \in LocType
  BY NoLocTyped DEF Goto
<1>2. pc'[a][m] = l /\ dpc' = dpc
  BY <1>1, MoveTyped DEF Inv
<1>3. a \in Deliveries => root' # None /\ m \in root'.members
  BY DEF Inv, Local, Forward
<1> QED
  BY <1>2, <1>3 DEF Local, Busy

LEMMA WritesKeep ==
    ASSUME ConstantsAssumption, Inv, Forward, NEW a \in Actors, NEW m \in Members,
           NEW l \in Labels, Goto(a, m, l), UNCHANGED <<strays, faults>>,
           page' \in [Members -> PageType], stored' \subseteq Members,
           root' \in RootType \cup {None}, record' \in [Members -> RecordType \cup {None}],
           moves' \in [Members -> Nat],
           \A n \in Members \ {m} : page'[n] = page[n] /\ record'[n] = record[n]
                                    /\ moves'[n] = moves[n] /\ (n \in stored' <=> n \in stored),
           RootIsHonest', Local(a, m)', Traced(m)', Unstrayed(m) => OneWay(m)'
    PROVE  Inv'
<1>1. /\ pc' \in [Actors -> [Members -> Labels]] /\ loc' \in [Actors -> [Members -> LocType]]
      /\ \A b \in Actors : \A n \in Members : b # a \/ n # m =>
           pc'[b][n] = pc[b][n] /\ loc'[b][n] = loc[b][n]
      /\ UNCHANGED <<dpc, base, list>>
  BY MoveTyped, NoLocTyped DEF Inv, Goto
<1>2. TypeOK'
  BY <1>1 DEF Inv, TypeOK
<1>3. ASSUME NEW b \in Actors, NEW n \in Members PROVE Local(b, n)'
  <2>1. CASE b = a /\ n = m
    BY <2>1
  <2>2. CASE b # a \/ n # m
    BY <1>1, <2>2, LocalKept DEF Inv
  <2> QED
    BY <2>1, <2>2
<1>4. ASSUME NEW n \in Members PROVE Traced(n)' /\ (Unstrayed(n)' => OneWay(n)')
  <2>1. CASE n = m
    BY <2>1 DEF Unstrayed
  <2>2. CASE n # m
    BY <2>2, MemberKept DEF Inv
  <2> QED
    BY <2>1, <2>2
<1>5. ASSUME NEW d \in Deliveries PROVE Grounded(d)'
  BY <1>1, GroundKept DEF Inv
<1> QED
  BY <1>2, <1>3, <1>4, <1>5 DEF Inv

\* The first to claim a member names the move from the old place to the new one, and the
\* others find just that.
LEMMA ClaimKeeps ==
    ASSUME ConstantsAssumption, Inv, NEW d \in Deliveries, NEW m \in Members, Claim(d, m)
    PROVE  Inv'
<1> DEFINE x == loc[d][m]
<1>1. /\ pc[d][m] = "claim" /\ UNCHANGED <<page, stored, root, moves, strays, faults>>
      /\ Busy(d, m) /\ d \in Actors
  BY DEF Claim, Busy, Answers, Actors
<1>2. dpc[d] = "work" /\ pc[d][m] # "off" /\ root # None
  BY <1>1, AtWork DEF Inv, Local
<1>3. Unstrayed(m) => x.from = "old" /\ x.to = "new"
  BY <1>1 DEF Inv, Local
<1>4. x.from \in Places \cup {None} /\ x.to \in Places /\ faults \in Nat
  BY <1>1 DEF Inv, TypeOK, LocType
<1> DEFINE new == [from |-> x.from, to |-> x.to, result |-> "open"]
<1>5. ASSUME record[m] = None, record' = [record EXCEPT ![m] = new],
             NEW l \in {"enter", "judge"}, Goto(d, m, l)
      PROVE  Inv'
  <2>1. new \in RecordType /\ new # None
    BY <1>4 DEF RecordType, ConstantsAssumption
  <2>2. /\ record' \in [Members -> RecordType \cup {None}] /\ record'[m] = new
        /\ \A n \in Members \ {m} : record'[n] = record[n]
    BY <1>5, <2>1 DEF Inv, TypeOK
  <2>3. Forward
    BY <1>1, <1>5, <2>1, <2>2 DEF Forward
  <2>4. Local(d, m)'
    BY <1>1, <1>2, <1>5, <2>1, <2>2, <2>3, LocalOn DEF Labels
  <2>5. Traced(m)'
    BY <1>1, <1>2, <2>2 DEF Inv, Traced, Succeeded
  <2>6. Unstrayed(m) => OneWay(m)'
    BY <1>1, <1>3, <1>5, <2>1, <2>2 DEF Inv, OneWay
  <2>7. RootIsHonest'
    BY <1>1, <1>5, <2>2, HonestKept DEF Inv
  <2>8. l \in Labels
    BY DEF Labels
  <2> QED
    BY <1>1, <1>5, <2>2, <2>3, <2>4, <2>5, <2>6, <2>7, <2>8, WritesKeep DEF Inv, TypeOK
<1>6. ASSUME record[m] # None, UNCHANGED record,
             NEW l \in {"clash", "ok", "no", "enter", "judge"}, Goto(d, m, l),
             l = "clash" => record[m].from # x.from \/ record[m].to # x.to
      PROVE  Inv'
  <2>1. UNCHANGED Documents /\ faults' \in Nat
    BY <1>1, <1>4, <1>6 DEF Documents
  <2>2. Forward /\ record'[m] # None
    BY <1>6, <2>1 DEF Forward, Documents
  <2>3. l = "clash" => ~Unstrayed(m)'
    BY <1>1, <1>3, <1>6 DEF Inv, OneWay, Unstrayed
  <2>4. Local(d, m)'
    BY <1>1, <1>2, <1>6, <2>2, <2>3, LocalOn DEF Labels
  <2> QED
    BY <1>1, <1>6, <2>1, <2>4, WorkerKeeps, NoLocTyped DEF Goto, Labels
<1>7. Reported(m, record[m].result) \in {"ok", "no"}
  BY DEF Reported
<1> QED
  BY <1>5, <1>6, <1>7 DEF Claim

\* The first compare-and-set moves the page and claims it.
LEMMA EnterKeeps ==
    ASSUME ConstantsAssumption, Inv, NEW a \in Actors, NEW m \in Members, Enter(a, m)
    PROVE  Inv'
<1>1. /\ UNCHANGED <<stored, root, record, moves, strays, faults>> /\ record[m] # None
      /\ a \in Deliveries => dpc[a] = "work" /\ pc[a][m] # "off"
      /\ faults \in Nat
  BY AtWork DEF Enter, Inv, TypeOK, Local, Recorded, Busy, Answers
<1>2. ASSUME page[m].live, ~page[m].held, page[m].place = record[m].from,
             page' = [page EXCEPT ![m].place = record[m].to, ![m].held = TRUE],
             Goto(a, m, "exit")
      PROVE  Inv'
  <2>1. page[m] \in PageType /\ record[m].to \in Places
    BY <1>1 DEF Inv, TypeOK, RecordType
  <2>2. /\ page' \in [Members -> PageType]
        /\ page'[m] = [page[m] EXCEPT !.place = record[m].to, !.held = TRUE]
        /\ \A n \in Members \ {m} : page'[n] = page[n]
    BY <1>2, <2>1 DEF Inv, TypeOK, PageType
  <2>3. page'[m].live /\ page'[m].held /\ page'[m].place = record[m].to
        /\ page'[m].staged = page[m].staged
    BY <1>2, <2>1, <2>2 DEF PageType
  <2>4. Forward
    BY <1>1, <1>2, <2>2, <2>3 DEF Forward
  <2>5. Local(a, m)'
    BY <1>1, <1>2, <2>4, LocalOn DEF Labels
  <2>6. Traced(m)'
    BY <1>1, <1>2, <2>3 DEF Inv, Traced, Succeeded
  <2>7. Unstrayed(m) => OneWay(m)'
    BY <1>1, <1>2, <2>3 DEF Inv, OneWay
  <2>8. RootIsHonest'
    BY <1>1, HonestKept DEF Inv
  <2>9. "exit" \in Labels
    BY DEF Labels
  <2> QED
    BY <1>1, <1>2, <2>2, <2>4, <2>5, <2>6, <2>7, <2>8, <2>9, WritesKeep DEF Inv, TypeOK
<1>3. ASSUME UNCHANGED page, Goto(a, m, "classify") PROVE Inv'
  BY <1>1, <1>3, GoesOn DEF Documents, Labels
<1> QED
  BY <1>2, <1>3 DEF Enter

\* The second one settles it, and leaves an event in the slot.
LEMMA ExitKeeps ==
    ASSUME ConstantsAssumption, Inv, NEW a \in Actors, NEW m \in Members, Exit(a, m)
    PROVE  Inv'
<1>1. /\ UNCHANGED <<root, record, strays, faults>> /\ record[m] # None
      /\ a \in Deliveries => dpc[a] = "work" /\ pc[a][m] # "off"
      /\ faults \in Nat
  BY AtWork DEF Exit, Inv, TypeOK, Local, Recorded, Busy, Answers
<1>2. ASSUME StillHeld(m), page' = [page EXCEPT ![m].held = FALSE, ![m].staged = TRUE],
             stored' = IF page[m].staged THEN stored \cup {m} ELSE stored,
             moves' = [moves EXCEPT ![m] = @ + 1], Goto(a, m, "store")
      PROVE  Inv'
  <2>1. page[m] \in PageType /\ moves[m] \in Nat
    BY DEF Inv, TypeOK
  <2>2. /\ page' \in [Members -> PageType] /\ moves' \in [Members -> Nat]
        /\ stored' \subseteq Members
        /\ page'[m] = [page[m] EXCEPT !.held = FALSE, !.staged = TRUE]
        /\ moves'[m] = moves[m] + 1
        /\ \A n \in Members \ {m} : /\ page'[n] = page[n] /\ moves'[n] = moves[n]
                                    /\ n \in stored' <=> n \in stored
    <3>1. page' \in [Members -> PageType]
          /\ page'[m] = [page[m] EXCEPT !.held = FALSE, !.staged = TRUE]
          /\ \A n \in Members \ {m} : page'[n] = page[n]
      BY <1>2, <2>1 DEF Inv, TypeOK, PageType
    <3>2. moves' \in [Members -> Nat] /\ moves'[m] = moves[m] + 1
          /\ \A n \in Members \ {m} : moves'[n] = moves[n]
      BY <1>2, <2>1 DEF Inv, TypeOK
    <3>3. stored' \subseteq Members /\ \A n \in Members \ {m} : n \in stored' <=> n \in stored
      BY <1>2 DEF Inv, TypeOK
    <3> QED
      BY <3>1, <3>2, <3>3
  <2>3. page'[m].live = page[m].live /\ ~page'[m].held /\ page'[m].staged
        /\ page'[m].place = page[m].place
    BY <2>1, <2>2 DEF PageType
  <2>4. Forward
    BY <1>1, <1>2, <2>1, <2>2, <2>3 DEF Forward
  <2>5. Local(a, m)'
    BY <1>1, <1>2, <2>1, <2>2, <2>4, LocalOn DEF Labels
  <2>6. Traced(m)'
    BY <1>1, <2>1, <2>2, <2>3 DEF Inv, Traced
  <2>7. Unstrayed(m) => OneWay(m)'
    BY <1>1, <1>2, <2>2, <2>3 DEF Inv, OneWay, StillHeld
  <2>8. RootIsHonest'
    BY <1>1, HonestKept DEF Inv
  <2>9. "store" \in Labels
    BY DEF Labels
  <2> QED
    BY <1>1, <1>2, <2>2, <2>4, <2>5, <2>6, <2>7, <2>8, <2>9, WritesKeep DEF Inv, TypeOK
<1>3. ASSUME UNCHANGED <<page, stored, moves>>, Goto(a, m, Off(a)) PROVE Inv'
  <2>1. Off(a) \in {"off", "current"}
    BY DEF Off
  <2> QED
    BY <1>1, <1>3, <2>1, GoesOn DEF Documents, Labels
<1> QED
  BY <1>2, <1>3 DEF Exit

\* Then the event is stored.
LEMMA StoreKeeps ==
    ASSUME ConstantsAssumption, Inv, NEW a \in Actors, NEW m \in Members, Store(a, m)
    PROVE  Inv'
<1>1. /\ UNCHANGED <<root, record, moves, strays, faults>> /\ record[m] # None
      /\ a \in Deliveries => dpc[a] = "work" /\ pc[a][m] # "off"
      /\ moves[m] > 0 /\ Goto(a, m, "complete") /\ faults \in Nat
  BY AtWork DEF Store, Inv, TypeOK, Local, Recorded, Busy, Answers
<1>2. ASSUME page[m].live, page[m].staged, page' = [page EXCEPT ![m].staged = FALSE],
             stored' = stored \cup {m}
      PROVE  Inv'
  <2>1. page[m] \in PageType
    BY DEF Inv, TypeOK
  <2>2. /\ page' \in [Members -> PageType] /\ stored' \subseteq Members
        /\ page'[m] = [page[m] EXCEPT !.staged = FALSE]
        /\ \A n \in Members \ {m} : page'[n] = page[n] /\ (n \in stored' <=> n \in stored)
    BY <1>2, <2>1 DEF Inv, TypeOK, PageType
  <2>3. page'[m].live = page[m].live /\ page'[m].held = page[m].held
        /\ page'[m].place = page[m].place /\ m \in stored'
    BY <1>2, <2>1, <2>2 DEF PageType
  <2>4. Forward
    BY <1>1, <1>2, <2>2, <2>3 DEF Forward
  <2>5. Local(a, m)'
    BY <1>1, <2>4, LocalOn DEF Labels
  <2>6. Traced(m)'
    BY <1>1, <2>3 DEF Inv, Traced
  <2>7. Unstrayed(m) => OneWay(m)'
    BY <1>1, <2>3 DEF Inv, OneWay
  <2>8. RootIsHonest'
    BY <1>1, HonestKept DEF Inv
  <2>9. "complete" \in Labels
    BY DEF Labels
  <2> QED
    BY <1>1, <2>2, <2>4, <2>5, <2>6, <2>7, <2>8, <2>9, WritesKeep DEF Inv, TypeOK
<1>3. ASSUME UNCHANGED <<page, stored>> PROVE Inv'
  BY <1>1, <1>3, GoesOn DEF Documents, Labels
<1> QED
  BY <1>2, <1>3 DEF Store

\* A result is written: a success only for a member that was moved.
LEMMA SettleKeeps ==
    ASSUME ConstantsAssumption, Inv, NEW a \in Actors, NEW m \in Members, Busy(a, m),
           NEW result \in Terminal, Settle(a, m, result), record[m] # None,
           result = "succeeded" => moves[m] > 0
    PROVE  Inv'
<1>1. /\ UNCHANGED <<page, stored, root, moves, strays, faults>>
      /\ a \in Deliveries => dpc[a] = "work" /\ pc[a][m] # "off"
  BY AtWork DEF Settle
<1>2. PICK l \in {"hook", "no", "ok"} : Goto(a, m, l) /\ (l = "hook" => a \in Sweeps)
  BY DEF Settle, Reported
<1>3. record[m] \in RecordType
  BY DEF Inv, TypeOK
<1>4. /\ record' \in [Members -> RecordType \cup {None}] /\ record'[m] # None
      /\ record'[m].from = record[m].from /\ record'[m].to = record[m].to
      /\ record[m].result \in Terminal => record'[m].result \in Terminal
      /\ record'[m].result = "succeeded" => record[m].result = "succeeded" \/ result = "succeeded"
      /\ \A n \in Members \ {m} : record'[n] = record[n]
  <2>1. CASE record' = record
    BY <1>3, <2>1 DEF Inv, TypeOK
  <2>2. CASE record' = [record EXCEPT ![m].result = result]
    <3>1. [record[m] EXCEPT !.result = result] \in RecordType \ {None}
      BY <1>3 DEF RecordType, ConstantsAssumption
    <3>2. record' \in [Members -> RecordType \cup {None}]
          /\ record'[m] = [record[m] EXCEPT !.result = result]
          /\ \A n \in Members \ {m} : record'[n] = record[n]
      BY <2>2, <3>1 DEF Inv, TypeOK
    <3> QED
      BY <1>3, <3>1, <3>2 DEF RecordType
  <2> QED
    BY <2>1, <2>2 DEF Settle
<1>5. Forward
  BY <1>1, <1>4 DEF Forward
<1>6. Local(a, m)'
  BY <1>1, <1>2, <1>4, <1>5, LocalOn DEF Labels
<1>7. Traced(m)'
  BY <1>1, <1>4 DEF Inv, Traced, Succeeded
<1>8. Unstrayed(m) => OneWay(m)'
  BY <1>1, <1>4 DEF Inv, OneWay
<1>9. RootIsHonest'
  BY <1>1, <1>4, HonestKept DEF Inv
<1>10. l \in Labels
  BY DEF Labels
<1> QED
  BY <1>1, <1>2, <1>4, <1>5, <1>6, <1>7, <1>8, <1>9, <1>10, WritesKeep DEF Inv, TypeOK

LEMMA SettlesKeep ==
    ASSUME ConstantsAssumption, Inv, NEW a \in Actors, NEW m \in Members,
           Complete(a, m) \/ Moot(a, m) \/ (a \in Sweeps /\ Fail(a, m))
    PROVE  Inv'
<1>1. PICK result \in Terminal :
        /\ Settle(a, m, result) /\ pc[a][m] \in {"complete", "moot", "fail"}
        /\ result = "succeeded" => pc[a][m] = "complete"
  BY DEF Complete, Moot, Fail, Terminal
<1>2. Busy(a, m) /\ record[m] # None /\ (result = "succeeded" => moves[m] > 0)
  BY <1>1 DEF Inv, Local, Busy, Answers, Recorded
<1> QED
  BY <1>1, <1>2, SettleKeeps

\* The root's record is settled only when all of its members' are.
LEMMA RootSettled ==
    ASSUME ConstantsAssumption, Inv, root # None, SettleRoot, UNCHANGED record
    PROVE  root' \in RootType /\ root' # None /\ root'.members = root.members /\ RootIsHonest'
<1>1. root \in RootType
  BY DEF Inv, TypeOK
<1>2. CASE root' = root /\ ~AllFinished
  BY <1>1, <1>2 DEF Inv, RootIsHonest, AllFinished
<1>3. CASE root' = [root EXCEPT !.result = "succeeded"] /\ AllFinished
  <2>1. root' \in RootType /\ root'.members = root.members
    BY <1>1, <1>3 DEF RootType
  <2> QED
    BY <1>3, <2>1 DEF ConstantsAssumption, RootIsHonest, AllFinished
<1> QED
  BY <1>2, <1>3 DEF SettleRoot

LEMMA HookKeeps ==
    ASSUME ConstantsAssumption, Inv, NEW s \in Sweeps, NEW m \in Members, Hook(s, m)
    PROVE  Inv'
<1>1. /\ UNCHANGED <<page, stored, record, moves, strays, faults>> /\ Goto(s, m, "off")
      /\ SettleRoot /\ s \in Actors /\ s \notin Deliveries /\ record[m] # None
  BY DEF Hook, Actors, ConstantsAssumption, Inv, Local, Recorded
<1>2. root # None
  BY <1>1 DEF Inv, Traced
<1>3. root' \in RootType /\ root' # None /\ root'.members = root.members /\ RootIsHonest'
  BY <1>1, <1>2, RootSettled
<1>4. Forward
  BY <1>1, <1>3 DEF Forward
<1>5. Local(s, m)'
  BY <1>1, <1>4, LocalOn DEF Labels, Recorded
<1>6. Traced(m)' /\ (Unstrayed(m) => OneWay(m)')
  BY <1>1, <1>4 DEF Inv, Traced, Succeeded, OneWay, Forward
<1>7. "off" \in Labels
  BY DEF Labels
<1> QED
  BY <1>1, <1>3, <1>4, <1>5, <1>6, <1>7, WritesKeep DEF Inv, TypeOK

-----------------------------------------------------------------------------
(* The steps of a delivery as a whole, and of a sweep between its workers. *)

LEMMA ActorKeeps ==
    ASSUME ConstantsAssumption, Inv, Forward, NEW a \in Actors, TypeOK',
           UNCHANGED <<page, stored, record, moves, strays>>, RootIsHonest',
           a \in Deliveries => Grounded(a)', \A m \in Members : Local(a, m)',
           \A b \in Actors \ {a} : pc'[b] = pc[b] /\ loc'[b] = loc[b],
           \A d \in Deliveries \ {a} : dpc'[d] = dpc[d] /\ base'[d] = base[d]
    PROVE  Inv'
<1>1. ASSUME NEW b \in Actors, NEW m \in Members PROVE Local(b, m)'
  <2>1. CASE b = a
    BY <2>1
  <2>2. CASE b # a
    BY <2>2, LocalKept DEF Inv
  <2> QED
    BY <2>1, <2>2
<1>2. ASSUME NEW m \in Members PROVE Traced(m)' /\ (Unstrayed(m)' => OneWay(m)')
  BY MemberKept DEF Inv
<1>3. ASSUME NEW d \in Deliveries PROVE Grounded(d)'
  <2>1. CASE d = a
    BY <2>1
  <2>2. CASE d # a
    BY <2>2, GroundKept DEF Inv
  <2> QED
    BY <2>1, <2>2
<1> QED
  BY <1>1, <1>2, <1>3 DEF Inv

\* Before its workers start, none of them is busy.
LEMMA EarlyKeeps ==
    ASSUME ConstantsAssumption, Inv, Forward, NEW d \in Deliveries, NEW l, NEW b,
           dpc[d] \notin {"work", "done"}, To(d, l), base' = [base EXCEPT ![d] = b],
           l \in {"look", "relook", "seal", "first", "done"}, b \in Places \cup {None},
           list' \in [Deliveries -> SUBSET Members], root' \in RootType \cup {None},
           UNCHANGED <<page, stored, record, moves, strays, Workers, faults>>, RootIsHonest',
           l \in {"relook", "first"} => root' # None,
           Root \notin strays /\ l \in {"seal", "first"} =>
             b = "old" \/ (b = "new" /\ record[Root] # None)
    PROVE  Inv'
<1>1. TypeOK'
  BY DEF Inv, TypeOK, To, Workers
<1>2. dpc'[d] = l /\ base'[d] = b /\ d \in Actors
  BY DEF Inv, TypeOK, To, Actors
<1>3. ASSUME NEW m \in Members PROVE Local(d, m)'
  <2>1. Local(d, m) /\ ~Busy(d, m)
    BY <1>2 DEF Inv, Local
  <2> QED
    BY <2>1 DEF Local, Busy, Forward, Workers, Unstrayed, Recorded, Answers
<1>4. Grounded(d)'
  BY <1>2 DEF Grounded
<1>5. \A c \in Actors \ {d} : pc'[c] = pc[c] /\ loc'[c] = loc[c]
  BY DEF Workers
<1>6. \A e \in Deliveries \ {d} : dpc'[e] = dpc[e] /\ base'[e] = base[e]
  BY DEF Inv, TypeOK, To
<1> QED
  BY <1>1, <1>2, <1>3, <1>4, <1>5, <1>6, ActorKeeps

LEMMA StartKeeps ==
    ASSUME ConstantsAssumption, Inv, NEW d \in Deliveries, Start(d)
    PROVE  Inv'
<1>1. PICK l \in {"look", "relook"} : To(d, l) /\ (l = "relook" => root # None)
  BY DEF Start
<1>2. /\ dpc[d] = "start" /\ UNCHANGED <<Documents, base, list, Workers, faults>>
      /\ base' = [base EXCEPT ![d] = base[d]] /\ base[d] \in Places \cup {None}
  BY DEF Start, Inv, TypeOK
<1>3. Forward /\ RootIsHonest'
  BY <1>2, HonestKept DEF Forward, Documents, Inv
<1> QED
  BY <1>1, <1>2, <1>3, EarlyKeeps DEF Documents, Inv, TypeOK

LEMMA LookKeeps ==
    ASSUME ConstantsAssumption, Inv, NEW d \in Deliveries, Look(d)
    PROVE  Inv'
<1>1. PICK l \in {"done", "seal"}, b \in Places \cup {None} :
        /\ To(d, l) /\ base' = [base EXCEPT ![d] = b]
        /\ l = "seal" => b = page[Root].place
  <2>1. CASE To(d, "done") /\ UNCHANGED base
    <3>1. base[d] \in Places \cup {None} /\ base' = [base EXCEPT ![d] = base[d]]
      BY <2>1 DEF Inv, TypeOK
    <3> QED
      BY <2>1, <3>1
  <2>2. CASE To(d, "seal") /\ base' = [base EXCEPT ![d] = page[Root].place]
    <3>1. page[Root].place \in Places
      BY DEF ConstantsAssumption, Inv, TypeOK, PageType
    <3> QED
      BY <2>2, <3>1
  <2> QED
    BY <2>1, <2>2 DEF Look
<1>2. dpc[d] = "look" /\ UNCHANGED <<Documents, Workers, faults>>
  BY DEF Look
<1>3. list' \in [Deliveries -> SUBSET Members]
  BY DEF Look, Inv, TypeOK
<1>4. Forward /\ RootIsHonest'
  BY <1>2, HonestKept DEF Forward, Documents, Inv
<1>5. Root \notin strays /\ l = "seal" => b = "old" \/ (b = "new" /\ record[Root] # None)
  BY <1>1 DEF ConstantsAssumption, Inv, Unstrayed, OneWay
<1> QED
  BY <1>1, <1>2, <1>3, <1>4, <1>5, EarlyKeeps DEF Documents, Inv, TypeOK

LEMMA RelookKeeps ==
    ASSUME ConstantsAssumption, Inv, NEW d \in Deliveries, Relook(d)
    PROVE  Inv'
<1> DEFINE b == IF page[Root].live THEN page[Root].place ELSE None
<1>1. /\ dpc[d] = "relook" /\ UNCHANGED <<Documents, list, Workers, faults>>
      /\ To(d, "first") /\ base' = [base EXCEPT ![d] = b]
  BY DEF Relook
<1>2. b \in Places \cup {None} /\ root # None
  BY <1>1 DEF ConstantsAssumption, Inv, TypeOK, PageType, Grounded
<1>3. Forward /\ RootIsHonest'
  BY <1>1, HonestKept DEF Forward, Documents, Inv
<1>4. Root \notin strays => b = "old" \/ (b = "new" /\ record[Root] # None)
  BY DEF ConstantsAssumption, Inv, Unstrayed, OneWay
<1> HIDE DEF b
<1> QED
  BY <1>1, <1>2, <1>3, <1>4, EarlyKeeps DEF Documents, Inv, TypeOK

LEMMA SealKeeps ==
    ASSUME ConstantsAssumption, Inv, NEW d \in Deliveries, Seal(d)
    PROVE  Inv'
<1>1. /\ dpc[d] = "seal" /\ UNCHANGED <<page, stored, record, moves, strays, base, Workers, faults>>
      /\ To(d, "first") /\ base' = [base EXCEPT ![d] = base[d]] /\ base[d] \in Places \cup {None}
      /\ list' \in [Deliveries -> SUBSET Members]
  BY DEF Seal, Inv, TypeOK
<1>2. /\ root' \in RootType /\ root' # None
      /\ root # None => root' = root
      /\ root = None => root'.result = "open"
  BY DEF Seal, Inv, TypeOK, RootType, ConstantsAssumption
<1>3. Forward
  BY <1>1, <1>2 DEF Forward
<1>4. RootIsHonest'
  BY <1>1, <1>2, HonestKept DEF Inv, RootIsHonest
<1>5. Root \notin strays => base[d] = "old" \/ (base[d] = "new" /\ record[Root] # None)
  BY <1>1 DEF Inv, Grounded
<1> QED
  BY <1>1, <1>2, <1>3, <1>4, <1>5, EarlyKeeps

\* The record of the root page tells a replay where that page was at first.
LEMMA CanonicalKeeps ==
    ASSUME ConstantsAssumption, Inv, NEW d \in Deliveries, Canonical(d)
    PROVE  Inv'
<1> DEFINE from == IF record[Root] # None /\ record[Root].from # None
                     THEN record[Root].from ELSE base[d]
<1>1. /\ dpc[d] = "first" /\ UNCHANGED <<Documents, list, loc, faults>>
      /\ root # None /\ d \in Actors /\ base[d] \in Places \cup {None}
  BY DEF Canonical, Inv, TypeOK, Grounded, Actors
<1>2. Forward /\ RootIsHonest'
  BY <1>1, HonestKept DEF Forward, Documents, Inv
<1>3. CASE from = None
  <2>1. To(d, "done") /\ UNCHANGED <<base, pc>> /\ base' = [base EXCEPT ![d] = base[d]]
    BY <1>3 DEF Canonical, Inv, TypeOK
  <2> QED
    BY <1>1, <1>2, <2>1, EarlyKeeps DEF Documents, Workers, Inv, TypeOK
<1>4. CASE from # None
  <2>1. /\ To(d, "work") /\ base' = [base EXCEPT ![d] = from]
        /\ pc' = [pc EXCEPT ![d] = [m \in Members |-> IF m \in root.members THEN "todo" ELSE "off"]]
    BY <1>4 DEF Canonical
  <2>2. from \in Places \cup {None}
    BY <1>1 DEF ConstantsAssumption, Inv, TypeOK, RecordType
  <2>3. Root \notin strays => from = "old"
    <3> SUFFICES ASSUME Root \notin strays PROVE from = "old"
      OBVIOUS
    <3>1. base[d] = "old" \/ (base[d] = "new" /\ record[Root] # None)
      BY <1>1 DEF Inv, Grounded
    <3>2. record[Root] # None => record[Root].from = "old"
      BY DEF ConstantsAssumption, Inv, OneWay, Unstrayed
    <3>3. "old" # None
      BY DEF ConstantsAssumption, Places
    <3> QED
      BY <3>1, <3>2, <3>3
  <2> HIDE DEF from
  <2>4. TypeOK'
    <3>1. [m \in Members |-> IF m \in root.members THEN "todo" ELSE "off"] \in [Members -> Labels]
      BY DEF Labels
    <3>2. pc' \in [Actors -> [Members -> Labels]]
      BY <2>1, <3>1 DEF Inv, TypeOK
    <3> QED
      BY <1>1, <2>1, <2>2, <3>2 DEF Inv, TypeOK, To, Documents
  <2>5. /\ dpc'[d] = "work" /\ base'[d] = from
        /\ \A m \in Members : pc'[d][m] = IF m \in root.members THEN "todo" ELSE "off"
    BY <1>1, <2>1 DEF Inv, TypeOK, To
  <2>6. ASSUME NEW m \in Members PROVE Local(d, m)'
    BY <1>1, <2>5 DEF Local, Busy, Recorded, Documents
  <2>7. Grounded(d)'
    BY <1>1, <2>3, <2>5 DEF Grounded, Documents
  <2>8. \A c \in Actors \ {d} : pc'[c] = pc[c] /\ loc'[c] = loc[c]
    BY <1>1, <2>1 DEF Inv, TypeOK
  <2>9. \A e \in Deliveries \ {d} : dpc'[e] = dpc[e] /\ base'[e] = base[e]
    BY <2>1 DEF Inv, TypeOK, To
  <2> QED
    BY <1>1, <1>2, <2>4, <2>6, <2>7, <2>8, <2>9, ActorKeeps DEF Documents
<1> QED
  BY <1>3, <1>4

\* A delivery answers when all its members have; the others it has no worker on.
LEMMA AnswerKeeps ==
    ASSUME ConstantsAssumption, Inv, NEW d \in Deliveries, Answer(d)
    PROVE  Inv'
<1>1. /\ dpc[d] = "work" /\ \A m \in root.members : pc[d][m] \in Answers
      /\ SettleRoot /\ To(d, "done") /\ base' = [base EXCEPT ![d] = None]
      /\ UNCHANGED <<page, stored, record, moves, strays, list, Workers, faults>>
      /\ d \in Actors /\ root # None
  BY DEF Answer, Inv, Grounded, Actors
<1>2. root' \in RootType /\ root' # None /\ root'.members = root.members /\ RootIsHonest'
  BY <1>1, RootSettled
<1>3. Forward
  BY <1>1, <1>2 DEF Forward
<1>4. TypeOK'
  BY <1>1, <1>2 DEF Inv, TypeOK, To, Workers
<1>5. dpc'[d] = "done"
  BY <1>1 DEF Inv, TypeOK, To
<1>6. ASSUME NEW m \in Members PROVE Local(d, m)'
  <2>1. Local(d, m) /\ ~Busy(d, m)
    BY <1>1 DEF Inv, Local, Busy
  <2> QED
    BY <1>1, <1>3, <2>1 DEF Local, Busy, Forward, Workers, Unstrayed, Recorded, Answers
<1>7. Grounded(d)'
  BY <1>5 DEF Grounded
<1>8. \A c \in Actors \ {d} : pc'[c] = pc[c] /\ loc'[c] = loc[c]
  BY <1>1 DEF Workers
<1>9. \A e \in Deliveries \ {d} : dpc'[e] = dpc[e] /\ base'[e] = base[e]
  BY <1>1 DEF Inv, TypeOK, To
<1> QED
  BY <1>1, <1>2, <1>3, <1>4, <1>6, <1>7, <1>8, <1>9, ActorKeeps

LEMMA InspectKeeps ==
    ASSUME ConstantsAssumption, Inv, NEW s \in Sweeps, Inspect(s)
    PROVE  Inv'
<1>1. /\ UNCHANGED <<page, stored, record, moves, strays, dpc, base, list, Workers, faults>>
      /\ root # None /\ SettleRoot /\ s \in Actors /\ s \notin Deliveries
  BY DEF Inspect, Actors, ConstantsAssumption
<1>2. root' \in RootType /\ root' # None /\ root'.members = root.members /\ RootIsHonest'
  BY <1>1, RootSettled
<1>3. Forward
  BY <1>1, <1>2 DEF Forward
<1>4. TypeOK'
  BY <1>1, <1>2 DEF Inv, TypeOK, Workers
<1>5. ASSUME NEW m \in Members PROVE Local(s, m)'
  BY <1>1, <1>3, LocalKept DEF Inv, Workers
<1> QED
  BY <1>1, <1>2, <1>3, <1>4, <1>5, ActorKeeps DEF Workers

-----------------------------------------------------------------------------
(* Crashes, and what others do to the pages. *)

LEMMA CrashKeeps ==
    ASSUME ConstantsAssumption, Inv, NEW a \in Actors, Crash(a)
    PROVE  Inv'
<1> DEFINE left == [m \in Members |->
                      IF a \in Sweeps THEN "off" ELSE IF Busy(a, m) THEN "dead" ELSE pc[a][m]]
<1>1. /\ UNCHANGED <<Documents, base, list, loc>> /\ pc' = [pc EXCEPT ![a] = left]
      /\ dpc' = IF a \in Deliveries THEN [dpc EXCEPT ![a] = "done"] ELSE dpc
      /\ faults' \in Nat
  BY DEF Crash, Fault, Inv, TypeOK
<1>2. left \in [Members -> Labels]
  BY DEF Inv, TypeOK, Labels
<1>3. ASSUME NEW m \in Members
      PROVE  /\ left[m] \in Answers \cup {"off", "todo"}
             /\ a \in Deliveries /\ left[m] # "off" => pc[a][m] # "off"
             /\ left[m] = "clash" => pc[a][m] = "clash"
  BY DEF Busy, Answers, ConstantsAssumption, Actors
<1> HIDE DEF left
<1>4. pc'[a] = left /\ \A b \in Actors \ {a} : pc'[b] = pc[b] /\ loc'[b] = loc[b]
  BY <1>1 DEF Inv, TypeOK
<1>5. a \in Deliveries => dpc'[a] = "done"
  BY <1>1 DEF Inv, TypeOK
<1>6. \A d \in Deliveries \ {a} : dpc'[d] = dpc[d] /\ base'[d] = base[d]
  BY <1>1 DEF Inv, TypeOK
<1>7. Forward /\ RootIsHonest'
  BY <1>1, HonestKept DEF Forward, Documents, Inv
<1>8. TypeOK'
  BY <1>1, <1>2 DEF Inv, TypeOK, Documents
<1>9. ASSUME NEW m \in Members PROVE Local(a, m)'
  <2>1. Local(a, m)
    BY DEF Inv
  <2>2. pc'[a][m] = left[m]
    BY <1>4
  <2> QED
    BY <1>1, <1>3, <2>1, <2>2 DEF Local, Busy, Recorded, Answers, Documents, Unstrayed
<1>10. a \in Deliveries => Grounded(a)'
  BY <1>5 DEF Grounded
<1> QED
  BY <1>1, <1>4, <1>6, <1>7, <1>8, <1>9, <1>10, ActorKeeps DEF Documents

\* What strays is no longer promised anything, except that the traces of a move last.
LEMMA StrayKeeps ==
    ASSUME ConstantsAssumption, Inv, Forward, NEW m \in Members, strays' = strays \cup {m},
           UNCHANGED <<root, record, moves, dpc, base, list, Workers>>, faults' \in Nat,
           page' \in [Members -> PageType], stored' \subseteq Members,
           \A n \in Members \ {m} : page'[n] = page[n] /\ (n \in stored' <=> n \in stored),
           Traced(m)'
    PROVE  Inv'
<1>1. TypeOK'
  BY DEF Inv, TypeOK, Workers
<1>2. ASSUME NEW b \in Actors, NEW n \in Members PROVE Local(b, n)'
  BY LocalKept DEF Inv, Workers
<1>3. ASSUME NEW n \in Members PROVE Traced(n)' /\ (Unstrayed(n)' => OneWay(n)')
  <2>1. CASE n = m
    BY <2>1 DEF Unstrayed
  <2>2. CASE n # m
    BY <2>2, MemberKept DEF Inv
  <2> QED
    BY <2>1, <2>2
<1>4. ASSUME NEW d \in Deliveries PROVE Grounded(d)'
  BY GroundKept DEF Inv
<1>5. RootIsHonest'
  BY HonestKept DEF Inv
<1> QED
  BY <1>1, <1>2, <1>3, <1>4, <1>5 DEF Inv

LEMMA MovedElsewhereKeeps ==
    ASSUME ConstantsAssumption, Inv, NEW m \in Members, NEW to \in Places, MovedElsewhere(m, to)
    PROVE  Inv'
<1>1. /\ UNCHANGED <<root, record, moves, dpc, base, list, Workers>> /\ faults' \in Nat
      /\ strays' = strays \cup {m} /\ stored' = IF page[m].staged THEN stored \cup {m} ELSE stored
      /\ page' = [page EXCEPT ![m].place = to, ![m].staged = FALSE]
  BY DEF MovedElsewhere, Fault, Inv, TypeOK
<1>2. page[m] \in PageType
  BY DEF Inv, TypeOK
<1>3. /\ page' \in [Members -> PageType]
      /\ page'[m] = [page[m] EXCEPT !.place = to, !.staged = FALSE]
      /\ \A n \in Members \ {m} : page'[n] = page[n]
  BY <1>1, <1>2 DEF Inv, TypeOK, PageType
<1>4. page'[m].live = page[m].live /\ ~page'[m].staged
  BY <1>2, <1>3 DEF PageType
<1>5. stored' \subseteq Members /\ \A n \in Members \ {m} : n \in stored' <=> n \in stored
  BY <1>1 DEF Inv, TypeOK
<1>6. Forward
  BY <1>1, <1>3, <1>4 DEF Forward
<1>7. Traced(m)'
  BY <1>1, <1>4 DEF Inv, Traced, Succeeded
<1> QED
  BY <1>1, <1>3, <1>5, <1>6, <1>7, StrayKeeps

LEMMA DeletedKeeps ==
    ASSUME ConstantsAssumption, Inv, NEW m \in Members, Deleted(m)
    PROVE  Inv'
<1>1. /\ UNCHANGED <<root, record, moves, dpc, base, list, Workers>> /\ faults' \in Nat
      /\ strays' = strays \cup {m} /\ stored' = stored \ {m}
      /\ page' = [page EXCEPT ![m].live = FALSE]
  BY DEF Deleted, Fault, Inv, TypeOK
<1>2. page[m] \in PageType
  BY DEF Inv, TypeOK
<1>3. /\ page' \in [Members -> PageType] /\ ~page'[m].live /\ page'[m].staged = page[m].staged
      /\ \A n \in Members \ {m} : page'[n] = page[n]
  BY <1>1, <1>2 DEF Inv, TypeOK, PageType
<1>4. stored' \subseteq Members /\ \A n \in Members \ {m} : n \in stored' <=> n \in stored
  BY <1>1 DEF Inv, TypeOK
<1>5. Forward
  BY <1>1, <1>3 DEF Forward
<1>6. Traced(m)'
  BY <1>1, <1>3 DEF Inv, Traced, Succeeded
<1> QED
  BY <1>1, <1>3, <1>4, <1>5, <1>6, StrayKeeps

-----------------------------------------------------------------------------
(* The theorems. *)

LEMMA NextInv == ASSUME ConstantsAssumption, Inv, [Next]_vars PROVE Inv'
<1>1. ASSUME NEW d \in Deliveries,
             Start(d) \/ Look(d) \/ Relook(d) \/ Seal(d) \/ Canonical(d) \/ Answer(d)
      PROVE  Inv'
  BY <1>1, StartKeeps, LookKeeps, RelookKeeps, SealKeeps, CanonicalKeeps, AnswerKeeps
<1>2. ASSUME NEW d \in Deliveries, NEW m \in Members,
             Peek(d, m) \/ ReadRecord(d, m) \/ Claim(d, m) \/ Current(d, m) \/ Throw(d, m)
      PROVE  Inv'
  BY <1>2, PeekKeeps, ReadRecordKeeps, ClaimKeeps, CurrentKeeps, ThrowKeeps
<1>3. ASSUME NEW s \in Sweeps, Inspect(s) PROVE Inv'
  BY <1>3, InspectKeeps
<1>4. ASSUME NEW s \in Sweeps, NEW m \in Members,
             Visit(s, m) \/ Verdict(s, m) \/ Fail(s, m) \/ Hook(s, m)
      PROVE  Inv'
  BY <1>4, VisitKeeps, VerdictKeeps, SettlesKeep, HookKeeps DEF Actors
<1>5. ASSUME NEW a \in Actors, Crash(a) PROVE Inv'
  BY <1>5, CrashKeeps
<1>6. ASSUME NEW a \in Actors, NEW m \in Members,
             \/ Enter(a, m) \/ Classify(a, m) \/ Exit(a, m) \/ Store(a, m)
             \/ Judge(a, m) \/ Row(a, m) \/ Complete(a, m) \/ Moot(a, m)
      PROVE  Inv'
  BY <1>6, EnterKeeps, ClassifyKeeps, ExitKeeps, StoreKeeps, JudgeKeeps, RowKeeps, SettlesKeep
<1>7. ASSUME NEW m \in Members, Deleted(m) \/ \E to \in Places : MovedElsewhere(m, to)
      PROVE  Inv'
  BY <1>7, DeletedKeeps, MovedElsewhereKeeps
<1>8. CASE UNCHANGED vars
  <2>1. Forward /\ TypeOK' /\ RootIsHonest'
    BY <1>8 DEF vars, Inv, TypeOK, RootIsHonest, AllFinished, Forward
  <2>2. ASSUME NEW a \in Actors, NEW m \in Members PROVE Local(a, m)'
    BY <1>8, <2>1, LocalKept DEF vars, Inv
  <2>3. ASSUME NEW m \in Members PROVE Traced(m)' /\ (Unstrayed(m)' => OneWay(m)')
    BY <1>8, <2>1, MemberKept DEF vars, Inv
  <2>4. ASSUME NEW d \in Deliveries PROVE Grounded(d)'
    BY <1>8, <2>1, GroundKept DEF vars, Inv
  <2> QED
    BY <2>1, <2>2, <2>3, <2>4 DEF Inv
<1> QED
  BY <1>1, <1>2, <1>3, <1>4, <1>5, <1>6, <1>7, <1>8 DEF Next

\* A delivery that reads the events of a moved page finds the one of its move.
LEMMA InvHonest == ASSUME ConstantsAssumption, Inv, [Next]_vars PROVE HonestStep
<1> SUFFICES ASSUME NEW d \in Deliveries, NEW m \in Members, pc[d][m] = "row", pc'[d][m] = "no",
                    loc[d][m].moved, page[m].live
             PROVE  FALSE
  BY DEF HonestStep
<1>1. d \in Actors /\ d \notin Sweeps /\ m \in stored
  BY DEF Actors, ConstantsAssumption, Inv, Local
<1>2. ASSUME NEW a \in Actors, NEW n \in Members, NEW l, NEW x, Move(a, n, l, x) PROVE a = d /\ n = m /\ l = "no"
  <2>1. CASE a # d
    BY <1>1, <1>2, <2>1 DEF Move, Inv, TypeOK
  <2>2. CASE a = d /\ n # m
    BY <1>1, <1>2, <2>2 DEF Move, Inv, TypeOK
  <2>3. CASE a = d /\ n = m
    BY <1>1, <1>2, <2>3 DEF Move, Inv, TypeOK
  <2> QED
    BY <2>1, <2>2, <2>3
<1>3. ASSUME NEW e \in Deliveries, NEW n \in Members,
             Peek(e, n) \/ ReadRecord(e, n) \/ Claim(e, n) \/ Current(e, n) \/ Throw(e, n)
      PROVE  FALSE
  <2>1. e \in Actors
    BY DEF Actors
  <2>2. PICK l, x : Move(e, n, l, x) /\ (pc[e][n] = "row" => l = "current")
    BY <1>3 DEF Peek, ReadRecord, Claim, Current, Throw, Goto
  <2> QED
    BY <1>2, <2>1, <2>2
<1>4. ASSUME NEW s \in Sweeps, NEW n \in Members,
             Visit(s, n) \/ Verdict(s, n) \/ Fail(s, n) \/ Hook(s, n)
      PROVE  FALSE
  <2>1. s \in Actors
    BY DEF Actors
  <2>2. PICK l, x : Move(s, n, l, x)
    BY <1>4 DEF Visit, Verdict, Fail, Settle, Hook, Goto
  <2> QED
    BY <1>1, <1>2, <2>1, <2>2
<1>5. ASSUME NEW a \in Actors, NEW n \in Members,
             \/ Enter(a, n) \/ Classify(a, n) \/ Exit(a, n) \/ Store(a, n)
             \/ Judge(a, n) \/ Complete(a, n) \/ Moot(a, n)
      PROVE  FALSE
  <2>1. PICK l, x : Move(a, n, l, x) /\ pc[a][n] # "row"
    BY <1>5 DEF Enter, Classify, Exit, Store, Judge, Complete, Moot, Settle, Goto
  <2> QED
    BY <1>2, <2>1
<1>6. ASSUME NEW a \in Actors, NEW n \in Members, Row(a, n) PROVE FALSE
  <2>1. PICK l : Move(a, n, l, NoLoc) /\ (n \in stored => l = "complete")
    BY <1>6 DEF Row, Goto
  <2> QED
    BY <1>1, <1>2, <2>1
<1>7. ASSUME NEW a \in Actors, NEW f, pc' = [pc EXCEPT ![a] = f], f[m] # "no" PROVE FALSE
  BY <1>1, <1>7 DEF Inv, TypeOK
<1>8. ASSUME NEW a \in Actors, Crash(a) PROVE FALSE
  <2> DEFINE left == [n \in Members |->
                        IF a \in Sweeps THEN "off" ELSE IF Busy(a, n) THEN "dead" ELSE pc[a][n]]
  <2>1. pc' = [pc EXCEPT ![a] = left]
    BY <1>8 DEF Crash
  <2>2. a = d => left[m] # "no"
    BY <1>1 DEF Busy, Answers
  <2> QED
    BY <1>1, <2>1, <2>2 DEF Inv, TypeOK
<1>9. ASSUME NEW e \in Deliveries, Canonical(e) PROVE FALSE
  <2>1. e \in Actors
    BY DEF Actors
  <2> DEFINE f == [n \in Members |-> IF n \in root.members THEN "todo" ELSE "off"]
  <2>2. CASE UNCHANGED pc
    BY <2>2
  <2>3. CASE pc' = [pc EXCEPT ![e] = f]
    BY <1>7, <2>1, <2>3
  <2> QED
    BY <1>9, <2>2, <2>3 DEF Canonical
<1>10. UNCHANGED pc => FALSE
  OBVIOUS
<1> QED
  BY <1>3, <1>4, <1>5, <1>6, <1>8, <1>9, <1>10
  DEF Next, vars, Start, Look, Relook, Seal, Answer, Inspect, Workers, Deleted, MovedElsewhere

\* What the runs check of the moves follows from the invariant.
LEMMA InvMoves == ASSUME Inv PROVE DeliveriesAgree /\ MembersMoveOnce
<1>1. ASSUME NEW d \in Deliveries, NEW m \in Members, pc[d][m] = "clash"
      PROVE  strays \cap {m, Root} # {}
  BY <1>1 DEF Inv, Local, Unstrayed, Actors
<1>2. ASSUME NEW m \in Members, strays \cap {m, Root} = {} PROVE moves[m] <= 1
  BY <1>2 DEF Inv, OneWay, Unstrayed
<1>3. ASSUME NEW m \in Members, Succeeded(m) PROVE moves[m] > 0
  BY <1>3 DEF Inv, Traced
<1> QED
  BY <1>1, <1>2, <1>3 DEF DeliveriesAgree, MembersMoveOnce

\* The invariant the other theorems rest on: what each worker counts on, the traces a move
\* leaves, and the one way an undisturbed member takes.
THEOREM Invariance == ASSUME ConstantsAssumption PROVE Spec => []Inv
<1>1. Init => Inv
  BY InitInv
<1>2. Inv /\ [Next]_vars => Inv'
  BY NextInv
<1> QED
  BY <1>1, <1>2, PTL DEF Spec

\* The request's record says that it succeeded only when every sealed member's record says
\* how that member ended (subtree-rename.ts:367-376).
THEOREM RootsAreHonest == ASSUME ConstantsAssumption PROVE Spec => []RootIsHonest
<1>1. Inv => RootIsHonest
  BY DEF Inv
<1> QED
  BY Invariance, <1>1, PTL

\* Deliveries of one key never take each other for another request, whatever either has
\* seen of the other's work, unless others moved the member or the root page.
THEOREM RepliesAgree == ASSUME ConstantsAssumption PROVE Spec => []DeliveriesAgree
<1>1. Inv => DeliveriesAgree
  BY InvMoves
<1> QED
  BY Invariance, <1>1, PTL

\* A member is moved once, by whichever deliveries and sweeps, and is reported as moved
\* only if it was (subtree-rename.test.ts:468).
THEOREM MovesHappenOnce == ASSUME ConstantsAssumption PROVE Spec => []MembersMoveOnce
<1>1. Inv => MembersMoveOnce
  BY InvMoves
<1> QED
  BY Invariance, <1>1, PTL

\* No delivery takes a member for unmoved once its move was there to be read
\* (subtree-rename.ts:105-109).
THEOREM FailuresAreHonest == ASSUME ConstantsAssumption PROVE Spec => FailureIsHonest
<1>1. Inv /\ [Next]_vars => [HonestStep]_vars
  BY InvHonest
<1> QED
  BY Invariance, <1>1, PTL DEF Spec, FailureIsHonest

=============================================================================
