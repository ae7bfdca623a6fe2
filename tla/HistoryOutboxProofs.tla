------------------------- MODULE HistoryOutboxProofs -------------------------
(***************************************************************************)
(* Proofs about HistoryOutbox for any number of Revisions, commands,       *)
(* repair runs, deletions, crashes and retries, and about HistoryRead for  *)
(* a walk of any number of requests beside them.                           *)
(*                                                                         *)
(* None of the properties is inductive: a process may be about to write    *)
(* what it read long ago.  Guarantee(p) says, for each process, what its   *)
(* locals still mean when it resumes.  The proof is of the rely-guarantee  *)
(* kind: the shared documents change in only a few ways (a claim, a row    *)
(* stored, a slot drained, a tracking state restored, a deletion), and     *)
(* each of them leaves the meaning of every other process's locals alone.  *)
(* A walk is one more reader: WalkInv says what the entries it holds still *)
(* mean, WalkOwes what it has yet to show.                                 *)
(***************************************************************************)
EXTENDS HistoryRead, FiniteSetTheorems, TLAPS

Materializing(p) == pc[p] \in {"m_read", "m_write", "m_drain"}

\* The process holds a copy of an entry it has read from the slot.
Holding(p) == pc[p] \in {"m_write", "m_drain"}

\* The process is at l, or will be when its materialization returns.
At(p, l) == pc[p] = l \/ (Materializing(p) /\ loc[p].ret = l)

\* The optional locals are there where a step relies on them.
LocalsTypedAt(p, l, x) ==
    /\ l \in {"m_write", "m_drain"} => x.entry \in Entry
    /\ p \in Cmds /\ l = "change" => x.from \in Values
    /\ l \in {"s_check", "s_cas"} => x.cur \in Revs

LocalsTyped(p) == LocalsTypedAt(p, pc[p], loc[p])

Typed == TypeOK /\ \A p \in Procs : LocalsTyped(p)

-----------------------------------------------------------------------------
\* What the shared documents satisfy.
SlotInv ==
    page.slot # None =>
      /\ page.live
      /\ page.slot.seq # 0
      /\ row[page.slot.item] \in {0, page.slot.seq}
      /\ \A i \in Items : row[i] = page.slot.seq => i = page.slot.item

RowsDistinct == page.live => \A i, j \in Items : row[i] = row[j] /\ row[i] # 0 => i = j

CounterCovers ==
    Ready => /\ \A i \in Items : row[i] <= page.seq
             /\ page.slot # None => page.slot.seq <= page.seq

Shared == SlotInv /\ RowsDistinct /\ CounterCovers

-----------------------------------------------------------------------------
\* A held entry is still in the slot or has been stored; at the drain it has.
HolderOK(p) ==
    /\ Holding(p) => /\ loc[p].entry.seq # 0
                     /\ \/ page.slot = loc[p].entry
                        \/ row[loc[p].entry.item] = loc[p].entry.seq
    /\ pc[p] = "m_drain" => row[loc[p].entry.item] = loc[p].entry.seq

\* The counter the process read: if it has not moved, nobody claimed since.
CounterRead(p) ==
    /\ page.tracking = "ready"
    /\ loc[p].n <= page.seq
    /\ page.seq = loc[p].n => page.slot = None

RevisionOK(r) ==
    /\ Materializing(r) => loc[r].ret \in {"done", "check1"}
    /\ pc[r] = "history" => loc[r].mode = "promote"
    /\ pc[r] \in {"history", "check2", "claim"} /\ loc[r].mode = "promote" =>
         /\ loc[r].n = 0
         /\ page.tracking = "untracked" => page.slot = None
    /\ pc[r] \in {"check2", "claim"} /\ loc[r].mode = "promote" /\ page.tracking = "untracked"
         => \A i \in Items : row[i] = 0
    /\ pc[r] \in {"check2", "claim"} /\ loc[r].mode # "promote" => CounterRead(r)
    /\ pc[r] = "claim" /\ loc[r].mode # "promote" /\ page.seq = loc[r].n => row[r] = 0
    /\ pc[r] = "heal_drain" => row[r] \notin {0, loc[r].n + 1}

CommandOK(c) ==
    /\ Materializing(c) => loc[c].ret \in {"done", "plan"}
    /\ At(c, "plan") \/ pc[c] = "change" =>
         row[c] = 0 /\ (page.slot # None => page.slot.item # c)
    /\ pc[c] = "change" =>
         /\ loc[c].mode = "event" => CounterRead(c) /\ loc[c].from # Requested(c)
         /\ loc[c].mode = "ready" => loc[c].from = Requested(c)

ScanOK(s) ==
    /\ Materializing(s) => loc[s].ret \in {"idle", "s_claim", "d_read"}
    /\ pc[s] \in {"rows", "counter"} \/ At(s, "s_claim") => page.tracking = "ready"
    /\ pc[s] = "counter" => loc[s].top <= page.seq
    /\ pc[s] \in {"s_check", "s_cas"} => CounterRead(s)
    /\ pc[s] = "s_cas" /\ page.seq = loc[s].n => row[loc[s].cur] = 0
    /\ At(s, "d_read") \/ pc[s] \in {"d_rows", "d_cas"} => HasSequencedHistory
    /\ pc[s] \in {"d_rows", "d_cas"} /\ page.tracking = "untracked" => page.slot = None
    /\ pc[s] = "d_cas" /\ page.tracking = "untracked" => \A i \in Items : row[i] <= loc[s].top

Guarantee(p) ==
    page.live => /\ HolderOK(p)
                 /\ p \in Revs => RevisionOK(p)
                 /\ p \in Cmds => CommandOK(p)
                 /\ p \in Scans => ScanOK(p)
                 /\ p \in Deleters => pc[p] \in {"idle", "done"}

Inv == Typed /\ Shared /\ \A p \in Procs : Guarantee(p)

-----------------------------------------------------------------------------
\* How the sets of processes lie in one another.
LEMMA Sets ==
    /\ Revs \subseteq Items /\ Cmds \subseteq Items /\ Items \subseteq Procs
    /\ Scans \subseteq Procs /\ Deleters \subseteq Procs
    /\ Revs \cap Cmds = {} /\ Revs \cap Scans = {} /\ Cmds \cap Scans = {}
    /\ Revs \cap Deleters = {} /\ Cmds \cap Deleters = {} /\ Scans \cap Deleters = {}
    /\ \A p \in Procs : p \in Revs \/ p \in Cmds \/ p \in Scans \/ p \in Deleters
BY ConstantsAssumption DEF Items, Procs

\* A process that has no locals is typed.
LEMMA NoLocTyped == NoLoc \in LocType
BY DEF NoLoc, LocType, Returns, Modes

-----------------------------------------------------------------------------
(* Type correctness.  Every step of a process p is a Move of p alone. *)

\* p moves, and what it takes along has the right types.
TypedMove(p) ==
    \E l \in Labels, x \in LocType : Move(p, l, x) /\ LocalsTypedAt(p, l, x)

\* A move sets the two entries of its process and no others.
LEMMA MoveTyped ==
    ASSUME pc \in [Procs -> Labels], loc \in [Procs -> LocType],
           NEW p \in Procs, NEW l \in Labels, NEW x \in LocType, Move(p, l, x)
    PROVE  /\ pc' \in [Procs -> Labels] /\ loc' \in [Procs -> LocType]
           /\ pc'[p] = l /\ loc'[p] = x
           /\ \A q \in Procs : q # p => pc'[q] = pc[q] /\ loc'[q] = loc[q]
BY DEF Move

\* The updates of locals the actions make.
LEMMA CountersTyped ==
    ASSUME NEW x \in LocType
    PROVE  x.claims + 1 \in Nat /\ x.assists + 1 \in Nat /\ x.n + 1 \in Nat
BY DEF LocType

\* The modes an allocator enters keep its locals typed.
LEMMA ModeUpdate ==
    ASSUME NEW x \in LocType, NEW m \in Modes, NEW n \in Nat
    PROVE  [x EXCEPT !.mode = m, !.n = n] \in LocType
BY DEF LocType

\* Remembering a positive answer keeps the locals typed.
LEMMA SawUpdate == ASSUME NEW x \in LocType PROVE [x EXCEPT !.saw = TRUE] \in LocType
BY DEF LocType

\* Counting a drain assist keeps the locals typed.
LEMMA AssistUpdate ==
    ASSUME NEW x \in LocType
    PROVE  [x EXCEPT !.assists = @ + 1] \in LocType /\ [x EXCEPT !.claims = @ + 1] \in LocType
<1>1. x.claims + 1 \in Nat /\ x.assists + 1 \in Nat
  BY CountersTyped
<1> QED BY <1>1 DEF LocType

\* Counting a claim attempt keeps the locals typed.
LEMMA AttemptUpdate ==
    ASSUME NEW x \in LocType, NEW n \in Nat
    PROVE  [x EXCEPT !.claims = @ + 1, !.at = n] \in LocType
<1>1. x.claims + 1 \in Nat
  BY CountersTyped
<1> QED BY <1>1 DEF LocType

\* Picking the next Revision of a scan keeps the locals typed.
LEMMA CandidateUpdate ==
    ASSUME NEW x \in LocType, NEW n \in Nat, NEW r \in Revs
    PROVE  /\ [x EXCEPT !.n = n, !.cur = r, !.claims = @ + 1] \in LocType
           /\ [x EXCEPT !.n = n, !.cur = r, !.claims = @ + 1].cur = r
<1>1. x.claims + 1 \in Nat
  BY CountersTyped
<1> QED BY <1>1 DEF LocType

\* What typing says of one process.
LEMMA TypedNow ==
    ASSUME Typed, NEW p \in Procs
    PROVE  /\ loc[p] \in LocType /\ pc[p] \in Labels /\ LocalsTyped(p)
           /\ page \in PageType /\ page.seq \in Nat /\ page.started \in Nat
BY DEF Typed, TypeOK, PageType

\* A typed move beside typed documents keeps everything typed.
LEMMA TypedMoveSuffices ==
    ASSUME Typed, NEW p \in Procs, TypedMove(p),
           page' \in PageType, born' \in [Revs -> Nat], row' \in [Items -> Nat],
           detail' \in [Cmds -> Payload \cup {None}], clock' \in Nat, old' \in Nat,
           faults' \in Nat
    PROVE  Typed'
<1>1. PICK l \in Labels, x \in LocType : Move(p, l, x) /\ LocalsTypedAt(p, l, x)
  BY DEF TypedMove
<1>2. /\ pc' \in [Procs -> Labels] /\ loc' \in [Procs -> LocType]
      /\ pc'[p] = l /\ loc'[p] = x
      /\ \A q \in Procs : q # p => pc'[q] = pc[q] /\ loc'[q] = loc[q]
  BY <1>1, MoveTyped DEF Typed, TypeOK
<1>3. TypeOK'
  BY <1>2 DEF TypeOK
<1>4. ASSUME NEW q \in Procs PROVE LocalsTyped(q)'
  BY <1>1, <1>2 DEF Typed, LocalsTyped, LocalsTypedAt
<1> QED BY <1>3, <1>4 DEF Typed

\* Labels whose steps rely on no optional local.
Plain == Labels \ {"m_write", "m_drain", "change", "s_check", "s_cas"}

\* A process may always end.
LEMMA FinishTyped ==
    ASSUME NEW p \in Procs, Finish(p) PROVE TypedMove(p)
BY NoLocTyped DEF Finish, TypedMove, LocalsTypedAt, Rest, Labels

\* A process may always go on to a label that needs no optional local.
LEMMA GotoTyped ==
    ASSUME Typed, NEW p \in Procs, NEW l \in Plain, Goto(p, l) PROVE TypedMove(p)
BY DEF Goto, TypedMove, LocalsTypedAt, Plain, Typed, TypeOK

\* The same, with new locals.
LEMMA PlainMoveTyped ==
    ASSUME NEW p \in Procs, NEW l \in Plain, NEW x \in LocType, Move(p, l, x)
    PROVE  TypedMove(p)
BY DEF TypedMove, LocalsTypedAt, Plain

\* Starting a materialization (materialize.ts:264) is a typed move.
LEMMA MaterializeTyped ==
    ASSUME NEW p \in Procs, NEW l \in Returns, NEW o \in BOOLEAN, NEW x \in LocType,
           Materialize(p, l, o, x)
    PROVE  TypedMove(p)
<1>1. [x EXCEPT !.ret = l, !.own = o] \in LocType
  BY DEF LocType
<1> QED BY <1>1, PlainMoveTyped DEF Materialize, Plain, Labels

\* Going round a retry loop is a typed move.
LEMMA AgainTyped ==
    ASSUME Typed, NEW p \in Procs, NEW l \in Returns, Again(p, l) PROVE TypedMove(p)
<1>1. [NoLoc EXCEPT !.claims = loc[p].claims, !.assists = loc[p].assists,
                    !.saw = loc[p].saw, !.todo = loc[p].todo] \in LocType
  BY NoLocTyped DEF Typed, TypeOK, LocType
<1> QED BY <1>1, PlainMoveTyped DEF Again, Plain, Labels, Returns

\* Returning from a materialization is a typed move.
LEMMA ResumeTyped ==
    ASSUME Typed, NEW p \in Procs, Resume(p) PROVE TypedMove(p)
<1>1. loc[p].ret \in Returns
  BY DEF Typed, TypeOK, LocType
<1> QED BY <1>1, AgainTyped, FinishTyped DEF Resume

\* Catching a throw of a materialization is a typed move.
LEMMA ThrowTyped ==
    ASSUME Typed, NEW p \in Procs, Throw(p) PROVE TypedMove(p)
BY ResumeTyped, FinishTyped, GotoTyped DEF Throw, Plain, Labels

\* Going on to the next Revision of a scan is a typed move.
LEMMA SkipToTyped ==
    ASSUME Typed, NEW p \in Procs, NEW R \in SUBSET Revs, SkipTo(p, R) PROVE TypedMove(p)
<1>1. [loc[p] EXCEPT !.todo = R, !.claims = 0] \in LocType
  BY DEF Typed, TypeOK, LocType
<1> QED BY <1>1, FinishTyped, PlainMoveTyped DEF SkipTo, Plain, Labels

\* Every initial state is typed.
LEMMA InitTyped == Init => Typed
<1> SUFFICES ASSUME Init PROVE Typed
    OBVIOUS
<1>1. page \in PageType
  BY ConstantsAssumption DEF Init, PageType, Entry
<1>2. /\ row \in [Items -> Nat] /\ born \in [Revs -> Nat]
      /\ detail \in [Cmds -> Payload \cup {None}]
      /\ clock \in Nat /\ old \in Nat /\ faults \in Nat
  BY DEF Init
<1>3. pc \in [Procs -> Labels] /\ loc \in [Procs -> LocType]
  BY NoLocTyped DEF Init, Start, Labels
<1>4. ASSUME NEW p \in Procs PROVE LocalsTyped(p)
  BY DEF Init, LocalsTyped, LocalsTypedAt, Start
<1> QED BY <1>1, <1>2, <1>3, <1>4 DEF Typed, TypeOK

\* The steps that change no document.
Frame == UNCHANGED <<page, born, row, detail, clock, old, faults>>

\* A step that changes no document keeps the state typed if its move is.
LEMMA FrameTyped ==
    ASSUME Typed, NEW p \in Procs, TypedMove(p), Frame PROVE Typed'
BY TypedMoveSuffices DEF Frame, Typed, TypeOK

\* MRead keeps the state typed.
LEMMA MReadTyped ==
    ASSUME Typed, NEW p \in Procs, MRead(p) PROVE Typed'
<1>1. CASE page.slot = None
  BY <1>1, ResumeTyped, FrameTyped DEF MRead, Frame
<1>2. CASE page.slot # None
  <2>1. page.slot \in Entry /\ [loc[p] EXCEPT !.entry = page.slot] \in LocType
    BY <1>2 DEF Typed, TypeOK, PageType, LocType
  <2>2. TypedMove(p)
    BY <1>2, <2>1 DEF MRead, TypedMove, LocalsTypedAt, Labels, LocType
  <2> QED BY <2>2, FrameTyped DEF MRead, Frame
<1> QED BY <1>1, <1>2

\* A held entry, seen as a record.
LEMMA EntryFields ==
    ASSUME NEW e \in Entry
    PROVE  /\ e.item \in Items /\ e.seq \in Nat
           /\ e.type = "page_event" => e.item \in Cmds /\ e.payload \in Payload
           /\ e.type # "page_event" => e.item \in Revs
BY Sets DEF Entry

\* MWrite keeps the state typed.
LEMMA MWriteTyped ==
    ASSUME Typed, NEW p \in Procs, MWrite(p) PROVE Typed'
<1> DEFINE e == loc[p].entry
<1>1. e \in Entry
  BY DEF Typed, LocalsTyped, LocalsTypedAt, MWrite
<1>2. CASE e.type = "page_event"
  <2>1. StoreEvent(p, e)
    BY <1>2 DEF MWrite
  <2>2. row' \in [Items -> Nat] /\ detail' \in [Cmds -> Payload \cup {None}]
    BY <2>1, <1>1, <1>2, EntryFields DEF StoreEvent, Typed, TypeOK
  <2>3. Goto(p, "m_drain")
    BY <2>1 DEF StoreEvent
  <2>4. TypedMove(p)
    BY <1>1, <2>3 DEF Goto, TypedMove, LocalsTypedAt, Typed, TypeOK, Labels
  <2> QED BY <2>2, <2>4, TypedMoveSuffices DEF MWrite, Typed, TypeOK
<1>3. CASE e.type # "page_event"
  <2>1. StampRevision(p, e)
    BY <1>3 DEF MWrite
  <2>2. row' \in [Items -> Nat] /\ detail' \in [Cmds -> Payload \cup {None}]
    BY <2>1, <1>1, <1>3, EntryFields DEF StampRevision, Typed, TypeOK
  <2>3. Goto(p, "m_drain") \/ Throw(p)
    BY <2>1 DEF StampRevision
  <2>4. TypedMove(p)
    BY <1>1, <2>3, ThrowTyped DEF Goto, TypedMove, LocalsTypedAt, Typed, TypeOK, Labels
  <2> QED BY <2>2, <2>4, TypedMoveSuffices DEF MWrite, Typed, TypeOK
<1> QED BY <1>2, <1>3

\* Draining leaves a typed page.
LEMMA DrainedTyped ==
    ASSUME page \in PageType, NEW e PROVE Drained(e) \in PageType
BY DEF Drained, PageType

\* MDrain keeps the state typed.
LEMMA MDrainTyped ==
    ASSUME Typed, NEW p \in Procs, MDrain(p) PROVE Typed'
<1>1. TypedMove(p)
  BY ResumeTyped DEF MDrain
<1>2. page' \in PageType
  BY DrainedTyped DEF MDrain, Typed, TypeOK
<1> QED BY <1>1, <1>2, TypedMoveSuffices DEF MDrain, Typed, TypeOK

\* PrepareRevision keeps the state typed.
LEMMA PrepareRevisionTyped ==
    ASSUME Typed, NEW r \in Revs, PrepareRevision(r) PROVE Typed'
<1>1. [loc[r] EXCEPT !.at = clock + 1] \in LocType /\ clock + 1 \in Nat
  <2>1. loc[r] \in LocType /\ clock + 1 \in Nat
    BY Sets, TypedNow DEF Typed, TypeOK
  <2> QED BY <2>1 DEF LocType
<1>2. TypedMove(r)
  BY <1>1, PlainMoveTyped, Sets DEF PrepareRevision, Plain, Labels
<1> QED BY <1>1, <1>2, Sets, TypedMoveSuffices DEF PrepareRevision, Typed, TypeOK

\* SaveRevision keeps the state typed.
LEMMA SaveRevisionTyped ==
    ASSUME Typed, NEW r \in Revs, SaveRevision(r) PROVE Typed'
<1>1. TypedMove(r)
  BY NoLocTyped, PlainMoveTyped, Sets DEF SaveRevision, Plain, Labels
<1>2. born' \in [Revs -> Nat]
  <2>1. loc[r].at \in Nat
    BY Sets, TypedNow DEF LocType
  <2> QED BY <2>1 DEF SaveRevision, Typed, TypeOK
<1> QED BY <1>1, <1>2, Sets, TypedMoveSuffices DEF SaveRevision, Typed, TypeOK

\* MovePointer keeps the state typed.
LEMMA MovePointerTyped ==
    ASSUME Typed, NEW r \in Revs, MovePointer(r) PROVE Typed'
<1>1. TypedMove(r)
  BY GotoTyped, FinishTyped, Sets DEF MovePointer, Plain, Labels
<1>2. page' \in PageType
  BY DEF MovePointer, Typed, TypeOK, PageType
<1> QED BY <1>1, <1>2, Sets, TypedMoveSuffices DEF MovePointer, Typed, TypeOK

\* AllocCheckFirst keeps the state typed.
LEMMA AllocCheckFirstTyped ==
    ASSUME Typed, NEW r \in Revs, AllocCheckFirst(r) PROVE Typed'
<1>1. TypedMove(r)
  BY GotoTyped, FinishTyped, Sets DEF AllocCheckFirst, Plain, Labels
<1> QED BY <1>1, Sets, FrameTyped DEF AllocCheckFirst, Frame

\* AllocRead keeps the state typed.
LEMMA AllocReadTyped ==
    ASSUME Typed, NEW r \in Revs, AllocRead(r) PROVE Typed'
<1>1. /\ [loc[r] EXCEPT !.mode = "promote", !.n = 0] \in LocType
      /\ [loc[r] EXCEPT !.mode = "next", !.n = page.seq] \in LocType
      /\ [loc[r] EXCEPT !.assists = @ + 1] \in LocType
  <2>1. loc[r] \in LocType /\ page.seq \in Nat
    BY Sets, TypedNow
  <2>2. 0 \in Nat /\ "promote" \in Modes /\ "next" \in Modes
    BY DEF Modes
  <2> QED BY <2>1, <2>2, ModeUpdate, AssistUpdate
<1>2. \/ Move(r, "history", [loc[r] EXCEPT !.mode = "promote", !.n = 0])
      \/ Finish(r)
      \/ Materialize(r, "check1", FALSE, [loc[r] EXCEPT !.assists = @ + 1])
      \/ Move(r, "check2", [loc[r] EXCEPT !.mode = "next", !.n = page.seq])
  BY DEF AllocRead
<1>3. TypedMove(r)
  BY <1>1, <1>2, Sets, FinishTyped, MaterializeTyped, PlainMoveTyped
     DEF Plain, Labels, Returns
<1> QED BY <1>3, Sets, FrameTyped DEF AllocRead, Frame

\* AllocHistory keeps the state typed.
LEMMA AllocHistoryTyped ==
    ASSUME Typed, NEW r \in Revs, AllocHistory(r) PROVE Typed'
<1>1. [loc[r] EXCEPT !.saw = TRUE] \in LocType
  <2>1. loc[r] \in LocType
    BY Sets, TypedNow
  <2> QED BY <2>1, SawUpdate
<1>2. TypedMove(r)
  BY <1>1, GotoTyped, FinishTyped, PlainMoveTyped, Sets DEF AllocHistory, Plain, Labels
<1> QED BY <1>2, Sets, FrameTyped DEF AllocHistory, Frame

\* AllocCheckSecond keeps the state typed.
LEMMA AllocCheckSecondTyped ==
    ASSUME Typed, NEW r \in Revs, AllocCheckSecond(r) PROVE Typed'
<1>1. [loc[r] EXCEPT !.claims = @ + 1, !.at = clock] \in LocType
  <2>1. loc[r] \in LocType /\ clock \in Nat
    BY Sets, TypedNow DEF Typed, TypeOK
  <2> QED BY <2>1, AttemptUpdate
<1>2. TypedMove(r)
  BY <1>1, FinishTyped, PlainMoveTyped, Sets DEF AllocCheckSecond, Plain, Labels
<1> QED BY <1>2, Sets, FrameTyped DEF AllocCheckSecond, Frame

\* The entries of the allocator and of the scan are outbox entries.
LEMMA ContentEntryTyped ==
    ASSUME NEW r \in Revs, NEW n \in Nat
    PROVE  ContentEntry(r, n) \in Entry /\ MigrationEntry(r, n) \in Entry
BY DEF ContentEntry, MigrationEntry, Entry

\* AllocClaim keeps the state typed.
LEMMA AllocClaimTyped ==
    ASSUME Typed, NEW r \in Revs, AllocClaim(r) PROVE Typed'
<1>1. page \in PageType /\ loc[r] \in LocType /\ r \in Procs
  BY Sets DEF Typed, TypeOK
<1>2. Materialize(r, "done", TRUE, loc[r]) \/ Again(r, "check1")
  BY DEF AllocClaim
<1>3. TypedMove(r)
  BY <1>1, <1>2, MaterializeTyped, AgainTyped DEF Returns
<1>4. page' \in PageType
  <2>1. loc[r].n + 1 \in Nat /\ loc[r].at + 1 \in Nat
    BY <1>1 DEF LocType
  <2>2. ContentEntry(r, loc[r].n + 1) \in Entry
    BY <2>1, ContentEntryTyped
  <2> QED BY <1>1, <2>1, <2>2 DEF AllocClaim, PageType
<1> QED BY <1>1, <1>3, <1>4, TypedMoveSuffices DEF AllocClaim, Typed, TypeOK

\* AllocHeal keeps the state typed.
LEMMA AllocHealTyped ==
    ASSUME Typed, NEW r \in Revs, AllocHeal(r) PROVE Typed'
<1>1. TypedMove(r)
  BY GotoTyped, FinishTyped, Sets DEF AllocHeal, Plain, Labels
<1> QED BY <1>1, Sets, FrameTyped DEF AllocHeal, Frame

\* HealDrain keeps the state typed.
LEMMA HealDrainTyped ==
    ASSUME Typed, NEW r \in Revs, HealDrain(r) PROVE Typed'
<1>1. TypedMove(r)
  BY FinishTyped, Sets DEF HealDrain
<1>2. page' \in PageType
  BY DrainedTyped DEF HealDrain, Typed, TypeOK
<1> QED BY <1>1, <1>2, Sets, TypedMoveSuffices DEF HealDrain, Typed, TypeOK

\* CmdRead keeps the state typed.
LEMMA CmdReadTyped ==
    ASSUME Typed, NEW c \in Cmds, CmdRead(c) PROVE Typed'
<1> DEFINE m == IF Ready /\ PlanHasEvent(c) THEN "event" ELSE page.tracking
           x == [loc[c] EXCEPT !.claims = @ + 1, !.n = page.seq, !.from = Observed(c),
                               !.mode = m]
<1>1. /\ c \in Procs /\ loc[c] \in LocType /\ page \in PageType
      /\ page.seq \in Nat
  BY Sets, TypedNow
<1>2. Observed(c) \in Values /\ m \in Modes
  BY <1>1 DEF Observed, Values, PageType, Modes
<1>3. x \in LocType /\ x.from \in Values
  <2> DEFINE y == loc[c]
             v == Observed(c)
             k == page.seq
  <2>1. y \in LocType /\ v \in Values /\ k \in Nat /\ m \in Modes
    BY <1>1, <1>2
  <2>2. x = [y EXCEPT !.claims = @ + 1, !.n = k, !.from = v, !.mode = m]
    OBVIOUS
  <2> HIDE DEF m, y, v, k
  <2>3. /\ [y EXCEPT !.claims = @ + 1, !.n = k, !.from = v, !.mode = m] \in LocType
        /\ [y EXCEPT !.claims = @ + 1, !.n = k, !.from = v, !.mode = m].from = v
    <3>1. y.claims + 1 \in Nat
      BY <2>1, CountersTyped
    <3> HIDE DEF x
    <3> QED BY <2>1, <3>1 DEF LocType
  <2> QED BY <2>1, <2>2, <2>3
<1>4. [loc[c] EXCEPT !.assists = @ + 1] \in LocType
  BY <1>1 DEF LocType
<1>5. \/ Finish(c)
      \/ Materialize(c, "plan", FALSE, [loc[c] EXCEPT !.assists = @ + 1])
      \/ Move(c, "change", x)
  BY DEF CmdRead
<1>6. TypedMove(c)
  <2>1. CASE Move(c, "change", x)
    BY <2>1, <1>3 DEF TypedMove, LocalsTypedAt, Labels
  <2> QED BY <2>1, <1>1, <1>4, <1>5, FinishTyped, MaterializeTyped DEF Returns
<1> QED BY <1>1, <1>6, FrameTyped DEF CmdRead, Frame

\* A command's change leaves a typed page.
LEMMA WithFieldTyped ==
    ASSUME Typed, NEW c \in Cmds
    PROVE  Requested(c) \in Values /\ WithField(c, Requested(c)) \in PageType
BY ConstantsAssumption DEF Typed, TypeOK, PageType, Requested, WithField, Values

\* CmdRecord keeps the state typed.
LEMMA CmdRecordTyped ==
    ASSUME Typed, NEW c \in Cmds, CmdRecord(c) PROVE Typed'
<1>1. /\ c \in Procs /\ loc[c] \in LocType /\ page \in PageType
      /\ loc[c].from \in Values
  BY Sets, TypedNow DEF CmdRecord, LocalsTyped, LocalsTypedAt
<1>2. Materialize(c, "done", TRUE, loc[c]) \/ Again(c, "plan")
  BY DEF CmdRecord
<1>3. TypedMove(c)
  BY <1>1, <1>2, MaterializeTyped, AgainTyped DEF Returns
<1>4. page' \in PageType
  <2>1. loc[c].n + 1 \in Nat
    BY <1>1 DEF LocType
  <2>2. EventEntry(c, loc[c].n + 1, loc[c].from) \in Entry
    BY <1>1, <2>1, WithFieldTyped DEF EventEntry, Entry, Payload
  <2> QED BY <1>1, <2>1, <2>2, WithFieldTyped DEF CmdRecord, PageType
<1> QED BY <1>1, <1>3, <1>4, TypedMoveSuffices DEF CmdRecord, Typed, TypeOK

\* CmdSilent keeps the state typed.
LEMMA CmdSilentTyped ==
    ASSUME Typed, NEW c \in Cmds, CmdSilent(c) PROVE Typed'
<1>1. TypedMove(c)
  BY Sets, FinishTyped, AgainTyped DEF CmdSilent, Returns
<1>2. page' \in PageType
  BY WithFieldTyped DEF CmdSilent, Typed, TypeOK
<1> QED BY <1>1, <1>2, Sets, TypedMoveSuffices DEF CmdSilent, Typed, TypeOK

\* RepairOutbox keeps the state typed.
LEMMA RepairOutboxTyped ==
    ASSUME Typed, NEW s \in Scans, RepairOutbox(s) PROVE Typed'
<1>1. TypedMove(s)
  BY Sets, NoLocTyped, MaterializeTyped DEF RepairOutbox, Returns
<1> QED BY <1>1, Sets, FrameTyped DEF RepairOutbox, Frame

\* ScanStart keeps the state typed.
LEMMA ScanStartTyped ==
    ASSUME Typed, NEW s \in Scans, ScanStart(s) PROVE Typed'
<1>1. TypedMove(s)
  BY Sets, GotoTyped DEF ScanStart, Plain, Labels
<1> QED BY <1>1, Sets, FrameTyped DEF ScanStart, Frame

\* The sequences a repair run compares are numbers.
LEMMA AssignedTyped == ASSUME Typed PROVE Assigned \subseteq Nat
BY DEF Typed, TypeOK, Assigned

\* ScanRows keeps the state typed.
LEMMA ScanRowsTyped ==
    ASSUME Typed, NEW s \in Scans, ScanRows(s) PROVE Typed'
<1>1. s \in Procs /\ loc[s] \in LocType
  BY Sets, TypedNow
<1>2. CASE Finish(s)
  BY <1>1, <1>2, FinishTyped, FrameTyped DEF ScanRows, Frame
<1>3. ASSUME NEW m \in Assigned, Move(s, "counter", [loc[s] EXCEPT !.top = m])
      PROVE  Typed'
  <2>1. [loc[s] EXCEPT !.top = m] \in LocType
    BY <1>1, AssignedTyped DEF LocType
  <2>2. TypedMove(s)
    BY <1>1, <1>3, <2>1, PlainMoveTyped DEF Plain, Labels
  <2> QED BY <1>1, <2>2, FrameTyped DEF ScanRows, Frame
<1> QED BY <1>2, <1>3 DEF ScanRows

\* ScanCounter keeps the state typed.
LEMMA ScanCounterTyped ==
    ASSUME Typed, NEW s \in Scans, ScanCounter(s) PROVE Typed'
<1>1. Missing(s) \in SUBSET Revs
  BY DEF Missing
<1>2. TypedMove(s)
  BY <1>1, Sets, FinishTyped, SkipToTyped DEF ScanCounter
<1> QED BY <1>2, Sets, FrameTyped DEF ScanCounter, Frame

\* ScanClaimRead keeps the state typed.
LEMMA ScanClaimReadTyped ==
    ASSUME Typed, NEW s \in Scans, ScanClaimRead(s) PROVE Typed'
<1>1. /\ s \in Procs /\ loc[s] \in LocType /\ page.seq \in Nat
      /\ loc[s].todo \in SUBSET Revs
  BY Sets, TypedNow DEF LocType
<1>2. PICK r \in loc[s].todo :
        \/ SkipTo(s, loc[s].todo \ {r})
        \/ Materialize(s, "s_claim", FALSE, [loc[s] EXCEPT !.claims = @ + 1])
        \/ Move(s, "s_check", [loc[s] EXCEPT !.n = page.seq, !.cur = r,
                                             !.claims = @ + 1])
  BY DEF ScanClaimRead
<1>3. /\ [loc[s] EXCEPT !.claims = @ + 1] \in LocType
      /\ [loc[s] EXCEPT !.n = page.seq, !.cur = r, !.claims = @ + 1] \in LocType
      /\ [loc[s] EXCEPT !.n = page.seq, !.cur = r, !.claims = @ + 1].cur \in Revs
      /\ loc[s].todo \ {r} \in SUBSET Revs
  <2>1. r \in Revs
    BY <1>1
  <2> DEFINE y == loc[s]
             k == page.seq
  <2>2. y \in LocType /\ k \in Nat
    BY <1>1
  <2> HIDE DEF y, k
  <2>3. /\ [y EXCEPT !.n = k, !.cur = r, !.claims = @ + 1] \in LocType
        /\ [y EXCEPT !.n = k, !.cur = r, !.claims = @ + 1].cur = r
    BY <2>1, <2>2, CandidateUpdate
  <2>4. [y EXCEPT !.claims = @ + 1] \in LocType
    BY <2>2, AssistUpdate
  <2> QED BY <1>1, <2>1, <2>3, <2>4 DEF y, k
<1>4. TypedMove(s)
  <2>1. CASE Move(s, "s_check", [loc[s] EXCEPT !.n = page.seq, !.cur = r,
                                               !.claims = @ + 1])
    BY <2>1, <1>3, Sets DEF TypedMove, LocalsTypedAt, Labels
  <2> QED BY <2>1, <1>1, <1>2, <1>3, SkipToTyped, MaterializeTyped DEF Returns
<1> QED BY <1>1, <1>4, FrameTyped DEF ScanClaimRead, Frame

\* ScanCheck keeps the state typed.
LEMMA ScanCheckTyped ==
    ASSUME Typed, NEW s \in Scans, ScanCheck(s) PROVE Typed'
<1>1. /\ s \in Procs /\ loc[s] \in LocType /\ loc[s].cur \in Revs
      /\ loc[s].todo \ {loc[s].cur} \in SUBSET Revs
  BY Sets, TypedNow DEF ScanCheck, LocalsTyped, LocalsTypedAt, LocType
<1>2. Goto(s, "s_cas") \/ SkipTo(s, loc[s].todo \ {loc[s].cur})
  BY DEF ScanCheck
<1>3. TypedMove(s)
  <2>1. CASE Goto(s, "s_cas")
    BY <2>1, <1>1, Sets DEF Goto, TypedMove, LocalsTypedAt, Labels
  <2> QED BY <2>1, <1>1, <1>2, SkipToTyped
<1> QED BY <1>1, <1>3, FrameTyped DEF ScanCheck, Frame

\* ScanClaim keeps the state typed.
LEMMA ScanClaimTyped ==
    ASSUME Typed, NEW s \in Scans, ScanClaim(s) PROVE Typed'
<1> DEFINE rest == loc[s].todo \ {loc[s].cur}
<1>1. /\ s \in Procs /\ loc[s] \in LocType /\ loc[s].cur \in Revs /\ page \in PageType
  BY Sets, TypedNow DEF ScanClaim, LocalsTyped, LocalsTypedAt
<1>2. /\ [loc[s] EXCEPT !.todo = rest, !.claims = 0] \in LocType
      /\ (IF rest = {} THEN "idle" ELSE "s_claim") \in Returns
  BY <1>1 DEF LocType, Returns
<1>3. \/ Materialize(s, IF rest = {} THEN "idle" ELSE "s_claim", TRUE,
                     [loc[s] EXCEPT !.todo = rest, !.claims = 0])
      \/ Again(s, "s_claim")
  BY DEF ScanClaim
<1>4. TypedMove(s)
  BY <1>1, <1>2, <1>3, MaterializeTyped, AgainTyped DEF Returns
<1>5. page' \in PageType
  <2>1. loc[s].n + 1 \in Nat
    BY <1>1 DEF LocType
  <2>2. MigrationEntry(loc[s].cur, loc[s].n + 1) \in Entry
    BY <1>1, <2>1, ContentEntryTyped
  <2> QED BY <1>1, <2>1, <2>2 DEF ScanClaim, PageType
<1> QED BY <1>1, <1>4, <1>5, TypedMoveSuffices DEF ScanClaim, Typed, TypeOK

\* DemotedHistory keeps the state typed.
LEMMA DemotedHistoryTyped ==
    ASSUME Typed, NEW s \in Scans, DemotedHistory(s) PROVE Typed'
<1>1. TypedMove(s)
  BY Sets, GotoTyped, FinishTyped DEF DemotedHistory, Plain, Labels
<1> QED BY <1>1, Sets, FrameTyped DEF DemotedHistory, Frame

\* DemotedRead keeps the state typed.
LEMMA DemotedReadTyped ==
    ASSUME Typed, NEW s \in Scans, DemotedRead(s) PROVE Typed'
<1>1. /\ s \in Procs /\ loc[s] \in LocType /\ page.seq \in Nat /\ page.started \in Nat
  BY Sets, TypedNow
<1>2. /\ [loc[s] EXCEPT !.assists = 1] \in LocType
      /\ [loc[s] EXCEPT !.n = page.seq, !.at = page.started] \in LocType
  BY <1>1 DEF LocType
<1>3. TypedMove(s)
  BY <1>1, <1>2, FinishTyped, MaterializeTyped, PlainMoveTyped
     DEF DemotedRead, Plain, Labels, Returns
<1> QED BY <1>1, <1>3, FrameTyped DEF DemotedRead, Frame

\* DemotedRows keeps the state typed.
LEMMA DemotedRowsTyped ==
    ASSUME Typed, NEW s \in Scans, DemotedRows(s) PROVE Typed'
<1>1. s \in Procs /\ loc[s] \in LocType
  BY Sets, TypedNow
<1>2. StartsToRestore(s) \subseteq Nat
  BY <1>1 DEF StartsToRestore, LocType, Typed, TypeOK
<1>3. CASE Finish(s)
  BY <1>1, <1>3, FinishTyped, FrameTyped DEF DemotedRows, Frame
<1>4. ASSUME NEW start \in StartsToRestore(s), NEW m \in Assigned,
             Move(s, "d_cas", [loc[s] EXCEPT !.at = start, !.top = m])
      PROVE  Typed'
  <2>1. [loc[s] EXCEPT !.at = start, !.top = m] \in LocType
    BY <1>1, <1>2, AssignedTyped DEF LocType
  <2>2. TypedMove(s)
    BY <1>1, <1>4, <2>1, PlainMoveTyped DEF Plain, Labels
  <2> QED BY <1>1, <2>2, FrameTyped DEF DemotedRows, Frame
<1> QED BY <1>3, <1>4 DEF DemotedRows

\* DemotedRestore keeps the state typed.
LEMMA DemotedRestoreTyped ==
    ASSUME Typed, NEW s \in Scans, DemotedRestore(s) PROVE Typed'
<1>1. s \in Procs /\ loc[s] \in LocType /\ page \in PageType
  BY Sets, TypedNow
<1>2. [NoLoc EXCEPT !.mode = "restored"] \in LocType
  BY NoLocTyped DEF LocType, Modes
<1>3. TypedMove(s)
  BY <1>1, <1>2, FinishTyped, PlainMoveTyped DEF DemotedRestore, Plain, Labels
<1>4. page' \in PageType
  <2>1. loc[s].at \in Nat /\ loc[s].top \in Nat
    BY <1>1 DEF LocType
  <2> QED BY <1>1, <2>1 DEF DemotedRestore, PageType
<1> QED BY <1>1, <1>3, <1>4, TypedMoveSuffices DEF DemotedRestore, Typed, TypeOK

\* A deletion keeps the state typed.
LEMMA DeleteStepTyped ==
    ASSUME Typed, NEW d \in Deleters, DeleteStep(d) PROVE Typed'
<1>1. TypedMove(d)
  BY Sets, GotoTyped DEF DeleteStep, DeletePage, RemoveRevisions, PurgeEvents, Plain, Labels
<1>2. page' \in PageType
  BY DEF DeleteStep, DeletePage, RemoveRevisions, PurgeEvents, Typed, TypeOK, PageType
<1>3. /\ born' \in [Revs -> Nat] /\ row' \in [Items -> Nat]
      /\ detail' \in [Cmds -> Payload \cup {None}]
      /\ clock' \in Nat /\ old' \in Nat /\ faults' \in Nat
  BY DEF DeleteStep, DeletePage, RemoveRevisions, PurgeEvents, Typed, TypeOK
<1> QED BY <1>1, <1>2, <1>3, Sets, TypedMoveSuffices

\* A crash or a failed call keeps the state typed.
LEMMA FaultTyped ==
    ASSUME Typed, NEW p \in Procs, Crash(p) \/ CallFails(p) PROVE Typed'
<1>1. faults' \in Nat
  BY DEF Crash, CallFails, Fault, Typed, TypeOK
<1>2. TypedMove(p)
  BY FinishTyped, ThrowTyped, GotoTyped DEF Crash, CallFails, Plain, Labels
<1> QED BY <1>1, <1>2, TypedMoveSuffices DEF Crash, CallFails, Typed, TypeOK

\* So do the steps of no process: time, a stray write, stuttering.
LEMMA OutsideTyped ==
    ASSUME Typed, Age \/ (\E r \in Revs : StrayWrite(r)) \/ UNCHANGED vars PROVE Typed'
<1>1. TypeOK'
  BY ConstantsAssumption, Sets DEF Typed, TypeOK, Age, StrayWrite, Fault, vars
<1>2. UNCHANGED <<pc, loc>>
  BY DEF Age, StrayWrite, vars
<1> QED BY <1>1, <1>2 DEF Typed, LocalsTyped, LocalsTypedAt

\* A materialization keeps the state typed.
LEMMA MaterializeStepTyped ==
    ASSUME Typed, NEW p \in Procs, MaterializeStep(p) PROVE Typed'
BY MReadTyped, MWriteTyped, MDrainTyped DEF MaterializeStep

\* Every step keeps the state typed.
LEMMA NextTyped == Typed /\ [Next]_vars => Typed'
<1> SUFFICES ASSUME Typed, [Next]_vars PROVE Typed'
    OBVIOUS
<1>1. ASSUME NEW r \in Revs, SaveStep(r) PROVE Typed'
  BY <1>1, Sets, PrepareRevisionTyped, SaveRevisionTyped, MovePointerTyped,
     AllocCheckFirstTyped, AllocReadTyped, AllocHistoryTyped, AllocCheckSecondTyped, AllocClaimTyped,
     AllocHealTyped, HealDrainTyped, MaterializeStepTyped DEF SaveStep
<1>2. ASSUME NEW c \in Cmds, CmdStep(c) PROVE Typed'
  BY <1>2, Sets, CmdReadTyped, CmdRecordTyped, CmdSilentTyped, MaterializeStepTyped
     DEF CmdStep
<1>3. ASSUME NEW s \in Scans, RepairOutbox(s) \/ ScanStart(s) \/ RepairStep(s)
      PROVE  Typed'
  BY <1>3, Sets, RepairOutboxTyped, ScanStartTyped, ScanRowsTyped, ScanCounterTyped,
     ScanClaimReadTyped, ScanCheckTyped, ScanClaimTyped, DemotedHistoryTyped,
     DemotedReadTyped, DemotedRowsTyped, DemotedRestoreTyped, MaterializeStepTyped
     DEF RepairStep
<1>4. ASSUME NEW d \in Deleters, DeleteStep(d) PROVE Typed'
  BY <1>4, DeleteStepTyped
<1>5. ASSUME NEW p \in Procs, Crash(p) \/ CallFails(p) PROVE Typed'
  BY <1>5, FaultTyped
<1> QED BY <1>1, <1>2, <1>3, <1>4, <1>5, OutsideTyped DEF Next

\* Every reachable state is typed: no step relies on a local that a retry, a
\* failed call or a crash has already cleared.
THEOREM TypeCorrect == Spec => []TypeOK
<1>1. Typed => TypeOK
  BY DEF Typed
<1> QED BY <1>1, InitTyped, NextTyped, PTL DEF Spec

-----------------------------------------------------------------------------
(* The ways a step of p changes the shared documents. *)

SamePlaceInPage == /\ page'.live = page.live /\ page'.tracking = page.tracking
                   /\ page'.seq = page.seq

Quiet == SamePlaceInPage /\ page'.slot = page.slot /\ row' = row

Claims(p) ==
    \E e \in Entry :
      /\ page.live /\ page.slot = None
      /\ page.tracking = "ready" \/ (page.seq = 0 /\ \A i \in Items : row[i] = 0)
      /\ row[e.item] = 0 /\ e.seq = page.seq + 1
      /\ e.item \in Cmds => e.item = p
      /\ page'.live /\ page'.tracking = "ready" /\ page'.slot = e /\ page'.seq = e.seq
      /\ row' = row

Stores ==
    \E e \in Entry :
      /\ page.slot = e /\ row[e.item] = 0 /\ row' = [row EXCEPT ![e.item] = e.seq]
      /\ page' = page

Drains ==
    /\ page.slot # None /\ row[page.slot.item] = page.slot.seq
    /\ SamePlaceInPage /\ page'.slot = None /\ row' = row

Restores ==
    /\ page.tracking = "untracked" /\ page.slot = None /\ HasSequencedHistory
    /\ page'.live = page.live /\ page'.tracking = "ready" /\ page'.slot = None
    /\ page'.seq >= page.seq /\ \A i \in Items : row[i] <= page'.seq
    /\ row' = row

Gone == ~page'.live /\ page'.slot = None

Changes(p) == Quiet \/ Claims(p) \/ Stores \/ Drains \/ Restores \/ Gone

SharedTyped == page \in PageType /\ row \in [Items -> Nat]

\* An occupied slot, seen as a record.
LEMMA SlotFields ==
    ASSUME page \in PageType
    PROVE  page.slot # None =>
             page.slot \in Entry /\ page.slot.item \in Items /\ page.slot.seq \in Nat
BY EntryFields DEF PageType

\* Each of the ways the documents change keeps what they satisfy.
LEMMA SharedKept ==
    ASSUME Inv, Typed', NEW p \in Procs, Changes(p) PROVE Shared'
<1>1. /\ page \in PageType /\ row \in [Items -> Nat] /\ page.seq \in Nat
      /\ page' \in PageType /\ row' \in [Items -> Nat] /\ page'.seq \in Nat
      /\ SlotInv /\ RowsDistinct /\ CounterCovers
  BY DEF Inv, Shared, Typed, TypeOK, PageType
<1>2. CASE Quiet
  BY <1>1, <1>2 DEF Quiet, SamePlaceInPage, Shared, SlotInv, RowsDistinct, CounterCovers, Ready
<1>3. CASE Claims(p)
  <2>1. PICK e \in Entry :
      /\ page.live /\ page.slot = None
      /\ page.tracking = "ready" \/ \A i \in Items : row[i] = 0
      /\ row[e.item] = 0 /\ e.seq = page.seq + 1
      /\ page'.live /\ page'.tracking = "ready" /\ page'.slot = e /\ page'.seq = e.seq
      /\ row' = row
    BY <1>3 DEF Claims
  <2>2. e.item \in Items /\ e.seq \in Nat
    BY EntryFields
  <2>3. \A i \in Items : row[i] \in Nat /\ row[i] <= page.seq
    BY <1>1, <2>1 DEF CounterCovers, Ready
  <2> QED BY <1>1, <2>1, <2>2, <2>3 DEF Shared, SlotInv, RowsDistinct, CounterCovers, Ready
<1>4. CASE Stores
  <2>1. PICK e \in Entry :
      /\ page.slot = e /\ row[e.item] = 0 /\ row' = [row EXCEPT ![e.item] = e.seq]
      /\ page' = page
    BY <1>4 DEF Stores
  <2>2. e.item \in Items /\ e.seq \in Nat /\ page.slot # None
    BY <2>1, EntryFields, NoneAssumption
  <2>3. \A i \in Items : row'[i] = IF i = e.item THEN e.seq ELSE row[i]
    BY <1>1, <2>1, <2>2
  <2> QED BY <1>1, <2>1, <2>2, <2>3 DEF Shared, SlotInv, RowsDistinct, CounterCovers, Ready
<1>5. CASE Drains
  BY <1>1, <1>5 DEF Drains, SamePlaceInPage, Shared, SlotInv, RowsDistinct, CounterCovers, Ready
<1>6. CASE Restores
  BY <1>1, <1>6 DEF Restores, Shared, SlotInv, RowsDistinct, CounterCovers, Ready
<1>7. CASE Gone
  BY <1>7 DEF Gone, Shared, SlotInv, RowsDistinct, CounterCovers, Ready
<1> QED BY <1>2, <1>3, <1>4, <1>5, <1>6, <1>7 DEF Changes

\* What q knew, it still knows after a step of p.
LEMMA OthersKept ==
    ASSUME Inv, Typed', NEW p \in Procs, Changes(p),
           NEW q \in Procs, q # p, pc'[q] = pc[q], loc'[q] = loc[q]
    PROVE  Guarantee(q)'
<1> SUFFICES ASSUME page'.live PROVE Guarantee(q)'
  BY DEF Guarantee
<1>1. /\ page \in PageType /\ row \in [Items -> Nat] /\ page.seq \in Nat
      /\ page' \in PageType /\ row' \in [Items -> Nat] /\ page'.seq \in Nat
      /\ SlotInv /\ Guarantee(q) /\ LocalsTyped(q) /\ loc[q] \in LocType
  BY DEF Inv, Shared, Typed, TypeOK, PageType
<1>2. /\ Holding(q) => loc[q].entry \in Entry /\ loc[q].entry.item \in Items
      /\ loc[q].n \in Nat /\ loc[q].top \in Nat
      /\ pc[q] = "s_cas" => loc[q].cur \in Items
  BY <1>1, EntryFields, Sets DEF LocalsTyped, LocalsTypedAt, Holding, LocType
<1>3. CASE Quiet
  BY <1>1, <1>3 DEF Quiet, SamePlaceInPage, Guarantee, HolderOK, Holding, RevisionOK,
     CommandOK, ScanOK, CounterRead, At, Materializing, HasSequencedHistory
<1>4. CASE Claims(p)
  <2>1. PICK e \in Entry :
      /\ page.live /\ page.slot = None
      /\ row[e.item] = 0 /\ e.seq = page.seq + 1
      /\ e.item \in Cmds => e.item = p
      /\ page'.live /\ page'.tracking = "ready" /\ page'.slot = e /\ page'.seq = e.seq
      /\ row' = row
    BY <1>4 DEF Claims
  <2>2. page'.seq > page.seq
    BY <1>1, <2>1
  <2>3. HolderOK(q)'
    BY <1>1, <1>2, <2>1, NoneAssumption DEF Guarantee, HolderOK, Holding
  <2>4. q \in Revs => RevisionOK(q)'
    BY <1>1, <1>2, <2>1, <2>2 DEF Guarantee, RevisionOK, CounterRead, Materializing
  <2>5. q \in Cmds => CommandOK(q)'
    BY <1>1, <1>2, <2>1, <2>2 DEF Guarantee, CommandOK, CounterRead, At, Materializing
  <2>6. q \in Scans => ScanOK(q)'
    BY <1>1, <1>2, <2>1, <2>2 DEF Guarantee, ScanOK, CounterRead, At, Materializing, HasSequencedHistory
  <2> QED BY <1>1, <2>1, <2>3, <2>4, <2>5, <2>6 DEF Guarantee
<1>5. CASE Stores
  <2>1. PICK e \in Entry :
      /\ page.slot = e /\ row[e.item] = 0 /\ row' = [row EXCEPT ![e.item] = e.seq]
      /\ page' = page
    BY <1>5 DEF Stores
  <2>2. /\ e.item \in Items /\ e.seq \in Nat /\ page.slot # None /\ e.seq # 0
    BY <1>1, <2>1, EntryFields, NoneAssumption DEF SlotInv
  <2>3. \A i \in Items : row'[i] = IF i = e.item THEN e.seq ELSE row[i]
    BY <1>1, <2>1, <2>2
  <2>4. HolderOK(q)'
    BY <1>1, <1>2, <2>1, <2>2, <2>3 DEF Guarantee, HolderOK, Holding
  <2>5. q \in Revs => RevisionOK(q)'
    BY <1>1, <1>2, <2>1, <2>2, <2>3, Sets DEF Guarantee, RevisionOK, CounterRead, Materializing
  <2>6. q \in Cmds => CommandOK(q)'
    BY <1>1, <1>2, <2>1, <2>2, <2>3, Sets DEF Guarantee, CommandOK, CounterRead, At, Materializing
  <2>7. q \in Scans => ScanOK(q)'
    BY <1>1, <1>2, <2>1, <2>2, <2>3 DEF Guarantee, ScanOK, CounterRead, At, Materializing, HasSequencedHistory
  <2> QED BY <1>1, <2>1, <2>4, <2>5, <2>6, <2>7 DEF Guarantee
<1>6. CASE Drains
  <2>1. HolderOK(q)'
    BY <1>1, <1>2, <1>6 DEF Guarantee, HolderOK, Holding, Drains, SamePlaceInPage
  <2> QED BY <1>1, <2>1, <1>6 DEF Drains, SamePlaceInPage, Guarantee, RevisionOK,
             CommandOK, ScanOK, CounterRead, At, Materializing, HasSequencedHistory
<1>7. CASE Restores
  <2>1. HolderOK(q)'
    BY <1>1, <1>2, <1>7 DEF Guarantee, HolderOK, Holding, Restores
  <2> QED BY <1>1, <2>1, <1>7 DEF Restores, Guarantee, RevisionOK,
             CommandOK, ScanOK, CounterRead, At, Materializing, HasSequencedHistory
<1>8. CASE Gone
  BY <1>8 DEF Gone
<1> QED BY <1>3, <1>4, <1>5, <1>6, <1>7, <1>8 DEF Changes

-----------------------------------------------------------------------------
(* What a step of p leaves p itself knowing. *)

\* The entries of a process after its move.
LEMMA Moved ==
    ASSUME Typed, NEW p \in Procs, NEW l, NEW x, Move(p, l, x)
    PROVE  /\ pc'[p] = l /\ loc'[p] = x
           /\ \A q \in Procs : q # p => pc'[q] = pc[q] /\ loc'[q] = loc[q]
BY DEF Move, Typed, TypeOK

\* A step of p alone that keeps the promises.
OtherProcsStay(p) ==
    \A q \in Procs : q # p => pc'[q] = pc[q] /\ loc'[q] = loc[q]

Sound(p) == Changes(p) /\ Guarantee(p)' /\ OtherProcsStay(p)

\* A sound step of one process preserves the invariant of all.
LEMMA SoundSuffices ==
    ASSUME Inv, Typed', NEW p \in Procs, Sound(p) PROVE Inv'
<1>1. Shared'
  BY SharedKept DEF Sound
<1>2. ASSUME NEW q \in Procs PROVE Guarantee(q)'
  BY <1>2, OthersKept DEF Sound, OtherProcsStay
<1> QED BY <1>1, <1>2 DEF Inv

\* On a deleted page nothing is left to keep.
LEMMA DeadStays ==
    ASSUME Inv, ~page.live, page'.live = page.live, page'.slot = page.slot PROVE Gone
BY DEF Inv, Shared, SlotInv, Gone

\* A process that ends keeps its guarantee: it has no locals to mean anything.
LEMMA FinishSound ==
    ASSUME Inv, NEW p \in Procs, Finish(p) PROVE Guarantee(p)' /\ OtherProcsStay(p)
<1>1. pc'[p] = Rest(p) /\ OtherProcsStay(p)
  BY Moved DEF Finish, Inv, OtherProcsStay
<1> QED BY <1>1, Sets DEF Rest, Guarantee, HolderOK, Holding, RevisionOK, CommandOK,
       ScanOK, At, Materializing

\* Going round the loop again, or on after a materialization.
LEMMA ResumeSound ==
    ASSUME Inv, NEW p \in Procs, Materializing(p), Resume(p), Quiet \/ Drains
    PROVE  Guarantee(p)' /\ OtherProcsStay(p)
<1>1. CASE loc[p].ret = Rest(p)
  BY <1>1, FinishSound DEF Resume
<1>2. CASE loc[p].ret # Rest(p)
  <2>1. pc'[p] = loc[p].ret /\ OtherProcsStay(p)
    BY <1>2, Moved DEF Resume, Again, Inv, OtherProcsStay
  <2>2. /\ page'.live = page.live /\ page'.tracking = page.tracking /\ row' = row
        /\ page'.slot = None \/ page'.slot = page.slot
    BY DEF Quiet, Drains, SamePlaceInPage
  <2>3. Guarantee(p)
    BY DEF Inv
  <2>4. page.live => /\ p \notin Deleters
                     /\ loc[p].ret \in {"done", "check1", "plan", "idle", "s_claim", "d_read"}
    BY <2>3, Sets DEF Guarantee, Materializing, RevisionOK, CommandOK, ScanOK
  <2>5. page.live => HolderOK(p)'
    BY <2>1, <2>4 DEF HolderOK, Holding
  <2>6. page.live /\ p \in Revs => RevisionOK(p)'
    BY <2>1, <2>4 DEF RevisionOK, Materializing
  <2>7. page.live /\ p \in Cmds => CommandOK(p)'
    BY <2>1, <2>2, <2>3, <2>4 DEF Guarantee, CommandOK, At, Materializing
  <2>8. page.live /\ p \in Scans => ScanOK(p)'
    BY <2>1, <2>2, <2>3, <2>4 DEF Guarantee, ScanOK, At, Materializing, HasSequencedHistory
  <2>9. Guarantee(p)'
    BY <2>2, <2>4, <2>5, <2>6, <2>7, <2>8 DEF Guarantee
  <2> QED BY <2>1, <2>9
<1> QED BY <1>1, <1>2

\* A throw keeps the guarantee of the process that catches it.
LEMMA ThrowSound ==
    ASSUME Inv, NEW p \in Procs, Materializing(p), Throw(p), Quiet
    PROVE  Guarantee(p)' /\ OtherProcsStay(p)
<1>1. CASE Finish(p)
  BY <1>1, FinishSound
<1>2. CASE Resume(p)
  BY <1>2, ResumeSound
<1>3. CASE p \in Revs /\ Goto(p, "heal")
  <2>1. pc'[p] = "heal" /\ OtherProcsStay(p)
    BY <1>3, Moved DEF Goto, Inv, OtherProcsStay
  <2> QED BY <1>3, <2>1, Sets DEF Guarantee, HolderOK, Holding, RevisionOK, Materializing
<1> QED BY <1>1, <1>2, <1>3 DEF Throw

-----------------------------------------------------------------------------
(* The materializer. *)

\* MRead leaves its process's locals, and every other's, meaning what they did.
LEMMA MReadSound == ASSUME Inv, NEW p \in Procs, MRead(p) PROVE Sound(p)
<1>1. Quiet
  BY DEF MRead, Quiet, SamePlaceInPage
<1>2. CASE page.slot = None
  BY <1>1, <1>2, ResumeSound DEF MRead, Materializing, Sound, Changes
<1>3. CASE page.slot # None
  <2> DEFINE x == [loc[p] EXCEPT !.entry = page.slot]
  <2>1. loc[p] \in LocType
    BY TypedNow DEF Inv
  <2>2. x.entry = page.slot /\ x.ret = loc[p].ret /\ x.n = loc[p].n
    BY <2>1 DEF LocType
  <2>3. Move(p, "m_write", x)
    BY <1>3 DEF MRead
  <2> HIDE DEF x
  <2>4. pc'[p] = "m_write" /\ loc'[p] = x /\ OtherProcsStay(p)
    BY <2>3, Moved DEF Inv, OtherProcsStay
  <2>5. Guarantee(p) /\ SlotInv
    BY DEF Inv, Shared
  <2>6. Guarantee(p)'
    BY <1>1, <1>3, <2>2, <2>4, <2>5, Sets DEF MRead, Quiet, SamePlaceInPage, Guarantee,
       HolderOK, Holding, RevisionOK, CommandOK, ScanOK, At, Materializing, SlotInv,
       HasSequencedHistory
  <2> QED BY <1>1, <2>4, <2>6 DEF Sound, Changes
<1> QED BY <1>2, <1>3

\* MWrite leaves its process's locals, and every other's, meaning what they did.
LEMMA MWriteSound == ASSUME Inv, NEW p \in Procs, MWrite(p) PROVE Sound(p)
<1> DEFINE e == loc[p].entry
<1>1. /\ e \in Entry /\ e.item \in Items /\ e.seq \in Nat /\ row \in [Items -> Nat]
      /\ Guarantee(p) /\ SlotInv
  BY EntryFields DEF MWrite, Inv, Shared, Typed, TypeOK, LocalsTyped, LocalsTypedAt
<1>2. StoreEvent(p, e) \/ StampRevision(p, e)
  BY DEF MWrite
<1>3. row' = row \/ (row[e.item] = 0 /\ row' = [row EXCEPT ![e.item] = e.seq])
  BY <1>2 DEF StoreEvent, StampRevision, Unsequenced
<1>4. Changes(p)
  <2>1. CASE ~page.live
    BY <2>1, DeadStays DEF MWrite, Changes
  <2>2. CASE page.live /\ row' = row
    BY <2>2 DEF MWrite, Changes, Quiet, SamePlaceInPage
  <2>3. CASE page.live /\ row[e.item] = 0 /\ row' = [row EXCEPT ![e.item] = e.seq]
    <3>1. page.slot = e
      BY <1>1, <2>3 DEF MWrite, Guarantee, HolderOK, Holding
    <3> QED BY <1>1, <2>3, <3>1 DEF MWrite, Changes, Stores
  <2> QED BY <1>3, <2>1, <2>2, <2>3
<1>5. CASE Goto(p, "m_drain") /\ row'[e.item] # 0
  <2>1. pc'[p] = "m_drain" /\ loc'[p] = loc[p] /\ OtherProcsStay(p)
    BY <1>5, Moved DEF Goto, Inv, OtherProcsStay
  <2>2. page' = page /\ pc[p] = "m_write"
    BY DEF MWrite
  <2>3. page.live => row'[e.item] = e.seq
    BY <1>1, <1>3, <1>5, <2>2, NoneAssumption DEF Guarantee, HolderOK, Holding, SlotInv
  <2>4. \A i \in Items : i # e.item \/ row[i] # 0 => row'[i] = row[i]
    BY <1>1, <1>3
  <2>5. page.live => HolderOK(p)'
    BY <1>1, <2>1, <2>2, <2>3 DEF Guarantee, HolderOK, Holding
  <2>6. page.live /\ p \in Revs => RevisionOK(p)'
    BY <1>1, <2>1, <2>2 DEF Guarantee, RevisionOK, Materializing
  <2>7. page.live /\ p \in Cmds => CommandOK(p)'
    <3>1. page.live /\ p \in Cmds /\ At(p, "plan") => e.item # p
      BY <1>1, <2>2, NoneAssumption DEF Guarantee, CommandOK, HolderOK, Holding
    <3>2. page.live /\ p \in Cmds /\ At(p, "plan") => row'[p] = 0
      BY <1>1, <1>3, <3>1, Sets DEF Guarantee, CommandOK
    <3> QED BY <1>1, <2>1, <2>2, <3>2 DEF Guarantee, CommandOK, At, Materializing
  <2>8. page.live /\ p \in Scans => ScanOK(p)'
    BY <1>1, <2>1, <2>2, <2>4 DEF Guarantee, ScanOK, At, Materializing, HasSequencedHistory
  <2>9. Guarantee(p)'
    BY <1>1, <2>2, <2>5, <2>6, <2>7, <2>8 DEF Guarantee
  <2> QED BY <1>4, <2>1, <2>9 DEF Sound
<1>6. CASE Throw(p) /\ row' = row
  <2>1. Quiet /\ Materializing(p)
    BY <1>6 DEF MWrite, Quiet, SamePlaceInPage, Materializing
  <2> QED BY <1>4, <1>6, <2>1, ThrowSound DEF Sound
<1>7. \/ Goto(p, "m_drain") /\ (row'[e.item] # 0 \/ ~page.live)
      \/ Throw(p) /\ row' = row
  <2>1. CASE StoreEvent(p, e)
    BY <1>1, <2>1 DEF StoreEvent, Guarantee, HolderOK, Holding, MWrite
  <2>2. CASE StampRevision(p, e)
    BY <1>1, <2>2 DEF StampRevision, Unsequenced, Guarantee, HolderOK, Holding, MWrite
  <2> QED BY <1>2, <2>1, <2>2
<1>8. CASE Goto(p, "m_drain") /\ ~page.live
  <2>1. OtherProcsStay(p)
    BY <1>8, Moved DEF Goto, Inv, OtherProcsStay
  <2> QED BY <1>4, <1>8, <2>1 DEF Sound, Guarantee, MWrite
<1> QED BY <1>5, <1>6, <1>7, <1>8

\* MDrain leaves its process's locals, and every other's, meaning what they did.
LEMMA MDrainSound == ASSUME Inv, NEW p \in Procs, MDrain(p) PROVE Sound(p)
<1> DEFINE e == loc[p].entry
<1>1. Materializing(p) /\ Resume(p)
  BY DEF MDrain, Materializing
<1>2. /\ e \in Entry /\ page \in PageType /\ Guarantee(p) /\ SlotInv
  BY DEF MDrain, Inv, Shared, Typed, TypeOK, LocalsTyped, LocalsTypedAt
<1>3. Quiet \/ Drains
  <2>1. CASE page.slot = e
    <3>1. page.slot # None /\ row[page.slot.item] = page.slot.seq
      BY <1>2, <2>1, NoneAssumption DEF MDrain, Guarantee, HolderOK, SlotInv
    <3> QED BY <1>2, <2>1, <3>1 DEF MDrain, Drained, Drains, SamePlaceInPage, PageType
  <2>2. CASE page.slot # e
    BY <2>2 DEF MDrain, Drained, Quiet, SamePlaceInPage
  <2> QED BY <2>1, <2>2
<1> QED BY <1>1, <1>3, ResumeSound DEF Sound, Changes

-----------------------------------------------------------------------------
(* Content saves. *)

\* A Revision at l with locals x has RevisionOK to show and nothing else.
LEMMA RevisionSound ==
    ASSUME Inv, NEW r \in Revs, NEW l, NEW x, Move(r, l, x),
           l \notin {"m_write", "m_drain"}, Changes(r),
           page'.live => RevisionOK(r)'
    PROVE  Sound(r)
<1>1. pc'[r] = l /\ loc'[r] = x /\ OtherProcsStay(r)
  BY Moved, Sets DEF Inv, OtherProcsStay
<1> QED BY <1>1, Sets DEF Sound, Guarantee, HolderOK, Holding

\* The steps of a save before its allocator changes nothing history depends on.
LEMMA SaveSound ==
    ASSUME Inv, NEW r \in Revs,
           PrepareRevision(r) \/ SaveRevision(r) \/ MovePointer(r) \/ AllocCheckFirst(r)
    PROVE  Sound(r)
<1>1. Quiet
  <2>1. page \in PageType
    BY DEF Inv, Typed, TypeOK
  <2> QED BY <2>1 DEF PrepareRevision, SaveRevision, MovePointer, AllocCheckFirst, Quiet,
             SamePlaceInPage, PageType
<1>2. CASE Finish(r)
  BY <1>1, <1>2, FinishSound, Sets DEF Sound, Changes
<1>3. ASSUME NEW l \in {"save", "point", "check1", "read"}, NEW x, Move(r, l, x)
      PROVE  Sound(r)
  <2>1. pc'[r] = l
    BY <1>3, Moved, Sets DEF Inv
  <2>2. RevisionOK(r)'
    BY <2>1 DEF RevisionOK, Materializing
  <2> QED BY <1>1, <1>3, <2>2, RevisionSound DEF Changes
<1> QED BY <1>2, <1>3 DEF PrepareRevision, SaveRevision, MovePointer, AllocCheckFirst, Goto

\* A step that changes no document is quiet.
LEMMA FrameQuiet == ASSUME Frame PROVE Quiet
BY DEF Frame, Quiet, SamePlaceInPage

\* A process that goes to materialize knows where it will return to.
LEMMA MaterializeMoved ==
    ASSUME Typed, NEW p \in Procs, NEW l, NEW o, NEW x \in LocType, Materialize(p, l, o, x)
    PROVE  /\ pc'[p] = "m_read" /\ loc'[p].ret = l
           /\ \A q \in Procs : q # p => pc'[q] = pc[q] /\ loc'[q] = loc[q]
<1> DEFINE y == [x EXCEPT !.ret = l, !.own = o]
<1>1. y.ret = l
  BY DEF LocType
<1> HIDE DEF y
<1>2. Move(p, "m_read", y)
  BY DEF Materialize, y
<1> QED BY <1>1, <1>2, Moved

\* AllocRead leaves its process's locals, and every other's, meaning what they
\* did.
LEMMA AllocReadSound == ASSUME Inv, NEW r \in Revs, AllocRead(r) PROVE Sound(r)
<1>1. Quiet
  BY FrameQuiet DEF AllocRead, Frame
<1>2. /\ loc[r] \in LocType /\ page.seq \in Nat /\ r \in Procs
      /\ page' = page
  BY TypedNow, Sets DEF Inv, AllocRead
<1>3. CASE Finish(r)
  BY <1>1, <1>3, FinishSound, Sets DEF Sound, Changes
<1>4. CASE /\ Move(r, "history", [loc[r] EXCEPT !.mode = "promote", !.n = 0])
           /\ page.slot = None
  <2> DEFINE x == [loc[r] EXCEPT !.mode = "promote", !.n = 0]
  <2>0. x.mode = "promote" /\ x.n = 0 /\ Move(r, "history", x)
    BY <1>2, <1>4 DEF LocType
  <2> HIDE DEF x
  <2>1. /\ pc'[r] = "history" /\ loc'[r].mode = "promote" /\ loc'[r].n = 0
    BY <1>2, <2>0, Moved DEF Inv
  <2>2. RevisionOK(r)'
    BY <1>2, <1>4, <2>1 DEF RevisionOK, Materializing
  <2> QED BY <1>1, <1>4, <2>2, RevisionSound DEF Changes
<1>5. CASE Materialize(r, "check1", FALSE, [loc[r] EXCEPT !.assists = @ + 1])
  <2> DEFINE x == [loc[r] EXCEPT !.assists = @ + 1]
  <2>1. x \in LocType /\ Materialize(r, "check1", FALSE, x)
    BY <1>2, <1>5, AssistUpdate
  <2> HIDE DEF x
  <2>2. pc'[r] = "m_read" /\ loc'[r].ret = "check1"
    BY <1>2, <2>1, MaterializeMoved DEF Inv
  <2>3. RevisionOK(r)'
    BY <2>2 DEF RevisionOK, Materializing
  <2> QED BY <1>1, <1>5, <2>3, RevisionSound DEF Materialize, Changes
<1>6. CASE /\ Move(r, "check2", [loc[r] EXCEPT !.mode = "next", !.n = page.seq])
           /\ Ready /\ page.slot = None
  <2> DEFINE x == [loc[r] EXCEPT !.mode = "next", !.n = page.seq]
  <2>0. x.mode = "next" /\ x.n = page.seq /\ Move(r, "check2", x)
    BY <1>2, <1>6 DEF LocType
  <2> HIDE DEF x
  <2>1. pc'[r] = "check2" /\ loc'[r].mode = "next" /\ loc'[r].n = page.seq
    BY <1>2, <2>0, Moved DEF Inv
  <2>2. RevisionOK(r)'
    BY <1>2, <1>6, <2>1 DEF RevisionOK, CounterRead, Materializing, Ready
  <2> QED BY <1>1, <1>6, <2>2, RevisionSound DEF Changes
<1> QED BY <1>3, <1>4, <1>5, <1>6 DEF AllocRead

\* AllocHistory leaves its process's locals, and every other's, meaning what
\* they did.
LEMMA AllocHistorySound == ASSUME Inv, NEW r \in Revs, AllocHistory(r) PROVE Sound(r)
<1>1. Quiet /\ page' = page /\ row' = row /\ pc[r] = "history" /\ r \in Procs
  BY FrameQuiet, Sets DEF AllocHistory, Frame
<1>2. CASE Finish(r)
  BY <1>1, <1>2, FinishSound DEF Sound, Changes
<1>3. CASE ~HasSequencedHistory /\ Goto(r, "check2")
  <2>1. pc'[r] = "check2" /\ loc'[r] = loc[r]
    BY <1>1, <1>3, Moved DEF Goto, Inv
  <2>2. page.live => RevisionOK(r)'
    BY <1>1, <1>3, <2>1, Sets DEF Inv, Guarantee, RevisionOK, Materializing, HasSequencedHistory
  <2> QED BY <1>1, <1>3, <2>2, RevisionSound DEF Goto, Changes
<1>4. CASE Move(r, "check1", [loc[r] EXCEPT !.saw = TRUE])
  <2>1. pc'[r] = "check1"
    BY <1>1, <1>4, Moved DEF Inv
  <2>2. RevisionOK(r)'
    BY <2>1 DEF RevisionOK, Materializing
  <2> QED BY <1>1, <1>4, <2>2, RevisionSound DEF Changes
<1> QED BY <1>2, <1>3, <1>4 DEF AllocHistory

\* AllocCheckSecond leaves its process's locals, and every other's, meaning
\* what they did.
LEMMA AllocCheckSecondSound ==
    ASSUME Inv, NEW r \in Revs, AllocCheckSecond(r) PROVE Sound(r)
<1> DEFINE x == [loc[r] EXCEPT !.claims = @ + 1, !.at = clock]
<1>1. Quiet /\ page' = page /\ row' = row /\ pc[r] = "check2" /\ r \in Procs
  BY FrameQuiet, Sets DEF AllocCheckSecond, Frame
<1>2. CASE Finish(r)
  BY <1>1, <1>2, FinishSound DEF Sound, Changes
<1>3. CASE Unsequenced(r) /\ Move(r, "claim", x)
  <2>1. loc[r] \in LocType
    BY <1>1, TypedNow DEF Inv
  <2>2. x.n = loc[r].n /\ x.mode = loc[r].mode
    BY <2>1 DEF LocType
  <2> HIDE DEF x
  <2>3. pc'[r] = "claim" /\ loc'[r] = x
    BY <1>1, <1>3, Moved DEF Inv
  <2>4. page.live => RevisionOK(r)'
    BY <1>1, <1>3, <2>2, <2>3, Sets
       DEF Inv, Guarantee, RevisionOK, CounterRead, Materializing, Unsequenced
  <2> QED BY <1>1, <1>3, <2>4, RevisionSound DEF Changes
<1> QED BY <1>2, <1>3 DEF AllocCheckSecond

\* The fields of a claimed entry.
LEMMA EntryParts ==
    /\ \A r \in Revs, n \in Nat : /\ ContentEntry(r, n) \in Entry
                                  /\ ContentEntry(r, n).item = r /\ ContentEntry(r, n).seq = n
                                  /\ MigrationEntry(r, n) \in Entry
                                  /\ MigrationEntry(r, n).item = r
                                  /\ MigrationEntry(r, n).seq = n
    /\ \A c \in Cmds, n \in Nat, v \in Values :
         /\ EventEntry(c, n, v) \in Entry
         /\ EventEntry(c, n, v).item = c /\ EventEntry(c, n, v).seq = n
<1>1. \A c \in Cmds : Requested(c) \in Values
  BY ConstantsAssumption DEF Requested, Values
<1> QED BY <1>1 DEF ContentEntry, MigrationEntry, EventEntry, Entry, Payload

\* AllocClaim leaves its process's locals, and every other's, meaning what
\* they did.
LEMMA AllocClaimSound == ASSUME Inv, NEW r \in Revs, AllocClaim(r) PROVE Sound(r)
<1> DEFINE e == ContentEntry(r, loc[r].n + 1)
<1>1. /\ loc[r] \in LocType /\ page.seq \in Nat /\ r \in Procs /\ page \in PageType
      /\ row' = row /\ pc[r] = "claim" /\ Guarantee(r) /\ r \notin Cmds
      /\ loc[r].n \in Nat
  BY TypedNow, Sets DEF Inv, AllocClaim, LocType
<1>2. CASE page' = page /\ Again(r, "check1")
  <2>1. Quiet
    BY <1>1, <1>2 DEF Quiet, SamePlaceInPage
  <2>2. pc'[r] = "check1"
    BY <1>1, <1>2, Moved DEF Again, Inv
  <2>3. RevisionOK(r)'
    BY <2>2 DEF RevisionOK, Materializing
  <2> QED BY <1>2, <2>1, <2>3, RevisionSound DEF Again, Changes
<1>3. CASE /\ IF loc[r].mode = "promote" THEN PromoteMatches(r) ELSE NextMatches(r)
           /\ page' = [page EXCEPT !.seq = loc[r].n + 1, !.slot = e, !.tracking = "ready",
                                   !.started = IF loc[r].mode = "promote"
                                                 THEN loc[r].at + 1 ELSE @]
           /\ Materialize(r, "done", TRUE, loc[r])
  <2>1. e \in Entry /\ e.item = r /\ e.seq = loc[r].n + 1
    BY <1>1, EntryParts
  <2>2. /\ page.live /\ page.slot = None /\ page.seq = loc[r].n /\ row[r] = 0
        /\ page.tracking = "ready" \/ (page.seq = 0 /\ \A i \in Items : row[i] = 0)
    BY <1>1, <1>3, Sets DEF PromoteMatches, Promotable, NextMatches, Ready, Guarantee, RevisionOK
  <2>3. /\ page'.live /\ page'.tracking = "ready" /\ page'.slot = e
        /\ page'.seq = loc[r].n + 1
    BY <1>1, <1>3, <2>2 DEF PageType
  <2> HIDE DEF e
  <2>4. Claims(r)
    BY <1>1, <2>1, <2>2, <2>3 DEF Claims
  <2>5. pc'[r] = "m_read" /\ loc'[r].ret = "done"
    BY <1>1, <1>3, MaterializeMoved DEF Inv
  <2>6. RevisionOK(r)'
    BY <2>5 DEF RevisionOK, Materializing
  <2> QED BY <1>3, <2>4, <2>6, RevisionSound DEF Materialize, Changes
<1> QED BY <1>2, <1>3 DEF AllocClaim

\* AllocHeal leaves its process's locals, and every other's, meaning what they
\* did.
LEMMA AllocHealSound == ASSUME Inv, NEW r \in Revs, AllocHeal(r) PROVE Sound(r)
<1>1. Quiet /\ page' = page /\ row' = row /\ r \in Procs
  BY FrameQuiet, Sets DEF AllocHeal, Frame
<1>2. CASE Finish(r)
  BY <1>1, <1>2, FinishSound DEF Sound, Changes
<1>3. CASE row[r] \notin {0, loc[r].n + 1} /\ Goto(r, "heal_drain")
  <2>1. pc'[r] = "heal_drain" /\ loc'[r] = loc[r]
    BY <1>1, <1>3, Moved DEF Goto, Inv
  <2>2. RevisionOK(r)'
    BY <1>1, <1>3, <2>1 DEF RevisionOK, Materializing
  <2> QED BY <1>1, <1>3, <2>2, RevisionSound DEF Goto, Changes
<1> QED BY <1>2, <1>3 DEF AllocHeal

\* Without writes outside the protocol the self-heal finds nothing to drain.
LEMMA HealDrainSound == ASSUME Inv, NEW r \in Revs, HealDrain(r) PROVE Sound(r)
<1> DEFINE e == ContentEntry(r, loc[r].n + 1)
<1>1. /\ loc[r] \in LocType /\ r \in Procs /\ page \in PageType /\ Guarantee(r) /\ SlotInv
      /\ loc[r].n + 1 \in Nat
  BY TypedNow, CountersTyped, Sets DEF Inv, Shared
<1>2. e \in Entry /\ e.item = r /\ e.seq = loc[r].n + 1
  BY <1>1, EntryParts
<1>3. page.slot # e
  <2> SUFFICES ASSUME page.slot = e PROVE FALSE
    OBVIOUS
  <2>1. page.slot # None
    BY <1>2, NoneAssumption
  <2> HIDE DEF e
  <2> QED BY <1>1, <1>2, <2>1, Sets DEF HealDrain, SlotInv, Guarantee, RevisionOK
<1>4. page' = page
  BY <1>3 DEF HealDrain, Drained
<1>5. Quiet
  BY <1>4 DEF HealDrain, Quiet, SamePlaceInPage
<1> QED BY <1>1, <1>5, FinishSound DEF HealDrain, Sound, Changes

-----------------------------------------------------------------------------
(* Commands. *)

\* A command at l with locals x has CommandOK to show and nothing else.
LEMMA CommandSound ==
    ASSUME Inv, NEW c \in Cmds, NEW l, pc'[c] = l, OtherProcsStay(c),
           l \notin {"m_write", "m_drain"}, Changes(c), page'.live => CommandOK(c)'
    PROVE  Sound(c)
BY Sets DEF Sound, Guarantee, HolderOK, Holding

\* CmdRead leaves its process's locals, and every other's, meaning what they did.
LEMMA CmdReadSound == ASSUME Inv, NEW c \in Cmds, CmdRead(c) PROVE Sound(c)
<1>1. Quiet /\ page' = page /\ row' = row /\ pc[c] = "plan" /\ c \in Procs
  BY FrameQuiet, Sets DEF CmdRead, Frame
<1>2. loc[c] \in LocType /\ Guarantee(c) /\ Changes(c) /\ page.seq \in Nat
  BY <1>1, TypedNow DEF Inv, Changes
<1>3. page.live => row[c] = 0 /\ (page.slot # None => page.slot.item # c)
  BY <1>1, <1>2 DEF Guarantee, CommandOK, At
<1>4. CASE Finish(c)
  BY <1>1, <1>2, <1>4, FinishSound DEF Sound
<1>5. CASE Materialize(c, "plan", FALSE, [loc[c] EXCEPT !.assists = @ + 1])
  <2> DEFINE x == [loc[c] EXCEPT !.assists = @ + 1]
  <2>1. x \in LocType /\ Materialize(c, "plan", FALSE, x)
    BY <1>2, <1>5, AssistUpdate
  <2> HIDE DEF x
  <2>2. pc'[c] = "m_read" /\ loc'[c].ret = "plan" /\ OtherProcsStay(c)
    BY <1>1, <2>1, MaterializeMoved DEF Inv, OtherProcsStay
  <2>3. page'.live => CommandOK(c)'
    BY <1>1, <1>3, <2>2 DEF CommandOK, At, Materializing
  <2> QED BY <1>2, <2>2, <2>3, CommandSound
<1>6. CASE /\ page.live
           /\ Ready /\ PlanHasEvent(c) => page.slot = None
           /\ Move(c, "change", [loc[c] EXCEPT
                !.claims = @ + 1, !.n = page.seq, !.from = Observed(c),
                !.mode = IF Ready /\ PlanHasEvent(c) THEN "event" ELSE page.tracking])
  <2> DEFINE m == IF Ready /\ PlanHasEvent(c) THEN "event" ELSE page.tracking
             x == [loc[c] EXCEPT !.claims = @ + 1, !.n = page.seq, !.from = Observed(c),
                                 !.mode = m]
  <2>1. x.n = page.seq /\ x.from = Observed(c) /\ x.mode = m /\ Move(c, "change", x)
    BY <1>2, <1>6 DEF LocType
  <2>2. /\ m = "event" => Ready /\ PlanHasEvent(c)
        /\ m = "ready" => page.tracking = "ready" /\ ~PlanHasEvent(c)
    <3>1. page.tracking \in {"untracked", "ready"}
      BY <1>1, TypedNow DEF Inv, PageType
    <3> QED BY <1>6, <3>1 DEF Ready
  <2> HIDE DEF x, m
  <2>3. pc'[c] = "change" /\ loc'[c] = x /\ OtherProcsStay(c)
    BY <1>1, <2>1, Moved DEF Inv, OtherProcsStay
  <2>4. page'.live => CommandOK(c)'
    BY <1>1, <1>2, <1>3, <1>6, <2>1, <2>2, <2>3
       DEF CommandOK, CounterRead, At, Materializing, Ready, PlanHasEvent
  <2> QED BY <1>2, <2>3, <2>4, CommandSound
<1> QED BY <1>4, <1>5, <1>6 DEF CmdRead

\* A command that lost its compare-and-set may plan again.
LEMMA CommandAgain ==
    ASSUME Inv, NEW c \in Cmds, pc[c] = "change", Again(c, "plan"), page' = page, row' = row
    PROVE  Sound(c)
<1>1. pc'[c] = "plan" /\ OtherProcsStay(c) /\ Guarantee(c)
  BY Moved, Sets DEF Again, Inv, OtherProcsStay
<1>2. page'.live => CommandOK(c)'
  BY <1>1 DEF Guarantee, CommandOK, At, Materializing
<1>3. Changes(c)
  BY DEF Changes, Quiet, SamePlaceInPage
<1> QED BY <1>1, <1>2, <1>3, CommandSound

\* CmdRecord leaves its process's locals, and every other's, meaning what they
\* did.
LEMMA CmdRecordSound == ASSUME Inv, NEW c \in Cmds, CmdRecord(c) PROVE Sound(c)
<1>1. /\ c \in Procs /\ loc[c] \in LocType /\ page \in PageType /\ loc[c].from \in Values
      /\ loc[c].n \in Nat /\ row' = row /\ pc[c] = "change" /\ Guarantee(c)
  BY Sets, TypedNow DEF CmdRecord, Inv, LocalsTyped, LocalsTypedAt, LocType
<1>2. CASE page' = page /\ Again(c, "plan")
  BY <1>1, <1>2, CommandAgain
<1>3. CASE /\ NextMatches(c)
           /\ page' = [WithField(c, Requested(c)) EXCEPT
                          !.seq = loc[c].n + 1,
                          !.slot = EventEntry(c, loc[c].n + 1, loc[c].from)]
           /\ Materialize(c, "done", TRUE, loc[c])
  <2> DEFINE e == EventEntry(c, loc[c].n + 1, loc[c].from)
             w == WithField(c, Requested(c))
  <2>1. e \in Entry /\ e.item = c /\ e.seq = loc[c].n + 1
    BY <1>1, EntryParts
  <2>2. w \in PageType /\ w.live = page.live /\ w.tracking = page.tracking
    BY <1>1, WithFieldTyped DEF Inv, WithField, PageType
  <2>3. page' = [w EXCEPT !.seq = loc[c].n + 1, !.slot = e]
    BY <1>3
  <2> HIDE DEF e, w
  <2>4. /\ page.live /\ page.tracking = "ready" /\ page.slot = None
        /\ page.seq = loc[c].n /\ row[c] = 0
    BY <1>1, <1>3 DEF NextMatches, Ready, Guarantee, CommandOK
  <2>5. /\ page'.live /\ page'.tracking = "ready" /\ page'.slot = e
        /\ page'.seq = loc[c].n + 1
    BY <2>2, <2>3, <2>4 DEF PageType
  <2>6. Changes(c)
    BY <1>1, <2>1, <2>4, <2>5 DEF Claims, Changes
  <2>7. pc'[c] = "m_read" /\ loc'[c].ret = "done" /\ OtherProcsStay(c)
    BY <1>1, <1>3, MaterializeMoved DEF Inv, OtherProcsStay
  <2>8. CommandOK(c)'
    BY <2>7 DEF CommandOK, At, Materializing
  <2> QED BY <2>6, <2>7, <2>8, CommandSound
<1> QED BY <1>2, <1>3 DEF CmdRecord

\* CmdSilent leaves its process's locals, and every other's, meaning what they
\* did.
LEMMA CmdSilentSound == ASSUME Inv, NEW c \in Cmds, CmdSilent(c) PROVE Sound(c)
<1>1. c \in Procs /\ page \in PageType /\ row' = row /\ pc[c] = "change"
  BY Sets, TypedNow DEF CmdSilent, Inv
<1>2. CASE page' = page /\ Again(c, "plan")
  BY <1>1, <1>2, CommandAgain
<1>3. CASE page' = WithField(c, Requested(c)) /\ Finish(c)
  <2>1. Quiet
    BY <1>1, <1>3 DEF WithField, PageType, Quiet, SamePlaceInPage
  <2> QED BY <1>1, <1>3, <2>1, FinishSound DEF Sound, Changes
<1> QED BY <1>2, <1>3 DEF CmdSilent

-----------------------------------------------------------------------------
(* Repair runs. *)

\* A repair run at l with locals x has ScanOK to show and nothing else.
LEMMA ScanSound ==
    ASSUME Inv, NEW s \in Scans, NEW l, pc'[s] = l, OtherProcsStay(s),
           l \notin {"m_write", "m_drain"}, Changes(s), page'.live => ScanOK(s)'
    PROVE  Sound(s)
BY Sets DEF Sound, Guarantee, HolderOK, Holding

\* A scan may go on to its next Revision.
LEMMA SkipToSound ==
    ASSUME Inv, NEW s \in Scans, NEW R, SkipTo(s, R), Quiet,
           page.live => page.tracking = "ready"
    PROVE  Sound(s)
<1>1. s \in Procs /\ Changes(s)
  BY Sets DEF Changes
<1>2. CASE Finish(s)
  BY <1>1, <1>2, FinishSound DEF Sound
<1>3. CASE Move(s, "s_claim", [loc[s] EXCEPT !.todo = R, !.claims = 0])
  <2>1. pc'[s] = "s_claim" /\ OtherProcsStay(s)
    BY <1>1, <1>3, Moved DEF Inv, OtherProcsStay
  <2>2. page'.live => ScanOK(s)'
    BY <2>1 DEF Quiet, SamePlaceInPage, ScanOK, At, Materializing
  <2> QED BY <1>1, <2>1, <2>2, ScanSound
<1> QED BY <1>2, <1>3 DEF SkipTo

\* A repair run may start a materialization.
LEMMA ScanMaterialize ==
    ASSUME Inv, NEW s \in Scans, NEW l \in {"idle", "s_claim", "d_read"}, NEW o,
           NEW x \in LocType, Materialize(s, l, o, x), Changes(s),
           page'.live /\ l = "s_claim" => page'.tracking = "ready",
           page'.live /\ l = "d_read" => HasSequencedHistory'
    PROVE  Sound(s)
<1>1. pc'[s] = "m_read" /\ loc'[s].ret = l /\ OtherProcsStay(s)
  BY Sets, MaterializeMoved DEF Inv, OtherProcsStay
<1>2. page'.live => ScanOK(s)'
  BY <1>1 DEF ScanOK, At, Materializing
<1> QED BY <1>1, <1>2, ScanSound

\* Starting a repair run keeps its guarantee.
LEMMA RepairStartSound ==
    ASSUME Inv, NEW s \in Scans, RepairOutbox(s) \/ ScanStart(s) PROVE Sound(s)
<1>1. Quiet /\ page' = page /\ s \in Procs
  BY FrameQuiet, Sets DEF RepairOutbox, ScanStart, Frame
<1>2. CASE RepairOutbox(s)
  BY <1>1, <1>2, NoLocTyped, ScanMaterialize DEF RepairOutbox, Changes
<1>3. ASSUME NEW l \in {"rows", "d_history"}, Goto(s, l), l = "rows" => Ready
      PROVE  Sound(s)
  <2>1. pc'[s] = l /\ OtherProcsStay(s)
    BY <1>1, <1>3, Moved DEF Goto, Inv, OtherProcsStay
  <2>2. page'.live => ScanOK(s)'
    BY <1>1, <1>3, <2>1 DEF ScanOK, At, Materializing, Ready
  <2> QED BY <1>1, <2>1, <2>2, ScanSound DEF Changes
<1> QED BY <1>2, <1>3 DEF ScanStart

\* ScanRows leaves its process's locals, and every other's, meaning what they
\* did.
LEMMA ScanRowsSound == ASSUME Inv, NEW s \in Scans, ScanRows(s) PROVE Sound(s)
<1>1. /\ Quiet /\ page' = page /\ row' = row /\ s \in Procs /\ Guarantee(s)
      /\ pc[s] = "rows" /\ loc[s] \in LocType /\ CounterCovers /\ page.seq \in Nat
  BY FrameQuiet, Sets, TypedNow DEF ScanRows, Frame, Inv, Shared
<1>2. CASE Finish(s)
  BY <1>1, <1>2, FinishSound DEF Sound, Changes
<1>3. ASSUME NEW m \in Assigned, Move(s, "counter", [loc[s] EXCEPT !.top = m])
      PROVE  Sound(s)
  <2> DEFINE x == [loc[s] EXCEPT !.top = m]
  <2>1. x.top = m /\ Move(s, "counter", x)
    BY <1>1, <1>3 DEF LocType
  <2> HIDE DEF x
  <2>2. pc'[s] = "counter" /\ loc'[s] = x /\ OtherProcsStay(s)
    BY <1>1, <2>1, Moved DEF Inv, OtherProcsStay
  <2>3. page.live => page.tracking = "ready" /\ m <= page.seq
    BY <1>1 DEF Guarantee, ScanOK, CounterCovers, Ready, Assigned
  <2>4. page'.live => ScanOK(s)'
    BY <1>1, <2>1, <2>2, <2>3 DEF ScanOK, At, Materializing
  <2> QED BY <1>1, <2>2, <2>4, ScanSound DEF Changes
<1> QED BY <1>2, <1>3 DEF ScanRows

\* ScanCounter leaves its process's locals, and every other's, meaning what
\* they did.
LEMMA ScanCounterSound == ASSUME Inv, NEW s \in Scans, ScanCounter(s) PROVE Sound(s)
<1>1. Quiet /\ pc[s] = "counter" /\ s \in Procs /\ Guarantee(s)
  BY FrameQuiet, Sets DEF ScanCounter, Frame, Inv
<1>2. CASE Finish(s)
  BY <1>1, <1>2, FinishSound DEF Sound, Changes
<1>3. CASE SkipTo(s, Missing(s))
  BY <1>1, <1>3, SkipToSound DEF Guarantee, ScanOK
<1> QED BY <1>2, <1>3 DEF ScanCounter

\* ScanClaimRead leaves its process's locals, and every other's, meaning what
\* they did.
LEMMA ScanClaimReadSound == ASSUME Inv, NEW s \in Scans, ScanClaimRead(s) PROVE Sound(s)
<1>1. /\ Quiet /\ page' = page /\ row' = row /\ s \in Procs /\ Guarantee(s)
      /\ pc[s] = "s_claim" /\ loc[s] \in LocType /\ page.seq \in Nat
      /\ page.live => page.tracking = "ready"
  BY FrameQuiet, Sets, TypedNow
     DEF ScanClaimRead, Frame, Inv, Guarantee, ScanOK, At
<1>2. PICK r \in loc[s].todo :
        \/ SkipTo(s, loc[s].todo \ {r})
        \/ Materialize(s, "s_claim", FALSE, [loc[s] EXCEPT !.claims = @ + 1])
        \/ /\ page.slot = None
           /\ Move(s, "s_check", [loc[s] EXCEPT !.n = page.seq, !.cur = r,
                                                !.claims = @ + 1])
  BY DEF ScanClaimRead
<1>3. CASE SkipTo(s, loc[s].todo \ {r})
  BY <1>1, <1>3, SkipToSound
<1>4. CASE Materialize(s, "s_claim", FALSE, [loc[s] EXCEPT !.claims = @ + 1])
  <2> DEFINE x == [loc[s] EXCEPT !.claims = @ + 1]
  <2>1. x \in LocType /\ Materialize(s, "s_claim", FALSE, x)
    BY <1>1, <1>4, AssistUpdate
  <2> HIDE DEF x
  <2> QED BY <1>1, <2>1, ScanMaterialize DEF Changes
<1>5. CASE /\ page.slot = None
           /\ Move(s, "s_check", [loc[s] EXCEPT !.n = page.seq, !.cur = r,
                                                !.claims = @ + 1])
  <2> DEFINE x == [loc[s] EXCEPT !.n = page.seq, !.cur = r, !.claims = @ + 1]
  <2>1. x.n = page.seq /\ Move(s, "s_check", x)
    BY <1>1, <1>5 DEF LocType
  <2> HIDE DEF x
  <2>2. pc'[s] = "s_check" /\ loc'[s] = x /\ OtherProcsStay(s)
    BY <1>1, <2>1, Moved DEF Inv, OtherProcsStay
  <2>3. page'.live => ScanOK(s)'
    BY <1>1, <1>5, <2>1, <2>2 DEF ScanOK, CounterRead, At, Materializing
  <2> QED BY <1>1, <2>2, <2>3, ScanSound DEF Changes
<1> QED BY <1>2, <1>3, <1>4, <1>5

\* ScanCheck leaves its process's locals, and every other's, meaning what they
\* did.
LEMMA ScanCheckSound == ASSUME Inv, NEW s \in Scans, ScanCheck(s) PROVE Sound(s)
<1>1. /\ Quiet /\ page' = page /\ row' = row /\ s \in Procs /\ Guarantee(s)
      /\ pc[s] = "s_check"
      /\ page.live => CounterRead(s)
  BY FrameQuiet, Sets DEF ScanCheck, Frame, Inv, Guarantee, ScanOK
<1>2. CASE Unsequenced(loc[s].cur) /\ Goto(s, "s_cas")
  <2>1. pc'[s] = "s_cas" /\ loc'[s] = loc[s] /\ OtherProcsStay(s)
    BY <1>1, <1>2, Moved DEF Goto, Inv, OtherProcsStay
  <2>2. page'.live => ScanOK(s)'
    BY <1>1, <1>2, <2>1 DEF ScanOK, CounterRead, At, Materializing, Unsequenced
  <2> QED BY <1>1, <2>1, <2>2, ScanSound DEF Changes
<1>3. CASE SkipTo(s, loc[s].todo \ {loc[s].cur})
  BY <1>1, <1>3, SkipToSound DEF CounterRead
<1> QED BY <1>2, <1>3 DEF ScanCheck

\* ScanClaim leaves its process's locals, and every other's, meaning what they
\* did.
LEMMA ScanClaimSound == ASSUME Inv, NEW s \in Scans, ScanClaim(s) PROVE Sound(s)
<1> DEFINE rest == loc[s].todo \ {loc[s].cur}
           e == MigrationEntry(loc[s].cur, loc[s].n + 1)
           l == IF rest = {} THEN "idle" ELSE "s_claim"
<1>1. /\ s \in Procs /\ loc[s] \in LocType /\ loc[s].cur \in Revs /\ page \in PageType
      /\ loc[s].n \in Nat /\ Guarantee(s) /\ row' = row /\ pc[s] = "s_cas"
      /\ page.live => CounterRead(s)
  BY Sets, TypedNow
     DEF ScanClaim, Inv, LocalsTyped, LocalsTypedAt, LocType, Guarantee, ScanOK
<1>2. CASE page' = page /\ Again(s, "s_claim")
  <2>1. pc'[s] = "s_claim" /\ OtherProcsStay(s)
    BY <1>1, <1>2, Moved DEF Again, Inv, OtherProcsStay
  <2>2. page'.live => ScanOK(s)'
    BY <1>1, <1>2, <2>1 DEF ScanOK, CounterRead, At, Materializing
  <2>3. Quiet
    BY <1>1, <1>2 DEF Quiet, SamePlaceInPage
  <2> QED BY <2>1, <2>2, <2>3, ScanSound DEF Changes
<1>3. CASE /\ ScanMatches(s)
           /\ page' = [page EXCEPT !.seq = loc[s].n + 1, !.slot = e]
           /\ Materialize(s, l, TRUE, [loc[s] EXCEPT !.todo = rest, !.claims = 0])
  <2> DEFINE x == [loc[s] EXCEPT !.todo = rest, !.claims = 0]
  <2>1. x \in LocType /\ Materialize(s, l, TRUE, x) /\ l \in {"idle", "s_claim"}
    BY <1>1, <1>3 DEF LocType
  <2>2. e \in Entry /\ e.item = loc[s].cur /\ e.seq = loc[s].n + 1
    BY <1>1, EntryParts
  <2> HIDE DEF x, e, l
  <2>3. /\ page.live /\ page.tracking = "ready" /\ page.slot = None
        /\ page.seq = loc[s].n /\ row[e.item] = 0 /\ e.item \notin Cmds
    BY <1>1, <1>3, <2>2, Sets DEF ScanMatches, CounterRead, Guarantee, ScanOK
  <2>4. /\ page'.live /\ page'.tracking = "ready" /\ page'.slot = e
        /\ page'.seq = loc[s].n + 1
    BY <1>1, <1>3, <2>3 DEF PageType
  <2>5. Changes(s)
    BY <1>1, <2>2, <2>3, <2>4 DEF Claims, Changes
  <2> QED BY <2>1, <2>4, <2>5, ScanMaterialize
<1> QED BY <1>2, <1>3 DEF ScanClaim

\* The first reads of a demoted page keep the guarantee of the run.
LEMMA DemotedLookSound ==
    ASSUME Inv, NEW s \in Scans, DemotedHistory(s) \/ DemotedRead(s) PROVE Sound(s)
<1>1. /\ Quiet /\ page' = page /\ row' = row /\ s \in Procs /\ Guarantee(s)
      /\ loc[s] \in LocType
  BY FrameQuiet, Sets, TypedNow DEF DemotedHistory, DemotedRead, Frame, Inv
<1>2. page.live => HasSequencedHistory \/ Finish(s)
  BY <1>1 DEF DemotedHistory, DemotedRead, Guarantee, ScanOK, At
<1>3. CASE Finish(s)
  BY <1>1, <1>3, FinishSound DEF Sound, Changes
<1>4. CASE page.live /\ HasSequencedHistory /\ Goto(s, "d_read")
  <2>1. pc'[s] = "d_read" /\ OtherProcsStay(s)
    BY <1>1, <1>4, Moved DEF Goto, Inv, OtherProcsStay
  <2>2. ScanOK(s)'
    BY <1>1, <1>4, <2>1 DEF ScanOK, At, Materializing, HasSequencedHistory
  <2> QED BY <1>1, <2>1, <2>2, ScanSound DEF Changes
<1>5. CASE ~page.live /\ Goto(s, "d_read")
  <2>1. pc'[s] = "d_read" /\ OtherProcsStay(s)
    BY <1>1, <1>5, Moved DEF Goto, Inv, OtherProcsStay
  <2> QED BY <1>1, <1>5, <2>1, ScanSound DEF Changes
<1>6. CASE DemotedRead(s) /\ HasSequencedHistory
           /\ Materialize(s, "d_read", FALSE, [loc[s] EXCEPT !.assists = 1])
  <2> DEFINE x == [loc[s] EXCEPT !.assists = 1]
  <2>1. x \in LocType /\ Materialize(s, "d_read", FALSE, x)
    BY <1>1, <1>6 DEF LocType
  <2>2. HasSequencedHistory'
    BY <1>1, <1>6 DEF HasSequencedHistory
  <2> HIDE DEF x
  <2> QED BY <1>1, <2>1, <2>2, ScanMaterialize DEF Changes
<1>7. CASE /\ page.slot = None /\ HasSequencedHistory
           /\ Move(s, "d_rows", [loc[s] EXCEPT !.n = page.seq, !.at = page.started])
  <2> DEFINE x == [loc[s] EXCEPT !.n = page.seq, !.at = page.started]
  <2>1. Move(s, "d_rows", x)
    BY <1>7
  <2> HIDE DEF x
  <2>2. pc'[s] = "d_rows" /\ OtherProcsStay(s)
    BY <1>1, <2>1, Moved DEF Inv, OtherProcsStay
  <2>3. ScanOK(s)'
    BY <1>1, <1>7, <2>2 DEF ScanOK, At, Materializing, HasSequencedHistory
  <2> QED BY <1>1, <2>2, <2>3, ScanSound DEF Changes
<1> QED BY <1>2, <1>3, <1>4, <1>5, <1>6, <1>7 DEF DemotedHistory, DemotedRead

\* DemotedRows leaves its process's locals, and every other's, meaning what
\* they did.
LEMMA DemotedRowsSound == ASSUME Inv, NEW s \in Scans, DemotedRows(s) PROVE Sound(s)
<1>1. /\ Quiet /\ page' = page /\ row' = row /\ s \in Procs /\ Guarantee(s)
      /\ loc[s] \in LocType /\ pc[s] = "d_rows"
  BY FrameQuiet, Sets, TypedNow DEF DemotedRows, Frame, Inv
<1>2. CASE Finish(s)
  BY <1>1, <1>2, FinishSound DEF Sound, Changes
<1>3. ASSUME NEW start, NEW m, IsMaxAssigned(m),
             Move(s, "d_cas", [loc[s] EXCEPT !.at = start, !.top = m])
      PROVE  Sound(s)
  <2> DEFINE x == [loc[s] EXCEPT !.at = start, !.top = m]
  <2>1. x.top = m /\ Move(s, "d_cas", x)
    BY <1>1, <1>3 DEF LocType
  <2> HIDE DEF x
  <2>2. pc'[s] = "d_cas" /\ loc'[s] = x /\ OtherProcsStay(s)
    BY <1>1, <2>1, Moved DEF Inv, OtherProcsStay
  <2>3. page'.live => ScanOK(s)'
    BY <1>1, <1>3, <2>1, <2>2
       DEF Guarantee, ScanOK, At, Materializing, HasSequencedHistory, IsMaxAssigned
  <2> QED BY <1>1, <2>2, <2>3, ScanSound DEF Changes
<1> QED BY <1>2, <1>3 DEF DemotedRows

\* DemotedRestore leaves its process's locals, and every other's, meaning what
\* they did.
LEMMA DemotedRestoreSound == ASSUME Inv, NEW s \in Scans, DemotedRestore(s) PROVE Sound(s)
<1>1. /\ s \in Procs /\ Guarantee(s) /\ loc[s].n \in Nat /\ loc[s].top \in Nat
      /\ page \in PageType /\ page.seq \in Nat /\ row' = row /\ pc[s] = "d_cas"
  BY Sets, TypedNow DEF DemotedRestore, Inv, LocType
<1>2. CASE Finish(s) /\ page' = page
  <2>1. Quiet
    BY <1>1, <1>2 DEF Quiet, SamePlaceInPage
  <2> QED BY <1>1, <1>2, <2>1, FinishSound DEF Sound, Changes
<1>3. CASE /\ RestoreMatches(s)
           /\ page' = [page EXCEPT !.tracking = "ready", !.started = loc[s].at,
                          !.seq = IF loc[s].top > loc[s].n THEN loc[s].top ELSE @]
           /\ Move(s, "rows", [NoLoc EXCEPT !.mode = "restored"])
  <2>1. /\ page'.live = page.live /\ page'.tracking = "ready" /\ page'.slot = page.slot
        /\ page'.seq = IF loc[s].top > loc[s].n THEN loc[s].top ELSE page.seq
    BY <1>1, <1>3 DEF PageType
  <2>2. /\ page.slot = None /\ HasSequencedHistory
        /\ \A i \in Items : row[i] <= loc[s].top
    BY <1>1, <1>3 DEF RestoreMatches, Guarantee, ScanOK
  <2>3. \A i \in Items : row[i] \in Nat
    BY DEF Inv, Typed, TypeOK
  <2>4. page.tracking = "untracked" /\ page.seq = loc[s].n
    BY <1>3 DEF RestoreMatches
  <2>5. page'.seq >= page.seq /\ \A i \in Items : row[i] <= page'.seq
    BY <1>1, <2>1, <2>2, <2>3, <2>4
  <2>6. Changes(s)
    BY <1>1, <2>1, <2>2, <2>4, <2>5 DEF Restores, Changes
  <2>7. pc'[s] = "rows" /\ OtherProcsStay(s)
    BY <1>1, <1>3, Moved DEF Inv, OtherProcsStay
  <2>8. ScanOK(s)'
    BY <2>1, <2>7 DEF ScanOK, At, Materializing
  <2> QED BY <2>6, <2>7, <2>8, ScanSound
<1> QED BY <1>2, <1>3 DEF DemotedRestore

-----------------------------------------------------------------------------
(* Deletions and faults. *)

\* A deletion leaves nothing to guarantee.
LEMMA DeleteSound == ASSUME Inv, NEW d \in Deleters, DeleteStep(d) PROVE Sound(d)
<1>1. d \in Procs /\ Guarantee(d) /\ page \in PageType
  BY Sets, TypedNow DEF Inv
<1>2. \E l \in {"revisions", "events", "done"} : Goto(d, l)
  BY DEF DeleteStep, DeletePage, RemoveRevisions, PurgeEvents
<1>3. OtherProcsStay(d)
  BY <1>1, <1>2, Moved DEF Goto, Inv, OtherProcsStay
<1>4. Gone
  <2>1. CASE DeletePage(d)
    BY <1>1, <2>1 DEF DeletePage, Gone, PageType
  <2>2. CASE RemoveRevisions(d) \/ PurgeEvents(d)
    <3>1. ~page.live /\ page' = page
      BY <1>1, <2>2 DEF RemoveRevisions, PurgeEvents, Guarantee
    <3> QED BY <3>1, DeadStays
  <2> QED BY <2>1, <2>2 DEF DeleteStep
<1> QED BY <1>3, <1>4 DEF Sound, Changes, Gone, Guarantee

\* A crash or a failed call keeps every guarantee.
LEMMA FaultSound ==
    ASSUME Inv, NEW p \in Procs, Crash(p) \/ CallFails(p) PROVE Sound(p)
<1>1. Quiet
  BY DEF Crash, CallFails, Quiet, SamePlaceInPage
<1>2. CASE Finish(p)
  BY <1>1, <1>2, FinishSound DEF Sound, Changes
<1>3. CASE Materializing(p) /\ Throw(p)
  BY <1>1, <1>3, ThrowSound DEF Sound, Changes
<1>4. CASE pc[p] = "revisions" /\ Goto(p, "events")
  <2>1. pc'[p] = "events" /\ OtherProcsStay(p)
    BY <1>4, Moved DEF Goto, Inv, OtherProcsStay
  <2>2. Guarantee(p)
    BY DEF Inv
  <2>3. Guarantee(p)'
    BY <1>1, <1>4, <2>1, <2>2, Sets
       DEF Quiet, SamePlaceInPage, Guarantee, HolderOK, Holding, RevisionOK, CommandOK,
           ScanOK, At, Materializing
  <2> QED BY <1>1, <2>1, <2>3 DEF Sound, Changes
<1> QED BY <1>2, <1>3, <1>4 DEF Crash, CallFails, Materializing

-----------------------------------------------------------------------------
(* The invariant, for a system in which nothing writes outside the protocol. *)

\* The invariant holds in every state a deployment can start in.
LEMMA InitInv == Init => Inv
<1> SUFFICES ASSUME Init PROVE Inv
    OBVIOUS
<1>1. Typed
  BY InitTyped
<1>2. ASSUME NEW p \in Procs PROVE pc[p] \in {"done", "prepare", "plan", "idle"}
  BY DEF Init, Start
<1>3. /\ page \in PageType /\ row \in [Items -> Nat]
      /\ \A i \in Items : row[i] = 0 \/ (i = Legacy /\ row[i] = 1)
      /\ \A i \in Items : row[i] # 0 => page.slot = None
      /\ page.live
      /\ page.slot # None => page.slot.seq = 1 /\ page.slot.item = Legacy
      /\ page.tracking = "ready" => page.seq = 1
  BY <1>1 DEF Init, Typed, TypeOK
<1>4. Shared
  BY <1>3, SlotFields DEF Shared, SlotInv, RowsDistinct, CounterCovers, Ready
<1>5. ASSUME NEW p \in Procs PROVE Guarantee(p)
  <2>1. p \in Cmds => row[p] = 0 /\ (page.slot # None => page.slot.item # p)
    BY <1>3, Sets, ConstantsAssumption
  <2>2. p \in Revs => pc[p] \in {"done", "prepare"}
    BY DEF Init, Start
  <2>3. p \in Deleters => pc[p] \in {"idle", "done"}
    BY Sets DEF Init, Start
  <2>4. p \in Cmds => pc[p] \in {"done", "plan"}
    BY Sets DEF Init, Start
  <2>5. p \in Scans => pc[p] \in {"done", "idle"}
    BY Sets DEF Init, Start
  <2> QED BY <2>1, <2>2, <2>3, <2>4, <2>5, Sets
       DEF Guarantee, HolderOK, Holding, RevisionOK, CommandOK, ScanOK, At, Materializing
<1> QED BY <1>1, <1>4, <1>5 DEF Inv

\* Every step is one process's, save the passing of time and the stutter.
LEMMA StepSound ==
    ASSUME Inv, Stray = {}, Next
    PROVE  (\E p \in Procs : Sound(p)) \/ UNCHANGED <<page, row, pc, loc>>
<1>1. ASSUME NEW p \in Procs, MaterializeStep(p) PROVE Sound(p)
  BY <1>1, MReadSound, MWriteSound, MDrainSound DEF MaterializeStep
<1>2. ASSUME NEW r \in Revs, SaveStep(r) PROVE Sound(r)
  BY <1>1, <1>2, Sets, SaveSound, AllocReadSound, AllocHistorySound, AllocCheckSecondSound,
     AllocClaimSound, AllocHealSound, HealDrainSound DEF SaveStep
<1>3. ASSUME NEW r \in Revs, StrayWrite(r) PROVE FALSE
  BY <1>3 DEF StrayWrite
<1>4. ASSUME NEW c \in Cmds, CmdStep(c) PROVE Sound(c)
  BY <1>1, <1>4, Sets, CmdReadSound, CmdRecordSound, CmdSilentSound DEF CmdStep
<1>5. ASSUME NEW s \in Scans, RepairOutbox(s) \/ ScanStart(s) \/ RepairStep(s)
      PROVE  Sound(s)
  BY <1>1, <1>5, Sets, RepairStartSound, ScanRowsSound, ScanCounterSound,
     ScanClaimReadSound, ScanCheckSound, ScanClaimSound, DemotedLookSound,
     DemotedRowsSound, DemotedRestoreSound DEF RepairStep
<1>6. CASE Age
  BY <1>6 DEF Age
<1> QED BY <1>2, <1>3, <1>4, <1>5, <1>6, Sets, DeleteSound, FaultSound DEF Next

\* Every step preserves the invariant, writes outside the protocol excepted.
LEMMA NextInv == Stray = {} /\ Inv /\ [Next]_vars => Inv'
<1> SUFFICES ASSUME Stray = {}, Inv, [Next]_vars PROVE Inv'
    OBVIOUS
<1>1. Typed'
  BY NextTyped DEF Inv
<1>2. CASE \E p \in Procs : Sound(p)
  BY <1>1, <1>2, SoundSuffices
<1>3. CASE UNCHANGED <<page, row, pc, loc>>
  <2>1. Shared'
    BY <1>3 DEF Inv, Shared, SlotInv, RowsDistinct, CounterCovers, Ready
  <2>2. ASSUME NEW q \in Procs PROVE Guarantee(q)'
    BY <1>3 DEF Inv, Guarantee, HolderOK, Holding, RevisionOK, CounterRead,
       CommandOK, ScanOK, At, Materializing, HasSequencedHistory
  <2> QED BY <1>1, <2>1, <2>2 DEF Inv
<1> QED BY <1>2, <1>3, StepSound DEF vars

\* What every reachable state satisfies when nothing writes sequences outside the
\* protocol: the documents are sound, and whatever a process read before it was
\* interrupted still means what its next step takes it to mean.
THEOREM Invariance == ASSUME Stray = {} PROVE Spec => []Inv
<1>1. Inv /\ [Next]_vars => Inv'
  BY NextInv
<1> QED BY <1>1, InitInv, PTL DEF Spec

\* The entry in the slot is for an item without a place, or with this one.
LEMMA InvSettles == Inv => SlotCanSettle
BY DEF Inv, Shared, SlotInv, SlotCanSettle

\* What the outbox holds can always be stored: no save, command, repair run or
\* retry ever leaves the slot jammed, whatever crashes in between.
THEOREM SlotNeverJams == ASSUME Stray = {} PROVE Spec => []SlotCanSettle
BY Invariance, InvSettles, PTL

\* Distinct rows and a fresh staged sequence leave no place to two items.
LEMMA InvDistinct == Inv => NoSharedSequence
<1> SUFFICES ASSUME Inv, NEW i \in Items, NEW j \in Items,
                    PlaceOf(i) = PlaceOf(j), PlaceOf(i) # 0
             PROVE  i = j
  BY DEF NoSharedSequence
<1>1. page.live /\ SlotInv /\ RowsDistinct
  BY DEF Inv, Shared, PlaceOf
<1> QED BY <1>1 DEF PlaceOf, Staged, SlotInv, RowsDistinct

\* No two items of a page ever have the same place in its history, stored or
\* staged, however allocators, commands and repair runs interleave and retry.
THEOREM SequencesDistinct == ASSUME Stray = {} PROVE Spec => []NoSharedSequence
BY Invariance, InvDistinct, PTL

\* The counter read by a scan covers the rows it read before.
LEMMA InvNeverBlocks == Inv => NeverBlocksHealthyPage
<1> SUFFICES ASSUME Inv, NEW s \in Scans, pc[s] = "counter", page.live PROVE ~Blocks(s)
  BY DEF NeverBlocksHealthyPage
<1>1. loc[s].top \in Nat /\ page.seq \in Nat /\ loc[s].top <= page.seq
  BY Sets, TypedNow DEF Inv, LocType, Guarantee, ScanOK
<1> QED BY <1>1 DEF Blocks

\* A repair scan reads rows and counter at different times, and still never
\* takes a healthy page for a corrupt one.
THEOREM HealthyPagesScanned == ASSUME Stray = {} PROVE Spec => []NeverBlocksHealthyPage
BY Invariance, InvNeverBlocks, PTL

-----------------------------------------------------------------------------
(* The protocol implements the timeline. *)

ValueKept == page'.grant = page.grant /\ page'.status = page.status

\* A step of the timeline, or one it does not see.
Refines == [Timeline!Next]_(Timeline!vars)

\* A step that changes no place, value or counter is a stutter of the timeline.
LEMMA SamePlaces ==
    ASSUME \A i \in Items : PlaceOf(i)' = PlaceOf(i), SamePlaceInPage, ValueKept
    PROVE  Refines
BY DEF Refines, Timeline!vars, SamePlaceInPage, ValueKept

\* What a claim does to the places.
LEMMA ClaimPlaces ==
    ASSUME Inv, Typed', NEW e \in Entry, page.live, page.slot = None,
           row[e.item] = 0, e.seq = page.seq + 1, page'.live, page'.slot = e,
           page'.seq = e.seq, row' = row
    PROVE  /\ [i \in Items |-> PlaceOf(i)]'
                = [[i \in Items |-> PlaceOf(i)] EXCEPT ![e.item] = page.seq + 1]
           /\ PlaceOf(e.item) = 0
           /\ \A i \in Items : PlaceOf(i) = row[i]
<1>1. e.item \in Items /\ e.seq \in Nat /\ e # None
  BY EntryFields, NoneAssumption
<1>2. \A i \in Items : PlaceOf(i) = row[i]
  BY DEF PlaceOf, Staged
<1>3. \A i \in Items : PlaceOf(i)' = IF i = e.item THEN page.seq + 1 ELSE row[i]
  BY <1>1 DEF PlaceOf, Staged
<1> QED BY <1>1, <1>2, <1>3

\* Steps that leave the visible state alone.
LEMMA OrdinaryRefines ==
    ASSUME Inv, Typed', NEW p \in Procs, Changes(p), ValueKept,
           page'.live = page.live, ~page.live => page' = page,
           p \in Cmds => page'.seq = page.seq
    PROVE  Refines
<1>1. /\ page \in PageType /\ row \in [Items -> Nat] /\ page.seq \in Nat
      /\ page' \in PageType /\ SlotInv /\ CounterCovers
  BY DEF Inv, Shared, Typed, TypeOK, PageType
<1>2. CASE ~page.live
  BY <1>2 DEF Refines, Timeline!vars, PlaceOf
<1>3. CASE page.live /\ Quiet
  BY <1>3, SamePlaces DEF Quiet, SamePlaceInPage, PlaceOf, Staged
<1>4. CASE page.live /\ Claims(p)
  <2>1. PICK e \in Entry :
      /\ page.live /\ page.slot = None
      /\ page.tracking = "ready" \/ (page.seq = 0 /\ \A i \in Items : row[i] = 0)
      /\ row[e.item] = 0 /\ e.seq = page.seq + 1
      /\ e.item \in Cmds => e.item = p
      /\ page'.live /\ page'.tracking = "ready" /\ page'.slot = e /\ page'.seq = e.seq
      /\ row' = row
    BY <1>4 DEF Claims
  <2>2. e.item \in Revs
    BY <1>1, <2>1, EntryFields DEF Items
  <2>3. /\ [i \in Items |-> PlaceOf(i)]'
             = [[i \in Items |-> PlaceOf(i)] EXCEPT ![e.item] = page.seq + 1]
        /\ PlaceOf(e.item) = 0 /\ \A i \in Items : PlaceOf(i) = row[i]
    BY <2>1, ClaimPlaces
  <2>4. e.item \in Items
    BY <2>2, Sets
  <2>5. CASE page.tracking = "ready"
    <3>1. Timeline!AppendContent(e.item)
      BY <2>1, <2>3, <2>4, <2>5 DEF Timeline!AppendContent, Timeline!Append, ValueKept
    <3> QED BY <2>2, <3>1 DEF Refines, Timeline!Next
  <2>6. CASE page.tracking # "ready"
    <3>1. page.seq = 0 /\ page'.seq = 1 /\ page.seq + 1 = 1
      BY <2>1, <2>6
    <3>2. Timeline!Placed = {}
      BY <2>1, <2>3, <2>6 DEF Timeline!Placed, Timeline!Items, Items
    <3>3. Timeline!Open(e.item)
      BY <2>1, <2>3, <2>6, <3>1, <3>2 DEF Timeline!Open, ValueKept
    <3> QED BY <2>2, <3>3 DEF Refines, Timeline!Next
  <2> QED BY <2>5, <2>6
<1>5. CASE page.live /\ Stores
  <2>1. PICK e \in Entry :
      /\ page.slot = e /\ row[e.item] = 0 /\ row' = [row EXCEPT ![e.item] = e.seq]
      /\ page' = page
    BY <1>5 DEF Stores
  <2>2. \A i \in Items : PlaceOf(i)' = PlaceOf(i)
    BY <1>1, <1>5, <2>1, EntryFields, NoneAssumption DEF PlaceOf, Staged
  <2> QED BY <2>1, <2>2, SamePlaces DEF SamePlaceInPage
<1>6. CASE page.live /\ Drains
  <2>1. \A i \in Items : PlaceOf(i)' = PlaceOf(i)
    BY <1>1, <1>6 DEF Drains, SamePlaceInPage, PlaceOf, Staged
  <2> QED BY <1>6, <2>1, SamePlaces DEF Drains
<1>7. CASE page.live /\ Restores
  <2>1. \A i \in Items : PlaceOf(i)' = PlaceOf(i) /\ PlaceOf(i) = row[i]
    BY <1>1, <1>7 DEF Restores, PlaceOf, Staged
  <2>2. page'.seq \in Nat
    BY <1>1 DEF PageType
  <2>3. Timeline!Reopen
    BY <1>7, <2>1, <2>2
       DEF Restores, HasSequencedHistory, ValueKept, Timeline!Reopen, Timeline!Placed,
           Timeline!Items, Items
  <2> QED BY <2>3 DEF Refines, Timeline!Next
<1> QED BY <1>2, <1>3, <1>4, <1>5, <1>6, <1>7 DEF Changes, Gone

\* The steps that take effect on the page without changing what a reader sees.
LEMMA StepOrdinary ==
    ASSUME Inv, NEW p \in Procs,
           \/ MaterializeStep(p)
           \/ p \in Revs /\ SaveStep(p)
           \/ p \in Cmds /\ CmdRead(p)
           \/ p \in Scans /\ (RepairOutbox(p) \/ ScanStart(p) \/ RepairStep(p))
           \/ Crash(p) \/ CallFails(p)
    PROVE  /\ ValueKept /\ page'.live = page.live
           /\ (~page.live => page' = page)
           /\ p \in Cmds => page'.seq = page.seq
<1>1. page \in PageType /\ (page.slot # None => page.live)
  BY DEF Inv, Shared, SlotInv, Typed, TypeOK
<1>2. ASSUME NEW e \in Entry, page' = Drained(e)
      PROVE  /\ ValueKept /\ page'.live = page.live
             /\ (~page.live => page' = page)
             /\ page'.seq = page.seq
  BY <1>1, <1>2, NoneAssumption DEF Drained, PageType, ValueKept
<1>3. CASE page' = page
  BY <1>3 DEF ValueKept
<1>4. CASE MaterializeStep(p)
  <2>1. MDrain(p) => loc[p].entry \in Entry
    BY TypedNow DEF Inv, MDrain, LocalsTyped, LocalsTypedAt
  <2> QED BY <1>2, <1>3, <1>4, <2>1 DEF MaterializeStep, MRead, MWrite, MDrain
<1>5. CASE p \in Revs /\ SaveStep(p) /\ ~MaterializeStep(p)
  <2>1. CASE MovePointer(p) \/ AllocClaim(p)
    BY <1>1, <1>5, <2>1, Sets DEF MovePointer, AllocClaim, PromoteMatches, Promotable,
       NextMatches, Ready, PageType, ValueKept
  <2>2. CASE HealDrain(p)
    <3>1. loc[p].n + 1 \in Nat
      BY TypedNow, CountersTyped DEF Inv
    <3> QED BY <1>2, <1>5, <2>2, <3>1, EntryParts, Sets DEF HealDrain
  <2> QED BY <1>3, <1>5, <2>1, <2>2 DEF SaveStep, PrepareRevision, SaveRevision,
             AllocCheckFirst, AllocRead, AllocHistory, AllocCheckSecond, AllocHeal
<1>6. CASE p \in Scans /\ RepairStep(p) /\ ~MaterializeStep(p)
  <2>1. CASE ScanClaim(p) \/ DemotedRestore(p)
    BY <1>1, <1>6, <2>1, Sets DEF ScanClaim, ScanMatches, DemotedRestore, RestoreMatches,
       PageType, ValueKept
  <2> QED BY <1>3, <1>6, <2>1 DEF RepairStep, ScanRows, ScanCounter, ScanClaimRead,
             ScanCheck, DemotedHistory, DemotedRead, DemotedRows
<1>7. CASE (p \in Cmds /\ CmdRead(p)) \/ RepairOutbox(p) \/ ScanStart(p) \/ Crash(p) \/ CallFails(p)
  BY <1>3, <1>7 DEF CmdRead, RepairOutbox, ScanStart, Crash, CallFails
<1> QED BY <1>4, <1>5, <1>6, <1>7

\* CmdRecord is a step of the timeline or a stutter.
LEMMA CmdRecordRefines == ASSUME Inv, Typed', NEW c \in Cmds, CmdRecord(c) PROVE Refines
<1>1. /\ c \in Procs /\ loc[c] \in LocType /\ page \in PageType /\ loc[c].from \in Values
      /\ loc[c].n \in Nat /\ row' = row /\ pc[c] = "change" /\ Guarantee(c) /\ c \in Items
  BY Sets, TypedNow DEF CmdRecord, Inv, LocalsTyped, LocalsTypedAt, LocType
<1>2. CASE page' = page
  BY <1>1, <1>2, SamePlaces DEF PlaceOf, Staged, SamePlaceInPage, ValueKept
<1>3. CASE /\ NextMatches(c) /\ Observed(c) = loc[c].from
           /\ page' = [WithField(c, Requested(c)) EXCEPT
                          !.seq = loc[c].n + 1,
                          !.slot = EventEntry(c, loc[c].n + 1, loc[c].from)]
  <2> DEFINE e == EventEntry(c, loc[c].n + 1, loc[c].from)
             w == WithField(c, Requested(c))
  <2>1. e \in Entry /\ e.item = c /\ e.seq = loc[c].n + 1
    BY <1>1, EntryParts
  <2>2. /\ w \in PageType /\ w.live = page.live /\ w.tracking = page.tracking
        /\ c \in Publishers => w.status = Requested(c) /\ w.grant = page.grant
        /\ c \notin Publishers => w.grant = Requested(c) /\ w.status = page.status
    BY <1>1, WithFieldTyped DEF Inv, WithField, PageType
  <2>3. page' = [w EXCEPT !.seq = loc[c].n + 1, !.slot = e]
    BY <1>3
  <2> HIDE DEF e, w
  <2>4. /\ page.live /\ page.tracking = "ready" /\ page.slot = None
        /\ page.seq = loc[c].n /\ row[c] = 0
        /\ Observed(c) # Requested(c)
    BY <1>1, <1>3 DEF NextMatches, Ready, Guarantee, CommandOK, CmdRecord
  <2>5. /\ page'.live /\ page'.tracking = "ready" /\ page'.slot = e
        /\ page'.seq = loc[c].n + 1 /\ page'.grant = w.grant /\ page'.status = w.status
    BY <2>2, <2>3, <2>4 DEF PageType
  <2>6. /\ [i \in Items |-> PlaceOf(i)]'
             = [[i \in Items |-> PlaceOf(i)] EXCEPT ![c] = page.seq + 1]
        /\ PlaceOf(c) = 0
    BY <1>1, <2>1, <2>4, <2>5, ClaimPlaces
  <2>7. <<page.grant, page.status>>' # <<page.grant, page.status>>
    BY <2>2, <2>4, <2>5 DEF Observed
  <2>8. Timeline!Change(c)
    BY <1>1, <2>4, <2>5, <2>6, <2>7 DEF Timeline!Change, Timeline!Append
  <2> QED BY <2>8 DEF Refines, Timeline!Next
<1> QED BY <1>2, <1>3 DEF CmdRecord

\* CmdSilent is a step of the timeline or a stutter.
LEMMA CmdSilentRefines == ASSUME Inv, NEW c \in Cmds, CmdSilent(c) PROVE Refines
<1>1. /\ c \in Procs /\ page \in PageType /\ row' = row /\ pc[c] = "change" /\ Guarantee(c)
      /\ WithField(c, Requested(c)) \in PageType
  BY Sets, TypedNow, WithFieldTyped DEF CmdSilent, Inv
<1>2. CASE page' = page
  BY <1>1, <1>2, SamePlaces DEF PlaceOf, Staged, SamePlaceInPage, ValueKept
<1>3. CASE SilentMatches(c) /\ page' = WithField(c, Requested(c))
  <2>1. /\ page'.live = page.live /\ page'.tracking = page.tracking /\ page'.seq = page.seq
        /\ page'.slot = page.slot
    BY <1>1, <1>3 DEF WithField, PageType
  <2>2. \A i \in Items : PlaceOf(i)' = PlaceOf(i)
    BY <1>1, <2>1 DEF PlaceOf, Staged
  <2>3. CASE page.tracking = "ready"
    <3>1. Observed(c) = Requested(c)
      BY <1>1, <1>3, <2>3 DEF SilentMatches, Guarantee, CommandOK
    <3>2. ValueKept
      BY <1>1, <1>3, <3>1 DEF Observed, WithField, PageType, ValueKept
    <3> QED BY <2>1, <2>2, <3>2, SamePlaces DEF SamePlaceInPage
  <2>4. CASE page.tracking # "ready"
    <3>1. page.live
      BY <1>3 DEF SilentMatches
    <3>2. Timeline!Edit
      BY <2>1, <2>2, <2>4, <3>1 DEF Timeline!Edit
    <3> QED BY <3>2 DEF Refines, Timeline!Next
  <2> QED BY <2>3, <2>4
<1> QED BY <1>2, <1>3 DEF CmdSilent

\* Delete is a step of the timeline or a stutter.
LEMMA DeleteRefines == ASSUME Inv, NEW d \in Deleters, DeleteStep(d) PROVE Refines
<1>1. Guarantee(d) /\ page \in PageType /\ (page.slot # None => page.live)
  BY Sets DEF Inv, Shared, SlotInv, Typed, TypeOK
<1>2. CASE ~page.live
  <2>1. /\ ~page'.live /\ page'.seq = page.seq /\ page'.tracking = page.tracking
        /\ page'.grant = page.grant /\ page'.status = page.status
    BY <1>1, <1>2 DEF DeleteStep, DeletePage, RemoveRevisions, PurgeEvents, PageType
  <2> QED BY <1>2, <2>1 DEF Refines, Timeline!vars, PlaceOf
<1>3. CASE page.live
  <2>1. DeletePage(d)
    BY <1>1, <1>3 DEF DeleteStep, RemoveRevisions, PurgeEvents, Guarantee
  <2>2. /\ ~page'.live /\ page'.seq = page.seq /\ page'.tracking = page.tracking
        /\ page'.grant = page.grant /\ page'.status = page.status
    BY <1>1, <2>1 DEF DeletePage, PageType
  <2>3. Timeline!Remove
    BY <1>3, <2>2 DEF Timeline!Remove, Timeline!Items, Items, PlaceOf
  <2> QED BY <2>3 DEF Refines, Timeline!Next
<1> QED BY <1>2, <1>3

\* Every step is a step of the timeline or a stutter.
LEMMA StepRefines == ASSUME Inv, Stray = {}, [Next]_vars PROVE Refines
<1>1. Typed'
  BY NextTyped DEF Inv
<1>2. CASE UNCHANGED <<page, row>>
  BY <1>2, SamePlaces DEF PlaceOf, Staged, SamePlaceInPage, ValueKept
<1>3. ASSUME NEW p \in Procs,
             \/ MaterializeStep(p)
             \/ p \in Revs /\ SaveStep(p)
             \/ p \in Cmds /\ CmdRead(p)
             \/ p \in Scans /\ (RepairOutbox(p) \/ ScanStart(p) \/ RepairStep(p))
             \/ Crash(p) \/ CallFails(p)
      PROVE  Refines
  <2>1. Changes(p)
    BY <1>3, MReadSound, MWriteSound, MDrainSound, SaveSound, AllocReadSound,
       AllocHistorySound, AllocCheckSecondSound, AllocClaimSound, AllocHealSound,
       HealDrainSound, CmdReadSound, RepairStartSound, ScanRowsSound, ScanCounterSound,
       ScanClaimReadSound, ScanCheckSound, ScanClaimSound, DemotedLookSound,
       DemotedRowsSound, DemotedRestoreSound, FaultSound
       DEF Sound, MaterializeStep, SaveStep, RepairStep
  <2>2. /\ ValueKept /\ page'.live = page.live
        /\ (~page.live => page' = page)
        /\ p \in Cmds => page'.seq = page.seq
    BY <1>3, StepOrdinary
  <2> QED BY <1>1, <2>1, <2>2, OrdinaryRefines
<1>4. CASE Next
  BY <1>1, <1>2, <1>3, <1>4, Sets, CmdRecordRefines, CmdSilentRefines, DeleteRefines
     DEF Next, CmdStep, Age, StrayWrite
<1> QED BY <1>2, <1>4 DEF vars

\* The initial states are initial states of the timeline.
LEMMA InitRefines == ASSUME Init PROVE Timeline!Init
<1>1. Inv
  BY InitInv
<1>2. /\ page \in PageType /\ row \in [Items -> Nat] /\ page.seq \in Nat /\ Shared
  BY <1>1, TypedNow DEF Inv, Typed, TypeOK, PageType
<1>3. page.live
  BY DEF Init
<1>4. \A i \in Items : PlaceOf(i) \in Nat
  BY <1>2, SlotFields DEF PlaceOf, Staged
<1>5. \A i, j \in Items : PlaceOf(i) = PlaceOf(j) /\ PlaceOf(i) # 0 => i = j
  BY <1>1, InvDistinct DEF NoSharedSequence
<1>6. page.tracking = "ready" => \A i \in Items : PlaceOf(i) <= page.seq
  BY <1>2, <1>3 DEF Shared, CounterCovers, Ready, PlaceOf, Staged
<1> QED BY <1>2, <1>3, <1>4, <1>5, <1>6 DEF Timeline!Init, Timeline!Placed, Timeline!Items, Items

\* Each save, command, repair run and deletion takes effect at one instant:
\* storing and draining, by whoever does it and however often, cannot be seen.
THEOREM ImplementsTimeline == ASSUME Stray = {} PROVE Spec => TimelineSpec
<1>1. Inv /\ [Next]_vars => Refines
  BY StepRefines
<1> QED BY <1>1, Invariance, InitRefines, PTL DEF Spec, TimelineSpec, Timeline!Spec, Refines

-----------------------------------------------------------------------------
(* The recorded visibility changes chain.  What a reader sees of a command is
   in the slot or in its stored event; the two agree while both are there, and
   a page that is not tracked has no events at all. *)

Moves == Cmds \ Publishers

\* An event that is both staged and stored is stored as it was staged.
Detailed ==
    page.slot # None /\ page.slot.type = "page_event" /\ row[page.slot.item] # 0 =>
      detail[page.slot.item] = page.slot.payload

\* An untracked page has no events: an edit without one breaks no chain.
Unmoved == page.live /\ page.tracking = "untracked" => \A c \in Cmds : PlaceOf(c) = 0

ChainInv == VisibilityChain /\ Detailed /\ Unmoved

\* A chain nobody touches stays a chain.
LEMMA ChainKept ==
    ASSUME VisibilityChain, page'.grant = page.grant,
           \A c \in Moves : /\ PlaceOf(c)' = PlaceOf(c)
                            /\ PlaceOf(c) # 0 => PayloadOf(c)' = PayloadOf(c)
    PROVE  VisibilityChain'
BY DEF VisibilityChain, Moves

\* A chain to which the last link is added, from the grant there was to the
\* grant there is, stays a chain.
LEMMA ChainExtended ==
    ASSUME VisibilityChain, NEW c \in Moves, NEW n \in Nat \ {0},
           \A d \in Moves : PlaceOf(d) \in Nat /\ PlaceOf(d) < n,
           PlaceOf(c) = 0, PlaceOf(c)' = n,
           PayloadOf(c)'.from = page.grant, PayloadOf(c)'.to = page'.grant,
           \A d \in Moves : d # c => /\ PlaceOf(d)' = PlaceOf(d)
                                     /\ PlaceOf(d) # 0 => PayloadOf(d)' = PayloadOf(d)
    PROVE  VisibilityChain'
<1> DEFINE moved == {d \in Moves : PlaceOf(d) # 0}
           after(x) == {d \in moved : PlaceOf(d) > PlaceOf(x)}
           movedNow == {d \in Moves : PlaceOf(d)' # 0}
           afterNow(x) == {d \in movedNow : PlaceOf(d)' > PlaceOf(x)'}
           first(d, S) == \A e \in S : PlaceOf(d)' <= PlaceOf(e)'
<1>1. \A x \in moved : /\ after(x) = {} => PayloadOf(x).to = page.grant
                       /\ \A d \in after(x) : (\A e \in after(x) : PlaceOf(d) <= PlaceOf(e))
                             => PayloadOf(x).to = PayloadOf(d).from
  BY DEF VisibilityChain, Moves
<1>2. afterNow(c) = {}
  OBVIOUS
<1>3. ASSUME NEW x \in movedNow, x # c
      PROVE  x \in moved /\ c \in afterNow(x) /\ afterNow(x) = after(x) \cup {c}
  BY <1>3
<1>4. ASSUME NEW x \in movedNow, x # c, NEW d \in afterNow(x), first(d, afterNow(x))
      PROVE  PayloadOf(x)'.to = PayloadOf(d)'.from
  <2>1. /\ x \in moved /\ c \in afterNow(x) /\ afterNow(x) = after(x) \cup {c}
        /\ PayloadOf(x)' = PayloadOf(x)
    BY <1>3, <1>4
  <2>2. CASE d = c
    <3>1. after(x) = {}
      BY <1>4, <2>1, <2>2
    <3> QED BY <1>1, <2>1, <2>2, <3>1
  <2>3. CASE d # c
    <3>1. d \in after(x) /\ PayloadOf(d)' = PayloadOf(d)
      BY <2>1, <2>3
    <3>2. \A e \in after(x) : PlaceOf(d) <= PlaceOf(e)
      BY <1>4, <2>1, <2>3, <3>1
    <3> QED BY <1>1, <2>1, <3>1, <3>2
  <2> QED BY <2>2, <2>3
<1>5. ASSUME NEW x \in movedNow
      PROVE  /\ afterNow(x) = {} => PayloadOf(x)'.to = page'.grant
             /\ \A d \in afterNow(x) :
                  first(d, afterNow(x)) => PayloadOf(x)'.to = PayloadOf(d)'.from
  <2> HIDE DEF moved, after, movedNow, afterNow, first
  <2> QED BY <1>2, <1>3, <1>4
<1> QED BY <1>5 DEF VisibilityChain, Moves

\* How the stored events change: not at all, or the staged one is stored.
DetailFollows ==
    \/ detail' = detail /\ \A c \in Cmds : row'[c] = row[c]
    \/ \E e \in Entry : /\ page.slot = e /\ e.type = "page_event" /\ row[e.item] = 0
                        /\ row' = [row EXCEPT ![e.item] = e.seq]
                        /\ detail' = [detail EXCEPT ![e.item] = e.payload]

\* A materialization stores only what is still staged, as it is staged.
LEMMA MWriteFollows ==
    ASSUME Inv, page.live, NEW p \in Procs, MWrite(p) PROVE DetailFollows
<1> DEFINE e == loc[p].entry
<1>1. /\ e \in Entry /\ e.item \in Items /\ e.seq \in Nat /\ row \in [Items -> Nat]
      /\ Guarantee(p) /\ (e.type # "page_event" => e.item \in Revs)
  BY EntryFields DEF MWrite, Inv, Typed, TypeOK, LocalsTyped, LocalsTypedAt
<1>2. CASE e.type = "page_event"
  <2>1. row[e.item] = 0 => page.slot = e
    BY <1>1 DEF MWrite, Guarantee, HolderOK, Holding
  <2> QED BY <1>1, <1>2, <2>1 DEF MWrite, StoreEvent, DetailFollows
<1>3. CASE e.type # "page_event"
  BY <1>1, <1>3, Sets DEF MWrite, StampRevision, DetailFollows
<1> QED BY <1>2, <1>3

\* No other step of a process touches the stored events of a live page.
LEMMA StepFollows ==
    ASSUME Inv, page.live, NEW p \in Procs,
           \/ MaterializeStep(p)
           \/ p \in Revs /\ SaveStep(p)
           \/ p \in Cmds /\ CmdRead(p)
           \/ p \in Scans /\ (RepairOutbox(p) \/ ScanStart(p) \/ RepairStep(p))
           \/ Crash(p) \/ CallFails(p)
    PROVE  DetailFollows
<1>1. CASE UNCHANGED <<row, detail>>
  BY <1>1 DEF DetailFollows
<1>2. CASE MWrite(p)
  BY <1>2, MWriteFollows
<1>3. CASE p \in Revs /\ SaveStep(p) /\ ~MWrite(p)
  BY <1>1, <1>3 DEF SaveStep, PrepareRevision, SaveRevision, MovePointer, AllocCheckFirst,
     AllocRead, AllocHistory, AllocCheckSecond, AllocClaim, AllocHeal, HealDrain,
     MaterializeStep, MRead, MDrain
<1>4. CASE p \in Scans /\ RepairStep(p) /\ ~MWrite(p)
  BY <1>1, <1>4 DEF RepairStep, ScanRows, ScanCounter, ScanClaimRead, ScanCheck, ScanClaim,
     DemotedHistory, DemotedRead, DemotedRows, DemotedRestore, MaterializeStep, MRead, MDrain
<1>5. CASE ~MWrite(p) /\ \/ MaterializeStep(p) \/ (p \in Cmds /\ CmdRead(p))
                         \/ RepairOutbox(p) \/ ScanStart(p) \/ Crash(p) \/ CallFails(p)
  BY <1>1, <1>5 DEF MaterializeStep, MRead, MDrain, CmdRead, RepairOutbox, ScanStart, Crash,
     CallFails
<1> QED BY <1>2, <1>3, <1>4, <1>5

\* What is stored and staged of the commands, unchanged to a reader.
EventsKept ==
    \A c \in Cmds : /\ PlaceOf(c)' = PlaceOf(c)
                    /\ PlaceOf(c) # 0 => PayloadOf(c)' = PayloadOf(c)

\* Storing and draining, claims for Revisions and repairs keep the chain.
LEMMA OrdinaryChain ==
    ASSUME Inv, Typed', ChainInv, page.live, NEW p \in Procs, Changes(p), ValueKept,
           page'.live = page.live, p \in Cmds => page'.seq = page.seq, DetailFollows
    PROVE  ChainInv'
<1>1. /\ page \in PageType /\ row \in [Items -> Nat] /\ page.seq \in Nat
      /\ detail \in [Cmds -> Payload \cup {None}]
      /\ page' \in PageType /\ row' \in [Items -> Nat] /\ SlotInv
  BY DEF Inv, Shared, Typed, TypeOK, PageType
<1>2. row' = row => detail' = detail
  BY <1>1, EntryFields, NoneAssumption DEF DetailFollows, SlotInv
<1>3. CASE Quiet
  <2>1. EventsKept
    BY <1>1, <1>2, <1>3 DEF Quiet, SamePlaceInPage, PlaceOf, PayloadOf, Staged, EventsKept
  <2>2. Detailed' /\ Unmoved'
    BY <1>2, <1>3, <2>1 DEF Quiet, SamePlaceInPage, ChainInv, Detailed, Unmoved, EventsKept
  <2> QED BY <2>1, <2>2, ChainKept DEF ChainInv, ValueKept, EventsKept, Moves
<1>4. CASE Claims(p)
  <2>1. PICK e \in Entry :
      /\ page.slot = None /\ row[e.item] = 0 /\ e.seq = page.seq + 1
      /\ e.item \in Cmds => e.item = p
      /\ page'.live /\ page'.tracking = "ready" /\ page'.slot = e /\ page'.seq = e.seq
      /\ row' = row
    BY <1>4 DEF Claims
  <2>2. e.item \in Revs /\ e.item \notin Cmds /\ e.type # "page_event" /\ e # None
    BY <1>1, <2>1, EntryFields, NoneAssumption, Sets DEF Items
  <2>3. EventsKept
    BY <1>1, <1>2, <2>1, <2>2 DEF PlaceOf, PayloadOf, Staged, EventsKept
  <2>4. Detailed' /\ Unmoved'
    BY <2>1, <2>2 DEF Detailed, Unmoved
  <2> QED BY <2>3, <2>4, ChainKept DEF ChainInv, ValueKept, EventsKept, Moves
<1>5. CASE Stores
  <2>1. PICK e \in Entry :
      /\ page.slot = e /\ row[e.item] = 0 /\ row' = [row EXCEPT ![e.item] = e.seq]
      /\ page' = page
    BY <1>5 DEF Stores
  <2>2. /\ e.item \in Items /\ e.seq \in Nat /\ e # None /\ e.seq # 0
        /\ e.type = "page_event" => e.item \in Cmds
        /\ e.type # "page_event" => e.item \notin Cmds
    BY <1>1, <2>1, EntryFields, NoneAssumption, Sets DEF SlotInv
  <2>3. \A i \in Items : row'[i] = IF i = e.item THEN e.seq ELSE row[i]
    BY <1>1, <2>1, <2>2
  <2>4. \/ detail' = detail /\ \A c \in Cmds : row'[c] = row[c]
        \/ e.type = "page_event" /\ detail' = [detail EXCEPT ![e.item] = e.payload]
    BY <2>1 DEF DetailFollows
  <2>5. \A c \in Cmds : c # e.item => detail'[c] = detail[c]
    BY <1>1, <2>4
  <2>6. e.type = "page_event" => detail'[e.item] = e.payload
    BY <1>1, <2>1, <2>2, <2>3, <2>4
  <2>7. EventsKept
    BY <1>1, <2>1, <2>2, <2>3, <2>5, Sets DEF PlaceOf, PayloadOf, Staged, EventsKept
  <2>8. Detailed' /\ Unmoved'
    BY <2>1, <2>6, <2>7 DEF ChainInv, Detailed, Unmoved, EventsKept
  <2> QED BY <2>7, <2>8, ChainKept DEF ChainInv, ValueKept, EventsKept, Moves
<1>6. CASE Drains
  <2>1. page.slot # None /\ row[page.slot.item] = page.slot.seq /\ page.slot.seq # 0
    BY <1>1, <1>6 DEF Drains, SlotInv
  <2>2. \A c \in Cmds : page.slot.item = c => page.slot.type = "page_event"
    BY <1>1, <2>1, SlotFields, EntryFields, Sets
  <2>3. EventsKept
    BY <1>1, <1>2, <1>6, <2>1, <2>2
       DEF Drains, SamePlaceInPage, PlaceOf, PayloadOf, Staged, EventsKept, ChainInv, Detailed
  <2>4. Detailed' /\ Unmoved'
    BY <1>6, <2>3 DEF Drains, SamePlaceInPage, ChainInv, Detailed, Unmoved, EventsKept
  <2> QED BY <2>3, <2>4, ChainKept DEF ChainInv, ValueKept, EventsKept, Moves
<1>7. CASE Restores
  <2>1. EventsKept
    BY <1>1, <1>2, <1>7 DEF Restores, PlaceOf, PayloadOf, Staged, EventsKept
  <2>2. Detailed' /\ Unmoved'
    BY <1>7 DEF Restores, Detailed, Unmoved
  <2> QED BY <2>1, <2>2, ChainKept DEF ChainInv, ValueKept, EventsKept, Moves
<1> QED BY <1>3, <1>4, <1>5, <1>6, <1>7 DEF Changes, Gone

\* A recorded change is the last link: it starts from the grant the page has and
\* takes the place after every other.
LEMMA CmdRecordChain ==
    ASSUME Inv, Typed', ChainInv, NEW c \in Cmds, CmdRecord(c) PROVE ChainInv'
<1>1. /\ c \in Procs /\ loc[c] \in LocType /\ page \in PageType /\ loc[c].from \in Values
      /\ loc[c].n \in Nat /\ row' = row /\ detail' = detail /\ pc[c] = "change"
      /\ Guarantee(c) /\ c \in Items /\ row \in [Items -> Nat] /\ page.seq \in Nat
  BY Sets, TypedNow DEF CmdRecord, Inv, LocalsTyped, LocalsTypedAt, LocType, Typed, TypeOK
<1>2. CASE page' = page
  BY <1>1, <1>2, ChainKept DEF PlaceOf, PayloadOf, Staged, ChainInv, Detailed, Unmoved
<1>3. CASE /\ NextMatches(c) /\ Observed(c) = loc[c].from
           /\ page' = [WithField(c, Requested(c)) EXCEPT
                          !.seq = loc[c].n + 1,
                          !.slot = EventEntry(c, loc[c].n + 1, loc[c].from)]
  <2> DEFINE e == EventEntry(c, loc[c].n + 1, loc[c].from)
             w == WithField(c, Requested(c))
  <2>1. /\ e \in Entry /\ e.item = c /\ e.seq = loc[c].n + 1 /\ e # None
        /\ e.payload.from = loc[c].from /\ e.payload.to = Requested(c)
    <3>1. e \in Entry /\ e.item = c /\ e.seq = loc[c].n + 1
      BY <1>1, EntryParts
    <3>2. e.payload.from = loc[c].from /\ e.payload.to = Requested(c)
      BY DEF EventEntry
    <3> QED BY <3>1, <3>2, NoneAssumption
  <2>2. /\ w \in PageType /\ w.live = page.live /\ w.tracking = page.tracking
        /\ c \in Publishers => w.grant = page.grant
        /\ c \notin Publishers => w.grant = Requested(c) /\ Observed(c) = page.grant
    BY <1>1, WithFieldTyped DEF Inv, WithField, PageType, Observed
  <2>3. page' = [w EXCEPT !.seq = loc[c].n + 1, !.slot = e]
    BY <1>3
  <2> HIDE DEF e, w
  <2>4. /\ page.live /\ page.tracking = "ready" /\ page.slot = None
        /\ page.seq = loc[c].n /\ row[c] = 0
    BY <1>1, <1>3 DEF NextMatches, Ready, Guarantee, CommandOK
  <2>5. /\ page'.live /\ page'.tracking = "ready" /\ page'.slot = e
        /\ page'.seq = loc[c].n + 1 /\ page'.grant = w.grant
    BY <2>2, <2>3, <2>4 DEF PageType
  <2>6. /\ \A d \in Cmds : PlaceOf(d) = row[d] /\ PlaceOf(d) \in Nat /\ PlaceOf(d) <= page.seq
        /\ \A d \in Cmds \ {c} : PlaceOf(d)' = PlaceOf(d) /\ PayloadOf(d)' = PayloadOf(d)
    BY <1>1, <2>1, <2>4, <2>5, Sets
       DEF PlaceOf, PayloadOf, Staged, Inv, Shared, CounterCovers, Ready
  <2>7. /\ PlaceOf(c) = 0 /\ PlaceOf(c)' = page.seq + 1
        /\ PayloadOf(c)' = e.payload
    BY <1>1, <2>1, <2>4, <2>5, <2>6 DEF PlaceOf, PayloadOf, Staged
  <2>8. Detailed' /\ Unmoved'
    BY <1>1, <2>1, <2>4, <2>5 DEF Detailed, Unmoved
  <2>9. VisibilityChain'
    <3>1. CASE c \in Publishers
      BY <2>2, <2>5, <2>6, <3>1, ChainKept DEF ChainInv, Moves
    <3>2. CASE c \notin Publishers
      <4>1. page.seq + 1 \in Nat \ {0} /\ c \in Moves
        BY <1>1, <3>2 DEF Moves
      <4>2. \A d \in Moves : PlaceOf(d) \in Nat /\ PlaceOf(d) < page.seq + 1
        BY <1>1, <2>6 DEF Moves
      <4>3. PayloadOf(c)'.from = page.grant /\ PayloadOf(c)'.to = page'.grant
        BY <1>3, <2>1, <2>2, <2>5, <2>7, <3>2
      <4> QED BY <2>6, <2>7, <4>1, <4>2, <4>3, ChainExtended DEF ChainInv, Moves
    <3> QED BY <3>1, <3>2
  <2> QED BY <2>8, <2>9 DEF ChainInv
<1> QED BY <1>2, <1>3 DEF CmdRecord

\* A change without an event breaks no chain: it changes nothing, or the page has
\* no events.
LEMMA CmdSilentChain ==
    ASSUME Inv, ChainInv, NEW c \in Cmds, CmdSilent(c) PROVE ChainInv'
<1>1. /\ c \in Procs /\ page \in PageType /\ row' = row /\ detail' = detail
      /\ pc[c] = "change" /\ Guarantee(c) /\ WithField(c, Requested(c)) \in PageType
  BY Sets, TypedNow, WithFieldTyped DEF CmdSilent, Inv
<1>2. CASE page' = page
  BY <1>1, <1>2, ChainKept DEF PlaceOf, PayloadOf, Staged, ChainInv, Detailed, Unmoved
<1>3. CASE SilentMatches(c) /\ page' = WithField(c, Requested(c))
  <2>1. /\ page'.live = page.live /\ page'.tracking = page.tracking
        /\ page'.slot = page.slot /\ page.live
    BY <1>1, <1>3 DEF WithField, PageType, SilentMatches
  <2>2. \A d \in Cmds : PlaceOf(d)' = PlaceOf(d) /\ PayloadOf(d)' = PayloadOf(d)
    BY <1>1, <2>1 DEF PlaceOf, PayloadOf, Staged
  <2>3. Detailed' /\ Unmoved'
    BY <1>1, <2>1, <2>2 DEF ChainInv, Detailed, Unmoved
  <2>4. CASE page.tracking = "ready"
    <3>1. Observed(c) = Requested(c)
      BY <1>1, <1>3, <2>4 DEF SilentMatches, Guarantee, CommandOK
    <3>2. page'.grant = page.grant
      BY <1>1, <1>3, <3>1 DEF Observed, WithField, PageType
    <3> QED BY <2>2, <2>3, <3>2, ChainKept DEF ChainInv, Moves
  <2>5. CASE page.tracking # "ready"
    <3>1. \A d \in Cmds : PlaceOf(d)' = 0
      BY <1>1, <2>1, <2>2, <2>5 DEF ChainInv, Unmoved, PageType
    <3>2. VisibilityChain'
      BY <3>1 DEF VisibilityChain
    <3> QED BY <2>3, <3>2 DEF ChainInv
  <2> QED BY <2>4, <2>5
<1> QED BY <1>2, <1>3 DEF CmdSilent

\* A page that is gone has no chain to keep.
LEMMA GoneChain ==
    ASSUME Inv, ~page'.live, page'.slot = None PROVE ChainInv'
BY DEF ChainInv, VisibilityChain, Detailed, Unmoved, PlaceOf

\* Every step keeps the chain.
LEMMA StepChain == ASSUME Inv, ChainInv, Stray = {}, [Next]_vars PROVE ChainInv'
<1>1. Typed' /\ page \in PageType /\ (page.slot # None => page.live)
  BY NextTyped DEF Inv, Typed, TypeOK, Shared, SlotInv
<1>2. CASE UNCHANGED <<page, row, detail>>
  BY <1>2, ChainKept DEF PlaceOf, PayloadOf, Staged, ChainInv, Detailed, Unmoved
<1>3. ASSUME NEW p \in Procs,
             \/ MaterializeStep(p)
             \/ p \in Revs /\ SaveStep(p)
             \/ p \in Cmds /\ CmdRead(p)
             \/ p \in Scans /\ (RepairOutbox(p) \/ ScanStart(p) \/ RepairStep(p))
             \/ Crash(p) \/ CallFails(p)
      PROVE  ChainInv'
  <2>1. Changes(p)
    BY <1>3, MReadSound, MWriteSound, MDrainSound, SaveSound, AllocReadSound,
       AllocHistorySound, AllocCheckSecondSound, AllocClaimSound, AllocHealSound,
       HealDrainSound, CmdReadSound, RepairStartSound, ScanRowsSound, ScanCounterSound,
       ScanClaimReadSound, ScanCheckSound, ScanClaimSound, DemotedLookSound,
       DemotedRowsSound, DemotedRestoreSound, FaultSound
       DEF Sound, MaterializeStep, SaveStep, RepairStep
  <2>2. /\ ValueKept /\ page'.live = page.live
        /\ (~page.live => page' = page)
        /\ p \in Cmds => page'.seq = page.seq
    BY <1>3, StepOrdinary
  <2>3. CASE page.live
    <3>1. DetailFollows
      BY <1>3, <2>3, StepFollows
    <3> QED BY <1>1, <2>1, <2>2, <2>3, <3>1, OrdinaryChain
  <2>4. CASE ~page.live
    BY <1>1, <2>2, <2>4, GoneChain
  <2> QED BY <2>3, <2>4
<1>4. ASSUME NEW d \in Deleters, DeleteStep(d) PROVE ChainInv'
  <2>1. Guarantee(d)
    BY Sets DEF Inv
  <2>2. ~page'.live /\ page'.slot = None
    BY <1>1, <1>4, <2>1
       DEF DeleteStep, DeletePage, RemoveRevisions, PurgeEvents, Guarantee, PageType
  <2> QED BY <2>2, GoneChain
<1>5. CASE Next
  BY <1>1, <1>2, <1>3, <1>4, <1>5, Sets, CmdRecordChain, CmdSilentChain
     DEF Next, CmdStep, Age, StrayWrite
<1> QED BY <1>2, <1>5 DEF vars

\* No command has a place when a deployment starts.
LEMMA InitChain == ASSUME Init PROVE ChainInv
<1>1. page.slot # None => page.slot.item \in Revs /\ page.slot.type # "page_event"
  BY ConstantsAssumption DEF Init
<1>2. \A c \in Cmds : row[c] = 0
  BY Sets, ConstantsAssumption DEF Init
<1>3. \A c \in Cmds : PlaceOf(c) = 0
  BY <1>1, <1>2, Sets DEF PlaceOf, Staged
<1> QED BY <1>1, <1>3 DEF ChainInv, VisibilityChain, Detailed, Unmoved

\* The visibility changes a page's history records chain: each starts from the
\* grant its predecessor set and the last one set the grant the page has, however
\* commands race, are retried or die between staging and storing their event.
THEOREM RecordedMovesChain == ASSUME Stray = {} PROVE Spec => []VisibilityChain
<1>1. Inv /\ ChainInv /\ [Next]_vars => ChainInv'
  BY StepChain
<1>2. ChainInv => VisibilityChain
  BY DEF ChainInv
<1> QED BY <1>1, <1>2, Invariance, InitChain, PTL DEF Spec

-----------------------------------------------------------------------------
(* Sorting by rank. *)

\* Entries as far as the order looks at them.
Keyed(S) == \A e \in S : e.seq \in Nat /\ e.key \in Nat /\ e.staged \in BOOLEAN

\* No two entries of S tie.
Total(S) == \A a, b \in S : a # b => Before(a, b) \/ Before(b, a)

\* compareSequenced (read.ts:190) is a strict order in which everything between
\* two entries comes after the one or before the other.
LEMMA BeforeOrder ==
    ASSUME NEW S, Keyed(S), NEW a \in S, NEW b \in S, NEW c \in S
    PROVE  /\ ~Before(a, a)
           /\ Before(a, b) /\ Before(b, c) => Before(a, c)
           /\ Before(a, c) => Before(a, b) \/ Before(b, c)
           /\ Before(a, b) => ~Before(b, a)
BY DEF Keyed, Before

\* The entries of S before e, which are what its rank counts.
Ahead(S, e) == {f \in S : Before(f, e)}

\* Being sorted by rank is being sorted by compareSequenced.
LEMMA RankStrict ==
    ASSUME NEW S, IsFiniteSet(S), Keyed(S), NEW a \in S, NEW b \in S
    PROVE  /\ Rank(S, a) \in 0..(Cardinality(S) - 1)
           /\ Before(a, b) => Rank(S, a) < Rank(S, b)
<1>1. /\ Ahead(S, a) \subseteq S \ {a} /\ Rank(S, a) = Cardinality(Ahead(S, a))
      /\ Ahead(S, b) \subseteq S /\ Rank(S, b) = Cardinality(Ahead(S, b))
  BY BeforeOrder DEF Ahead, Rank
<1>2. /\ IsFiniteSet(S \ {a}) /\ Cardinality(S \ {a}) = Cardinality(S) - 1
      /\ Cardinality(S) \in Nat
  BY FS_RemoveElement, FS_CardinalityType
<1>3. IsFiniteSet(Ahead(S, a)) /\ Cardinality(Ahead(S, a)) <= Cardinality(S \ {a})
  BY <1>1, <1>2, FS_Subset
<1>4. Cardinality(Ahead(S, a)) \in Nat
  BY <1>3, FS_CardinalityType
<1>5. ASSUME Before(a, b) PROVE Rank(S, a) < Rank(S, b)
  <2>1. Ahead(S, a) \cup {a} \subseteq Ahead(S, b) /\ a \notin Ahead(S, a)
    BY <1>5, BeforeOrder DEF Ahead
  <2>2. IsFiniteSet(Ahead(S, b))
    BY <1>1, FS_Subset
  <2>3. Cardinality(Ahead(S, a) \cup {a}) <= Cardinality(Ahead(S, b))
    BY <2>1, <2>2, FS_Subset
  <2>4. Cardinality(Ahead(S, a) \cup {a}) = Cardinality(Ahead(S, a)) + 1
    BY <1>3, <2>1, FS_AddElement
  <2>5. Cardinality(Ahead(S, b)) \in Nat
    BY <2>2, FS_CardinalityType
  <2> QED BY <1>1, <1>4, <2>3, <2>4, <2>5
<1> QED BY <1>1, <1>2, <1>3, <1>4, <1>5

\* Without ties each rank belongs to exactly one entry.
LEMMA RankOnto ==
    ASSUME NEW S, IsFiniteSet(S), Keyed(S), Total(S)
    PROVE  /\ Cardinality(S) \in Nat
           /\ \A a, b \in S : /\ Rank(S, a) = Rank(S, b) => a = b
                              /\ Before(a, b) <=> Rank(S, a) < Rank(S, b)
           /\ \A k \in 0..(Cardinality(S) - 1) : \E e \in S : Rank(S, e) = k
<1>1. Cardinality(S) \in Nat
  BY FS_CardinalityType
<1>2. ASSUME NEW a \in S PROVE Rank(S, a) \in 0..(Cardinality(S) - 1)
  BY RankStrict
<1>3. ASSUME NEW a \in S, NEW b \in S
      PROVE  /\ Rank(S, a) = Rank(S, b) => a = b
             /\ Before(a, b) <=> Rank(S, a) < Rank(S, b)
  <2>1. /\ Before(a, b) => Rank(S, a) < Rank(S, b)
        /\ Before(b, a) => Rank(S, b) < Rank(S, a)
    BY RankStrict
  <2>2. Rank(S, a) \in Int /\ Rank(S, b) \in Int
    BY <1>2, <1>1
  <2>3. a # b => Before(a, b) \/ Before(b, a)
    BY DEF Total
  <2> QED BY <2>1, <2>2, <2>3
<1> DEFINE f == [e \in S |-> Rank(S, e)]
           T == 0..(Cardinality(S) - 1)
<1>4. f \in [S -> T] /\ \A e \in S : f[e] = Rank(S, e)
  BY <1>2
<1>5. f \in Injection(S, T)
  BY <1>3, <1>4 DEF Injection, IsInjective
<1>6. IsFiniteSet(T) /\ Cardinality(T) = Cardinality(S)
  BY <1>1, FS_Interval
<1>7. f \in Surjection(S, T)
  <2> HIDE DEF f, T
  <2> QED BY <1>5, <1>6, FS_Injection
<1>8. ASSUME NEW k \in T PROVE \E e \in S : Rank(S, e) = k
  BY <1>4, <1>7 DEF Surjection
<1> QED BY <1>1, <1>3, <1>8

\* What First returns is a finite part of what it is given.
LEMMA FirstPart ==
    ASSUME NEW S, IsFiniteSet(S), NEW n
    PROVE  /\ First(S, n) \subseteq S /\ IsFiniteSet(First(S, n))
           /\ Cardinality(First(S, n)) \in Nat
<1>1. First(S, n) \subseteq S
  BY DEF First
<1> QED BY <1>1, FS_Subset, FS_CardinalityType

\* A limited query returns as many entries as it may, and everything it leaves
\* out comes after all it returns.
LEMMA FirstCount ==
    ASSUME NEW S, IsFiniteSet(S), Keyed(S), Total(S), NEW n \in Nat
    PROVE  /\ Cardinality(S) <= n => First(S, n) = S
           /\ Cardinality(S) >= n => Cardinality(First(S, n)) = n
           /\ \A e \in S \ First(S, n) : /\ Cardinality(S) > n
                                         /\ \A f \in First(S, n) : Before(f, e)
<1>1. /\ Cardinality(S) \in Nat
      /\ \A a \in S : Rank(S, a) \in 0..(Cardinality(S) - 1)
  BY FS_CardinalityType, RankStrict
<1>2. /\ First(S, n) \subseteq S
      /\ \A e \in S : e \in First(S, n) <=> Rank(S, e) < n
  BY DEF First
<1>3. /\ \A a, b \in S : /\ Rank(S, a) = Rank(S, b) => a = b
                         /\ Before(a, b) <=> Rank(S, a) < Rank(S, b)
      /\ \A k \in 0..(Cardinality(S) - 1) : \E e \in S : Rank(S, e) = k
  BY RankOnto
<1>4. Cardinality(S) <= n => First(S, n) = S
  <2>1. Cardinality(S) <= n => \A e \in S : e \in First(S, n)
    BY <1>1, <1>2
  <2> QED BY <1>2, <2>1
<1>5. ASSUME Cardinality(S) >= n PROVE Cardinality(First(S, n)) = n
  <2> DEFINE F == First(S, n)
             T == 0..(n - 1)
             g == [e \in F |-> Rank(S, e)]
  <2>1. g \in [F -> T] /\ \A e \in F : g[e] = Rank(S, e)
    BY <1>1, <1>2
  <2>2. g \in Injection(F, T)
    BY <1>2, <1>3, <2>1 DEF Injection, IsInjective
  <2>3. g \in Surjection(F, T)
    <3>1. ASSUME NEW k \in T PROVE \E e \in F : g[e] = k
      <4>1. PICK e \in S : Rank(S, e) = k
        BY <1>1, <1>3, <1>5
      <4> QED BY <4>1, <1>2, <2>1
    <3> QED BY <2>1, <3>1 DEF Surjection
  <2>4. IsFiniteSet(T) /\ Cardinality(T) = n
    BY FS_Interval
  <2> HIDE DEF g, T
  <2>5. Cardinality(F) = Cardinality(T)
    BY <2>2, <2>3, <2>4, FS_Injection
  <2> QED BY <2>4, <2>5
<1>6. ASSUME NEW e \in S \ First(S, n)
      PROVE  Cardinality(S) > n /\ \A f \in First(S, n) : Before(f, e)
  <2>1. Rank(S, e) >= n /\ Rank(S, e) \in Nat
    BY <1>1, <1>2
  <2> QED BY <1>1, <1>2, <1>3, <2>1
<1> QED BY <1>4, <1>5, <1>6

\* What n entries come before is not among the first n.
LEMMA FirstBeaten ==
    ASSUME NEW S, IsFiniteSet(S), NEW n \in Nat, NEW U \in SUBSET S, NEW x,
           Cardinality(U) >= n, \A u \in U : Before(u, x)
    PROVE  x \notin First(S, n)
<1>1. U \subseteq Ahead(S, x) /\ Ahead(S, x) \subseteq S
  BY DEF Ahead
<1>2. IsFiniteSet(Ahead(S, x)) /\ Cardinality(Ahead(S, x)) \in Nat
  BY <1>1, FS_Subset, FS_CardinalityType
<1>3. Cardinality(U) <= Cardinality(Ahead(S, x)) /\ Cardinality(U) \in Nat
  BY <1>1, <1>2, FS_Subset, FS_CardinalityType
<1> QED BY <1>2, <1>3 DEF First, Rank, Ahead

\* The answer of a request is sorted and leaves nothing of its window out.
LEMMA InOrderFacts ==
    ASSUME NEW S, IsFiniteSet(S), Keyed(S), Total(S)
    PROVE  /\ InOrder(S) \in Seq(S) /\ Len(InOrder(S)) = Cardinality(S)
           /\ Cardinality(S) \in Nat /\ DOMAIN InOrder(S) = 1..Cardinality(S)
           /\ \A k \in 1..Cardinality(S) : InOrder(S)[k] \in S
           /\ \A e \in S : \E k \in 1..Cardinality(S) : InOrder(S)[k] = e
           /\ \A k, l \in 1..Cardinality(S) :
                k < l => Before(InOrder(S)[k], InOrder(S)[l])
<1>1. /\ Cardinality(S) \in Nat
      /\ \A a, b \in S : /\ Rank(S, a) = Rank(S, b) => a = b
                         /\ Before(a, b) <=> Rank(S, a) < Rank(S, b)
      /\ \A k \in 0..(Cardinality(S) - 1) : \E e \in S : Rank(S, e) = k
  BY RankOnto
<1>2. \A a \in S : Rank(S, a) \in 0..(Cardinality(S) - 1)
  BY RankStrict
<1>3. ASSUME NEW k \in 1..Cardinality(S)
      PROVE  InOrder(S)[k] \in S /\ Rank(S, InOrder(S)[k]) = k - 1
  <2>1. InOrder(S)[k] = CHOOSE e \in S : Rank(S, e) = k - 1
    BY DEF InOrder
  <2>2. \E e \in S : Rank(S, e) = k - 1
    <3>1. k - 1 \in 0..(Cardinality(S) - 1)
      BY <1>1
    <3> QED BY <1>1, <3>1
  <2> QED BY <2>1, <2>2
<1>4. InOrder(S) \in [1..Cardinality(S) -> S] /\ DOMAIN InOrder(S) = 1..Cardinality(S)
  <2>1. /\ InOrder(S) = [k \in 1..Cardinality(S) |-> InOrder(S)[k]]
        /\ DOMAIN InOrder(S) = 1..Cardinality(S)
    BY DEF InOrder
  <2>2. \A k \in 1..Cardinality(S) : InOrder(S)[k] \in S
    BY <1>3
  <2> HIDE DEF InOrder
  <2> QED BY <2>1, <2>2
<1>5. InOrder(S) \in Seq(S) /\ Len(InOrder(S)) = Cardinality(S)
  BY <1>1, <1>4
<1>6. ASSUME NEW e \in S PROVE \E k \in 1..Cardinality(S) : InOrder(S)[k] = e
  <2>1. PICK k \in 1..Cardinality(S) : k - 1 = Rank(S, e)
    <3>1. ASSUME NEW m \in 0..(Cardinality(S) - 1)
          PROVE  \E k \in 1..Cardinality(S) : k - 1 = m
      <4>1. m + 1 \in 1..Cardinality(S) /\ (m + 1) - 1 = m
        BY <1>1
      <4> QED BY <4>1
    <3> QED BY <1>2, <3>1
  <2>2. InOrder(S)[k] \in S /\ Rank(S, InOrder(S)[k]) = Rank(S, e)
    BY <1>3, <2>1
  <2>3. InOrder(S)[k] = e
    BY <1>1, <2>2
  <2> QED BY <2>3
<1>7. ASSUME NEW k \in 1..Cardinality(S), NEW l \in 1..Cardinality(S), k < l
      PROVE  Before(InOrder(S)[k], InOrder(S)[l])
  BY <1>1, <1>3, <1>7
<1> QED BY <1>1, <1>3, <1>4, <1>5, <1>6, <1>7

\* What a request does not show, though it was found or is beyond more than was
\* fetched, comes after all it shows, and there is a next request.
LEMMA Passed ==
    ASSUME NEW S, IsFiniteSet(S), Keyed(S), Total(S),
           NEW A, IsFiniteSet(A), Keyed(A), Total(A), NEW n \in Nat,
           First(S, n + 1) \subseteq A, NEW x, Keyed({x}),
           x \in S \/ Cardinality(Ahead(S, x)) > n,
           x \notin First(A, n)
    PROVE  /\ Cardinality(A) > n
           /\ \A w \in First(A, n) : Before(w, x)
<1> DEFINE G == First(S, n + 1)
           W == First(A, n)
<1>1. G \subseteq S /\ W \subseteq A /\ IsFiniteSet(G) /\ Cardinality(A) \in Nat
  BY FirstPart, FS_CardinalityType
<1>2. CASE x \in G
  <2>1. x \in A \ W
    BY <1>2
  <2> QED BY <2>1, FirstCount
<1>3. CASE x \notin G
  <2>1. Cardinality(S) >= n + 1 /\ \A g \in G : Before(g, x)
    <3>1. CASE x \in S
      <4>1. Cardinality(S) > n + 1 /\ \A g \in G : Before(g, x)
        BY <1>3, <3>1, FirstCount
      <4> QED BY <4>1, FS_CardinalityType
    <3>2. CASE Cardinality(Ahead(S, x)) > n
      <4>1. Ahead(S, x) \in SUBSET S /\ \A u \in Ahead(S, x) : Before(u, x)
        BY DEF Ahead
      <4>2. /\ Cardinality(Ahead(S, x)) <= Cardinality(S) /\ Cardinality(S) \in Nat
            /\ Cardinality(Ahead(S, x)) \in Nat
        BY <4>1, FS_Subset, FS_CardinalityType
      <4>3. ASSUME NEW g \in G, ~Before(g, x) PROVE FALSE
        <5>1. Keyed(S \cup {x})
          BY DEF Keyed
        <5>2. ASSUME NEW u \in Ahead(S, x) PROVE Before(u, g)
          <6>1. u \in S \cup {x} /\ g \in S \cup {x} /\ x \in S \cup {x} /\ Before(u, x)
            BY <1>1, <4>1
          <6> QED BY <4>3, <5>1, <6>1, BeforeOrder
        <5>3. n + 1 \in Nat /\ Cardinality(Ahead(S, x)) >= n + 1
          BY <3>2, <4>2
        <5>4. g \notin First(S, n + 1)
          BY <4>1, <5>2, <5>3, FirstBeaten
        <5> QED BY <4>3, <5>4
      <4> QED BY <3>2, <4>2, <4>3
    <3> QED BY <3>1, <3>2
  <2>2. Cardinality(G) = n + 1
    BY <2>1, FirstCount
  <2>3. Cardinality(A) >= n + 1
    BY <2>2, FS_Subset
  <2>4. ASSUME NEW w \in W, ~Before(w, x) PROVE FALSE
    <3>1. Keyed(A \cup {x})
      BY DEF Keyed
    <3>2. \A g \in G : Before(g, w)
      BY <1>1, <2>1, <2>4, <3>1, BeforeOrder
    <3> QED BY <2>2, <3>2, FirstBeaten
  <2> QED BY <1>1, <2>3, <2>4
<1> QED BY <1>2, <1>3

-----------------------------------------------------------------------------
(* What a walk over the history knows, and what it still has to show. *)

Shown == {walk.shown[n] : n \in DOMAIN walk.shown}

\* The entries with a place the walk has seen.
Known == {e \in walk.found \cup walk.pending \cup Shown : e.seq # 0}

\* Somebody has item i at place n: a document, the slot, a process, the walk.
Carries(i, n) ==
    \/ row[i] = n
    \/ page.slot # None /\ page.slot.item = i /\ page.slot.seq = n
    \/ \E p \in Procs : Holding(p) /\ loc[p].entry.item = i /\ loc[p].entry.seq = n
    \/ \E e \in Known : e.item = i /\ e.seq = n

\* However old a copy is, an item has one place and a place one item.
Agree ==
    \A i, j \in Items : \A m, n \in Nat \ {0} :
        Carries(i, m) /\ Carries(j, n) => (i = j <=> m = n)

\* While the page is there, what the walk has seen is its timeline.
Current == page.live => \A e \in Known : PlaceOf(e.item) = e.seq

\* The request of Revision r has not stored it yet.
Unsaved(r) == pc[r] \in {"prepare", "save"}

\* The createdAt of r, which it has from its preparation on.
Stamp(r) == IF pc[r] = "save" THEN loc[r].at ELSE born[r]

\* A Revision is saved once, with a time of its own; tracking never starts later
\* than the next Revision prepared.
Times ==
    /\ \A r \in Revs : /\ born[r] # 0 \/ row[r] # 0 => ~Unsaved(r)
                       /\ Stamp(r) <= clock
                       /\ \A q \in Revs : Stamp(q) = Stamp(r) /\ Stamp(q) # 0 => q = r
    /\ page.started <= clock + 1
    /\ \A p \in Procs : loc[p].at <= clock + 1 /\ (p \in Revs => loc[p].at <= clock)

\* A Revision the walk has seen with a place is not listed among those without.
SeenOnce ==
    \A e \in Known : e.item \in Revs =>
        ~Unsaved(e.item) /\ (born[e.item] # 0 => row[e.item] # 0)

InRequest == walk.at \in {"page", "rows", "rest"}

\* What the first request decided still holds in this one.
RequestOK ==
    /\ walk.ready <=> walk.boundary # 0
    /\ walk.boundary = 0 => walk.upper = 0
    /\ walk.region = "sequenced" => walk.boundary # 0
    /\ walk.at = "rows" \/ walk.found \cup walk.pending # {} => walk.region = "sequenced"
    /\ walk.cursor # None =>
         /\ walk.cursor.boundary = walk.boundary /\ walk.cursor.upper = walk.upper
         /\ walk.cursor.region = "sequenced" => walk.boundary # 0
         /\ walk.at \in {"rows", "rest"} => walk.region = walk.cursor.region
    /\ IsFiniteSet(walk.found) /\ IsFiniteSet(walk.pending)
    /\ \A e \in walk.found : /\ e.seq # 0 /\ e.key = e.seq /\ ~e.staged
                             /\ walk.at \in {"rows", "rest"} => InWindow(e.seq)
    /\ \A e \in walk.pending : e.seq # 0 /\ e.key = e.seq /\ e.staged /\ e.item \in Cmds

\* What has been shown, and how far the cursor has come.
ShownOK ==
    /\ \A e \in Shown :
         /\ e.seq # 0 => e.key = e.seq /\ walk.boundary # 0
         /\ e.seq = 0 => /\ e.item \in Revs /\ ~Unsaved(e.item)
                         /\ e.key # 0 /\ born[e.item] \in {0, e.key}
    /\ InRequest /\ walk.cursor = None => walk.shown = <<>>
    /\ InRequest /\ walk.cursor # None => \A e \in Shown :
         /\ Continues("sequenced") => e.seq # 0
         /\ e.seq # 0 <=> Continues("sequenced") => e.key >= walk.cursor.after

WalkInv ==
    /\ Agree /\ Current /\ Times /\ SeenOnce /\ RequestOK /\ ShownOK /\ WalkInOrder

-----------------------------------------------------------------------------
ShownItem(i) == \E e \in Shown : e.item = i

KindOf(i) == IF i \in Cmds THEN "events" ELSE "revisions"

Seen(i) == \E e \in walk.found \cup walk.pending : e.item = i

\* The request has more than it can show before place n.
Beyond(n) == Cardinality({e \in walk.found : e.key > n}) > walk.limit

\* Item i, which had a place when the walk began, is before this request still.
PlaceAhead(i) ==
    /\ ~Continues("unsequenced")
    /\ PlaceOf(i) # 0 /\ InWindow(PlaceOf(i))
    /\ i \in Revs => row[i] # 0
    /\ walk.at = "rows" /\ KindOf(i) \in walk.todo => row[i] # 0 \/ Seen(i)
    /\ walk.at = "rest" \/ (walk.at = "rows" /\ KindOf(i) \notin walk.todo)
         => Seen(i) \/ Beyond(PlaceOf(i))

\* So is Revision r, which has none, or whose place does not matter.
LooseAhead(r) ==
    /\ born[r] # 0 /\ (Continues("unsequenced") => born[r] < walk.cursor.after)
    /\ walk.boundary # 0 => PlaceOf(r) = 0 /\ born[r] < walk.boundary

\* A new place is beyond the bound of the walk, as the counter is.
WalkOwes ==
    page.live /\ InRequest =>
      /\ walk.cursor = None /\ walk.at = "page" => walk.owed = {}
      /\ walk.boundary # 0 => walk.upper <= page.seq
      /\ \A i \in StillOwed :
           \/ ShownItem(i)
           \/ walk.boundary # 0 /\ PlaceAhead(i)
           \/ i \in Revs /\ LooseAhead(i)

-----------------------------------------------------------------------------
(* What a step of the outbox does to what a walk relies on. *)

\* The time p takes along is one it had, or one it reads now.
TimeKept(p, x) ==
    \/ x.at \in {0, loc[p].at}
    \/ p \in Revs /\ x.at \in {clock, clock'}
    \/ p \in Scans /\ (x.at = page.started \/ \E r \in Revs : x.at = born[r])

\* p moves on, to its save from the preparation only, with an entry it held or
\* found staged.
GoesOn(p) ==
    /\ OtherProcsStay(p) /\ TimeKept(p, loc'[p])
    /\ pc'[p] # "prepare"
    /\ pc'[p] = "save" => pc[p] = "prepare" /\ clock' = clock + 1 /\ loc'[p].at = clock'
    /\ pc'[p] \in {"m_write", "m_drain"} =>
         \/ Holding(p) /\ loc'[p].entry = loc[p].entry
         \/ page.slot # None /\ loc'[p].entry = page.slot

\* A move that holds nothing new.
LEMMA MoveGoes ==
    ASSUME Typed, NEW p \in Procs, NEW l, NEW x, Move(p, l, x), TimeKept(p, x),
           l \notin {"prepare", "save", "m_write", "m_drain"}
    PROVE  GoesOn(p)
BY Moved DEF GoesOn, OtherProcsStay

\* A move that keeps the time.
LEMMA MoveSameTime ==
    ASSUME Typed, NEW p \in Procs, NEW l, NEW x, Move(p, l, x), x.at = loc[p].at,
           l \notin {"prepare", "save", "m_write", "m_drain"}
    PROVE  GoesOn(p)
BY MoveGoes DEF TimeKept

\* A process ends without holding anything.
LEMMA FinishGoes == ASSUME Typed, NEW p \in Procs, Finish(p) PROVE GoesOn(p)
<1>1. TimeKept(p, NoLoc) /\ Rest(p) \notin {"prepare", "save", "m_write", "m_drain"}
  BY DEF TimeKept, NoLoc, Rest
<1> QED BY <1>1, MoveGoes DEF Finish

\* Going on with the same locals.
LEMMA GotoGoes ==
    ASSUME Typed, NEW p \in Procs, NEW l, Goto(p, l), l \notin {"prepare", "save", "m_write"},
           l = "m_drain" => Holding(p)
    PROVE  GoesOn(p)
<1>1. TimeKept(p, loc[p])
  BY DEF TimeKept
<1> QED BY <1>1, Moved DEF Goto, GoesOn, OtherProcsStay

\* Going round the loop again.
LEMMA AgainGoes ==
    ASSUME Typed, NEW p \in Procs, NEW l, Again(p, l),
           l \notin {"prepare", "save", "m_write", "m_drain"}
    PROVE  GoesOn(p)
<1> DEFINE x == [NoLoc EXCEPT !.claims = loc[p].claims, !.assists = loc[p].assists,
                              !.saw = loc[p].saw, !.todo = loc[p].todo]
<1>1. x.at = 0
  BY DEF NoLoc
<1>2. TimeKept(p, x) /\ Move(p, l, x)
  BY <1>1 DEF TimeKept, Again
<1> QED BY <1>2, MoveGoes

\* Going on after a materialization.
LEMMA ResumeGoes == ASSUME Typed, NEW p \in Procs, Resume(p) PROVE GoesOn(p)
<1>1. loc[p].ret \in Returns
  BY TypedNow DEF LocType
<1> QED BY <1>1, FinishGoes, AgainGoes DEF Resume, Returns

\* Catching a throw.
LEMMA ThrowGoes == ASSUME Typed, NEW p \in Procs, Throw(p) PROVE GoesOn(p)
BY FinishGoes, ResumeGoes, GotoGoes DEF Throw

\* Starting a materialization.
LEMMA MaterializeGoes ==
    ASSUME Typed, NEW p \in Procs, NEW l \in Returns, NEW o \in BOOLEAN, NEW x \in LocType,
           Materialize(p, l, o, x), TimeKept(p, x)
    PROVE  GoesOn(p)
<1>1. TimeKept(p, [x EXCEPT !.ret = l, !.own = o])
  BY DEF TimeKept, LocType
<1> QED BY <1>1, MoveGoes DEF Materialize

\* Going on to the next Revision of a scan.
LEMMA SkipToGoes ==
    ASSUME Typed, NEW p \in Procs, NEW R, SkipTo(p, R) PROVE GoesOn(p)
<1>1. loc[p] \in LocType
  BY TypedNow
<1>2. TimeKept(p, [loc[p] EXCEPT !.todo = R, !.claims = 0])
  BY <1>1 DEF TimeKept, LocType
<1> QED BY <1>2, FinishGoes, MoveGoes DEF SkipTo

\* So does every step of a materialization.
LEMMA MaterializeStepGoes ==
    ASSUME Typed, NEW p \in Procs, MaterializeStep(p) PROVE GoesOn(p)
<1>1. CASE MRead(p) /\ page.slot # None
  <2>1. Move(p, "m_write", [loc[p] EXCEPT !.entry = page.slot]) /\ loc[p] \in LocType
    BY <1>1, TypedNow DEF MRead
  <2>2. /\ [loc[p] EXCEPT !.entry = page.slot].entry = page.slot
        /\ [loc[p] EXCEPT !.entry = page.slot].at = loc[p].at
    BY <2>1 DEF LocType
  <2>3. /\ pc'[p] = "m_write" /\ OtherProcsStay(p)
        /\ loc'[p] = [loc[p] EXCEPT !.entry = page.slot]
    BY <2>1, Moved DEF OtherProcsStay
  <2> QED BY <1>1, <2>2, <2>3 DEF GoesOn, TimeKept
<1>2. CASE MRead(p) /\ page.slot = None
  BY <1>2, ResumeGoes DEF MRead
<1>3. CASE MWrite(p)
  <2>1. Goto(p, "m_drain") \/ Throw(p)
    BY <1>3 DEF MWrite, StoreEvent, StampRevision
  <2> QED BY <1>3, <2>1, GotoGoes, ThrowGoes DEF MWrite, Holding
<1>4. CASE MDrain(p)
  BY <1>4, ResumeGoes DEF MDrain
<1> QED BY <1>1, <1>2, <1>3, <1>4 DEF MaterializeStep

\* The steps of a save.
LEMMA SaveGoes == ASSUME Typed, NEW r \in Revs, SaveStep(r) PROVE GoesOn(r)
<1>1. r \in Procs /\ loc[r] \in LocType /\ page.seq \in Nat
  BY Sets, TypedNow
<1>2. CASE MovePointer(r) \/ AllocCheckFirst(r) \/ AllocHeal(r) \/ HealDrain(r)
  BY <1>1, <1>2, GotoGoes, FinishGoes DEF MovePointer, AllocCheckFirst, AllocHeal, HealDrain
<1>7. CASE PrepareRevision(r)
  <2> DEFINE x == [loc[r] EXCEPT !.at = clock + 1]
  <2>1. x.at = clock + 1 /\ clock' = clock + 1 /\ pc[r] = "prepare"
    BY <1>1, <1>7 DEF PrepareRevision, LocType
  <2>2. Move(r, "save", x)
    BY <1>7 DEF PrepareRevision
  <2> HIDE DEF x
  <2>3. pc'[r] = "save" /\ loc'[r] = x /\ OtherProcsStay(r)
    BY <1>1, <2>2, Moved DEF OtherProcsStay
  <2> QED BY <2>1, <2>3 DEF GoesOn, TimeKept
<1>8. CASE SaveRevision(r)
  <2>1. TimeKept(r, NoLoc) /\ Move(r, "point", NoLoc)
    BY <1>8 DEF TimeKept, NoLoc, SaveRevision
  <2> QED BY <1>1, <2>1, MoveGoes
<1>3. CASE AllocRead(r)
  <2>1. CASE Move(r, "history", [loc[r] EXCEPT !.mode = "promote", !.n = 0])
    <3> DEFINE x == [loc[r] EXCEPT !.mode = "promote", !.n = 0]
    <3>1. x.at = loc[r].at
      BY <1>1 DEF LocType
    <3>2. Move(r, "history", x)
      BY <2>1
    <3> HIDE DEF x
    <3> QED BY <1>1, <3>1, <3>2, MoveSameTime
  <2>2. CASE Move(r, "check2", [loc[r] EXCEPT !.mode = "next", !.n = page.seq])
    <3> DEFINE x == [loc[r] EXCEPT !.mode = "next", !.n = page.seq]
    <3>1. x.at = loc[r].at
      BY <1>1 DEF LocType
    <3>2. Move(r, "check2", x)
      BY <2>2
    <3> HIDE DEF x
    <3> QED BY <1>1, <3>1, <3>2, MoveSameTime
  <2>3. CASE Materialize(r, "check1", FALSE, [loc[r] EXCEPT !.assists = @ + 1])
    BY <1>1, <2>3, AssistUpdate, MaterializeGoes DEF TimeKept, Returns, LocType
  <2> QED BY <1>1, <1>3, <2>1, <2>2, <2>3, FinishGoes DEF AllocRead
<1>4. CASE AllocHistory(r)
  <2>1. CASE Move(r, "check1", [loc[r] EXCEPT !.saw = TRUE])
    <3> DEFINE x == [loc[r] EXCEPT !.saw = TRUE]
    <3>1. x.at = loc[r].at
      BY <1>1 DEF LocType
    <3>2. Move(r, "check1", x)
      BY <2>1
    <3> HIDE DEF x
    <3> QED BY <1>1, <3>1, <3>2, MoveSameTime
  <2> QED BY <1>1, <1>4, <2>1, GotoGoes, FinishGoes DEF AllocHistory
<1>5. CASE AllocCheckSecond(r)
  <2>1. CASE Move(r, "claim", [loc[r] EXCEPT !.claims = @ + 1, !.at = clock])
    <3> DEFINE x == [loc[r] EXCEPT !.claims = @ + 1, !.at = clock]
    <3>1. x.at = clock
      BY <1>1 DEF LocType
    <3>2. Move(r, "claim", x)
      BY <2>1
    <3> HIDE DEF x
    <3> QED BY <1>1, <3>1, <3>2, MoveGoes DEF TimeKept
  <2> QED BY <1>1, <1>5, <2>1, FinishGoes DEF AllocCheckSecond
<1>6. CASE AllocClaim(r)
  <2>1. CASE Materialize(r, "done", TRUE, loc[r])
    BY <1>1, <2>1, MaterializeGoes DEF TimeKept, Returns
  <2> QED BY <1>1, <1>6, <2>1, AgainGoes DEF AllocClaim
<1> QED BY <1>1, <1>2, <1>3, <1>4, <1>5, <1>6, <1>7, <1>8, MaterializeStepGoes DEF SaveStep

\* The steps of a command.
LEMMA CmdGoes == ASSUME Typed, NEW c \in Cmds, CmdStep(c) PROVE GoesOn(c)
<1>1. c \in Procs /\ loc[c] \in LocType
  BY Sets, TypedNow
<1>2. CASE CmdRead(c)
  <2>1. CASE Materialize(c, "plan", FALSE, [loc[c] EXCEPT !.assists = @ + 1])
    BY <1>1, <2>1, AssistUpdate, MaterializeGoes DEF TimeKept, Returns, LocType
  <2>2. CASE Move(c, "change", [loc[c] EXCEPT
                !.claims = @ + 1, !.n = page.seq, !.from = Observed(c),
                !.mode = IF Ready /\ PlanHasEvent(c) THEN "event" ELSE page.tracking])
    <3> DEFINE x == [loc[c] EXCEPT
                !.claims = @ + 1, !.n = page.seq, !.from = Observed(c),
                !.mode = IF Ready /\ PlanHasEvent(c) THEN "event" ELSE page.tracking]
    <3>1. x.at = loc[c].at
      BY <1>1 DEF LocType
    <3>2. Move(c, "change", x)
      BY <2>2
    <3> HIDE DEF x
    <3> QED BY <1>1, <3>1, <3>2, MoveSameTime
  <2> QED BY <1>1, <1>2, <2>1, <2>2, FinishGoes DEF CmdRead
<1>3. CASE CmdRecord(c)
  <2>1. CASE Materialize(c, "done", TRUE, loc[c])
    BY <1>1, <2>1, MaterializeGoes DEF TimeKept, Returns
  <2> QED BY <1>1, <1>3, <2>1, AgainGoes DEF CmdRecord
<1>4. CASE CmdSilent(c)
  BY <1>1, <1>4, FinishGoes, AgainGoes DEF CmdSilent
<1> QED BY <1>1, <1>2, <1>3, <1>4, MaterializeStepGoes DEF CmdStep

\* The steps of a repair run.
LEMMA RepairGoes ==
    ASSUME Typed, NEW s \in Scans, RepairOutbox(s) \/ ScanStart(s) \/ RepairStep(s)
    PROVE  GoesOn(s)
<1>1. s \in Procs /\ loc[s] \in LocType
  BY Sets, TypedNow
<1>2. CASE RepairOutbox(s)
  <2>1. TimeKept(s, NoLoc)
    BY DEF TimeKept, NoLoc
  <2> QED BY <1>1, <1>2, <2>1, NoLocTyped, MaterializeGoes DEF RepairOutbox, Returns
<1>3. CASE ScanStart(s) \/ ScanCounter(s) \/ ScanCheck(s) \/ DemotedHistory(s)
  BY <1>1, <1>3, GotoGoes, FinishGoes, SkipToGoes
     DEF ScanStart, ScanCounter, ScanCheck, DemotedHistory
<1>4. CASE ScanRows(s)
  <2>1. ASSUME NEW m \in Assigned, Move(s, "counter", [loc[s] EXCEPT !.top = m])
        PROVE  GoesOn(s)
    BY <1>1, <2>1, MoveSameTime DEF LocType
  <2> QED BY <1>1, <1>4, <2>1, FinishGoes DEF ScanRows
<1>5. CASE ScanClaimRead(s)
  <2>1. PICK r \in Revs :
          \/ SkipTo(s, loc[s].todo \ {r})
          \/ Materialize(s, "s_claim", FALSE, [loc[s] EXCEPT !.claims = @ + 1])
          \/ Move(s, "s_check", [loc[s] EXCEPT !.n = page.seq, !.cur = r, !.claims = @ + 1])
    BY <1>1, <1>5 DEF ScanClaimRead, LocType
  <2>2. CASE Materialize(s, "s_claim", FALSE, [loc[s] EXCEPT !.claims = @ + 1])
    BY <1>1, <2>2, AssistUpdate, MaterializeGoes DEF TimeKept, Returns, LocType
  <2>3. CASE Move(s, "s_check", [loc[s] EXCEPT !.n = page.seq, !.cur = r, !.claims = @ + 1])
    <3> DEFINE x == [loc[s] EXCEPT !.n = page.seq, !.cur = r, !.claims = @ + 1]
    <3>1. x.at = loc[s].at
      BY <1>1 DEF LocType
    <3>2. Move(s, "s_check", x)
      BY <2>3
    <3> HIDE DEF x
    <3> QED BY <1>1, <3>1, <3>2, MoveSameTime
  <2> QED BY <1>1, <2>1, <2>2, <2>3, SkipToGoes
<1>6. CASE ScanClaim(s)
  <2>1. PICK l \in Returns, R \in SUBSET Revs :
          \/ Materialize(s, l, TRUE, [loc[s] EXCEPT !.todo = R, !.claims = 0])
          \/ Again(s, "s_claim")
    BY <1>1, <1>6 DEF ScanClaim, Returns, LocType
  <2>2. [loc[s] EXCEPT !.todo = R, !.claims = 0] \in LocType
    BY <1>1 DEF LocType
  <2> QED BY <1>1, <2>1, <2>2, MaterializeGoes, AgainGoes DEF TimeKept, LocType
<1>7. CASE DemotedRead(s)
  <2>1. [loc[s] EXCEPT !.assists = 1] \in LocType
    BY <1>1 DEF LocType
  <2>2. CASE Materialize(s, "d_read", FALSE, [loc[s] EXCEPT !.assists = 1])
    BY <1>1, <2>1, <2>2, MaterializeGoes DEF TimeKept, Returns, LocType
  <2>3. CASE Move(s, "d_rows", [loc[s] EXCEPT !.n = page.seq, !.at = page.started])
    <3> DEFINE x == [loc[s] EXCEPT !.n = page.seq, !.at = page.started]
    <3>1. x.at = page.started
      BY <1>1 DEF LocType
    <3>2. Move(s, "d_rows", x)
      BY <2>3
    <3> HIDE DEF x
    <3> QED BY <1>1, <3>1, <3>2, MoveGoes DEF TimeKept
  <2> QED BY <1>1, <1>7, <2>2, <2>3, FinishGoes DEF DemotedRead
<1>8. CASE DemotedRows(s)
  <2>1. ASSUME NEW start \in StartsToRestore(s), NEW m \in Assigned,
               Move(s, "d_cas", [loc[s] EXCEPT !.at = start, !.top = m])
        PROVE  GoesOn(s)
    <3>1. start = loc[s].at \/ \E r \in Revs : start = born[r]
      BY DEF StartsToRestore
    <3>2. TimeKept(s, [loc[s] EXCEPT !.at = start, !.top = m])
      BY <1>1, <3>1 DEF TimeKept, LocType
    <3> QED BY <1>1, <2>1, <3>2, MoveGoes
  <2> QED BY <1>1, <1>8, <2>1, FinishGoes DEF DemotedRows
<1>9. CASE DemotedRestore(s)
  <2>1. CASE Move(s, "rows", [NoLoc EXCEPT !.mode = "restored"])
    <3> DEFINE x == [NoLoc EXCEPT !.mode = "restored"]
    <3>1. x.at = 0
      BY <1>1 DEF NoLoc
    <3>2. Move(s, "rows", x)
      BY <2>1
    <3> HIDE DEF x
    <3> QED BY <1>1, <3>1, <3>2, MoveGoes DEF TimeKept
  <2> QED BY <1>1, <1>9, <2>1, FinishGoes DEF DemotedRestore
<1> QED BY <1>1, <1>2, <1>3, <1>4, <1>5, <1>6, <1>7, <1>8, <1>9, MaterializeStepGoes
        DEF RepairStep

\* The steps of a deletion, a crash and a failed call.
LEMMA OtherGoes ==
    ASSUME Typed, NEW p \in Procs,
           (p \in Deleters /\ DeleteStep(p)) \/ Crash(p) \/ CallFails(p)
    PROVE  GoesOn(p)
BY GotoGoes, FinishGoes, ThrowGoes
   DEF DeleteStep, DeletePage, RemoveRevisions, PurgeEvents, Crash, CallFails

\* Rows are stored from held entries and vanish with their Revisions; a time is
\* given once, by the clock; tracking starts where some process found it to.
Writes(p) ==
    /\ \A i \in Items : row'[i] # row[i] =>
         \/ row'[i] = 0
         \/ Holding(p) /\ loc[p].entry.item = i /\ row'[i] = loc[p].entry.seq
    /\ \A r \in Revs : row'[r] # row[r] =>
         \/ row[r] = 0 /\ born[r] # 0
         \/ row'[r] = 0 /\ born'[r] = 0
    /\ \/ clock' = clock /\ \A r \in Revs : born'[r] \in {born[r], 0}
       \/ pc'[p] = "save" /\ clock' = clock + 1 /\ born' = born
       \/ /\ p \in Revs /\ pc[p] = "save" /\ clock' = clock
          /\ born' = [born EXCEPT ![p] = loc[p].at]
    /\ page'.live => \A r \in Revs : born'[r] = 0 => born[r] = 0 \/ pc[r] = "save"
    /\ \/ page'.started = page.started
       \/ p \in Revs /\ page'.started = loc[p].at + 1
       \/ p \in Scans /\ page'.started = loc[p].at

Effects(p) == GoesOn(p) /\ Writes(p) /\ (~page.live => ~page'.live)

\* Most steps write nothing a walk looks at.
LEMMA QuietWrites ==
    ASSUME UNCHANGED <<row, born, clock>>, NEW p,
           \/ page'.started = page.started
           \/ p \in Revs /\ page'.started = loc[p].at + 1
           \/ p \in Scans /\ page'.started = loc[p].at
    PROVE  Writes(p)
BY DEF Writes

\* Draining leaves the start of tracking alone.
LEMMA DrainedStarted ==
    ASSUME page \in PageType, NEW e
    PROVE  Drained(e).started = page.started /\ Drained(e).live = page.live
BY DEF Drained, PageType

\* Storing what is held.
LEMMA MWriteWrites == ASSUME Typed, NEW p \in Procs, MWrite(p) PROVE Writes(p)
<1> DEFINE e == loc[p].entry
<1>1. /\ e \in Entry /\ row \in [Items -> Nat] /\ Holding(p)
      /\ page' = page /\ born' = born /\ clock' = clock
  BY DEF MWrite, Holding, Typed, TypeOK, LocalsTyped, LocalsTypedAt
<1>2. /\ e.item \in Items
      /\ e.type = "page_event" => e.item \in Cmds
  BY <1>1, EntryFields
<1>3. \/ row' = row
      \/ /\ row' = [row EXCEPT ![e.item] = e.seq]
         /\ e.item \in Revs => row[e.item] = 0 /\ born[e.item] # 0
  BY <1>2, Sets DEF MWrite, StoreEvent, StampRevision, Unsequenced
<1> QED BY <1>1, <1>2, <1>3, Sets DEF Writes

\* The steps of a save, a command and a repair run.
LEMMA WorkWrites ==
    ASSUME Typed, NEW p \in Procs,
           \/ p \in Revs /\ SaveStep(p)
           \/ p \in Cmds /\ CmdStep(p)
           \/ p \in Scans /\ (RepairOutbox(p) \/ ScanStart(p) \/ RepairStep(p))
    PROVE  Writes(p) /\ page'.live = page.live
<1>1. page \in PageType /\ born \in [Revs -> Nat]
  BY DEF Typed, TypeOK
<1>2. CASE UNCHANGED <<page, row, born, clock>>
  BY <1>2, QuietWrites
<1>3. CASE MaterializeStep(p)
  <2>1. MWrite(p) => Writes(p) /\ page' = page
    BY MWriteWrites DEF MWrite
  <2> QED BY <1>1, <1>2, <1>3, <2>1, DrainedStarted, QuietWrites DEF MaterializeStep, MRead, MDrain
<1>4. CASE p \in Revs /\ SaveStep(p) /\ ~MaterializeStep(p)
  <2>1. CASE SaveRevision(p)
    <3>1. /\ pc[p] = "save" /\ clock' = clock /\ born' = [born EXCEPT ![p] = loc[p].at]
          /\ page' = page /\ row' = row
      BY <2>1 DEF SaveRevision
    <3> QED BY <1>1, <1>4, <2>1, <3>1 DEF Writes
  <2>4. CASE PrepareRevision(p)
    <3>1. pc'[p] = "save"
      BY <1>4, <2>4, Moved, Sets DEF PrepareRevision
    <3> QED BY <1>1, <2>4, <3>1 DEF PrepareRevision, Writes
  <2>2. CASE MovePointer(p) \/ HealDrain(p)
    BY <1>1, <1>2, <2>2, DrainedStarted, QuietWrites DEF MovePointer, HealDrain, PageType
  <2>3. CASE AllocClaim(p)
    <3>1. \/ page' = page
          \/ \E n \in {loc[p].n + 1} :
               page' = [page EXCEPT !.seq = n, !.slot = ContentEntry(p, n),
                                 !.tracking = "ready",
                                 !.started = IF loc[p].mode = "promote"
                                               THEN loc[p].at + 1 ELSE @]
      BY <2>3 DEF AllocClaim
    <3>2. /\ page'.started = page.started \/ page'.started = loc[p].at + 1
          /\ page'.live = page.live
      BY <1>1, <3>1 DEF PageType
    <3> QED BY <1>4, <2>3, <3>2, QuietWrites DEF AllocClaim
  <2> QED BY <1>2, <1>4, <2>1, <2>2, <2>3, <2>4 DEF SaveStep, AllocCheckFirst, AllocRead,
             AllocHistory, AllocCheckSecond, AllocHeal
<1>5. CASE p \in Cmds /\ CmdStep(p) /\ ~MaterializeStep(p)
  <2>1. page'.started = page.started /\ page'.live = page.live
    BY <1>1, <1>5 DEF CmdStep, CmdRead, CmdRecord, CmdSilent, WithField, PageType
  <2> QED BY <1>5, <2>1, QuietWrites DEF CmdStep, CmdRead, CmdRecord, CmdSilent
<1>6. CASE p \in Scans /\ RepairStep(p) /\ ~MaterializeStep(p)
  <2>1. CASE ScanClaim(p)
    BY <1>1, <2>1, QuietWrites DEF ScanClaim, PageType
  <2>2. CASE DemotedRestore(p)
    BY <1>1, <1>6, <2>2, QuietWrites DEF DemotedRestore, PageType
  <2> QED BY <1>2, <1>6, <2>1, <2>2 DEF RepairStep, ScanRows, ScanCounter, ScanClaimRead,
             ScanCheck, DemotedHistory, DemotedRead, DemotedRows
<1>7. CASE RepairOutbox(p) \/ ScanStart(p)
  BY <1>2, <1>7 DEF RepairOutbox, ScanStart
<1> QED BY <1>3, <1>4, <1>5, <1>6, <1>7

\* The steps of a deletion, a crash and a failed call.
LEMMA OtherWrites ==
    ASSUME Inv, NEW p \in Procs,
           (p \in Deleters /\ DeleteStep(p)) \/ Crash(p) \/ CallFails(p)
    PROVE  Writes(p) /\ (~page.live => ~page'.live)
<1>1. page \in PageType /\ row \in [Items -> Nat] /\ born \in [Revs -> Nat] /\ Guarantee(p)
  BY DEF Inv, Typed, TypeOK
<1>2. CASE UNCHANGED <<page, row, born, clock>>
  BY <1>2, QuietWrites
<1>3. CASE p \in Deleters /\ DeletePage(p)
  BY <1>1, <1>3, QuietWrites DEF DeletePage, PageType
<1>4. CASE p \in Deleters /\ RemoveRevisions(p)
  <2>1. ~page.live /\ page' = page
    BY <1>1, <1>4 DEF Guarantee, RemoveRevisions
  <2> QED BY <1>1, <1>4, <2>1, Sets DEF RemoveRevisions, Writes
<1>5. CASE p \in Deleters /\ PurgeEvents(p)
  BY <1>1, <1>5, Sets DEF PurgeEvents, Writes
<1> QED BY <1>2, <1>3, <1>4, <1>5 DEF DeleteStep, Crash, CallFails

\* Every step of the outbox has such effects, time passing aside.
LEMMA StepEffects ==
    ASSUME Inv, Stray = {}, Next
    PROVE  \/ (\E p \in Procs : Effects(p)) /\ (\E p \in Procs : Changes(p))
           \/ UNCHANGED <<page, born, row, clock, pc, loc>>
<1>1. Typed
  BY DEF Inv
<1>2. ASSUME NEW r \in Revs, SaveStep(r) \/ StrayWrite(r)
      PROVE  r \in Procs /\ Effects(r)
  <2>1. SaveStep(r) /\ r \in Procs
    BY <1>2, Sets DEF StrayWrite
  <2> QED BY <1>1, <2>1, SaveGoes, WorkWrites DEF Effects
<1>3. ASSUME NEW c \in Cmds, CmdStep(c) PROVE c \in Procs /\ Effects(c)
  BY <1>1, <1>3, Sets, CmdGoes, WorkWrites DEF Effects
<1>4. ASSUME NEW s \in Scans, RepairOutbox(s) \/ ScanStart(s) \/ RepairStep(s)
      PROVE  s \in Procs /\ Effects(s)
  BY <1>1, <1>4, Sets, RepairGoes, WorkWrites DEF Effects
<1>5. ASSUME NEW d \in Deleters, DeleteStep(d) PROVE d \in Procs /\ Effects(d)
  BY <1>1, <1>5, Sets, OtherGoes, OtherWrites DEF Effects
<1>6. ASSUME NEW p \in Procs, Crash(p) \/ CallFails(p) PROVE Effects(p)
  BY <1>1, <1>6, OtherGoes, OtherWrites DEF Effects
<1>7. CASE Age
  BY <1>7 DEF Age
<1>8. CASE ~Age
  <2>1. \E p \in Procs : Effects(p)
    BY <1>2, <1>3, <1>4, <1>5, <1>6, <1>8 DEF Next
  <2>2. (\E p \in Procs : Sound(p)) \/ UNCHANGED <<page, row, pc, loc>>
    BY StepSound
  <2>3. UNCHANGED <<page, row, pc, loc>> => Quiet
    BY DEF Quiet, SamePlaceInPage
  <2> QED BY <2>1, <2>2, <2>3 DEF Sound, Changes
<1> QED BY <1>7, <1>8

-----------------------------------------------------------------------------
(* The outbox goes on beneath a walk. *)

\* What the walk has seen are entries.
LEMMA KnownTyped ==
    ASSUME walk \in WalkType
    PROVE  /\ walk.found \subseteq Entries /\ walk.pending \subseteq Entries
           /\ Shown \subseteq Entries /\ Known \subseteq Entries
           /\ \A e \in Entries : /\ e.item \in Items /\ e.seq \in Nat /\ e.key \in Nat
                                 /\ e.staged \in BOOLEAN
           /\ walk.limit \in Limits /\ walk.limit \in Nat /\ walk.limit # 0
           /\ walk.boundary \in Nat /\ walk.upper \in Nat /\ walk.owed \subseteq Items
           /\ walk.cursor # None => walk.cursor \in Cursors /\ walk.cursor.after \in Nat
<1>1. /\ walk.found \subseteq Entries /\ walk.pending \subseteq Entries
      /\ walk.shown \in Seq(Entries)
      /\ walk.limit \in Limits /\ walk.boundary \in Nat /\ walk.upper \in Nat
      /\ walk.owed \subseteq Items /\ walk.cursor \in Cursors \cup {None}
  BY DEF WalkType
<1>2. Shown \subseteq Entries
  BY <1>1 DEF Shown
<1> QED BY <1>1, <1>2, ReadAssumption DEF Known, Entries, Cursors

\* As long as the page is there its timeline only grows.
LEMMA PlacesKept ==
    ASSUME Inv, Typed', NEW p \in Procs, Changes(p), page'.live
    PROVE  /\ page.live
           /\ \A i \in Items : /\ PlaceOf(i) # 0 => PlaceOf(i)' = PlaceOf(i)
                               /\ row[i] # 0 => row'[i] = row[i]
<1>1. /\ page \in PageType /\ row \in [Items -> Nat] /\ SlotInv
      /\ page' \in PageType /\ row' \in [Items -> Nat]
  BY DEF Inv, Shared, Typed, TypeOK
<1>2. CASE Quiet
  BY <1>1, <1>2 DEF Quiet, SamePlaceInPage, PlaceOf, Staged
<1>3. CASE Claims(p)
  <2>1. PICK e \in Entry :
      /\ page.live /\ page.slot = None /\ row[e.item] = 0
      /\ page'.slot = e /\ row' = row
    BY <1>3 DEF Claims
  <2> QED BY <2>1 DEF PlaceOf, Staged
<1>4. CASE Stores
  <2>1. PICK e \in Entry :
      /\ page.slot = e /\ row[e.item] = 0 /\ row' = [row EXCEPT ![e.item] = e.seq]
      /\ page' = page
    BY <1>4 DEF Stores
  <2>2. \A i \in Items : row'[i] = IF i = e.item THEN e.seq ELSE row[i]
    BY <1>1, <2>1, EntryFields
  <2> QED BY <2>1, <2>2 DEF PlaceOf, Staged
<1>5. CASE Drains
  BY <1>1, <1>5 DEF Drains, SamePlaceInPage, PlaceOf, Staged
<1>6. CASE Restores
  BY <1>1, <1>6 DEF Restores, PlaceOf, Staged
<1>7. CASE Gone
  BY <1>7 DEF Gone
<1> QED BY <1>2, <1>3, <1>4, <1>5, <1>6, <1>7 DEF Changes

\* The counter of a page that is there never falls, and a new place is beyond it.
LEMMA PlacesGrow ==
    ASSUME Inv, Typed', NEW p \in Procs, Changes(p), page'.live
    PROVE  /\ page'.seq >= page.seq
           /\ \A i \in Items : PlaceOf(i) = 0 /\ PlaceOf(i)' # 0 => PlaceOf(i)' > page.seq
<1>1. /\ page \in PageType /\ row \in [Items -> Nat] /\ SlotInv /\ page.seq \in Nat
      /\ page' \in PageType /\ row' \in [Items -> Nat] /\ page'.seq \in Nat
  BY DEF Inv, Shared, Typed, TypeOK, PageType
<1>2. CASE Quiet
  BY <1>1, <1>2 DEF Quiet, SamePlaceInPage, PlaceOf, Staged
<1>3. CASE Claims(p)
  <2>1. PICK e \in Entry :
      /\ page.live /\ page.slot = None /\ e.seq = page.seq + 1
      /\ page'.slot = e /\ row' = row /\ page'.seq = e.seq
    BY <1>3 DEF Claims
  <2> QED BY <1>1, <2>1 DEF PlaceOf, Staged
<1>4. CASE Stores
  <2>1. PICK e \in Entry :
      /\ page.slot = e /\ row' = [row EXCEPT ![e.item] = e.seq] /\ page' = page
    BY <1>4 DEF Stores
  <2>2. \A i \in Items : row'[i] = IF i = e.item THEN e.seq ELSE row[i]
    BY <1>1, <2>1, EntryFields
  <2>3. page.slot # None
    BY <2>1, NoneAssumption
  <2>4. \A i \in Items : PlaceOf(i)' = PlaceOf(i)
    BY <2>1, <2>2, <2>3 DEF PlaceOf, Staged
  <2> QED BY <1>1, <2>1, <2>4
<1>5. CASE Drains
  BY <1>1, <1>5 DEF Drains, SamePlaceInPage, PlaceOf, Staged
<1>6. CASE Restores
  BY <1>1, <1>6 DEF Restores, PlaceOf, Staged
<1>7. CASE Gone
  BY <1>7 DEF Gone
<1> QED BY <1>2, <1>3, <1>4, <1>5, <1>6, <1>7 DEF Changes

\* On a page that is there every copy agrees with the timeline.
LEMMA LiveCarries ==
    ASSUME Inv, page.live, Current, NEW i \in Items, NEW n \in Nat \ {0}, Carries(i, n)
    PROVE  PlaceOf(i) = n
<1>1. SlotInv /\ row \in [Items -> Nat] /\ page \in PageType
  BY DEF Inv, Shared, Typed, TypeOK
<1>2. CASE row[i] = n
  BY <1>1, <1>2 DEF SlotInv, PlaceOf, Staged
<1>3. CASE page.slot # None /\ page.slot.item = i /\ page.slot.seq = n
  BY <1>3 DEF PlaceOf, Staged
<1>4. ASSUME NEW p \in Procs, Holding(p), loc[p].entry.item = i, loc[p].entry.seq = n
      PROVE  PlaceOf(i) = n
  <2>1. HolderOK(p) /\ loc[p].entry \in Entry
    BY <1>4 DEF Inv, Guarantee, Typed, LocalsTyped, LocalsTypedAt, Holding
  <2>2. page.slot = loc[p].entry \/ row[i] = n
    BY <1>4, <2>1 DEF HolderOK
  <2> QED BY <1>2, <1>4, <2>1, <2>2, NoneAssumption DEF PlaceOf, Staged
<1>5. ASSUME NEW e \in Known, e.item = i, e.seq = n PROVE PlaceOf(i) = n
  BY <1>5 DEF Current
<1> QED BY <1>2, <1>3, <1>4, <1>5 DEF Carries

\* So they agree with one another.
LEMMA LiveAgree == ASSUME Inv, page.live, Current PROVE Agree
<1> SUFFICES ASSUME NEW i \in Items, NEW j \in Items, NEW m \in Nat \ {0},
                    NEW n \in Nat \ {0}, Carries(i, m), Carries(j, n)
             PROVE  i = j <=> m = n
  BY DEF Agree
<1>1. PlaceOf(i) = m /\ PlaceOf(j) = n
  BY LiveCarries
<1> QED BY <1>1, InvDistinct DEF NoSharedSequence

\* Once the page is gone nothing new is carried: what is stored late was held.
LEMMA CarriesKept ==
    ASSUME Inv, Inv', NEW p \in Procs, Effects(p), ~page'.live, walk' = walk,
           NEW i \in Items, NEW n \in Nat \ {0}, Carries(i, n)'
    PROVE  Carries(i, n)
<1>1. GoesOn(p) /\ Writes(p) /\ page'.slot = None
  BY DEF Effects, Inv, Shared, SlotInv
<1>2. CASE row'[i] = n
  BY <1>1, <1>2 DEF Writes, Carries
<1>3. ASSUME NEW q \in Procs, Holding(q)', loc'[q].entry.item = i, loc'[q].entry.seq = n
      PROVE  Carries(i, n)
  <2>1. CASE q = p
    <3>1. \/ Holding(p) /\ loc'[p].entry = loc[p].entry
          \/ page.slot # None /\ loc'[p].entry = page.slot
      BY <1>1, <1>3, <2>1 DEF GoesOn, Holding
    <3> QED BY <1>3, <2>1, <3>1 DEF Carries
  <2>2. CASE q # p
    BY <1>1, <1>3, <2>2 DEF GoesOn, OtherProcsStay, Holding, Carries
  <2> QED BY <2>1, <2>2
<1>4. ASSUME NEW e \in Known', e.item = i, e.seq = n PROVE Carries(i, n)
  <2>1. Known' = Known
    BY DEF Known, Shown
  <2> QED BY <1>4, <2>1 DEF Carries
<1>5. \/ row'[i] = n
      \/ \E q \in Procs : Holding(q)' /\ loc'[q].entry.item = i /\ loc'[q].entry.seq = n
      \/ \E e \in Known' : e.item = i /\ e.seq = n
  BY <1>1 DEF Carries
<1> QED BY <1>2, <1>3, <1>4, <1>5

\* Times stay in order.
LEMMA TimesKept ==
    ASSUME Inv, Typed', NEW p \in Procs, Effects(p), Times PROVE Times'
<1>1. GoesOn(p) /\ Writes(p)
  BY DEF Effects
<1>2. /\ clock \in Nat /\ born \in [Revs -> Nat] /\ page.started \in Nat
      /\ clock' \in Nat /\ born' \in [Revs -> Nat] /\ page'.started \in Nat
      /\ loc \in [Procs -> LocType] /\ loc' \in [Procs -> LocType]
      /\ page \in PageType /\ page' \in PageType
  BY DEF Inv, Typed, TypeOK, PageType
<1>3. /\ \A q \in Procs : loc[q].at \in Nat /\ loc'[q].at \in Nat
      /\ Revs \subseteq Procs /\ Revs \cap Scans = {}
  BY <1>2, Sets DEF LocType
<1>4. /\ clock' = clock \/ clock' = clock + 1
      /\ \A r \in Revs : r # p => /\ pc'[r] = pc[r] /\ loc'[r] = loc[r]
                                  /\ born'[r] \in {born[r], 0}
  BY <1>1, <1>2, <1>3 DEF Writes, GoesOn, OtherProcsStay
<1>5. ASSUME NEW r \in Revs
      PROVE  /\ Stamp(r) \in Nat /\ Stamp(r)' \in Nat
             /\ \/ Stamp(r)' \in {Stamp(r), 0}
                \/ r = p /\ Stamp(r)' = clock' /\ clock' = clock + 1
  <2>1. Stamp(r) \in Nat /\ Stamp(r)' \in Nat
    BY <1>2, <1>3 DEF Stamp
  <2>2. CASE r # p
    <3>1. Stamp(r)' = IF pc[r] = "save" THEN loc[r].at ELSE born'[r]
      BY <1>4, <2>2 DEF Stamp
    <3> QED BY <1>4, <2>1, <2>2, <3>1 DEF Stamp
  <2>3. CASE r = p /\ pc'[p] = "save"
    BY <1>1, <2>1, <2>3 DEF GoesOn, Stamp
  <2>4. CASE r = p /\ pc'[p] # "save"
    <3>1. Stamp(r)' = born'[p]
      BY <2>4 DEF Stamp
    <3>2. born'[p] \in {born[p], 0} \/ (pc[p] = "save" /\ born'[p] = loc[p].at)
      BY <1>1, <1>2, <2>4 DEF Writes
    <3>3. pc[p] = "save" => born[p] = 0
      BY <2>4 DEF Times, Unsaved
    <3> QED BY <2>1, <2>4, <3>1, <3>2, <3>3 DEF Stamp
  <2> QED BY <2>1, <2>2, <2>3, <2>4
<1>6. ASSUME NEW r \in Revs PROVE born'[r] # 0 \/ row'[r] # 0 => ~Unsaved(r)'
  <2>1. row'[r] # 0 => row[r] # 0 \/ born[r] # 0
    BY <1>1 DEF Writes
  <2>2. CASE r # p
    BY <1>4, <2>1, <2>2 DEF Times, Unsaved
  <2>3. CASE r = p
    <3>1. SUFFICES ASSUME pc'[p] = "save" PROVE born'[r] = 0 /\ row'[r] = 0
      BY <1>1, <2>3 DEF GoesOn, Unsaved
    <3>2. pc[p] = "prepare" /\ clock' = clock + 1
      BY <1>1, <3>1 DEF GoesOn
    <3>3. born' = born
      BY <1>1, <1>2, <3>2 DEF Writes
    <3>4. born[r] = 0 /\ row[r] = 0
      BY <2>3, <3>2 DEF Times, Unsaved
    <3> QED BY <2>1, <3>3, <3>4
  <2> QED BY <2>2, <2>3
<1>7. ASSUME NEW r \in Revs
      PROVE  /\ Stamp(r)' <= clock'
             /\ \A q \in Revs : Stamp(q)' = Stamp(r)' /\ Stamp(q)' # 0 => q = r
  <2>1. Stamp(r)' <= clock'
    BY <1>2, <1>4, <1>5 DEF Times
  <2>2. ASSUME NEW q \in Revs, Stamp(q)' = Stamp(r)', Stamp(q)' # 0, q # r PROVE FALSE
    <3>1. CASE Stamp(q)' = Stamp(q) /\ Stamp(r)' = Stamp(r)
      BY <2>2, <3>1 DEF Times
    <3>2. CASE q = p /\ Stamp(q)' = clock + 1
      <4>1. Stamp(r)' = Stamp(r)
        BY <1>5, <2>2, <3>2
      <4>2. Stamp(r) <= clock /\ Stamp(r) \in Nat
        BY <1>5 DEF Times
      <4> QED BY <1>2, <2>2, <3>2, <4>1, <4>2
    <3>3. CASE r = p /\ Stamp(r)' = clock + 1
      <4>1. Stamp(q)' = Stamp(q)
        BY <1>5, <2>2, <3>3
      <4>2. Stamp(q) <= clock /\ Stamp(q) \in Nat
        BY <1>5 DEF Times
      <4> QED BY <1>2, <2>2, <3>3, <4>1, <4>2
    <3> QED BY <1>5, <2>2, <3>1, <3>2, <3>3
  <2> QED BY <2>1, <2>2
<1>8. page'.started <= clock' + 1
  BY <1>1, <1>2, <1>3, <1>4 DEF Times, Writes
<1>9. ASSUME NEW q \in Procs
      PROVE  loc'[q].at <= clock' + 1 /\ (q \in Revs => loc'[q].at <= clock')
  <2>1. CASE q # p
    BY <1>1, <1>2, <1>3, <1>4, <2>1 DEF GoesOn, OtherProcsStay, Times
  <2>2. CASE q = p
    <3>1. TimeKept(p, loc'[p])
      BY <1>1 DEF GoesOn
    <3>2. ASSUME NEW r \in Revs, loc'[p].at = born[r] PROVE loc'[p].at <= clock
      <4>1. born[r] = 0 \/ born[r] = Stamp(r)
        BY DEF Times, Unsaved, Stamp
      <4> QED BY <1>2, <1>5, <3>2, <4>1 DEF Times
    <3> QED BY <1>2, <1>3, <1>4, <2>2, <3>1, <3>2 DEF TimeKept, Times
  <2> QED BY <2>1, <2>2
<1> QED BY <1>6, <1>7, <1>8, <1>9 DEF Times

\* A Revision seen once, with a place or without, is not seen the other way.
LEMMA SightsKept ==
    ASSUME Inv, NEW p \in Procs, Effects(p), walk' = walk, walk \in WalkType,
           Times, SeenOnce, ShownOK
    PROVE  SeenOnce' /\ ShownOK'
<1>1. GoesOn(p) /\ Writes(p) /\ Revs \subseteq Procs
  BY Sets DEF Effects
<1>2. ASSUME NEW r \in Revs, ~Unsaved(r)
      PROVE  /\ ~Unsaved(r)' /\ born'[r] \in {born[r], 0}
             /\ (born[r] # 0 => row[r] # 0) => (born'[r] # 0 => row'[r] # 0)
  <2>1. ~Unsaved(r)'
    BY <1>1, <1>2 DEF GoesOn, OtherProcsStay, Unsaved
  <2>2. born'[r] \in {born[r], 0}
    <3>1. born \in [Revs -> Nat]
      BY DEF Inv, Typed, TypeOK
    <3> QED BY <1>1, <1>2, <3>1 DEF Writes, Unsaved
  <2>3. row'[r] # row[r] => (row[r] = 0 /\ born[r] # 0) \/ born'[r] = 0
    BY <1>1 DEF Writes
  <2> QED BY <2>1, <2>2, <2>3
<1>3. Known' = Known /\ Shown' = Shown
  BY DEF Known, Shown
<1>4. SeenOnce'
  BY <1>2, <1>3 DEF SeenOnce
<1>5. \A e \in Shown : e.seq = 0 => /\ e.item \in Revs /\ ~Unsaved(e.item)'
                                    /\ e.key # 0 /\ born'[e.item] \in {0, e.key}
  BY <1>2 DEF ShownOK
<1>6. ShownOK'
  BY <1>3, <1>5 DEF ShownOK, InRequest, Continues
<1> QED BY <1>4, <1>6

\* The outbox never disturbs a walk.
LEMMA OutboxKeeps ==
    ASSUME Inv, Stray = {}, [Next]_vars, walk' = walk, WalkInv PROVE WalkInv'
<1>1. Inv' /\ Typed'
  BY NextInv DEF Inv
<1>2. /\ walk \in WalkType /\ Agree /\ Current /\ Times /\ SeenOnce /\ RequestOK /\ ShownOK /\ WalkInOrder
  BY KnownTyped DEF WalkInv, WalkInOrder
<1>3. RequestOK' /\ WalkInOrder'
  BY <1>2 DEF RequestOK, WalkInOrder, InWindow, Continues
<1>4. CASE UNCHANGED <<page, born, row, clock, pc, loc>>
  <2>1. Known' = Known /\ Shown' = Shown
    BY DEF Known, Shown
  <2>2. \A i \in Items : \A n \in Nat \ {0} : Carries(i, n)' <=> Carries(i, n)
    BY <1>4, <2>1 DEF Carries, Holding
  <2>3. Agree' /\ Current'
    BY <1>2, <1>4, <2>1, <2>2 DEF Agree, Current, PlaceOf, Staged
  <2>4. Times' /\ SeenOnce' /\ ShownOK'
    BY <1>2, <1>4, <2>1 DEF Times, Stamp, Unsaved, SeenOnce, ShownOK, InRequest, Continues
  <2> QED BY <1>3, <2>3, <2>4 DEF WalkInv
<1>5. ASSUME NEW p \in Procs, Effects(p), NEW q \in Procs, Changes(q) PROVE WalkInv'
  <2>1. Times' /\ SeenOnce' /\ ShownOK'
    BY <1>1, <1>2, <1>5, TimesKept, SightsKept
  <2>2. Current'
    <3>1. Known' = Known /\ Known \subseteq Entries /\ \A e \in Known : e.item \in Items /\ e.seq # 0
      BY <1>2, KnownTyped DEF Known, Shown
    <3> SUFFICES ASSUME page'.live, NEW e \in Known PROVE PlaceOf(e.item)' = e.seq
      BY <3>1 DEF Current
    <3>2. page.live /\ PlaceOf(e.item) = e.seq /\ e.item \in Items /\ e.seq # 0
      BY <1>1, <1>2, <1>5, <3>1, PlacesKept DEF Current
    <3> QED BY <1>1, <1>5, <3>2, PlacesKept
  <2>3. Agree'
    <3>1. CASE page'.live
      <4>1. (Inv /\ page.live /\ Current => Agree)'
        BY LiveAgree, PTL
      <4> QED BY <1>1, <2>2, <3>1, <4>1
    <3>2. CASE ~page'.live
      <4>1. \A i \in Items : \A n \in Nat \ {0} : Carries(i, n)' => Carries(i, n)
        BY <1>1, <1>5, <3>2, CarriesKept
      <4> QED BY <1>2, <4>1 DEF Agree
    <3> QED BY <3>1, <3>2
  <2> QED BY <1>3, <2>1, <2>2, <2>3 DEF WalkInv
<1> QED BY <1>4, <1>5, StepEffects DEF vars

-----------------------------------------------------------------------------
(* The steps of a request. *)

\* A read changes no document and no process.
LEMMA InvWithReads == ASSUME Inv, Stray = {}, UNCHANGED vars PROVE Inv'
<1>1. [Next]_vars
  OBVIOUS
<1> QED BY <1>1, NextInv

\* A walk that ends without an answer knows what it knew.
LEMMA EndKeeps ==
    ASSUME WalkInv, UNCHANGED vars, walk' = [walk EXCEPT !.at = "gone"] PROVE WalkInv'
<1>1. /\ walk \in WalkType
      /\ Agree /\ Current /\ Times /\ SeenOnce /\ RequestOK /\ ShownOK /\ WalkInOrder
  BY DEF WalkInv, WalkInOrder
<1>2. /\ walk' \in WalkType /\ walk'.at = "gone"
      /\ walk'.found = walk.found /\ walk'.pending = walk.pending /\ walk'.shown = walk.shown
      /\ walk'.boundary = walk.boundary /\ walk'.upper = walk.upper
      /\ walk'.cursor = walk.cursor /\ walk'.region = walk.region /\ walk'.ready = walk.ready
  BY <1>1 DEF WalkType
<1>3. Known' = Known /\ Shown' = Shown
  BY <1>2 DEF Known, Shown
<1>4. Agree' /\ Current' /\ Times' /\ SeenOnce'
  BY <1>1, <1>2, <1>3
     DEF vars, Agree, Carries, Holding, Current, PlaceOf, Staged, Times, Stamp, Unsaved, SeenOnce
<1>5. RequestOK' /\ ShownOK'
  BY <1>1, <1>2, <1>3 DEF vars, RequestOK, ShownOK, Unsaved, InRequest
<1>6. WalkInOrder'
  BY <1>1, <1>2 DEF WalkInOrder
<1> QED BY <1>4, <1>5, <1>6 DEF WalkInv

\* The staged event, as the walk sees it.
LEMMA ProjectedFacts ==
    ASSUME Inv, page.live
    PROVE  /\ Projected \subseteq Entries /\ IsFiniteSet(Projected)
           /\ \A e \in Projected : /\ e.seq # 0 /\ e.key = e.seq /\ e.staged /\ e.item \in Cmds
                                   /\ PlaceOf(e.item) = e.seq
<1>1. page \in PageType /\ SlotInv
  BY DEF Inv, Shared, Typed, TypeOK
<1>2. CASE page.slot # None /\ page.slot.type = "page_event"
  <2>1. page.slot.item \in Cmds /\ page.slot.seq \in Nat /\ page.slot.seq # 0
    BY <1>1, <1>2, EntryFields DEF PageType, SlotInv
  <2> DEFINE e == [item |-> page.slot.item, seq |-> page.slot.seq, key |-> page.slot.seq,
                   staged |-> TRUE]
  <2>2. e \in Entries /\ PlaceOf(page.slot.item) = page.slot.seq
    BY <1>2, <2>1, Sets DEF Entries, PlaceOf, Staged
  <2>3. Projected = {e} /\ IsFiniteSet({e})
    BY <1>2, FS_Singleton DEF Projected
  <2> QED BY <2>1, <2>2, <2>3
<1>3. CASE ~(page.slot # None /\ page.slot.type = "page_event")
  <2>1. Projected = {}
    BY <1>3 DEF Projected
  <2> QED BY <2>1, FS_EmptySet
<1> QED BY <1>2, <1>3

\* What the first of a request's reads leaves in the walk.
LEMMA WalkPageFields ==
    ASSUME walk \in WalkType, WalkPage, page.live
    PROVE  LET first == walk.cursor = None
               started == IF Ready THEN page.started ELSE 0
               boundary == IF first THEN started ELSE walk.cursor.boundary
               region == IF ~first THEN walk.cursor.region
                         ELSE IF boundary # 0 THEN "sequenced" ELSE "unsequenced"
               placed == boundary # 0 /\ region = "sequenced"
           IN  /\ walk'.at = IF placed THEN "rows" ELSE "rest"
               /\ walk'.todo = IF placed THEN {"events", "revisions"} ELSE {}
               /\ walk'.ready = (boundary # 0)
               /\ walk'.region = region /\ walk'.boundary = boundary
               /\ walk'.upper = IF boundary = 0 THEN 0
                                ELSE IF first THEN page.seq ELSE walk.cursor.upper
               /\ walk'.pending = IF placed THEN Projected ELSE {}
               /\ walk'.found = {}
               /\ walk'.owed = IF first THEN Owing(boundary) ELSE walk.owed
               /\ walk'.limit = walk.limit /\ walk'.cursor = walk.cursor
               /\ walk'.shown = walk.shown
BY DEF WalkType, WalkPage

\* The first read of a request keeps what the walk relies on.
LEMMA WalkPageKeeps ==
    ASSUME Inv, Stray = {}, WalkInv, WalkPage, UNCHANGED vars PROVE WalkInv'
<1>1. /\ walk \in WalkType /\ walk.at = "page"
      /\ Agree /\ Current /\ Times /\ SeenOnce /\ RequestOK /\ ShownOK /\ WalkInOrder
  BY DEF WalkInv, WalkInOrder, WalkPage
<1>2. CASE ~page.live
  <2>1. walk' = [walk EXCEPT !.at = "gone"]
    BY <1>2 DEF WalkPage
  <2> QED BY <2>1, EndKeeps
<1>3. CASE page.live
  <2> DEFINE first == walk.cursor = None
             boundary == walk'.boundary
             placed == boundary # 0 /\ walk'.region = "sequenced"
  <2>1. /\ page.started \in Nat /\ page.seq \in Nat /\ page \in PageType
        /\ walk.cursor # None => walk.cursor \in Cursors
        /\ walk.shown \in Seq(Entries) /\ walk.owed \subseteq Items /\ walk.limit \in Limits
    BY <1>1 DEF Inv, Typed, TypeOK, PageType, WalkType
  <2>2. /\ walk'.at \in {"rows", "rest"} /\ (walk'.at = "rows" => placed)
        /\ walk'.todo \subseteq {"events", "revisions"}
        /\ walk'.ready = (boundary # 0)
        /\ boundary \in Nat /\ (first => boundary \in {0, page.started})
        /\ walk.cursor # None => boundary = walk.cursor.boundary
                                 /\ walk'.region = walk.cursor.region
        /\ first => walk'.region = IF boundary # 0 THEN "sequenced" ELSE "unsequenced"
        /\ walk'.region \in Regions
        /\ walk'.upper \in Nat /\ (boundary = 0 => walk'.upper = 0)
        /\ walk.cursor # None /\ boundary # 0 => walk'.upper = walk.cursor.upper
        /\ walk'.pending \in {Projected, {}} /\ (~placed => walk'.pending = {})
        /\ walk'.found = {} /\ walk'.owed \subseteq Items
        /\ walk'.limit = walk.limit /\ walk'.cursor = walk.cursor
        /\ walk'.shown = walk.shown
    BY <1>1, <1>3, <2>1, WalkPageFields, Sets
       DEF Cursors, Regions, Owing, OnTimeline, BelowBoundary
  <2>3. /\ Projected \subseteq Entries /\ IsFiniteSet(Projected)
        /\ \A e \in Projected : /\ e.seq # 0 /\ e.key = e.seq /\ e.staged /\ e.item \in Cmds
                                /\ PlaceOf(e.item) = e.seq
    BY <1>3, ProjectedFacts
  <2>4. walk' \in WalkType
    <3>1. walk' = [at |-> walk'.at, limit |-> walk'.limit, cursor |-> walk'.cursor,
                   todo |-> walk'.todo, ready |-> walk'.ready, region |-> walk'.region,
                   upper |-> walk'.upper, boundary |-> walk'.boundary,
                   pending |-> walk'.pending, found |-> walk'.found, shown |-> walk'.shown,
                   owed |-> walk'.owed]
      BY <1>1, <1>3 DEF WalkPage, WalkType
    <3> QED BY <1>1, <2>1, <2>2, <2>3, <3>1 DEF WalkType
  <2>5. Shown' = Shown /\ Known' \subseteq Known \cup Projected
    BY <2>2 DEF Shown, Known
  <2>6. Current'
    <3>1. \A e \in Known' : PlaceOf(e.item) = e.seq
      BY <1>1, <1>3, <2>3, <2>5 DEF Current
    <3> QED BY <3>1 DEF Current, vars, PlaceOf, Staged
  <2>7. Agree'
    <3>1. Inv'
      BY InvWithReads
    <3>2. (Inv /\ page.live /\ Current => Agree)'
      BY LiveAgree, PTL
    <3> QED BY <1>3, <2>6, <3>1, <3>2 DEF vars
  <2>8. Times'
    BY <1>1 DEF Times, Stamp, Unsaved, vars
  <2>9. SeenOnce'
    BY <1>1, <2>3, <2>5, Sets DEF SeenOnce, Unsaved, vars
  <2>10. RequestOK'
    <3>1. IsFiniteSet({}) /\ IsFiniteSet(walk'.pending)
      BY <2>2, <2>3, FS_EmptySet
    <3>2. walk'.region = "sequenced" => boundary # 0
      BY <1>1, <2>2 DEF RequestOK
    <3>3. walk.cursor # None =>
            /\ walk.cursor.boundary = boundary /\ walk.cursor.upper = walk'.upper
            /\ walk.cursor.region = "sequenced" => boundary # 0
      BY <1>1, <2>2 DEF RequestOK
    <3>4. \A e \in walk'.pending : e.seq # 0 /\ e.key = e.seq /\ e.staged /\ e.item \in Cmds
      BY <2>2, <2>3
    <3> QED BY <2>2, <3>1, <3>2, <3>3, <3>4 DEF RequestOK
  <2>11. ShownOK'
    <3>1. InRequest /\ (walk.cursor = None => Shown = {})
      BY <1>1 DEF InRequest, ShownOK, Shown
    <3>2. walk.cursor # None => boundary = walk.boundary
      BY <1>1, <2>2 DEF RequestOK
    <3>3. \A e \in Shown : e.seq # 0 => e.key = e.seq /\ boundary # 0
      BY <1>1, <3>1, <3>2 DEF ShownOK
    <3> QED BY <1>1, <2>2, <2>5, <3>1, <3>3 DEF ShownOK, Unsaved, Continues, vars
  <2>12. WalkInOrder'
    BY <1>1, <2>2, <2>4 DEF WalkInOrder
  <2> QED BY <2>6, <2>7, <2>8, <2>9, <2>10, <2>11, <2>12 DEF WalkInv
<1> QED BY <1>2, <1>3

\* The rows a query of this request matches.
RowsIn(S) == {Stored(i) : i \in {j \in S \cap Placed : InWindow(row[j])}}

\* They are finitely many, each the stored copy of an item, and do not tie.
LEMMA RowsFacts ==
    ASSUME Inv, Agree, NEW S \in SUBSET Items
    PROVE  /\ RowsIn(S) \subseteq Entries /\ IsFiniteSet(RowsIn(S))
           /\ \A e \in RowsIn(S) : /\ e.item \in S /\ e.seq = row[e.item] /\ e.seq # 0
                                   /\ e.key = e.seq /\ ~e.staged /\ InWindow(e.seq)
           /\ \A i \in S : row[i] # 0 /\ InWindow(row[i]) =>
                Stored(i) \in RowsIn(S) /\ Stored(i).item = i /\ Stored(i).key = row[i]
           /\ Keyed(RowsIn(S)) /\ Total(RowsIn(S))
<1>1. row \in [Items -> Nat]
  BY DEF Inv, Typed, TypeOK
<1> DEFINE Q == {j \in S \cap Placed : InWindow(row[j])}
<1>2. ASSUME NEW i \in Q
      PROVE  /\ Stored(i) \in Entries /\ Stored(i).item = i
             /\ Stored(i).seq = row[i] /\ Stored(i).key = row[i] /\ ~Stored(i).staged
             /\ i \in S /\ row[i] # 0 /\ InWindow(row[i])
  BY <1>1 DEF Stored, Entries, Placed
<1>3. RowsIn(S) = {Stored(i) : i \in Q}
  BY DEF RowsIn
<1>4. \A i \in S : row[i] # 0 /\ InWindow(row[i]) => i \in Q
  BY DEF Placed
<1>5. IsFiniteSet(RowsIn(S))
  <2> DEFINE f == [i \in Q |-> Stored(i)]
  <2>1. IsFiniteSet(Q)
    <3>1. Q \subseteq Items
      OBVIOUS
    <3> HIDE DEF Q
    <3> QED BY <3>1, ReadAssumption, FS_Subset
  <2>2. f \in Surjection(Q, RowsIn(S))
    <3> HIDE DEF Q
    <3>1. f \in [Q -> RowsIn(S)] /\ \A i \in Q : f[i] = Stored(i)
      BY <1>3
    <3> QED BY <1>3, <3>1 DEF Surjection
  <2> HIDE DEF f, Q
  <2> QED BY <2>1, <2>2, FS_Surjection
<1> HIDE DEF Q
<1>6. /\ RowsIn(S) \subseteq Entries
      /\ \A e \in RowsIn(S) : /\ e.item \in S /\ e.seq = row[e.item] /\ e.seq # 0
                              /\ e.key = e.seq /\ ~e.staged /\ InWindow(e.seq)
                              /\ e = Stored(e.item)
  BY <1>2, <1>3
<1>7. \A i \in S : row[i] # 0 /\ InWindow(row[i]) =>
        Stored(i) \in RowsIn(S) /\ Stored(i).item = i /\ Stored(i).key = row[i]
  BY <1>2, <1>3, <1>4
<1>8. Keyed(RowsIn(S))
  BY <1>6 DEF Keyed, Entries
<1>9. ASSUME NEW a \in RowsIn(S), NEW b \in RowsIn(S), a # b
      PROVE  Before(a, b) \/ Before(b, a)
  <2>1. a.item # b.item /\ a.item \in Items /\ b.item \in Items
    BY <1>6, <1>9
  <2>2. a.seq # b.seq
    <3>1. row[a.item] \in Nat /\ row[b.item] \in Nat
      BY <1>1, <2>1
    <3>2. Carries(a.item, a.seq) /\ Carries(b.item, b.seq) /\ a.seq \in Nat \ {0} /\ b.seq \in Nat \ {0}
      BY <1>6, <3>1 DEF Carries
    <3> QED BY <2>1, <3>2 DEF Agree
  <2>3. a.key # b.key /\ a.key \in Nat /\ b.key \in Nat /\ a.seq # 0 /\ b.seq # 0
    BY <1>6, <1>8, <2>2 DEF Keyed
  <2> QED BY <2>3 DEF Before
<1> QED BY <1>5, <1>6, <1>7, <1>8, <1>9 DEF Total

\* What a query adds to the walk.
LEMMA FindRowsFields ==
    ASSUME walk \in WalkType, NEW kind, NEW S, FindRows(kind, S)
    PROVE  /\ walk.at = "rows" /\ kind \in walk.todo
           /\ walk'.found = walk.found \cup Fetched(RowsIn(S))
           /\ walk'.todo = walk.todo \ {kind}
           /\ walk'.at = IF walk.todo \ {kind} = {} THEN "rest" ELSE "rows"
           /\ walk' = [walk EXCEPT !.found = walk'.found, !.todo = walk'.todo, !.at = walk'.at]
           /\ walk'.pending = walk.pending /\ walk'.shown = walk.shown
           /\ walk'.boundary = walk.boundary /\ walk'.upper = walk.upper
           /\ walk'.cursor = walk.cursor /\ walk'.region = walk.region
           /\ walk'.ready = walk.ready /\ walk'.limit = walk.limit
           /\ walk'.owed = walk.owed
<1>1. /\ walk.at = "rows" /\ kind \in walk.todo
      /\ walk' = [walk EXCEPT !.found = walk.found \cup Fetched(RowsIn(S)),
                              !.todo = walk.todo \ {kind},
                              !.at = IF walk.todo \ {kind} = {} THEN "rest" ELSE "rows"]
  BY DEF FindRows, RowsIn, WalkType
<1> QED BY <1>1 DEF WalkType

\* So do the queries of the rows.
LEMMA FindRowsKeeps ==
    ASSUME Inv, Stray = {}, WalkInv, UNCHANGED vars,
           NEW kind, NEW S \in SUBSET Items, FindRows(kind, S)
    PROVE  WalkInv'
<1>1. /\ walk \in WalkType
      /\ Agree /\ Current /\ Times /\ SeenOnce /\ RequestOK /\ ShownOK /\ WalkInOrder
  BY DEF WalkInv, WalkInOrder
<1> DEFINE R == Fetched(RowsIn(S))
<1>2. R \subseteq RowsIn(S) /\ IsFiniteSet(R)
  BY <1>1, RowsFacts, FirstPart DEF Fetched
<1>3. /\ R \subseteq Entries
      /\ \A e \in R : /\ e.item \in Items /\ e.seq = row[e.item] /\ e.seq # 0 /\ e.seq \in Nat
                      /\ e.key = e.seq /\ ~e.staged /\ InWindow(e.seq)
  BY <1>1, <1>2, RowsFacts, KnownTyped
<1>4. /\ walk.at = "rows" /\ walk'.at \in {"rows", "rest"}
      /\ walk'.found = walk.found \cup R /\ walk'.todo \subseteq walk.todo
      /\ walk' = [walk EXCEPT !.found = walk'.found, !.todo = walk'.todo, !.at = walk'.at]
      /\ walk'.pending = walk.pending /\ walk'.shown = walk.shown
      /\ walk'.boundary = walk.boundary /\ walk'.upper = walk.upper
      /\ walk'.cursor = walk.cursor /\ walk'.region = walk.region /\ walk'.ready = walk.ready
  BY <1>1, FindRowsFields
<1> HIDE DEF R
<1>5. walk' \in WalkType
  BY <1>1, <1>3, <1>4 DEF WalkType
<1>6. Shown' = Shown /\ Known' \subseteq Known \cup R
  BY <1>4 DEF Known, Shown
<1>7. Agree'
  <2>1. \A i \in Items : \A n \in Nat \ {0} : Carries(i, n)' => Carries(i, n)
    BY <1>3, <1>6 DEF vars, Carries, Holding
  <2> QED BY <1>1, <2>1 DEF Agree
<1>8. Current'
  <2>1. ASSUME page.live, NEW e \in Known' PROVE PlaceOf(e.item) = e.seq
    <3>1. CASE e \in R
      <4>1. e.item \in Items /\ e.seq \in Nat \ {0} /\ Carries(e.item, e.seq)
        BY <1>3, <3>1 DEF Carries
      <4> QED BY <1>1, <2>1, <4>1, LiveCarries
    <3> QED BY <1>1, <1>6, <2>1, <3>1 DEF Current
  <2> QED BY <2>1 DEF Current, vars, PlaceOf, Staged
<1>9. Times'
  BY <1>1, <1>4 DEF Times, Stamp, Unsaved, vars
<1>10. SeenOnce'
  BY <1>1, <1>3, <1>6 DEF SeenOnce, Times, Unsaved, vars
<1>11. RequestOK'
  <2>1. IsFiniteSet(walk'.found) /\ IsFiniteSet(walk'.pending)
    <3>1. IsFiniteSet(walk.found) /\ IsFiniteSet(walk.pending)
      BY <1>1 DEF RequestOK
    <3>2. IsFiniteSet(walk.found \cup R)
      BY <1>2, <3>1, FS_Union
    <3> QED BY <1>4, <3>1, <3>2
  <2>2. \A n : InWindow(n)' <=> InWindow(n)
    BY <1>4 DEF InWindow, Continues
  <2>3. \A e \in walk'.found : e.seq # 0 /\ e.key = e.seq /\ ~e.staged /\ InWindow(e.seq)'
    BY <1>1, <1>3, <1>4, <2>2 DEF RequestOK
  <2> QED BY <1>1, <1>4, <2>1, <2>3 DEF RequestOK
<1>12. ShownOK'
  BY <1>1, <1>4, <1>6 DEF ShownOK, Unsaved, InRequest, Continues, vars
<1>13. WalkInOrder'
  BY <1>1, <1>4, <1>5 DEF WalkInOrder
<1> QED BY <1>7, <1>8, <1>9, <1>10, <1>11, <1>12, <1>13 DEF WalkInv

-----------------------------------------------------------------------------
(* The answer of a request. *)

\* What the walk has been given with a place does not tie and is not corrupt.
LEMMA MergedFacts ==
    ASSUME Inv, WalkInv, walk.at = "rest"
    PROVE  /\ Merged \subseteq walk.found \cup walk.pending /\ Merged \subseteq Known
           /\ Merged \subseteq Entries /\ IsFiniteSet(Merged)
           /\ \A e \in Merged : e.seq # 0 /\ e.key = e.seq /\ InWindow(e.seq)
           /\ \A a, b \in Merged : a # b => a.item # b.item /\ a.seq # b.seq
           /\ Keyed(Merged) /\ Total(Merged) /\ ~Corrupt
           /\ Merged # {} => /\ walk.region = "sequenced" /\ walk.boundary # 0 /\ walk.ready
<1>1. walk \in WalkType /\ Agree /\ RequestOK
  BY DEF WalkInv, WalkInOrder
<1>2. /\ walk.found \subseteq Entries /\ walk.pending \subseteq Entries
      /\ \A e \in Entries : /\ e.item \in Items /\ e.seq \in Nat /\ e.key \in Nat
                            /\ e.staged \in BOOLEAN
  BY <1>1, KnownTyped
<1>3. /\ Merged \subseteq walk.found \cup walk.pending
      /\ \A e \in Merged : /\ InWindow(e.seq)
                           /\ e \in walk.found \/ \A f \in walk.found : f.item # e.item
  BY DEF Merged, WithPending
<1>4. IsFiniteSet(Merged)
  <2>1. IsFiniteSet(walk.found \cup walk.pending)
    BY <1>1, FS_Union DEF RequestOK
  <2> QED BY <1>3, <2>1, FS_Subset
<1>5. \A e \in Merged : /\ e \in Entries /\ e \in Known /\ e.seq # 0 /\ e.key = e.seq
                        /\ Carries(e.item, e.seq)
  BY <1>1, <1>2, <1>3 DEF RequestOK, Known, Carries
<1>6. ASSUME NEW a \in Merged, NEW b \in Merged, a # b
      PROVE  a.item # b.item /\ a.seq # b.seq
  <2>1. a.item = b.item <=> a.seq = b.seq
    BY <1>1, <1>2, <1>5 DEF Agree
  <2>2. CASE a.item = b.item
    <3>1. a.seq = b.seq /\ a.key = b.key
      BY <1>5, <2>1, <2>2
    <3>2. (a \in walk.found /\ b \in walk.found) \/ (a \in walk.pending /\ b \in walk.pending)
      BY <1>3, <2>2
    <3>3. a.staged = b.staged
      <4>1. a.staged \in BOOLEAN /\ b.staged \in BOOLEAN
        BY <1>2, <1>5
      <4> QED BY <1>1, <3>2, <4>1 DEF RequestOK
    <3>4. a \in Entries /\ b \in Entries
      BY <1>5
    <3> QED BY <1>6, <2>2, <3>1, <3>3, <3>4 DEF Entries
  <2> QED BY <2>1, <2>2
<1>7. Keyed(Merged)
  BY <1>2, <1>5 DEF Keyed
<1>8. Total(Merged)
  <2>1. ASSUME NEW a \in Merged, NEW b \in Merged, a # b PROVE Before(a, b) \/ Before(b, a)
    <3>1. a.seq # b.seq /\ a.seq # 0 /\ b.seq # 0 /\ a.key = a.seq /\ b.key = b.seq
      BY <1>5, <1>6, <2>1
    <3>2. a.key \in Nat /\ b.key \in Nat
      BY <1>7 DEF Keyed
    <3> QED BY <3>1, <3>2 DEF Before
  <2> QED BY <2>1 DEF Total
<1>9. ~Corrupt
  <2>1. ASSUME NEW e \in Merged, NEW f \in Merged, e.seq = f.seq, e.item # f.item
        PROVE  FALSE
    BY <1>6, <2>1
  <2> QED BY <2>1 DEF Corrupt
<1>10. Merged # {} => walk.region = "sequenced" /\ walk.boundary # 0 /\ walk.ready
  BY <1>1, <1>3 DEF RequestOK
<1>11. Merged \subseteq Known /\ Merged \subseteq Entries
  BY <1>5
<1> QED BY <1>3, <1>4, <1>5, <1>6, <1>7, <1>8, <1>9, <1>10, <1>11

\* The Revisions the third query matches.
LooseRows == {Loose(r) : r \in Unplaced}

\* They are finitely many and no two were saved at the same time.
LEMMA LooseFacts ==
    ASSUME Inv, Times
    PROVE  /\ LooseRows \subseteq Entries /\ IsFiniteSet(LooseRows)
           /\ \A e \in LooseRows : /\ e.item \in Unplaced /\ e.item \in Revs /\ e.seq = 0
                                   /\ e.key = born[e.item] /\ e.key # 0 /\ ~e.staged
                                   /\ ~Unsaved(e.item)
           /\ \A r \in Unplaced : /\ Loose(r) \in LooseRows /\ Loose(r).item = r
                                  /\ Loose(r).seq = 0 /\ Loose(r).key = born[r]
           /\ \A a, b \in LooseRows : a # b => a.item # b.item /\ a.key # b.key
           /\ Keyed(LooseRows) /\ Total(LooseRows)
<1>1. born \in [Revs -> Nat] /\ Revs \subseteq Items
  BY Sets DEF Inv, Typed, TypeOK
<1>2. ASSUME NEW r \in Unplaced
      PROVE  /\ r \in Revs /\ Loose(r) \in Entries /\ Loose(r).item = r
             /\ Loose(r).seq = 0 /\ Loose(r).key = born[r] /\ ~Loose(r).staged
             /\ born[r] # 0 /\ ~Unsaved(r)
  BY <1>1 DEF Loose, Entries, Unplaced, Times
<1>3. IsFiniteSet(LooseRows)
  <2> DEFINE f == [r \in Unplaced |-> Loose(r)]
  <2>1. IsFiniteSet(Unplaced)
    <3>1. Unplaced \subseteq Items
      BY <1>1, <1>2
    <3> QED BY <3>1, ReadAssumption, FS_Subset
  <2>2. f \in Surjection(Unplaced, LooseRows)
    <3>1. f \in [Unplaced -> LooseRows] /\ \A r \in Unplaced : f[r] = Loose(r)
      BY DEF LooseRows
    <3> HIDE DEF f
    <3> QED BY <3>1 DEF Surjection, LooseRows
  <2> HIDE DEF f
  <2> QED BY <2>1, <2>2, FS_Surjection
<1>4. \A e \in LooseRows : e.item \in Unplaced /\ e = Loose(e.item)
  BY <1>2 DEF LooseRows
<1>5. \A r \in Unplaced : Loose(r) \in LooseRows
  BY DEF LooseRows
<1>6. ASSUME NEW a \in LooseRows, NEW b \in LooseRows, a # b
      PROVE  a.item # b.item /\ a.key # b.key
  <2>1. /\ a.item \in Revs /\ a.key = born[a.item] /\ a.key # 0
        /\ b.item \in Revs /\ b.key = born[b.item] /\ b.key # 0
    BY <1>2, <1>4
  <2>2. a.item # b.item
    BY <1>4, <1>6
  <2>3. Stamp(a.item) = a.key /\ Stamp(b.item) = b.key
    BY <2>1 DEF Times, Stamp, Unsaved
  <2> QED BY <2>1, <2>2, <2>3 DEF Times
<1>7. Keyed(LooseRows)
  <2>1. \A e \in LooseRows : e \in Entries
    BY <1>2, <1>4
  <2> QED BY <2>1 DEF Keyed, Entries
<1>8. Total(LooseRows)
  <2>1. ASSUME NEW a \in LooseRows, NEW b \in LooseRows, a # b
        PROVE  Before(a, b) \/ Before(b, a)
    <3>1. a.key # b.key /\ a.seq = 0 /\ b.seq = 0 /\ a.key \in Nat /\ b.key \in Nat
      BY <1>2, <1>4, <1>6, <1>7, <2>1 DEF Keyed
    <3> QED BY <3>1 DEF Before
  <2> QED BY <2>1 DEF Total
<1> QED BY <1>2, <1>3, <1>4, <1>5, <1>6, <1>7, <1>8

\* What FindRest puts together, and the part of it that is shown.
Answer == IF walk.region = "unsequenced" THEN Fetched(LooseRows)
          ELSE Fetched(Merged) \cup Fetched(LooseRows)

Shows == First(Answer, walk.limit)

End == InOrder(Shows)[Len(InOrder(Shows))]

\* The answer names no item twice and is in order.
LEMMA AnswerFacts ==
    ASSUME Inv, WalkInv, walk.at = "rest"
    PROVE  /\ Answer \subseteq Entries /\ IsFiniteSet(Answer)
           /\ \A e \in Answer : IF e.seq # 0 THEN e \in Merged ELSE e \in LooseRows
           /\ \A a, b \in Answer : a # b => a.item # b.item
           /\ \A a, b \in Answer : Before(a, b) =>
                /\ b.seq # 0 => a.seq > b.seq
                /\ a.seq = 0 => a.key > b.key
           /\ Keyed(Answer) /\ Total(Answer)
           /\ Fetched(Merged) \subseteq Answer /\ Fetched(LooseRows) \subseteq Answer
<1>1. /\ walk \in WalkType /\ Times /\ SeenOnce /\ RequestOK
  BY DEF WalkInv, WalkInOrder
<1>2. /\ Merged \subseteq Known /\ Merged \subseteq Entries /\ IsFiniteSet(Merged)
      /\ \A e \in Merged : e.seq # 0 /\ e.key = e.seq
      /\ \A a, b \in Merged : a # b => a.item # b.item /\ a.seq # b.seq
      /\ Merged # {} => walk.region = "sequenced" /\ walk.ready
  BY MergedFacts
<1>3. /\ LooseRows \subseteq Entries /\ IsFiniteSet(LooseRows)
      /\ \A e \in LooseRows : /\ e.item \in Unplaced /\ e.item \in Revs /\ e.seq = 0
                              /\ born[e.item] # 0
      /\ \A a, b \in LooseRows : a # b => a.item # b.item /\ a.key # b.key
  BY <1>1, LooseFacts
<1>4. /\ Fetched(Merged) \subseteq Merged /\ Fetched(LooseRows) \subseteq LooseRows
      /\ IsFiniteSet(Fetched(Merged)) /\ IsFiniteSet(Fetched(LooseRows))
  BY <1>2, <1>3, FirstPart DEF Fetched
<1>5. walk.region = "unsequenced" => Fetched(Merged) = {}
  BY <1>2, <1>4
<1>6. Answer = Fetched(Merged) \cup Fetched(LooseRows)
  BY <1>5 DEF Answer
<1>7. IsFiniteSet(Answer)
  BY <1>4, <1>6, FS_Union
<1>8. \A e \in Answer : /\ e \in Entries /\ e.seq \in Nat /\ e.key \in Nat /\ e.staged \in BOOLEAN
                        /\ IF e.seq # 0 THEN e \in Merged ELSE e \in LooseRows
  BY <1>1, <1>2, <1>3, <1>4, <1>6, KnownTyped
<1>9. ASSUME NEW a \in Merged, NEW b \in LooseRows PROVE a.item # b.item
  <2>1. walk.ready /\ a \in Known
    BY <1>2, <1>9
  <2>2. row[b.item] = 0 /\ born[b.item] # 0 /\ b.item \in Revs
    BY <1>3, <1>9, <2>1 DEF Unplaced
  <2> QED BY <1>1, <2>1, <2>2 DEF SeenOnce
<1>10. \A a, b \in Answer : a # b => a.item # b.item
  BY <1>2, <1>3, <1>8, <1>9
<1>11. ASSUME NEW a \in Answer, NEW b \in Answer, Before(a, b)
       PROVE  /\ b.seq # 0 => a.seq > b.seq
              /\ a.seq = 0 => a.key > b.key
  <2>1. a # b
    BY <1>8, <1>11 DEF Before
  <2> QED BY <1>2, <1>3, <1>8, <1>11, <2>1 DEF Before
<1>12. Keyed(Answer)
  BY <1>8 DEF Keyed
<1>13. ASSUME NEW a \in Answer, NEW b \in Answer, a # b PROVE Before(a, b) \/ Before(b, a)
  <2>1. (a.seq # 0 <=> b.seq # 0) => a.key # b.key
    BY <1>2, <1>3, <1>8, <1>13
  <2> QED BY <1>8, <2>1 DEF Before
<1> QED BY <1>6, <1>7, <1>8, <1>10, <1>11, <1>12, <1>13 DEF Total

\* The answer goes on where the walk has stopped.
LEMMA AfterShown ==
    ASSUME Inv, WalkInv, walk.at = "rest", NEW s \in Shown, NEW w \in Answer
    PROVE  /\ s.item # w.item
           /\ w.seq # 0 => s.seq > w.seq
           /\ s.seq = 0 => s.key > w.key
<1>1. /\ walk \in WalkType /\ Agree /\ Times /\ SeenOnce /\ RequestOK /\ ShownOK /\ InRequest
  BY DEF WalkInv, WalkInOrder, InRequest
<1>2. /\ s \in Entries /\ w \in Entries /\ s.item \in Items /\ w.item \in Items
      /\ s.seq \in Nat /\ w.seq \in Nat /\ s.key \in Nat /\ w.key \in Nat
      /\ walk.cursor # None => walk.cursor.after \in Nat
  BY <1>1, AnswerFacts, KnownTyped
<1>3. walk.cursor # None
  BY <1>1 DEF ShownOK, Shown
<1>4. walk.region = walk.cursor.region /\ walk.cursor \in Cursors
  BY <1>1, <1>3, KnownTyped DEF RequestOK
<1>5. CASE w.seq # 0
  <2>1. w \in Merged
    BY <1>5, AnswerFacts
  <2>2. w \in Known /\ w.key = w.seq /\ InWindow(w.seq) /\ walk.region = "sequenced"
    BY <2>1, MergedFacts
  <2>3. Continues("sequenced")
    BY <1>3, <1>4, <2>2 DEF Continues
  <2>4. s.seq # 0 /\ s.key = s.seq /\ s.key >= walk.cursor.after
    BY <1>1, <1>3, <2>3 DEF ShownOK
  <2>5. s.seq > w.seq
    BY <1>2, <1>3, <2>2, <2>3, <2>4 DEF InWindow
  <2>6. Carries(s.item, s.seq) /\ Carries(w.item, w.seq)
    BY <2>2, <2>4, <1>5 DEF Carries, Known
  <2> QED BY <1>1, <1>2, <1>5, <2>4, <2>5, <2>6 DEF Agree
<1>6. CASE w.seq = 0
  <2>1. w \in LooseRows
    BY <1>6, AnswerFacts
  <2>2. w.item \in Unplaced /\ w.item \in Revs /\ w.key = born[w.item] /\ w.key # 0
    BY <1>1, <2>1, LooseFacts
  <2>3. CASE s.seq # 0
    <3>1. s \in Known /\ walk.ready
      BY <1>1, <2>3 DEF ShownOK, RequestOK, Known
    <3>2. row[w.item] = 0
      BY <2>2, <3>1 DEF Unplaced
    <3> QED BY <1>1, <1>6, <2>2, <2>3, <3>1, <3>2 DEF SeenOnce
  <2>4. CASE s.seq = 0
    <3>1. ~Continues("sequenced") /\ s.key >= walk.cursor.after
      BY <1>1, <1>3, <2>4 DEF ShownOK
    <3>2. Continues("unsequenced")
      BY <1>3, <1>4, <3>1 DEF Continues, Cursors, Regions
    <3>3. w.key < walk.cursor.after
      BY <2>2, <3>2 DEF Unplaced
    <3>4. born[s.item] \in {0, s.key}
      BY <1>1, <2>4 DEF ShownOK
    <3>5. s.key > w.key
      BY <1>2, <1>3, <3>1, <3>3
    <3>6. s.item # w.item
      BY <1>2, <2>2, <3>4, <3>5
    <3> QED BY <1>6, <3>5, <3>6
  <2> QED BY <2>3, <2>4
<1> QED BY <1>5, <1>6

\* Sequences one after the other.
LEMMA Concatenated ==
    ASSUME NEW E, NEW s \in Seq(E), NEW t \in Seq(E)
    PROVE  /\ s \o t \in Seq(E)
           /\ \A m \in DOMAIN s : m \in DOMAIN (s \o t) /\ (s \o t)[m] = s[m]
           /\ \A k \in DOMAIN t : Len(s) + k \in DOMAIN (s \o t) /\ (s \o t)[Len(s) + k] = t[k]
           /\ \A m \in DOMAIN (s \o t) :
                \/ m \in DOMAIN s
                \/ \E k \in DOMAIN t : m = Len(s) + k
           /\ \A m \in DOMAIN s : m \in Nat /\ m <= Len(s)
           /\ \A k \in DOMAIN t : k \in Nat /\ k >= 1
           /\ Len(s) \in Nat
<1>1. /\ Len(s) \in Nat /\ Len(t) \in Nat /\ DOMAIN s = 1..Len(s) /\ DOMAIN t = 1..Len(t)
      /\ s \o t \in Seq(E) /\ Len(s \o t) = Len(s) + Len(t)
  OBVIOUS
<1>2. DOMAIN (s \o t) = 1..(Len(s) + Len(t))
  BY <1>1
<1>3. \A m \in 1..(Len(s) + Len(t)) :
        (s \o t)[m] = IF m <= Len(s) THEN s[m] ELSE t[m - Len(s)]
  OBVIOUS
<1>4. ASSUME NEW k \in 1..Len(t)
      PROVE  Len(s) + k \in 1..(Len(s) + Len(t)) /\ (s \o t)[Len(s) + k] = t[k]
  <2>1. /\ Len(s) + k \in 1..(Len(s) + Len(t)) /\ ~(Len(s) + k <= Len(s))
        /\ (Len(s) + k) - Len(s) = k
    BY <1>1
  <2> QED BY <1>3, <2>1
<1>5. ASSUME NEW m \in 1..(Len(s) + Len(t)), m \notin 1..Len(s)
      PROVE  \E k \in 1..Len(t) : m = Len(s) + k
  <2>1. m - Len(s) \in 1..Len(t) /\ m = Len(s) + (m - Len(s))
    BY <1>1, <1>5
  <2> QED BY <2>1
<1>6. ASSUME NEW m \in 1..Len(s)
      PROVE  m \in 1..(Len(s) + Len(t)) /\ (s \o t)[m] = s[m] /\ m \in Nat /\ m <= Len(s)
  BY <1>1, <1>3
<1>7. \A k \in 1..Len(t) : k \in Nat /\ k >= 1
  OBVIOUS
<1>8. \A m \in 1..(Len(s) + Len(t)) : m \in 1..Len(s) \/ \E k \in 1..Len(t) : m = Len(s) + k
  BY <1>5
<1> QED BY <1>1, <1>2, <1>4, <1>6, <1>7, <1>8, Zenon

\* The part shown, and its last entry.
LEMMA ShowsFacts ==
    ASSUME Inv, WalkInv, walk.at = "rest"
    PROVE  /\ Shows \subseteq Answer /\ IsFiniteSet(Shows) /\ Keyed(Shows) /\ Total(Shows)
           /\ InOrder(Shows) \in Seq(Entries)
           /\ DOMAIN InOrder(Shows) = 1..Cardinality(Shows)
           /\ Len(InOrder(Shows)) = Cardinality(Shows) /\ Cardinality(Shows) \in Nat
           /\ \A k \in DOMAIN InOrder(Shows) : InOrder(Shows)[k] \in Shows
           /\ \A e \in Shows : \E k \in DOMAIN InOrder(Shows) : InOrder(Shows)[k] = e
           /\ \A k, l \in DOMAIN InOrder(Shows) :
                k < l => Before(InOrder(Shows)[k], InOrder(Shows)[l])
           /\ Cardinality(Answer) <= walk.limit => Shows = Answer
           /\ Cardinality(Answer) > walk.limit =>
                /\ Cardinality(Shows) = walk.limit /\ End \in Shows
                /\ \A e \in Shows : e = End \/ Before(e, End)
<1>1. /\ Answer \subseteq Entries /\ IsFiniteSet(Answer) /\ Keyed(Answer) /\ Total(Answer)
      /\ walk.limit \in Nat /\ walk.limit # 0
  BY AnswerFacts, KnownTyped DEF WalkInv, WalkInOrder
<1>2. Shows \subseteq Answer /\ IsFiniteSet(Shows) /\ Keyed(Shows) /\ Total(Shows)
  BY <1>1, FirstPart DEF Shows, Keyed, Total
<1>3. /\ InOrder(Shows) \in Seq(Shows)
      /\ DOMAIN InOrder(Shows) = 1..Cardinality(Shows)
      /\ Len(InOrder(Shows)) = Cardinality(Shows) /\ Cardinality(Shows) \in Nat
      /\ \A k \in 1..Cardinality(Shows) : InOrder(Shows)[k] \in Shows
      /\ \A e \in Shows : \E k \in 1..Cardinality(Shows) : InOrder(Shows)[k] = e
      /\ \A k, l \in 1..Cardinality(Shows) :
           k < l => Before(InOrder(Shows)[k], InOrder(Shows)[l])
  BY <1>2, InOrderFacts
<1>4. InOrder(Shows) \in Seq(Entries)
  BY <1>1, <1>2, <1>3
<1>5. /\ Cardinality(Answer) <= walk.limit => Shows = Answer
      /\ Cardinality(Answer) >= walk.limit => Cardinality(Shows) = walk.limit
  BY <1>1, FirstCount DEF Shows
<1>6. ASSUME Cardinality(Answer) > walk.limit
      PROVE  /\ Cardinality(Shows) = walk.limit /\ End \in Shows
             /\ \A e \in Shows : e = End \/ Before(e, End)
  <2>1. Cardinality(Shows) = walk.limit /\ Cardinality(Shows) \in 1..Cardinality(Shows)
    <3>1. Cardinality(Answer) \in Nat
      BY <1>1, FS_CardinalityType
    <3> QED BY <1>1, <1>5, <1>6, <3>1
  <2>2. End = InOrder(Shows)[Cardinality(Shows)]
    BY <1>3 DEF End
  <2>3. ASSUME NEW e \in Shows PROVE e = End \/ Before(e, End)
    <3>1. PICK k \in 1..Cardinality(Shows) : InOrder(Shows)[k] = e
      BY <1>3
    <3>2. k = Cardinality(Shows) \/ k < Cardinality(Shows)
      BY <1>3
    <3> QED BY <1>3, <2>1, <2>2, <3>1, <3>2
  <2> QED BY <1>3, <2>1, <2>2, <2>3
<1> QED BY <1>2, <1>3, <1>4, <1>5, <1>6

\* What the answer leaves in the walk.
LEMMA FindRestFields ==
    ASSUME Inv, WalkInv, FindRest
    PROVE  /\ walk.at = "rest" /\ walk'.shown = walk.shown \o InOrder(Shows)
           /\ walk'.at = IF Cardinality(Answer) <= walk.limit THEN "done" ELSE "page"
           /\ walk'.cursor = IF Cardinality(Answer) <= walk.limit THEN walk.cursor
                             ELSE [region |-> IF End.seq # 0 THEN "sequenced" ELSE "unsequenced",
                                   after |-> End.key, upper |-> walk.upper,
                                   boundary |-> walk.boundary]
           /\ walk' = [walk EXCEPT !.at = walk'.at, !.shown = walk'.shown,
                                   !.cursor = walk'.cursor]
           /\ walk'.found = walk.found /\ walk'.pending = walk.pending
           /\ walk'.boundary = walk.boundary /\ walk'.upper = walk.upper
           /\ walk'.region = walk.region /\ walk'.ready = walk.ready
           /\ walk'.limit = walk.limit /\ walk'.owed = walk.owed
<1>1. walk \in WalkType /\ walk.at = "rest" /\ ~Corrupt
  BY MergedFacts DEF WalkInv, WalkInOrder, FindRest
<1> DEFINE cursor == [region |-> IF End.seq # 0 THEN "sequenced" ELSE "unsequenced",
                      after |-> End.key, upper |-> walk.upper, boundary |-> walk.boundary]
           shown == walk.shown \o InOrder(Shows)
<1>2. walk' = IF Cardinality(Answer) <= walk.limit
                THEN [walk EXCEPT !.at = "done", !.shown = shown]
              ELSE [walk EXCEPT !.at = "page", !.shown = shown, !.cursor = cursor]
  BY <1>1 DEF FindRest, Answer, Shows, End, LooseRows, WalkType
<1> HIDE DEF cursor, shown
<1>3. CASE Cardinality(Answer) <= walk.limit
  <2>1. walk' = [walk EXCEPT !.at = "done", !.shown = shown]
    BY <1>2, <1>3
  <2>2. walk'.at = "done" /\ walk'.shown = shown /\ walk'.cursor = walk.cursor
    BY <1>1, <2>1 DEF WalkType
  <2> QED BY <1>1, <1>3, <2>1, <2>2 DEF WalkType, shown
<1>4. CASE ~(Cardinality(Answer) <= walk.limit)
  <2>1. walk' = [walk EXCEPT !.at = "page", !.shown = shown, !.cursor = cursor]
    BY <1>2, <1>4
  <2>2. walk'.at = "page" /\ walk'.shown = shown /\ walk'.cursor = cursor
    BY <1>1, <2>1 DEF WalkType
  <2> QED BY <1>1, <1>4, <2>1, <2>2 DEF WalkType, shown, cursor
<1> QED BY <1>3, <1>4

\* The answer is added to what has been shown.
LEMMA ShownGrows ==
    ASSUME Inv, WalkInv, FindRest
    PROVE  walk'.shown \in Seq(Entries) /\ Shown' = Shown \cup Shows
<1>1. walk.at = "rest" /\ walk'.shown = walk.shown \o InOrder(Shows)
  BY FindRestFields
<1>2. walk.shown \in Seq(Entries) /\ InOrder(Shows) \in Seq(Entries)
  BY <1>1, ShowsFacts DEF WalkInv, WalkInOrder, WalkType
<1>3. \A k \in DOMAIN InOrder(Shows) : InOrder(Shows)[k] \in Shows
  BY <1>1, ShowsFacts
<1>4. Shown' = {walk'.shown[n] : n \in DOMAIN walk'.shown}
  BY DEF Shown
<1>5. ASSUME NEW e \in Shown' PROVE e \in Shown \cup Shows
  <2>1. PICK n \in DOMAIN walk'.shown : e = walk'.shown[n]
    BY <1>4
  <2>2. CASE n \in DOMAIN walk.shown
    BY <1>1, <1>2, <2>1, <2>2, Concatenated DEF Shown
  <2>3. CASE n \notin DOMAIN walk.shown
    <3>1. PICK k \in DOMAIN InOrder(Shows) : n = Len(walk.shown) + k
      BY <1>1, <1>2, <2>1, <2>3, Concatenated
    <3> QED BY <1>1, <1>2, <1>3, <2>1, <3>1, Concatenated
  <2> QED BY <2>2, <2>3
<1>6. ASSUME NEW e \in Shown PROVE e \in Shown'
  <2>1. PICK n \in DOMAIN walk.shown : e = walk.shown[n]
    BY DEF Shown
  <2> QED BY <1>1, <1>2, <1>4, <2>1, Concatenated
<1>7. ASSUME NEW e \in Shows PROVE e \in Shown'
  <2>1. PICK k \in DOMAIN InOrder(Shows) : e = InOrder(Shows)[k]
    BY <1>1, ShowsFacts
  <2>2. /\ Len(walk.shown) + k \in DOMAIN walk'.shown
        /\ walk'.shown[Len(walk.shown) + k] = e
    BY <1>1, <1>2, <2>1, Concatenated
  <2> QED BY <1>4, <2>2
<1>8. walk'.shown \in Seq(Entries)
  BY <1>1, <1>2, Concatenated
<1> QED BY <1>5, <1>6, <1>7, <1>8

\* An answer keeps what the walk relies on.
LEMMA FindRestKeeps ==
    ASSUME Inv, WalkInv, UNCHANGED vars, FindRest PROVE WalkInv'
<1>1. /\ walk \in WalkType /\ walk.at = "rest"
      /\ Agree /\ Current /\ Times /\ SeenOnce /\ RequestOK /\ ShownOK /\ WalkInOrder
  BY FindRestFields DEF WalkInv, WalkInOrder
<1>2. /\ walk' = [walk EXCEPT !.at = walk'.at, !.shown = walk'.shown, !.cursor = walk'.cursor]
      /\ walk'.shown = walk.shown \o InOrder(Shows)
      /\ walk'.at = IF Cardinality(Answer) <= walk.limit THEN "done" ELSE "page"
      /\ walk'.cursor = IF Cardinality(Answer) <= walk.limit THEN walk.cursor
                        ELSE [region |-> IF End.seq # 0 THEN "sequenced" ELSE "unsequenced",
                              after |-> End.key, upper |-> walk.upper,
                              boundary |-> walk.boundary]
      /\ walk'.found = walk.found /\ walk'.pending = walk.pending
      /\ walk'.boundary = walk.boundary /\ walk'.upper = walk.upper
      /\ walk'.region = walk.region /\ walk'.ready = walk.ready
  BY FindRestFields
<1>3. /\ walk'.shown \in Seq(Entries) /\ Shown' = Shown \cup Shows
      /\ walk.shown \in Seq(Entries)
  BY <1>1, ShownGrows DEF WalkType
<1>4. /\ \A e \in Shows : /\ e \in Answer /\ e \in Entries /\ e.item \in Items
                          /\ e.seq \in Nat /\ e.key \in Nat
                          /\ e.seq # 0 => /\ e \in Known /\ e.key = e.seq
                                          /\ e \in walk.found \cup walk.pending
                                          /\ walk.boundary # 0 /\ walk.region = "sequenced"
                          /\ e.seq = 0 => /\ e.item \in Revs /\ ~Unsaved(e.item)
                                          /\ e.key # 0 /\ e.key = born[e.item]
      /\ \A e \in Shown : e \in Entries /\ e.seq \in Nat /\ e.key \in Nat
  BY <1>1, ShowsFacts, AnswerFacts, MergedFacts, LooseFacts, KnownTyped
<1>5. walk'.at = "page" =>
        /\ Cardinality(Answer) > walk.limit
        /\ End \in Shows /\ \A e \in Shows : e = End \/ Before(e, End)
  <2>1. Cardinality(Answer) \in Nat /\ walk.limit \in Nat
    BY <1>1, AnswerFacts, FS_CardinalityType, KnownTyped
  <2> QED BY <1>1, <1>2, <2>1, ShowsFacts
<1>6. walk'.at = "page" =>
        /\ walk'.cursor \in Cursors /\ walk'.cursor # None /\ walk'.cursor.after = End.key
        /\ walk'.cursor.region = IF End.seq # 0 THEN "sequenced" ELSE "unsequenced"
        /\ walk'.cursor.upper = walk.upper /\ walk'.cursor.boundary = walk.boundary
  <2> SUFFICES ASSUME walk'.at = "page"
               PROVE  /\ walk'.cursor \in Cursors /\ walk'.cursor # None
                      /\ walk'.cursor.after = End.key
                      /\ walk'.cursor.region = IF End.seq # 0 THEN "sequenced" ELSE "unsequenced"
                      /\ walk'.cursor.upper = walk.upper
                      /\ walk'.cursor.boundary = walk.boundary
    OBVIOUS
  <2>1. /\ walk'.cursor = [region |-> IF End.seq # 0 THEN "sequenced" ELSE "unsequenced",
                           after |-> End.key, upper |-> walk.upper,
                           boundary |-> walk.boundary]
        /\ End.key \in Nat /\ walk.upper \in Nat /\ walk.boundary \in Nat
    BY <1>1, <1>2, <1>4, <1>5, KnownTyped
  <2>2. walk'.cursor \in Cursors
    BY <2>1 DEF Cursors, Regions
  <2> QED BY <2>1, <2>2, NoCursorAssumption
<1>7. walk'.at \in {"done", "page"} /\ (walk'.at = "done" => walk'.cursor = walk.cursor)
  BY <1>2
<1>8. walk' \in WalkType
  <2>1. walk'.cursor \in Cursors \cup {None}
    BY <1>1, <1>6, <1>7 DEF WalkType
  <2> QED BY <1>1, <1>2, <1>3, <1>7, <2>1 DEF WalkType
<1>9. Known' = Known
  BY <1>2, <1>3, <1>4 DEF Known
<1>10. Agree' /\ Current'
  <2>1. \A i \in Items : \A n \in Nat \ {0} : Carries(i, n)' <=> Carries(i, n)
    BY <1>9 DEF vars, Carries, Holding
  <2> QED BY <1>1, <1>9, <2>1 DEF Agree, Current, vars, PlaceOf, Staged
<1>11. Times' /\ SeenOnce'
  BY <1>1, <1>2, <1>9 DEF Times, Stamp, Unsaved, SeenOnce, vars
<1>12. RequestOK'
  <2>1. walk'.at = "page" /\ End.seq # 0 => walk.boundary # 0
    BY <1>4, <1>5
  <2>2. walk'.cursor # None => /\ walk'.cursor.boundary = walk.boundary
                               /\ walk'.cursor.upper = walk.upper
                               /\ walk'.cursor.region = "sequenced" => walk.boundary # 0
    BY <1>1, <1>6, <1>7, <2>1 DEF RequestOK
  <2> QED BY <1>1, <1>2, <1>7, <2>2 DEF RequestOK
<1>13. ShownOK'
  <2>1. \A e \in Shown' :
          /\ e.seq # 0 => e.key = e.seq /\ walk'.boundary # 0
          /\ e.seq = 0 => /\ e.item \in Revs /\ ~Unsaved(e.item)'
                          /\ e.key # 0 /\ born'[e.item] \in {0, e.key}
    BY <1>1, <1>2, <1>3, <1>4 DEF ShownOK, Unsaved, vars
  <2>2. InRequest' => walk'.at = "page"
    BY <1>7 DEF InRequest
  <2>3. ASSUME walk'.at = "page", NEW e \in Shown'
        PROVE  /\ End.seq # 0 => e.seq # 0
               /\ (e.seq # 0 <=> End.seq # 0) => e.key >= End.key
    <3>1. End \in Shows /\ End.seq \in Nat /\ End.key \in Nat /\ (End.seq # 0 => End.key = End.seq)
      BY <1>4, <1>5, <2>3
    <3>2. CASE e \in Shows
      <4>1. e = End \/ Before(e, End)
        BY <1>5, <2>3, <3>2
      <4> QED BY <1>4, <3>1, <3>2, <4>1 DEF Before
    <3>3. CASE e \in Shown
      <4>1. /\ End.seq # 0 => e.seq > End.seq
            /\ e.seq = 0 => e.key > End.key
        BY <1>1, <1>4, <3>1, <3>3, AfterShown
      <4>2. e.seq \in Nat /\ e.key \in Nat /\ (e.seq # 0 => e.key = e.seq)
        BY <1>1, <1>4, <3>3 DEF ShownOK
      <4> QED BY <3>1, <4>1, <4>2
    <3> QED BY <1>3, <2>3, <3>2, <3>3
  <2>4. Continues("sequenced")' <=> walk'.cursor # None /\ walk'.cursor.region = "sequenced"
    BY DEF Continues
  <2>5. walk'.at = "page" => (Continues("sequenced")' <=> End.seq # 0)
    BY <1>6, <2>4
  <2>6. InRequest' => walk'.cursor # None /\ walk'.cursor.after = End.key
    BY <1>6, <2>2
  <2>7. InRequest' => \A e \in Shown' :
          /\ Continues("sequenced")' => e.seq # 0
          /\ (e.seq # 0 <=> Continues("sequenced")') => e.key >= walk'.cursor.after
    BY <2>2, <2>3, <2>5, <2>6
  <2> QED BY <2>1, <2>6, <2>7 DEF ShownOK
<1>14. WalkInOrder'
  <2> SUFFICES ASSUME NEW m \in DOMAIN walk'.shown, NEW n \in DOMAIN walk'.shown, m < n
               PROVE  /\ walk'.shown[m].item # walk'.shown[n].item
                      /\ walk'.shown[n].seq # 0 => walk'.shown[m].seq > walk'.shown[n].seq
                      /\ walk'.shown[m].seq = 0 => walk'.shown[m].key > walk'.shown[n].key
    BY <1>7, <1>8 DEF WalkInOrder
  <2> DEFINE t == InOrder(Shows)
  <2>1. /\ t \in Seq(Entries) /\ \A k \in DOMAIN t : t[k] \in Shows /\ t[k] \in Answer
        /\ \A k, l \in DOMAIN t : k < l => Before(t[k], t[l])
        /\ walk'.shown = walk.shown \o t
    BY <1>1, <1>2, ShowsFacts
  <2> HIDE DEF t
  <2>2. /\ \A k \in DOMAIN walk.shown : /\ walk'.shown[k] = walk.shown[k]
                                        /\ k \in Nat /\ k <= Len(walk.shown)
        /\ \A k \in DOMAIN t : /\ walk'.shown[Len(walk.shown) + k] = t[k]
                               /\ k \in Nat /\ k >= 1
        /\ Len(walk.shown) \in Nat
        /\ m \in DOMAIN walk.shown \/ \E k \in DOMAIN t : m = Len(walk.shown) + k
        /\ n \in DOMAIN walk.shown \/ \E k \in DOMAIN t : n = Len(walk.shown) + k
    <3> DEFINE s == walk.shown
    <3>1. s \in Seq(Entries) /\ t \in Seq(Entries) /\ walk'.shown = s \o t
      BY <1>3, <2>1
    <3> HIDE DEF s
    <3>2. /\ \A k \in DOMAIN s : (s \o t)[k] = s[k] /\ k \in Nat /\ k <= Len(s)
          /\ \A k \in DOMAIN t : (s \o t)[Len(s) + k] = t[k] /\ k \in Nat /\ k >= 1
          /\ \A k \in DOMAIN (s \o t) : k \in DOMAIN s \/ \E l \in DOMAIN t : k = Len(s) + l
          /\ Len(s) \in Nat
      BY <3>1, Concatenated
    <3>3. /\ m \in DOMAIN s \/ \E k \in DOMAIN t : m = Len(s) + k
          /\ n \in DOMAIN s \/ \E k \in DOMAIN t : n = Len(s) + k
      BY <3>1, <3>2
    <3> QED BY <3>1, <3>2, <3>3 DEF s
  <2>3. CASE m \in DOMAIN walk.shown /\ n \in DOMAIN walk.shown
    BY <1>1, <2>2, <2>3 DEF WalkInOrder
  <2>4. ASSUME m \in DOMAIN walk.shown, NEW k \in DOMAIN t, n = Len(walk.shown) + k
        PROVE  /\ walk'.shown[m].item # walk'.shown[n].item
               /\ walk'.shown[n].seq # 0 => walk'.shown[m].seq > walk'.shown[n].seq
               /\ walk'.shown[m].seq = 0 => walk'.shown[m].key > walk'.shown[n].key
    <3>1. walk.shown[m] \in Shown /\ t[k] \in Answer
      BY <2>1, <2>4 DEF Shown
    <3>2. walk'.shown[m] = walk.shown[m] /\ walk'.shown[n] = t[k]
      BY <2>2, <2>4
    <3> QED BY <1>1, <3>1, <3>2, AfterShown
  <2>5. ASSUME NEW j \in DOMAIN t, NEW k \in DOMAIN t,
               m = Len(walk.shown) + j, n = Len(walk.shown) + k
        PROVE  /\ walk'.shown[m].item # walk'.shown[n].item
               /\ walk'.shown[n].seq # 0 => walk'.shown[m].seq > walk'.shown[n].seq
               /\ walk'.shown[m].seq = 0 => walk'.shown[m].key > walk'.shown[n].key
    <3>1. j < k /\ walk'.shown[m] = t[j] /\ walk'.shown[n] = t[k]
      BY <2>2, <2>5
    <3>2. Before(t[j], t[k]) /\ t[j] \in Answer /\ t[k] \in Answer
      BY <2>1, <3>1
    <3>3. t[j] # t[k]
      <4>1. Keyed(Answer)
        BY <1>1, AnswerFacts
      <4> QED BY <3>2, <4>1, BeforeOrder
    <3> QED BY <1>1, <3>1, <3>2, <3>3, AnswerFacts
  <2>6. CASE n \in DOMAIN walk.shown /\ m \notin DOMAIN walk.shown
    BY <2>2, <2>6
  <2> QED BY <2>2, <2>3, <2>4, <2>5, <2>6
<1> QED BY <1>10, <1>11, <1>12, <1>13, <1>14 DEF WalkInv

\* Nothing is known and nothing shown before the first request.
LEMMA InitWalk == ReadInit => Inv /\ WalkInv
<1> SUFFICES ASSUME ReadInit PROVE Inv /\ WalkInv
    OBVIOUS
<1>1. Init /\ Inv
  BY InitInv DEF ReadInit
<1>2. /\ walk.at \in {"page", "off"} /\ walk.cursor = None /\ walk.todo = {} /\ ~walk.ready
      /\ walk.region = "unsequenced" /\ walk.upper = 0 /\ walk.boundary = 0
      /\ walk.pending = {} /\ walk.found = {} /\ walk.shown = <<>> /\ walk.owed = {}
      /\ walk \in WalkType
  BY DEF ReadInit, WalkType, Regions
<1>3. Shown = {} /\ Known = {}
  BY <1>2 DEF Shown, Known
<1>4. Current /\ SeenOnce
  BY <1>3 DEF Current, SeenOnce
<1>5. page.live
  BY <1>1 DEF Init
<1>6. Agree
  BY <1>1, <1>4, <1>5, LiveAgree
<1>7. RequestOK
  BY <1>2, FS_EmptySet DEF RequestOK
<1>8. ShownOK
  BY <1>2, <1>3 DEF ShownOK
<1>9. WalkInOrder
  BY <1>2 DEF WalkInOrder
<1>10. Times
  <2>1. /\ clock \in {0, 1} /\ (Legacy # None => clock = 1)
        /\ \A r \in Revs : born[r] = IF r = Legacy THEN 1 ELSE 0
        /\ \A r \in Revs : row[r] # 0 => r = Legacy
        /\ \A p \in Procs : loc[p].at = 0
        /\ page.started \in {0, 2} /\ (page.started = 2 => Legacy # None)
    BY <1>1, Sets DEF Init, NoLoc
  <2>2. \A r \in Revs : /\ r = Legacy => pc[r] = "done" /\ Legacy # None
                       /\ pc[r] \in {"done", "prepare"} /\ Stamp(r) = born[r]
    <3>1. PICK cast \in Casts :
        pc = [p \in Procs |-> IF p = Legacy \/ p \notin cast THEN "done" ELSE Start(p)]
      BY <1>1 DEF Init
    <3>2. \A r \in Revs : r \in Procs /\ r # None /\ Start(r) = "prepare"
      BY Sets, ConstantsAssumption DEF Start
    <3> QED BY <3>1, <3>2 DEF Stamp
  <2>3. ASSUME NEW r \in Revs
        PROVE  /\ born[r] # 0 \/ row[r] # 0 => ~Unsaved(r)
               /\ Stamp(r) <= clock
               /\ \A q \in Revs : Stamp(q) = Stamp(r) /\ Stamp(q) # 0 => q = r
    BY <2>1, <2>2 DEF Unsaved
  <2>4. page.started <= clock + 1
    BY <2>1
  <2>5. \A p \in Procs : loc[p].at <= clock + 1 /\ (p \in Revs => loc[p].at <= clock)
    BY <2>1
  <2> QED BY <2>3, <2>4, <2>5 DEF Times
<1> QED BY <1>1, <1>4, <1>6, <1>7, <1>8, <1>9, <1>10 DEF WalkInv

\* Every step of the outbox and of the walk keeps both invariants.
LEMMA StepWalk == Stray = {} /\ Inv /\ WalkInv /\ [ReadNext]_allVars => Inv' /\ WalkInv'
<1> SUFFICES ASSUME Stray = {}, Inv, WalkInv, [ReadNext]_allVars PROVE Inv' /\ WalkInv'
    OBVIOUS
<1>1. CASE [Next]_vars /\ walk' = walk
  BY <1>1, NextInv, OutboxKeeps
<1>2. CASE ReadStep /\ UNCHANGED vars
  <2>1. Inv'
    BY <1>2, InvWithReads
  <2>2. CASE WalkPage
    BY <1>2, <2>1, <2>2, WalkPageKeeps
  <2>3. CASE FindEvents
    BY <1>2, <2>1, <2>3, Sets, FindRowsKeeps DEF FindEvents
  <2>4. CASE FindRevisions
    BY <1>2, <2>1, <2>4, Sets, FindRowsKeeps DEF FindRevisions
  <2>5. CASE FindRest
    BY <1>2, <2>1, <2>5, FindRestKeeps
  <2> QED BY <1>2, <2>1, <2>2, <2>3, <2>4, <2>5 DEF ReadStep
<1> QED BY <1>1, <1>2 DEF ReadNext, allVars

\* A walk shows nothing twice and everything in order, newest first, and a
\* healthy page is never taken for a corrupt one, whatever is claimed, stored,
\* drained, restored or deleted between two database calls of a request or
\* between two requests (read.ts:190-340).
THEOREM WalksInOrder == ASSUME Stray = {} PROVE ReadSpec => []WalkInOrder
<1>1. Inv /\ WalkInv /\ [ReadNext]_allVars => Inv' /\ WalkInv'
  BY StepWalk
<1>2. WalkInv => WalkInOrder
  BY DEF WalkInv
<1> QED BY <1>1, <1>2, InitWalk, PTL DEF ReadSpec

-----------------------------------------------------------------------------
(* Nothing is passed over. *)

\* The invariant of a walk that shows everything.
OwesInv == WalkOwes /\ WalkIsComplete

\* While the page is there no Revision changes its createdAt.
LEMMA BornKept ==
    ASSUME Inv, Times, NEW p \in Procs, Effects(p), page'.live
    PROVE  \A r \in Revs : born[r] # 0 => born'[r] = born[r]
<1>1. born \in [Revs -> Nat] /\ Writes(p)
  BY DEF Inv, Typed, TypeOK, Effects
<1> QED BY <1>1 DEF Writes, Times, Unsaved

\* The outbox takes nothing of what is still ahead away.
LEMMA OutboxOwes ==
    ASSUME Inv, Stray = {}, [Next]_vars, walk' = walk, WalkInv, OwesInv PROVE OwesInv'
<1>1. Inv' /\ Typed'
  BY NextInv DEF Inv
<1>2. /\ Times /\ walk.owed \subseteq Items /\ Revs \subseteq Items
      /\ walk.upper \in Nat /\ page.seq \in Nat /\ page'.seq \in Nat
  BY <1>1, Sets, KnownTyped DEF WalkInv, WalkInOrder, Inv, Typed, TypeOK, PageType
<1>3. ASSUME page'.live
      PROVE  /\ page.live /\ page'.seq >= page.seq
             /\ \A i \in Items : /\ PlaceOf(i) # 0 => PlaceOf(i)' = PlaceOf(i)
                                 /\ row[i] # 0 => row'[i] = row[i]
                                 /\ PlaceOf(i) = 0 /\ PlaceOf(i)' # 0 => PlaceOf(i)' > page.seq
             /\ \A r \in Revs : born[r] # 0 => born'[r] = born[r]
  <2>1. CASE UNCHANGED <<page, born, row, clock, pc, loc>>
    BY <1>2, <1>3, <2>1 DEF PlaceOf, Staged
  <2>2. ASSUME NEW p \in Procs, Effects(p), NEW q \in Procs, Changes(q)
        PROVE  /\ page.live /\ page'.seq >= page.seq
               /\ \A i \in Items : /\ PlaceOf(i) # 0 => PlaceOf(i)' = PlaceOf(i)
                                   /\ row[i] # 0 => row'[i] = row[i]
                                   /\ PlaceOf(i) = 0 /\ PlaceOf(i)' # 0 => PlaceOf(i)' > page.seq
               /\ \A r \in Revs : born[r] # 0 => born'[r] = born[r]
    BY <1>1, <1>2, <1>3, <2>2, PlacesKept, PlacesGrow, BornKept
  <2> QED BY <2>1, <2>2, StepEffects DEF vars
<1>4. /\ Shown' = Shown /\ InRequest' = InRequest
      /\ \A r \in {"sequenced", "unsequenced"} : Continues(r)' = Continues(r)
  BY DEF Shown, InRequest, Continues
<1>5. ASSUME page'.live, NEW i \in Items, PlaceAhead(i) PROVE PlaceAhead(i)'
  <2>1. PlaceOf(i)' = PlaceOf(i) /\ (row[i] # 0 => row'[i] = row[i])
    BY <1>3, <1>5 DEF PlaceAhead
  <2> DEFINE n == PlaceOf(i)
             m == PlaceOf(i)'
  <2>2. m = n /\ n # 0 /\ InWindow(n) /\ ~Continues("unsequenced")
    BY <1>5, <2>1 DEF PlaceAhead
  <2>3. /\ m # 0 /\ (m <= walk'.upper /\ (Continues("sequenced")' => m < walk'.cursor.after))
        /\ ~Continues("unsequenced")'
    BY <1>4, <2>2 DEF InWindow
  <2>4. /\ Seen(i)' = Seen(i)
        /\ (Cardinality({e \in walk'.found : e.key > m}) > walk'.limit) = Beyond(n)
    BY <2>2 DEF Seen, Beyond
  <2> QED BY <1>5, <2>1, <2>3, <2>4 DEF PlaceAhead, InWindow, Beyond
<1>6. ASSUME page'.live, NEW r \in Revs, LooseAhead(r), walk.boundary # 0 => PlaceOf(r)' = 0
      PROVE  LooseAhead(r)'
  BY <1>3, <1>4, <1>6 DEF LooseAhead
<1>7. ASSUME page'.live, NEW i \in StillOwed' PROVE i \in StillOwed /\ i \in Items
  <2>1. i \in walk.owed /\ i \in Items /\ (walk.boundary = 0 \/ PlaceOf(i)' <= walk.upper)
    BY <1>2, <1>7 DEF StillOwed
  <2>2. PlaceOf(i) = 0 \/ PlaceOf(i)' = PlaceOf(i)
    BY <1>3, <1>7, <2>1
  <2> QED BY <1>2, <2>1, <2>2 DEF StillOwed
<1>8. WalkOwes'
  <2> SUFFICES ASSUME page'.live, InRequest
               PROVE  /\ walk'.cursor = None /\ walk'.at = "page" => walk'.owed = {}
                      /\ walk'.boundary # 0 => walk'.upper <= page'.seq
                      /\ \A i \in StillOwed' :
                           \/ ShownItem(i)'
                           \/ walk'.boundary # 0 /\ PlaceAhead(i)'
                           \/ i \in Revs /\ LooseAhead(i)'
    BY <1>4 DEF WalkOwes
  <2>1. page.live
    BY <1>3
  <2>2. /\ walk.cursor = None /\ walk.at = "page" => walk.owed = {}
        /\ walk.boundary # 0 => walk.upper <= page.seq
        /\ \A i \in StillOwed :
             \/ ShownItem(i)
             \/ walk.boundary # 0 /\ PlaceAhead(i)
             \/ i \in Revs /\ LooseAhead(i)
    BY <2>1 DEF OwesInv, WalkOwes
  <2>3. \A i : ShownItem(i)' <=> ShownItem(i)
    BY <1>4 DEF ShownItem
  <2>4. walk'.boundary # 0 => walk'.upper <= page'.seq
    BY <1>2, <1>3, <2>2
  <2>5. ASSUME NEW i \in StillOwed', i \in Revs, LooseAhead(i) PROVE LooseAhead(i)'
    <3>1. i \in Items /\ (walk.boundary = 0 \/ PlaceOf(i)' <= walk.upper)
      BY <1>7, <2>5 DEF StillOwed
    <3>2. walk.boundary # 0 => PlaceOf(i) = 0
      BY <2>5 DEF LooseAhead
    <3>3. ASSUME walk.boundary # 0, PlaceOf(i)' # 0 PROVE FALSE
      <4>1. PlaceOf(i)' > page.seq /\ walk.upper <= page.seq /\ PlaceOf(i)' <= walk.upper
        BY <1>3, <2>2, <3>1, <3>2, <3>3
      <4>2. PlaceOf(i)' \in Nat
        <5>1. page' \in PageType /\ row' \in [Items -> Nat]
          BY <1>1 DEF Typed, TypeOK
        <5>2. page'.slot # None => page'.slot.seq \in Nat
          BY <5>1, EntryFields DEF PageType
        <5> QED BY <3>1, <5>1, <5>2 DEF PlaceOf, Staged
      <4> QED BY <1>2, <4>1, <4>2
    <3> QED BY <1>6, <2>5, <3>3
  <2> QED BY <1>5, <1>7, <2>2, <2>3, <2>4, <2>5
<1>9. WalkIsComplete'
  BY <1>3, <1>7 DEF OwesInv, WalkIsComplete
<1> QED BY <1>8, <1>9 DEF OwesInv

\* What the first read of a request fixes is ahead of it.
LEMMA WalkPageOwes ==
    ASSUME Inv, WalkInv, OwesInv, WalkPage, UNCHANGED vars PROVE OwesInv'
<1>1. /\ walk \in WalkType /\ walk.at = "page" /\ InRequest /\ RequestOK
  BY DEF WalkInv, WalkInOrder, WalkPage, InRequest
<1>2. WalkIsComplete'
  <2>1. walk'.at \in {"gone", "rows", "rest"}
    BY <1>1 DEF WalkPage, WalkType
  <2> QED BY <2>1 DEF WalkIsComplete
<1>3. CASE ~page.live
  BY <1>2, <1>3 DEF OwesInv, WalkOwes, vars
<1>4. CASE page.live
  <2> DEFINE first == walk.cursor = None
             placed == walk'.boundary # 0 /\ walk'.region = "sequenced"
  <2>1. /\ walk'.at = IF placed THEN "rows" ELSE "rest"
        /\ walk'.todo = IF placed THEN {"events", "revisions"} ELSE {}
        /\ first => /\ walk'.boundary = IF Ready THEN page.started ELSE 0
                    /\ walk'.boundary # 0 => walk'.upper = page.seq
                    /\ walk'.boundary # 0 => walk'.region = "sequenced"
                    /\ walk'.owed = Owing(walk'.boundary)
        /\ ~first => /\ walk'.boundary = walk.boundary /\ walk'.region = walk.cursor.region
                     /\ walk'.upper = walk.upper /\ walk'.owed = walk.owed
        /\ walk'.pending = IF placed THEN Projected ELSE {}
        /\ walk'.cursor = walk.cursor /\ walk'.shown = walk.shown
    <3>1. /\ walk'.at = IF placed THEN "rows" ELSE "rest"
          /\ walk'.todo = IF placed THEN {"events", "revisions"} ELSE {}
          /\ walk'.pending = IF placed THEN Projected ELSE {}
          /\ walk'.cursor = walk.cursor /\ walk'.shown = walk.shown
      BY <1>1, <1>4, WalkPageFields
    <3>2. first => /\ walk'.boundary = IF Ready THEN page.started ELSE 0
                   /\ walk'.boundary # 0 => walk'.upper = page.seq
                   /\ walk'.boundary # 0 => walk'.region = "sequenced"
                   /\ walk'.owed = Owing(walk'.boundary)
      BY <1>1, <1>4, WalkPageFields
    <3>3. ~first => /\ walk'.boundary = walk.cursor.boundary
                    /\ walk'.region = walk.cursor.region /\ walk'.owed = walk.owed
                    /\ walk'.upper = IF walk.cursor.boundary = 0 THEN 0 ELSE walk.cursor.upper
      BY <1>1, <1>4, WalkPageFields
    <3>4. ~first => /\ walk.cursor.boundary = walk.boundary /\ walk.cursor.upper = walk.upper
                    /\ walk.boundary = 0 => walk.upper = 0
      BY <1>1 DEF RequestOK
    <3> QED BY <3>1, <3>2, <3>3, <3>4
  <2> HIDE DEF placed
  <2>2. /\ SlotInv /\ CounterCovers /\ row \in [Items -> Nat] /\ page \in PageType
        /\ page.seq \in Nat
    BY DEF Inv, Shared, Typed, TypeOK, PageType
  <2>3. /\ page' = page /\ row' = row /\ born' = born
        /\ \A i : /\ PlaceOf(i)' = PlaceOf(i) /\ (ShownItem(i)' <=> ShownItem(i))
                  /\ (Continues(i)' <=> Continues(i))
    BY <2>1 DEF vars, PlaceOf, Staged, ShownItem, Shown, Continues
  <2>4. \A i \in Cmds : PlaceOf(i) # 0 /\ row[i] = 0 =>
          \E e \in Projected : e.item = i
    <3> SUFFICES ASSUME NEW i \in Cmds, PlaceOf(i) # 0, row[i] = 0
                 PROVE  \E e \in Projected : e.item = i
      OBVIOUS
    <3>1. page.slot # None /\ page.slot.item = i
      BY DEF PlaceOf, Staged
    <3>2. page.slot.type = "page_event"
      BY <2>2, <3>1, EntryFields, Sets DEF PageType
    <3> QED BY <3>1, <3>2 DEF Projected
  <2>5. ASSUME NEW i \in Items, walk'.boundary # 0, PlaceOf(i) # 0, i \in Revs => row[i] # 0,
               ~Continues("unsequenced"), placed,
               PlaceOf(i) <= walk'.upper,
               Continues("sequenced") => PlaceOf(i) < walk.cursor.after
        PROVE  PlaceAhead(i)'
    <3>1. walk'.at = "rows" /\ walk'.todo = {"events", "revisions"} /\ walk'.pending = Projected
      BY <2>1, <2>5
    <3>2. row[i] # 0 \/ Seen(i)'
      BY <2>4, <2>5, <3>1, Sets DEF Seen, Items
    <3>3. KindOf(i) \in {"events", "revisions"}
      BY DEF KindOf
    <3>4. InWindow(PlaceOf(i))'
      BY <2>1, <2>3, <2>5 DEF InWindow
    <3>5. (KindOf(i) \in walk'.todo)
      BY <3>1, <3>3
    <3> QED BY <2>3, <2>5, <3>1, <3>2, <3>4, <3>5 DEF PlaceAhead, KindOf
  <2>6. CASE first
    <3>1. ~Continues("unsequenced") /\ ~Continues("sequenced")
      BY <2>6 DEF Continues
    <3>2. ASSUME NEW i \in OnTimeline, walk'.boundary # 0 PROVE PlaceAhead(i)'
      <4>1. i \in Items /\ PlaceOf(i) # 0 /\ (i \in Revs => row[i] # 0)
        BY <1>4, <2>2, Sets DEF OnTimeline, PlaceOf, Staged, SlotInv
      <4>2. Ready /\ walk'.upper = page.seq /\ placed
        BY <2>1, <2>6, <3>2 DEF placed
      <4>3. PlaceOf(i) <= page.seq
        BY <2>2, <4>1, <4>2 DEF CounterCovers, PlaceOf, Staged
      <4> QED BY <2>5, <3>1, <3>2, <4>1, <4>2, <4>3
    <3>3. ASSUME NEW r \in Revs, born[r] # 0,
                 walk'.boundary # 0 => r \in BelowBoundary(walk'.boundary)
          PROVE  LooseAhead(r)'
      BY <2>3, <3>1, <3>3 DEF LooseAhead, BelowBoundary
    <3>4. \A i \in walk'.owed :
             \/ walk'.boundary # 0 /\ PlaceAhead(i)'
             \/ i \in Revs /\ LooseAhead(i)'
      <4>1. CASE walk'.boundary # 0
        <5>1. walk'.owed = OnTimeline \cup BelowBoundary(walk'.boundary)
          BY <2>1, <2>6, <4>1 DEF Owing
        <5>2. \A r \in BelowBoundary(walk'.boundary) : r \in Revs /\ born[r] # 0
          BY DEF BelowBoundary
        <5> QED BY <3>2, <3>3, <4>1, <5>1, <5>2
      <4>2. CASE walk'.boundary = 0
        BY <2>1, <2>6, <3>3, <4>2 DEF Owing
      <4> QED BY <4>1, <4>2
    <3>5. walk'.boundary # 0 => walk'.upper <= page'.seq
      BY <2>1, <2>2, <2>3, <2>6
    <3>6. walk'.at # "page"
      BY <2>1
    <3> QED BY <1>2, <3>4, <3>5, <3>6 DEF OwesInv, WalkOwes, StillOwed
  <2>7. CASE ~first
    <3>1. /\ walk.boundary # 0 => walk.upper <= page.seq
          /\ \A i \in StillOwed :
               \/ ShownItem(i)
               \/ walk.boundary # 0 /\ PlaceAhead(i)
               \/ i \in Revs /\ LooseAhead(i)
          /\ StillOwed' = StillOwed
      BY <1>1, <1>4, <2>1, <2>3, <2>7 DEF OwesInv, WalkOwes, StillOwed
    <3>2. ASSUME NEW i \in StillOwed, walk.boundary # 0, PlaceAhead(i) PROVE PlaceAhead(i)'
      <4>1. i \in Items /\ walk.cursor \in Cursors
        BY <1>1, <2>7, KnownTyped DEF StillOwed
      <4>2. /\ ~Continues("unsequenced") /\ PlaceOf(i) # 0 /\ (i \in Revs => row[i] # 0)
            /\ PlaceOf(i) <= walk.upper
            /\ Continues("sequenced") => PlaceOf(i) < walk.cursor.after
        BY <3>2 DEF PlaceAhead, InWindow
      <4>3. placed
        BY <2>1, <2>7, <3>2, <4>1, <4>2 DEF placed, Continues, Cursors, Regions
      <4> QED BY <2>1, <2>5, <2>7, <3>2, <4>1, <4>2, <4>3
    <3>3. \A r \in Revs : LooseAhead(r) => LooseAhead(r)'
      BY <2>1, <2>3, <2>7 DEF LooseAhead
    <3>4. \A i \in StillOwed' :
             \/ ShownItem(i)'
             \/ walk'.boundary # 0 /\ PlaceAhead(i)'
             \/ i \in Revs /\ LooseAhead(i)'
      BY <2>1, <2>3, <2>7, <3>1, <3>2, <3>3
    <3>5. walk'.boundary # 0 => walk'.upper <= page'.seq
      BY <2>1, <2>3, <2>7, <3>1
    <3>6. walk'.at # "page"
      BY <2>1
    <3> QED BY <1>2, <3>4, <3>5, <3>6 DEF OwesInv, WalkOwes
  <2> QED BY <2>6, <2>7
<1> QED BY <1>3, <1>4

\* What a query does not return is beyond more than the request can show.
LEMMA FindRowsOwes ==
    ASSUME Inv, WalkInv, OwesInv, UNCHANGED vars,
           NEW kind, NEW S \in SUBSET Items, FindRows(kind, S),
           \A i \in Items : KindOf(i) = kind => i \in S
    PROVE  OwesInv'
<1>1. /\ walk \in WalkType /\ Agree /\ RequestOK
  BY DEF WalkInv, WalkInOrder
<1> DEFINE R == Fetched(RowsIn(S))
<1>2. /\ walk.at = "rows" /\ kind \in walk.todo
      /\ walk'.found = walk.found \cup R /\ walk'.todo = walk.todo \ {kind}
      /\ walk'.at = IF walk.todo \ {kind} = {} THEN "rest" ELSE "rows"
      /\ walk'.pending = walk.pending /\ walk'.shown = walk.shown
      /\ walk'.boundary = walk.boundary /\ walk'.upper = walk.upper
      /\ walk'.cursor = walk.cursor /\ walk'.limit = walk.limit /\ walk'.owed = walk.owed
  BY <1>1, FindRowsFields
<1>3. /\ IsFiniteSet(RowsIn(S)) /\ Keyed(RowsIn(S)) /\ Total(RowsIn(S))
      /\ RowsIn(S) \subseteq Entries
      /\ \A e \in RowsIn(S) : e.seq # 0 /\ ~e.staged
      /\ \A i \in S : row[i] # 0 /\ InWindow(row[i]) =>
           Stored(i) \in RowsIn(S) /\ Stored(i).item = i /\ Stored(i).key = row[i]
      /\ walk.limit \in Nat /\ walk.limit + 1 \in Nat
      /\ walk.owed \subseteq Items /\ walk.found \subseteq Entries
  BY <1>1, RowsFacts, KnownTyped
<1>4. IsFiniteSet(walk'.found) /\ R \subseteq RowsIn(S)
  <2>1. IsFiniteSet(R) /\ R \subseteq RowsIn(S)
    BY <1>3, FirstPart DEF Fetched
  <2>2. IsFiniteSet(walk.found)
    BY <1>1 DEF RequestOK
  <2>3. IsFiniteSet(walk.found \cup R)
    BY <2>1, <2>2, FS_Union
  <2> QED BY <1>2, <2>1, <2>3
<1>5. /\ page' = page /\ row' = row /\ born' = born
      /\ \A i : /\ PlaceOf(i)' = PlaceOf(i) /\ (ShownItem(i)' <=> ShownItem(i))
                /\ (Continues(i)' <=> Continues(i)) /\ (LooseAhead(i)' <=> LooseAhead(i))
                /\ (InWindow(i)' <=> InWindow(i)) /\ (Seen(i) => Seen(i)')
  BY <1>2 DEF vars, PlaceOf, Staged, ShownItem, Shown, Continues, LooseAhead, InWindow, Seen
<1>6. ASSUME NEW i \in Items, NEW T \in SUBSET walk'.found, Cardinality(T) > walk.limit,
             \A e \in T : e.key > PlaceOf(i)
      PROVE  Beyond(PlaceOf(i))'
  <2> DEFINE U == {e \in walk'.found : e.key > PlaceOf(i)'}
  <2>1. T \subseteq U /\ U \subseteq walk'.found
    BY <1>5, <1>6
  <2>2. Cardinality(U) > walk'.limit
    <3> HIDE DEF U
    <3>1. Cardinality(T) <= Cardinality(U) /\ Cardinality(T) \in Nat /\ Cardinality(U) \in Nat
      BY <1>4, <2>1, FS_Subset, FS_CardinalityType
    <3> QED BY <1>2, <1>3, <1>6, <3>1
  <2> QED BY <2>2 DEF Beyond
<1>7. ASSUME NEW i \in Items, page.live, PlaceAhead(i) PROVE PlaceAhead(i)'
  <2>1. PlaceOf(i) # 0 /\ InWindow(PlaceOf(i)) /\ PlaceOf(i) \in Nat
    <3>1. row \in [Items -> Nat] /\ page \in PageType
      BY DEF Inv, Typed, TypeOK
    <3>2. page.slot # None => page.slot.seq \in Nat
      BY <3>1, EntryFields DEF PageType
    <3> QED BY <1>7, <3>1, <3>2 DEF PlaceAhead, PlaceOf, Staged
  <2>2. ASSUME walk'.at = "rest" \/ KindOf(i) \notin walk'.todo
        PROVE  Seen(i)' \/ Beyond(PlaceOf(i))'
    <3>1. CASE KindOf(i) = kind /\ Seen(i)
      BY <1>5, <3>1
    <3>2. CASE KindOf(i) = kind /\ ~Seen(i)
      <4>1. i \in S /\ row[i] # 0 /\ PlaceOf(i) = row[i]
        <5>1. row[i] # 0
          BY <1>2, <1>7, <3>2 DEF PlaceAhead
        <5>2. SlotInv
          BY DEF Inv, Shared
        <5> QED BY <1>7, <3>2, <5>1, <5>2 DEF SlotInv, PlaceOf, Staged
      <4>2. /\ Stored(i) \in RowsIn(S) /\ Stored(i).item = i /\ Stored(i).key = row[i]
        BY <1>3, <2>1, <4>1
      <4>3. CASE Stored(i) \in R
        BY <1>2, <4>2, <4>3 DEF Seen
      <4>4. CASE Stored(i) \notin R
        <5>1. /\ Cardinality(RowsIn(S)) > walk.limit + 1
              /\ \A f \in R : Before(f, Stored(i))
          BY <1>3, <4>2, <4>4, FirstCount DEF Fetched
        <5>2. Cardinality(R) = walk.limit + 1
          <6>1. Cardinality(RowsIn(S)) \in Nat
            BY <1>3, FS_CardinalityType
          <6>2. Cardinality(RowsIn(S)) >= walk.limit + 1
            BY <1>3, <5>1, <6>1
          <6> QED BY <1>3, <6>2, FirstCount DEF Fetched
        <5>3. \A f \in R : f.key > PlaceOf(i)
          BY <1>3, <1>4, <4>1, <4>2, <5>1 DEF Before, Keyed
        <5>4. R \in SUBSET walk'.found /\ Cardinality(R) > walk.limit
          BY <1>2, <1>3, <5>2
        <5> QED BY <1>6, <5>3, <5>4
      <4> QED BY <4>3, <4>4
    <3>3. CASE KindOf(i) # kind
      <4>1. KindOf(i) \notin walk.todo
        BY <1>2, <2>2, <3>3
      <4>2. Seen(i) \/ Beyond(PlaceOf(i))
        BY <1>2, <1>7, <4>1 DEF PlaceAhead
      <4>3. CASE Beyond(PlaceOf(i))
        <5> DEFINE T == {e \in walk.found : e.key > PlaceOf(i)}
        <5>1. T \in SUBSET walk'.found /\ \A e \in T : e.key > PlaceOf(i)
          BY <1>2
        <5>2. Cardinality(T) > walk.limit
          BY <4>3 DEF Beyond
        <5> HIDE DEF T
        <5> QED BY <1>6, <5>1, <5>2
      <4> QED BY <1>5, <4>2, <4>3
    <3> QED BY <3>1, <3>2, <3>3
  <2>3. InWindow(PlaceOf(i))'
    BY <1>2, <1>5, <2>1 DEF InWindow
  <2>4. walk'.at = "rows" /\ KindOf(i) \in walk'.todo => row[i] # 0 \/ Seen(i)'
    BY <1>2, <1>5, <1>7 DEF PlaceAhead
  <2>5. KindOf(i)' = KindOf(i)
    BY DEF KindOf
  <2> QED BY <1>5, <1>7, <2>1, <2>2, <2>3, <2>4, <2>5 DEF PlaceAhead
<1>8. WalkOwes'
  <2> SUFFICES ASSUME page.live
               PROVE  /\ walk'.cursor = None /\ walk'.at = "page" => walk'.owed = {}
                      /\ walk'.boundary # 0 => walk'.upper <= page'.seq
                      /\ \A i \in StillOwed' :
                           \/ ShownItem(i)'
                           \/ walk'.boundary # 0 /\ PlaceAhead(i)'
                           \/ i \in Revs /\ LooseAhead(i)'
    BY <1>5 DEF WalkOwes
  <2>1. /\ walk.boundary # 0 => walk.upper <= page.seq
        /\ \A i \in StillOwed :
             \/ ShownItem(i)
             \/ walk.boundary # 0 /\ PlaceAhead(i)
             \/ i \in Revs /\ LooseAhead(i)
    BY <1>2 DEF OwesInv, WalkOwes, InRequest
  <2>2. walk'.at # "page"
    BY <1>2
  <2>3. StillOwed' = StillOwed /\ StillOwed \subseteq Items
    BY <1>2, <1>3, <1>5 DEF StillOwed
  <2> QED BY <1>2, <1>5, <1>7, <2>1, <2>2, <2>3
<1>9. WalkIsComplete'
  BY <1>2 DEF WalkIsComplete
<1> QED BY <1>8, <1>9 DEF OwesInv

\* An entry the answer had to leave out comes after all that is shown, so there
\* is a next request.
LEMMA LeftOut ==
    ASSUME Inv, WalkInv, walk.at = "rest", NEW S \in {Merged, LooseRows}, NEW x,
           Keyed({x}), x \in S \/ Cardinality(Ahead(S, x)) > walk.limit, x \notin Shows
    PROVE  /\ Cardinality(Answer) > walk.limit
           /\ \A w \in Shows : Before(w, x)
<1>1. walk \in WalkType /\ Times
  BY DEF WalkInv, WalkInOrder
<1>2. IsFiniteSet(S) /\ Keyed(S) /\ Total(S)
  BY <1>1, MergedFacts, LooseFacts
<1>3. IsFiniteSet(Answer) /\ Keyed(Answer) /\ Total(Answer) /\ Fetched(S) \subseteq Answer
  BY AnswerFacts
<1>4. walk.limit \in Nat /\ First(S, walk.limit + 1) \subseteq Answer
  BY <1>1, <1>3, KnownTyped DEF Fetched
<1>5. x \notin First(Answer, walk.limit)
  BY DEF Shows
<1> QED BY <1>2, <1>3, <1>4, <1>5, Passed DEF Shows

\* What has a place and is not shown is still ahead of the next request.
LEMMA PlaceLeftOut ==
    ASSUME Inv, WalkInv, FindRest, UNCHANGED vars, page.live, NEW i \in Items,
           PlaceAhead(i), \A e \in Shows : e.item # i
    PROVE  walk'.at = "page" /\ PlaceAhead(i)'
<1>1. /\ walk \in WalkType /\ walk.at = "rest" /\ walk.limit \in Nat /\ walk.limit # 0
      /\ Agree /\ Current /\ RequestOK
  BY FindRestFields, KnownTyped DEF WalkInv, WalkInOrder
<1> DEFINE n == PlaceOf(i)
<1>2. n # 0 /\ n \in Nat /\ InWindow(n) /\ (i \in Revs => row[i] # 0)
  <2>1. row \in [Items -> Nat] /\ page \in PageType
    BY DEF Inv, Typed, TypeOK
  <2>2. page.slot # None => page.slot.seq \in Nat
    BY <2>1, EntryFields DEF PageType
  <2> QED BY <2>1, <2>2 DEF PlaceAhead, PlaceOf, Staged
<1>3. Seen(i) \/ Beyond(n)
  BY <1>1 DEF PlaceAhead
<1> HIDE DEF n
<1>4. \A e \in walk.found \cup walk.pending :
        /\ e \in Known /\ e \in Entries /\ e.key = e.seq
        /\ e.item = i => e.seq = n
  BY <1>1, KnownTyped DEF RequestOK, Known, Current, n
<1>5. walk.found \subseteq Merged
  BY <1>1 DEF RequestOK, Merged, WithPending
<1>6. \E x : /\ x.item = i /\ x.seq = n /\ x.key = n /\ x.staged \in BOOLEAN
             /\ x \in Merged \/ Cardinality(Ahead(Merged, x)) > walk.limit
  <2>1. CASE Seen(i)
    <3>1. PICK e \in walk.found \cup walk.pending : e.item = i
      BY <2>1 DEF Seen
    <3>2. \E x \in Merged : x.item = i
      <4>1. CASE \E f \in walk.found : f.item = i
        BY <1>5, <4>1
      <4>2. CASE ~\E f \in walk.found : f.item = i
        BY <1>2, <1>4, <3>1, <4>2 DEF Merged, WithPending
      <4> QED BY <4>1, <4>2
    <3>3. PICK x \in Merged : x.item = i
      BY <3>2
    <3>4. x \in walk.found \cup walk.pending /\ x.staged \in BOOLEAN
      BY <1>1, MergedFacts DEF Keyed
    <3> QED BY <1>4, <3>3, <3>4
  <2>2. CASE Beyond(n)
    <3> DEFINE x == [item |-> i, seq |-> n, key |-> n, staged |-> FALSE]
               T == {e \in walk.found : e.key > n}
    <3>1. ASSUME NEW e \in T PROVE e \in Ahead(Merged, x)
      BY <1>1, <1>2, <1>4, <1>5 DEF Ahead, Before, RequestOK
    <3>2. Ahead(Merged, x) \subseteq Merged /\ IsFiniteSet(Merged)
      BY <1>1, MergedFacts DEF Ahead
    <3>3. Cardinality(T) > walk.limit
      BY <2>2 DEF Beyond
    <3>4. x.item = i /\ x.seq = n /\ x.key = n /\ x.staged \in BOOLEAN
      OBVIOUS
    <3> HIDE DEF T, x
    <3>5. IsFiniteSet(Ahead(Merged, x))
      BY <3>2, FS_Subset
    <3>6. T \subseteq Ahead(Merged, x)
      BY <3>1
    <3>7. /\ Cardinality(T) <= Cardinality(Ahead(Merged, x)) /\ Cardinality(T) \in Nat
          /\ Cardinality(Ahead(Merged, x)) \in Nat
      BY <3>5, <3>6, FS_Subset, FS_CardinalityType
    <3>8. Cardinality(Ahead(Merged, x)) > walk.limit
      BY <1>1, <3>3, <3>7
    <3> QED BY <3>4, <3>8
  <2> QED BY <1>3, <2>1, <2>2
<1>7. PICK x : /\ x.item = i /\ x.seq = n /\ x.key = n /\ x.staged \in BOOLEAN
               /\ x \in Merged \/ Cardinality(Ahead(Merged, x)) > walk.limit
  BY <1>6
<1>8. Cardinality(Answer) > walk.limit /\ \A w \in Shows : Before(w, x)
  <2>1. Keyed({x}) /\ x \notin Shows
    BY <1>2, <1>7 DEF Keyed
  <2> QED BY <1>1, <1>7, <2>1, LeftOut
<1>9. /\ walk'.at = "page" /\ walk'.upper = walk.upper
      /\ walk'.cursor = [region |-> IF End.seq # 0 THEN "sequenced" ELSE "unsequenced",
                         after |-> End.key, upper |-> walk.upper, boundary |-> walk.boundary]
      /\ End \in Shows
  <2>1. Cardinality(Answer) \in Nat
    BY <1>1, AnswerFacts, FS_CardinalityType
  <2>2. ~(Cardinality(Answer) <= walk.limit)
    BY <1>1, <1>8, <2>1
  <2> QED BY <1>1, <1>8, <2>2, FindRestFields, ShowsFacts
<1>10. End.seq # 0 /\ End.key > n
  <2>1. Before(End, x) /\ End.item # i
    BY <1>8, <1>9
  <2>2. End \in Answer /\ End.seq \in Nat /\ End.key \in Nat
    BY <1>1, <1>9, ShowsFacts, AnswerFacts, KnownTyped
  <2>3. End.seq # 0
    BY <1>2, <1>7, <2>1 DEF Before
  <2>4. End \in Merged
    BY <1>1, <2>2, <2>3, AnswerFacts
  <2>5. End.key = End.seq /\ End \in Known /\ End.item \in Items
    BY <1>1, <2>4, MergedFacts, KnownTyped
  <2>6. End.key # n
    <3>1. Carries(End.item, End.key)
      BY <2>3, <2>5 DEF Carries
    <3>2. Carries(i, n)
      BY <1>2, <1>9 DEF Carries, n, PlaceOf, Staged
    <3> QED BY <1>1, <1>2, <2>1, <2>2, <2>3, <2>5, <3>1, <3>2 DEF Agree
  <2> QED BY <1>2, <1>7, <2>1, <2>2, <2>3, <2>6 DEF Before
<1>11. PlaceAhead(i)'
  <2>1. PlaceOf(i)' = n /\ row' = row
    BY DEF vars, PlaceOf, Staged, n
  <2>2. walk'.cursor # None => walk'.cursor.region = "sequenced" /\ walk'.cursor.after = End.key
    BY <1>9, <1>10
  <2>3. n <= walk'.upper
    BY <1>2, <1>9 DEF InWindow
  <2>4. ~Continues("unsequenced")' /\ InWindow(PlaceOf(i))'
    BY <1>2, <1>10, <2>1, <2>2, <2>3 DEF Continues, InWindow
  <2> QED BY <1>2, <1>9, <2>1, <2>4 DEF PlaceAhead
<1> QED BY <1>9, <1>11

\* So is what has none.
LEMMA LooseLeftOut ==
    ASSUME Inv, WalkInv, FindRest, UNCHANGED vars, NEW r \in Revs, LooseAhead(r),
           page.live, \A e \in Shows : e.item # r
    PROVE  walk'.at = "page" /\ LooseAhead(r)'
<1>1. /\ walk \in WalkType /\ walk.at = "rest" /\ walk.limit \in Nat /\ Times
      /\ walk.ready <=> walk.boundary # 0
      /\ walk'.boundary = walk.boundary
  BY FindRestFields, KnownTyped DEF WalkInv, WalkInOrder, RequestOK
<1>2. r \in Unplaced
  <2>1. r \in Items /\ SlotInv
    BY Sets DEF Inv, Shared
  <2>2. walk.boundary # 0 => row[r] = 0
    BY <2>1 DEF LooseAhead, PlaceOf, Staged, SlotInv
  <2> QED BY <1>1, <2>2 DEF Unplaced, LooseAhead
<1>3. /\ Loose(r) \in LooseRows /\ Loose(r).item = r /\ Loose(r).seq = 0
      /\ Loose(r).key = born[r] /\ Keyed(LooseRows) /\ ~Loose(r).staged
  BY <1>1, <1>2, LooseFacts
<1>4. Cardinality(Answer) > walk.limit /\ \A w \in Shows : Before(w, Loose(r))
  <2>1. Keyed({Loose(r)}) /\ Loose(r) \notin Shows
    BY <1>3 DEF Keyed
  <2> QED BY <1>1, <1>3, <2>1, LeftOut
<1>5. /\ walk'.at = "page"
      /\ walk'.cursor = [region |-> IF End.seq # 0 THEN "sequenced" ELSE "unsequenced",
                         after |-> End.key, upper |-> walk.upper, boundary |-> walk.boundary]
      /\ End \in Shows
  <2>1. Cardinality(Answer) \in Nat
    BY <1>1, AnswerFacts, FS_CardinalityType
  <2>2. ~(Cardinality(Answer) <= walk.limit)
    BY <1>1, <1>4, <2>1
  <2> QED BY <1>1, <1>4, <2>2, FindRestFields, ShowsFacts
<1>6. Before(End, Loose(r))
  BY <1>4, <1>5
<1>7. End.seq = 0 => End.key > born[r]
  BY <1>3, <1>6 DEF Before
<1>8. Continues("unsequenced")' => End.seq = 0 /\ walk'.cursor.after = End.key
  BY <1>5 DEF Continues
<1>9. PlaceOf(r)' = PlaceOf(r)
  BY DEF PlaceOf, Staged, vars
<1> QED BY <1>1, <1>5, <1>7, <1>8, <1>9 DEF LooseAhead, vars

\* An answer that ends the walk leaves nothing out.
LEMMA FindRestOwes ==
    ASSUME Inv, WalkInv, OwesInv, FindRest, UNCHANGED vars PROVE OwesInv'
<1>1. /\ walk \in WalkType /\ walk.at = "rest" /\ RequestOK /\ walk.owed \subseteq Items
      /\ walk'.boundary = walk.boundary /\ walk'.owed = walk.owed
      /\ walk'.upper = walk.upper /\ walk'.at \in {"done", "page"}
      /\ Shown' = Shown \cup Shows
      /\ walk'.at = "page" => walk'.cursor # None
  <2>1. walk \in WalkType /\ walk.at = "rest" /\ RequestOK
    BY FindRestFields DEF WalkInv, WalkInOrder
  <2>2. walk'.at = "page" => walk'.cursor # None
    <3>1. WalkInv'
      BY FindRestKeeps
    <3>2. walk.limit \in Nat /\ walk.limit # 0 /\ Cardinality(Answer) \in Nat
      BY <2>1, KnownTyped, AnswerFacts, FS_CardinalityType
    <3>3. ASSUME walk'.at = "page" PROVE walk'.cursor \in Cursors
      <4>1. ~(Cardinality(Answer) <= walk.limit)
        BY <3>3, FindRestFields
      <4>2. walk'.cursor = [region |-> IF End.seq # 0 THEN "sequenced" ELSE "unsequenced",
                            after |-> End.key, upper |-> walk.upper,
                            boundary |-> walk.boundary]
        BY <4>1, FindRestFields
      <4>3. End \in Answer
        BY <2>1, <3>2, <4>1, ShowsFacts
      <4>4. End.key \in Nat /\ walk.upper \in Nat /\ walk.boundary \in Nat
        BY <2>1, <4>3, AnswerFacts, KnownTyped
      <4> QED BY <4>2, <4>4 DEF Cursors, Regions
    <3> QED BY <3>3, NoCursorAssumption
  <2> QED BY <2>1, <2>2, FindRestFields, ShownGrows, KnownTyped
<1>2. page' = page /\ row' = row /\ born' = born
  BY DEF vars
<1>3. \A i : ShownItem(i) \/ (\E e \in Shows : e.item = i) <=> ShownItem(i)'
  BY <1>1 DEF ShownItem
<1>4. ASSUME page.live, NEW i \in StillOwed
      PROVE  \/ ShownItem(i)'
             \/ walk.boundary # 0 /\ walk'.at = "page" /\ PlaceAhead(i)'
             \/ i \in Revs /\ walk'.at = "page" /\ LooseAhead(i)'
  <2>1. \/ ShownItem(i)
        \/ walk.boundary # 0 /\ PlaceAhead(i)
        \/ i \in Revs /\ LooseAhead(i)
    BY <1>1, <1>4 DEF OwesInv, WalkOwes, InRequest
  <2>2. i \in Items
    BY <1>1 DEF StillOwed
  <2> QED BY <1>3, <1>4, <2>1, <2>2, PlaceLeftOut, LooseLeftOut
<1>5. StillOwed' = StillOwed
  BY <1>1 DEF StillOwed, PlaceOf, Staged, vars
<1>6. WalkOwes'
  <2>1. page.live /\ walk.boundary # 0 => walk.upper <= page.seq
    BY <1>1 DEF OwesInv, WalkOwes, InRequest
  <2> QED BY <1>1, <1>2, <1>4, <1>5, <2>1 DEF WalkOwes
<1>7. WalkIsComplete'
  <2> SUFFICES ASSUME walk'.at = "done", page.live, NEW i \in StillOwed PROVE ShownItem(i)'
    BY <1>2, <1>5 DEF WalkIsComplete, ShownItem, Shown
  <2> QED BY <1>4
<1> QED BY <1>6, <1>7 DEF OwesInv

\* Every step keeps what a walk owes ahead of it.
LEMMA StepOwes ==
    Stray = {} /\ Inv /\ WalkInv /\ OwesInv /\ [ReadNext]_allVars => OwesInv'
<1> SUFFICES ASSUME Stray = {}, Inv, WalkInv, OwesInv, [ReadNext]_allVars PROVE OwesInv'
    OBVIOUS
<1>1. CASE [Next]_vars /\ walk' = walk
  BY <1>1, OutboxOwes
<1>2. CASE ReadStep /\ UNCHANGED vars
  <2>1. CASE WalkPage
    BY <1>2, <2>1, WalkPageOwes
  <2>2. CASE FindEvents
    <3>1. \A i \in Items : KindOf(i) = "events" => i \in Cmds
      BY DEF KindOf
    <3> QED BY <1>2, <2>2, <3>1, Sets, FindRowsOwes DEF FindEvents
  <2>3. CASE FindRevisions
    <3>1. \A i \in Items : KindOf(i) = "revisions" => i \in Revs
      BY DEF KindOf, Items
    <3> QED BY <1>2, <2>3, <3>1, Sets, FindRowsOwes DEF FindRevisions
  <2>4. CASE FindRest
    BY <1>2, <2>4, FindRestOwes
  <2> QED BY <1>2, <2>1, <2>2, <2>3, <2>4 DEF ReadStep
<1> QED BY <1>1, <1>2 DEF ReadNext, allVars

\* Before the first request a walk owes nothing.
LEMMA InitOwes == ReadInit => OwesInv
BY DEF ReadInit, OwesInv, WalkOwes, WalkIsComplete, StillOwed, Init

\* A walk that reaches the end of a page still there has shown all the page had
\* when it began: its timeline, what was staged then included, however entries
\* move from the slot to their rows between the calls of a request, and every older
\* Revision without a place, unless it was given one beyond the walk's bound
\* (read.ts:261-340).
THEOREM WalksComplete == ASSUME Stray = {} PROVE ReadSpec => []WalkIsComplete
<1>1. Inv /\ WalkInv /\ [ReadNext]_allVars => Inv' /\ WalkInv'
  BY StepWalk
<1>2. Inv /\ WalkInv /\ OwesInv /\ [ReadNext]_allVars => OwesInv'
  BY StepOwes
<1>3. OwesInv => WalkIsComplete
  BY DEF OwesInv
<1> QED BY <1>1, <1>2, <1>3, InitWalk, InitOwes, PTL DEF ReadSpec

=============================================================================
