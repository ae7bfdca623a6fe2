------------------------- MODULE CollabDocumentProofs -------------------------
(***************************************************************************)
(* Proofs about CollabDocument, for any number of tabs, saves, runs of the *)
(* compactor, outside edits and moves, loads and crashes.                  *)
(***************************************************************************)
EXTENDS CollabDocument, FiniteSetTheorems, TLAPS

\* The functions keep their domains; what the values are does not matter here.
Shapes ==
    /\ DOMAIN pc = Procs /\ DOMAIN loc = Procs /\ DOMAIN revs = Revs
    /\ DOMAIN page = {"rev", "epoch", "snap"}
    /\ \A p \in Procs : DOMAIN loc[p] = DOMAIN NoLoc

\* The Revision x may still be stored by its own request.
Unstored == {"idle", "read", "check", "replace"}

Early(x) == pc[x] \in Unstored

\* A request that is at its pointer write, or has lost it, has stored the Revision
\* it derived from what it read.
Derived ==
    \A s \in Saves :
        /\ pc[s] = "cas" => revs[s].parent = loc[s].seen
        /\ pc[s] \in {"cas", "probe"} => revs[s].body = loc[s].body

\* A Revision the Page has pointed at is stored for good.
Settled ==
    /\ page.rev \in Revs /\ (page.rev \in Procs => ~Early(page.rev))
    /\ \A s \in Saves : pc[s] = "done" /\ loc[s].into # None =>
         loc[s].into \in Revs /\ (loc[s].into \in Procs => ~Early(loc[s].into))

IInv == Shapes /\ Derived /\ Settled /\ ReportedTextIsStored

\* No name is that of two requests.
LEMMA Names ==
    /\ Saves \subseteq Procs /\ Merges \subseteq Procs /\ Edits \subseteq Procs /\ Renames \subseteq Procs
    /\ Saves \subseteq Revs /\ Edits \subseteq Revs /\ First \in Revs /\ First \notin Procs
    /\ Saves \cap Merges = {} /\ Saves \cap Edits = {} /\ Saves \cap Renames = {}
    /\ Merges \cap Edits = {} /\ Merges \cap Renames = {} /\ Edits \cap Renames = {}
    /\ Revs \cap Procs = Saves \cup Edits
  BY ConstantsAssumption DEF ConstantsAssumption, Procs, Outside, Revs

\* The invariant holds at first: no request has begun.
LEMMA InitIInv == Init => IInv
<1> SUFFICES ASSUME Init PROVE IInv
  OBVIOUS
<1>1. Shapes
  BY DEF Init, Shapes, NoLoc
<1>2. Derived
  BY Names DEF Init, Derived
<1>3. Settled
  BY Names DEF Init, Settled, Early, Unstored, NoLoc
<1>4. ReportedTextIsStored
  BY Names DEF Init, ReportedTextIsStored, NoLoc
<1> QED
  BY <1>1, <1>2, <1>3, <1>4 DEF IInv

-----------------------------------------------------------------------------
(* How a step moves one process. *)

\* Only p moves, to the label l with the locals x.
Moved(p, l, x) ==
    /\ DOMAIN pc' = Procs /\ DOMAIN loc' = Procs /\ pc'[p] = l /\ loc'[p] = x
    /\ \A q \in Procs \ {p} : pc'[q] = pc[q] /\ loc'[q] = loc[q]

\* Both ways to move a process do.
LEMMA Moving ==
    ASSUME Shapes, NEW p \in Procs, NEW l
    PROVE  /\ \A x : Move(p, l, x) => Moved(p, l, x)
           /\ Goto(p, l) => Moved(p, l, loc[p])
  BY DEF Shapes, Move, Goto, Moved

\* The Page keeps its pointer and the Revisions are as they were.
Keeps == revs' = revs /\ page'.rev = page.rev /\ DOMAIN page' = DOMAIN page

\* A snapshot or an epoch that is written does not touch the pointer.
LEMMA Written ==
    ASSUME Shapes
    PROVE  /\ \A v : page' = [page EXCEPT !.snap = v] => page'.rev = page.rev /\ DOMAIN page' = DOMAIN page
           /\ page' = [page EXCEPT !.epoch = @ + 1] => page'.rev = page.rev /\ DOMAIN page' = DOMAIN page
  BY DEF Shapes

\* Steps of the engine alone do not concern the invariant.
LEMMA Still ==
    ASSUME IInv, Keeps, UNCHANGED <<pc, loc>>
    PROVE  IInv'
  BY Names DEF IInv, Keeps, Shapes, Derived, Settled, Early, ReportedTextIsStored

\* Nor do those of a process that is no save, as long as it does not begin again to store
\* a Revision.
LEMMA OthersMove ==
    ASSUME IInv, Keeps, NEW p \in Procs \ Saves, NEW l, NEW x, Moved(p, l, x),
           DOMAIN x = DOMAIN NoLoc, p \in Edits => Early(p) \/ l \notin Unstored
    PROVE  IInv'
<1>1. Shapes'
  BY DEF IInv, Keeps, Shapes, Moved
<1>2. Derived'
  BY Names DEF IInv, Keeps, Derived, Moved
<1>3. \A q \in Saves \cup Edits : ~Early(q) => ~Early(q)'
  BY Names DEF Moved, Early, Unstored
<1>4. Settled'
  BY Names, <1>3 DEF IInv, Keeps, Settled, Moved, Early, Unstored
<1>5. ReportedTextIsStored'
  BY Names DEF IInv, Keeps, Moved, ReportedTextIsStored
<1> QED
  BY <1>1, <1>2, <1>4, <1>5 DEF IInv

\* Nor those of a save that has stored its Revision as it derived it, and that ends with
\* its own or with the one the Page points at.
LEMMA SaveMoves ==
    ASSUME IInv, NEW s \in Saves, NEW l, NEW x, Moved(s, l, x), DOMAIN x = DOMAIN NoLoc,
           DOMAIN page' = DOMAIN page, DOMAIN revs' = Revs,
           Early(s) \/ l \notin Unstored,
           page'.rev # page.rev => page'.rev = s /\ l \notin Unstored,
           \A r \in Revs : r # s \/ ~Early(s) => revs'[r] = revs[r],
           l = "cas" => revs'[s].parent = x.seen,
           l \in {"cas", "probe"} => revs'[s].body = x.body,
           l = "done" /\ x.into # None =>
             x.into \in {s, page.rev} /\ revs'[x.into].body = revs'[s].body
    PROVE  IInv'
<1>1. Shapes'
  BY Names DEF IInv, Shapes, Moved
<1>2. Derived'
  BY Names DEF IInv, Derived, Moved, Early, Unstored
<1>3. \A q \in Saves \cup Edits : ~Early(q) => pc'[q] \notin Unstored
  BY Names DEF Moved, Early
<1>4. Settled'
  <2>1. page'.rev \in Revs /\ (page'.rev \in Procs => pc'[page'.rev] \notin Unstored)
    <3>1. CASE page'.rev = page.rev
      BY <3>1, <1>3, Names DEF IInv, Settled
    <3>2. CASE page'.rev # page.rev
      BY <3>2, Names DEF Moved
    <3> QED
      BY <3>1, <3>2
  <2>2. ASSUME NEW t \in Saves, pc'[t] = "done", loc'[t].into # None
        PROVE  loc'[t].into \in Revs /\ (loc'[t].into \in Procs => pc'[loc'[t].into] \notin Unstored)
    <3>1. CASE t # s
      BY <3>1, <2>2, <1>3, Names DEF IInv, Settled, Moved
    <3>2. CASE t = s
      <4>1. x.into \in {s, page.rev} /\ l = "done" /\ loc'[t].into = x.into
        BY <3>2, <2>2 DEF Moved
      <4>2. pc'[s] \notin Unstored
        BY <4>1, Names DEF Moved, Unstored
      <4> QED
        BY <4>1, <4>2, <1>3, Names DEF IInv, Settled
    <3> QED
      BY <3>1, <3>2
  <2> QED
    BY <2>1, <2>2 DEF Settled, Early
<1>5. ReportedTextIsStored'
  <2> SUFFICES ASSUME NEW t \in Saves, pc'[t] = "done", loc'[t].into # None
               PROVE  revs'[loc'[t].into].body = revs'[t].body
    BY DEF ReportedTextIsStored
  <2>1. CASE t = s
    BY <2>1 DEF Moved
  <2>2. CASE t # s
    <3>1. pc[t] = "done" /\ loc[t].into # None /\ loc'[t].into = loc[t].into
      BY <2>2, Names DEF Moved
    <3>2. loc[t].into \in Revs /\ revs'[loc[t].into] = revs[loc[t].into]
      BY <3>1, Names DEF IInv, Settled
    <3> QED
      BY <2>2, <3>1, <3>2, Names DEF IInv, ReportedTextIsStored
  <2> QED
    BY <2>1, <2>2
<1> QED
  BY <1>1, <1>2, <1>4, <1>5 DEF IInv

-----------------------------------------------------------------------------
(* The steps of a save. *)

\* A save that begins or reads the Page keeps what it has derived: nothing yet.
LEMMA SaveBegins ==
    ASSUME IInv, NEW s \in Saves, ReadPage(s) \/ \E u \in Users : StartSave(s, u)
    PROVE  IInv'
<1>1. CASE ReadPage(s)
  <2> DEFINE x == [loc[s] EXCEPT !.seen = page.rev]
  <2>1. Moved(s, "check", x)
    BY <1>1, Moving, Names DEF ReadPage, IInv
  <2>2. DOMAIN x = DOMAIN NoLoc
    BY Names DEF IInv, Shapes
  <2>3. page' = page /\ revs' = revs /\ Early(s)
    BY <1>1 DEF ReadPage, database, Early, Unstored
  <2> QED
    BY <2>1, <2>2, <2>3, SaveMoves DEF IInv, Shapes
<1>2. CASE \E u \in Users : StartSave(s, u)
  <2>1. PICK u \in Users : StartSave(s, u)
    BY <1>2
  <2> DEFINE x == [NoLoc EXCEPT !.doc = conn[u].doc, !.body = doc[conn[u].doc].text]
  <2>2. Moved(s, "read", x)
    BY <2>1, Moving, Names DEF StartSave, IInv
  <2>3. DOMAIN x = DOMAIN NoLoc
    BY DEF NoLoc
  <2>4. page' = page /\ revs' = revs /\ Early(s)
    BY <2>1 DEF StartSave, database, Early, Unstored
  <2> QED
    BY <2>2, <2>3, <2>4, SaveMoves DEF IInv, Shapes
<1> QED
  BY <1>1, <1>2

\* The Revision is stored as it was derived, or the save has failed.
LEMMA CheckBaseKeeps ==
    ASSUME IInv, NEW s \in Saves, CheckBase(s)
    PROVE  IInv'
<1>1. page' = page /\ Early(s) /\ s \in Revs /\ s \in Procs /\ DOMAIN revs = Revs
  BY Names DEF CheckBase, Early, Unstored, IInv, Shapes
<1>2. CASE docBase \notin {Unset, loc[s].seen}
  <2>1. revs' = revs /\ Moved(s, "failed", NoLoc)
    BY <1>1, <1>2, Moving DEF CheckBase, IInv
  <2> QED
    BY <1>1, <2>1, SaveMoves DEF Unstored, IInv, Shapes
<1>3. CASE docBase \in {Unset, loc[s].seen}
  <2> DEFINE r == [body |-> loc[s].body, parent |-> loc[s].seen, at |-> Clock + 1]
  <2>1. revs' = [revs EXCEPT ![s] = r] /\ Moved(s, "cas", loc[s])
    BY <1>1, <1>3, Moving DEF CheckBase, IInv
  <2>2. DOMAIN revs' = Revs /\ revs'[s] = r /\ \A q \in Revs \ {s} : revs'[q] = revs[q]
    BY <1>1, <2>1
  <2>3. revs'[s].parent = loc[s].seen /\ revs'[s].body = loc[s].body
    BY <2>2
  <2>4. DOMAIN loc[s] = DOMAIN NoLoc
    BY <1>1 DEF IInv, Shapes
  <2> HIDE DEF r
  <2> QED
    BY <1>1, <2>1, <2>2, <2>3, <2>4, SaveMoves DEF Unstored
<1> QED
  BY <1>2, <1>3

\* The pointer write puts the Page on the save's own Revision, or changes nothing.
LEMMA MovePointerKeeps ==
    ASSUME IInv, NEW s \in Saves, MovePointer(s)
    PROVE  /\ IInv'
           /\ page'.rev # page.rev => page'.rev = s /\ revs'[s].parent = page.rev
<1>1. revs' = revs /\ pc[s] = "cas" /\ s \in Procs /\ DOMAIN revs = Revs
      /\ DOMAIN loc[s] = DOMAIN NoLoc
  BY Names DEF MovePointer, IInv, Shapes
<1>2. revs[s].parent = loc[s].seen /\ revs[s].body = loc[s].body
  BY <1>1 DEF IInv, Derived
<1>3. CASE Matches(loc[s].seen, docEpoch)
  <2> DEFINE x == [loc[s] EXCEPT !.epoch = docEpoch]
  <2>1. page' = [page EXCEPT !.rev = s] /\ Move(s, "won", x)
    BY <1>3 DEF MovePointer
  <2>2. Moved(s, "won", x)
    BY <2>1, <1>1, Moving DEF IInv
  <2>3. DOMAIN page' = DOMAIN page /\ page'.rev = s
    BY <2>1 DEF IInv, Shapes
  <2>4. DOMAIN x = DOMAIN NoLoc
    BY <1>1
  <2>5. IInv'
    BY <1>1, <2>2, <2>3, <2>4, SaveMoves DEF Unstored
  <2> QED
    BY <1>1, <1>2, <1>3, <2>3, <2>5 DEF Matches
<1>4. CASE ~Matches(loc[s].seen, docEpoch)
  <2>1. page' = page /\ Moved(s, "probe", loc[s])
    BY <1>1, <1>4, Moving DEF MovePointer, IInv
  <2> QED
    BY <1>1, <1>2, <2>1, SaveMoves DEF Unstored
<1> QED
  BY <1>3, <1>4

\* A loser is reported as the Revision the Page points at only if that holds its text.
LEMMA ProbeKeeps ==
    ASSUME IInv, NEW s \in Saves, Probe(s)
    PROVE  IInv'
<1>1. revs' = revs /\ page' = page /\ pc[s] = "probe" /\ s \in Procs /\ DOMAIN revs = Revs
  BY Names DEF Probe, database, IInv, Shapes
<1>2. CASE Coalesces(s)
  <2> DEFINE x == [NoLoc EXCEPT !.into = page.rev]
  <2>1. Moved(s, "done", x)
    BY <1>1, <1>2, Moving DEF Probe, IInv
  <2>2. DOMAIN x = DOMAIN NoLoc /\ x.into = page.rev
    BY DEF NoLoc
  <2>3. revs'[x.into].body = revs'[s].body
    BY <1>1, <1>2, <2>2 DEF Coalesces, IInv, Derived
  <2> HIDE DEF x
  <2> QED
    BY <1>1, <2>1, <2>2, <2>3, SaveMoves DEF Unstored
<1>3. CASE ~Coalesces(s)
  <2>1. Moved(s, "failed", NoLoc)
    BY <1>1, <1>3, Moving DEF Probe, IInv
  <2> QED
    BY <1>1, <2>1, SaveMoves DEF Unstored
<1> QED
  BY <1>2, <1>3

\* What follows a won pointer write leaves pointer and Revisions alone.
LEMMA WonSaveKeeps ==
    ASSUME IInv, NEW s \in Saves, AdvanceBase(s) \/ SealSave(s) \/ WriteSave(s) \/ DropRows(s)
    PROVE  IInv' /\ Keeps
<1>1. revs' = revs /\ s \in Procs /\ DOMAIN revs = Revs /\ DOMAIN loc[s] = DOMAIN NoLoc
  BY Names DEF AdvanceBase, SealSave, WriteSave, DropRows, database, IInv, Shapes
<1>2. page'.rev = page.rev /\ DOMAIN page' = DOMAIN page
  BY Written DEF AdvanceBase, SealSave, WriteSave, Persist, DropRows, database, IInv
<1>3. CASE AdvanceBase(s)
  <2>1. Moved(s, "seal", loc[s])
    BY <1>1, <1>3, Moving DEF AdvanceBase, IInv
  <2> QED
    BY <1>1, <1>2, <2>1, SaveMoves DEF Unstored, Keeps
<1>4. CASE SealSave(s)
  <2> DEFINE x == [loc[s] EXCEPT !.seen = page.rev, !.enc = Encoded(s)]
  <2>1. Moved(s, "write", x)
    BY <1>1, <1>4, Moving DEF SealSave, IInv
  <2>2. DOMAIN x = DOMAIN NoLoc
    BY <1>1
  <2> HIDE DEF x
  <2> QED
    BY <1>1, <1>2, <2>1, <2>2, SaveMoves DEF Unstored, Keeps
<1>5. CASE WriteSave(s)
  <2>1. Moved(s, "drop", loc[s])
    BY <1>1, <1>5, Moving DEF WriteSave, IInv
  <2> QED
    BY <1>1, <1>2, <2>1, SaveMoves DEF Unstored, Keeps
<1>6. CASE DropRows(s)
  <2> DEFINE x == [NoLoc EXCEPT !.into = s]
  <2>1. Moved(s, "done", x)
    BY <1>1, <1>6, Moving DEF DropRows, IInv
  <2>2. DOMAIN x = DOMAIN NoLoc /\ x.into = s
    BY DEF NoLoc
  <2> HIDE DEF x
  <2> QED
    BY <1>1, <1>2, <2>1, <2>2, SaveMoves DEF Unstored, Keeps
<1> QED
  BY <1>3, <1>4, <1>5, <1>6

-----------------------------------------------------------------------------
(* The other steps. *)

\* A run of the compactor writes no Revision and does not move the pointer.
LEMMA MergeKeeps ==
    ASSUME IInv, NEW c \in Merges, Merge(c)
    PROVE  IInv' /\ Keeps
<1>1. c \in Procs \ Saves /\ c \notin Edits /\ DOMAIN loc[c] = DOMAIN NoLoc
  BY Names DEF IInv, Shapes
<1>2. Keeps
  BY Written DEF Merge, Store, Enter, CompactPage, CollectRows, MergeBase, SealMerge, WriteMerge,
     Persist, DropFolded, database, Keeps, IInv
<1> SUFFICES IInv'
  BY <1>2
<1>3. ASSUME NEW l, NEW x, Move(c, l, x), DOMAIN x = DOMAIN NoLoc
      PROVE  IInv'
  BY <1>1, <1>2, <1>3, Moving, OthersMove DEF IInv
<1>4. ASSUME NEW l, Goto(c, l) PROVE IInv'
  BY <1>1, <1>2, <1>4, Moving, OthersMove DEF IInv
<1>5. Idle(c) => IInv'
  BY <1>3 DEF Idle
<1>6. ASSUME NEW d \in Docs, Store(c, d) PROVE IInv'
  <2>1. DOMAIN [NoLoc EXCEPT !.doc = d] = DOMAIN NoLoc
    BY DEF NoLoc
  <2> QED
    BY <1>2, <1>3, <1>6, <2>1, Still DEF Store
<1>7. CASE Enter(c)
  <2>1. DOMAIN [loc[c] EXCEPT !.epoch = docEpoch] = DOMAIN NoLoc
    BY <1>1
  <2> QED
    BY <1>3, <1>5, <1>7, <2>1 DEF Enter
<1>8. CASE CompactPage(c)
  <2>1. DOMAIN [NoLoc EXCEPT !.epoch = docEpoch] = DOMAIN NoLoc
    BY DEF NoLoc
  <2> QED
    BY <1>3, <1>8, <2>1 DEF CompactPage
<1>9. CASE CollectRows(c)
  <2>1. DOMAIN [loc[c] EXCEPT !.rows = rows] = DOMAIN NoLoc
    BY <1>1
  <2>2. Idle(c) \/ \E l : Move(c, l, [loc[c] EXCEPT !.rows = rows])
    BY <1>9 DEF CollectRows
  <2> QED
    BY <1>3, <1>5, <2>1, <2>2
<1>10. CASE MergeBase(c)
  <2>1. PICK v : Move(c, "seal", [loc[c] EXCEPT !.enc = v])
    BY <1>10 DEF MergeBase
  <2>2. DOMAIN [loc[c] EXCEPT !.enc = v] = DOMAIN NoLoc
    BY <1>1
  <2> QED
    BY <1>3, <2>1, <2>2
<1>11. CASE SealMerge(c)
  <2>1. Idle(c) \/ \E v : Move(c, "write", [loc[c] EXCEPT !.seen = page.rev, !.enc = v])
    BY <1>11 DEF SealMerge
  <2>2. \A v : DOMAIN [loc[c] EXCEPT !.seen = page.rev, !.enc = v] = DOMAIN NoLoc
    BY <1>1
  <2> QED
    BY <1>3, <1>5, <2>1, <2>2
<1>12. CASE WriteMerge(c)
  <2>1. Idle(c) \/ Goto(c, "drop")
    BY <1>12 DEF WriteMerge
  <2> QED
    BY <1>4, <1>5, <2>1
<1>13. CASE DropFolded(c)
  BY <1>5, <1>13 DEF DropFolded
<1> QED
  BY <1>6, <1>7, <1>8, <1>9, <1>10, <1>11, <1>12, <1>13 DEF Merge

\* A body write from outside stores its own Revision, once, and points the Page at it.
LEMMA ReplaceBodyKeeps ==
    ASSUME IInv, NEW x \in Outside, ReplaceBody(x)
    PROVE  IInv' /\ page'.rev \notin Saves
<1>1. x \in Edits /\ x \in Procs /\ x \in Revs /\ x \notin Saves /\ pc[x] = "replace" /\ Early(x)
  BY Names DEF ReplaceBody, Early, Unstored
<1>2. /\ page'.rev = x /\ DOMAIN page' = DOMAIN page /\ DOMAIN revs' = Revs
      /\ \A r \in Revs \ {x} : revs'[r] = revs[r]
  BY DEF ReplaceBody, IInv, Shapes
<1>3. Moved(x, "clear", loc[x])
  BY <1>1, Moving DEF ReplaceBody, IInv
<1>4. Shapes'
  BY <1>1, <1>2, <1>3 DEF IInv, Shapes, Moved
<1>5. Derived'
  BY <1>1, <1>2, <1>3, Names DEF IInv, Derived, Moved
<1>6. \A q \in Saves \cup Edits : ~Early(q) => pc'[q] \notin Unstored
  BY <1>1, <1>3, Names DEF Moved, Early, Unstored
<1>7. Settled'
  BY <1>1, <1>2, <1>3, <1>6, Names DEF IInv, Settled, Moved, Early, Unstored
<1>8. ReportedTextIsStored'
  <2> SUFFICES ASSUME NEW t \in Saves, pc'[t] = "done", loc'[t].into # None
               PROVE  revs'[loc'[t].into].body = revs'[t].body
    BY DEF ReportedTextIsStored
  <2>1. pc[t] = "done" /\ loc'[t].into = loc[t].into /\ loc[t].into # None
    BY <1>1, <1>3, Names DEF Moved
  <2>2. loc[t].into \in Revs \ {x}
    BY <1>1, <2>1 DEF IInv, Settled
  <2> QED
    BY <1>1, <1>2, <2>1, <2>2, Names DEF IInv, ReportedTextIsStored
<1> QED
  BY <1>1, <1>2, <1>4, <1>5, <1>7, <1>8 DEF IInv

\* The rest of an outside write, and a path move, leave pointer and Revisions alone.
LEMMA OutsideKeeps ==
    ASSUME IInv, NEW x \in Outside, Begin(x) \/ MovePath(x) \/ ClearRows(x) \/ InvalidatePages(x)
    PROVE  IInv' /\ Keeps
<1>1. x \in Procs \ Saves /\ DOMAIN loc[x] = DOMAIN NoLoc
  BY Names DEF Outside, IInv, Shapes
<1>2. Keeps
  BY Written DEF Begin, MovePath, ClearRows, InvalidatePages, database, Keeps, IInv
<1>3. CASE Begin(x)
  <2> DEFINE y == [NoLoc EXCEPT !.epoch = page.epoch]
  <2>1. Moved(x, "replace", y) /\ Early(x)
    BY <1>1, <1>3, Moving DEF Begin, IInv, Early, Unstored
  <2>2. DOMAIN y = DOMAIN NoLoc
    BY DEF NoLoc
  <2> HIDE DEF y
  <2> QED
    BY <1>1, <1>2, <2>1, <2>2, OthersMove
<1>4. CASE MovePath(x) \/ ClearRows(x)
  <2>1. Moved(x, "tell", loc[x])
    BY <1>1, <1>4, Moving DEF MovePath, ClearRows, IInv
  <2> QED
    BY <1>1, <1>2, <2>1, OthersMove DEF Unstored
<1>5. CASE InvalidatePages(x)
  <2>1. Moved(x, "done", NoLoc)
    BY <1>1, <1>5, Moving DEF InvalidatePages, IInv
  <2> QED
    BY <1>1, <1>2, <2>1, OthersMove DEF Unstored
<1> QED
  BY <1>3, <1>4, <1>5

\* A crash ends the saves under way; those that had answered have their answer still.
LEMMA CrashKeeps ==
    ASSUME IInv, Crash
    PROVE  IInv' /\ Keeps
<1>1. Keeps /\ DOMAIN pc' = Procs /\ DOMAIN loc' = Procs
  BY DEF Crash, database, Keeps
<1>2. \A p \in Procs : loc'[p] = (IF pc[p] = "done" THEN loc[p] ELSE NoLoc)
  BY DEF Crash
<1>3. \A p \in Saves \cup Edits :
        pc'[p] = (IF pc[p] \in {"idle", "done", "failed"} THEN pc[p] ELSE "failed")
  BY Names DEF Crash
<1>4. \A p \in Saves \cup Edits : p \in Procs /\ (~Early(p) => pc'[p] \notin Unstored)
  BY <1>3, Names DEF Early, Unstored
<1>5. Shapes'
  BY <1>1, <1>2 DEF IInv, Keeps, Shapes
<1>6. Derived'
  BY <1>3 DEF Derived
<1>7. \A s \in Saves : pc'[s] = "done" => pc[s] = "done" /\ loc'[s] = loc[s]
  BY <1>2, <1>3, Names
<1>8. Settled'
  BY <1>1, <1>4, <1>7, Names DEF IInv, Keeps, Settled, Early
<1>9. ReportedTextIsStored'
  BY <1>1, <1>7 DEF IInv, Keeps, ReportedTextIsStored
<1> QED
  BY <1>1, <1>5, <1>6, <1>8, <1>9 DEF IInv

\* Steps of the engine: the document, its connections, its rows.
LEMMA EngineKeeps ==
    ASSUME IInv,
           \/ LoadReplay \/ \E r \in flying : AppendRow(r)
           \/ \E u \in Users : \/ Authenticate(u) \/ Attach(u) \/ LoadRead(u) \/ Leave(u)
                               \/ \E m \in Marks : Type(u, m)
           \/ \E d \in Docs : Unload(d) \/ Drain(d)
    PROVE  IInv' /\ Keeps
<1>1. page' = page /\ revs' = revs /\ pc' = pc /\ loc' = loc
  BY DEF LoadReplay, AppendRow, Authenticate, Attach, LoadRead, Leave, Type, Unload, Drain, database
<1> QED
  BY <1>1, Still DEF Keeps

-----------------------------------------------------------------------------
\* A step that moves the pointer is the pointer write of a save, which replaces what it
\* was derived from, or a body write from outside.
Chained == page'.rev \in Saves /\ page'.rev # page.rev => revs[page'.rev].parent = page.rev

\* Every step keeps the invariant and the chain.
LEMMA NextIInv == IInv /\ [Next]_vars => IInv' /\ Chained
<1> SUFFICES ASSUME IInv, [Next]_vars PROVE IInv' /\ Chained
  OBVIOUS
<1>1. Keeps => Chained
  BY DEF Keeps, Chained
<1>2. CASE \E u \in Users : Tab(u)
  <2>1. PICK u \in Users : Tab(u)
    BY <1>2
  <2>2. CASE \E s \in Saves : StartSave(s, u)
    BY <1>1, <2>2, SaveBegins DEF StartSave, database, Keeps
  <2> QED
    BY <1>1, <2>1, <2>2, EngineKeeps DEF Tab
<1>3. ASSUME NEW s \in Saves, Save(s) PROVE IInv' /\ Chained
  <2>1. CASE ReadPage(s) \/ CheckBase(s) \/ Probe(s)
    <3>1. page' = page
      BY <2>1 DEF ReadPage, CheckBase, Probe, database
    <3> QED
      BY <2>1, <3>1, SaveBegins, CheckBaseKeeps, ProbeKeeps DEF Chained
  <2>2. CASE MovePointer(s)
    <3>1. revs' = revs
      BY <2>2 DEF MovePointer
    <3> QED
      BY <2>2, <3>1, MovePointerKeeps DEF Chained
  <2>3. CASE AdvanceBase(s) \/ SealSave(s) \/ WriteSave(s) \/ DropRows(s)
    BY <1>1, <2>3, WonSaveKeeps
  <2> QED
    BY <1>3, <2>1, <2>2, <2>3 DEF Save
<1>4. CASE \E c \in Merges : Merge(c)
  BY <1>1, <1>4, MergeKeeps
<1>5. ASSUME NEW x \in Outside, FromOutside(x) PROVE IInv' /\ Chained
  BY <1>1, <1>5, ReplaceBodyKeeps, OutsideKeeps DEF FromOutside, Chained
<1>6. CASE Crash
  BY <1>1, <1>6, CrashKeeps
<1>7. CASE UNCHANGED vars
  BY <1>1, <1>7, Still DEF vars, Keeps
<1>8. CASE LoadReplay \/ (\E r \in flying : AppendRow(r)) \/ \E d \in Docs : Unload(d) \/ Drain(d)
  BY <1>1, <1>8, EngineKeeps
<1> QED
  BY <1>2, <1>3, <1>4, <1>5, <1>6, <1>7, <1>8 DEF Next

\* The strengthened invariant holds of every behaviour.
THEOREM InvariantHolds == Spec => []IInv
  BY InitIInv, NextIInv, PTL DEF Spec

\* A save reported as done has its text stored, whatever runs at the same time, fails or
\* crashes (save-flow.ts:488-556).
THEOREM ReportedTextAlwaysStored == Spec => []ReportedTextIsStored
<1>1. IInv => ReportedTextIsStored
  BY DEF IInv
<1> QED
  BY <1>1, InvariantHolds, PTL

\* A save replaces the Revision it was derived from and no other (save-flow.ts:443-488).
THEOREM SavesAlwaysChain == Spec => SavesChain
<1>1. IInv /\ [Next]_vars =>
        [page'.rev \in Saves /\ page'.rev # page.rev => revs[page'.rev].parent = page.rev]_vars
  BY NextIInv DEF Chained
<1> QED
  BY <1>1, InvariantHolds, PTL DEF Spec, SavesChain

-----------------------------------------------------------------------------
(* Types, and what the epochs kept by the process stand for. *)

Quiet == {"idle", "done", "failed"}

\* Some document was loaded, or is being loaded, from a Page of this epoch.
Known(e) ==
    \/ \E d \in Loaded : doc[d].epoch = e
    \/ load # None /\ load.epoch = e

\* What a request or a run counts on.
Anchored(p) ==
    /\ loc[p].doc \in Loaded \cup {0}
    /\ p \in Saves /\ pc[p] \notin Quiet => loc[p].doc # 0
    /\ pc[p] = "replace" => loc[p].epoch # Unset
    /\ pc[p] = "seal" /\ loc[p].doc = 0 => loc[p].enc # None
    /\ p \in Saves /\ pc[p] = "cas" => revs[p] # None
    /\ p \in Saves \cup Merges /\ pc[p] \notin Quiet => docEpoch # Unset
    /\ pc[p] \in {"won", "rows", "base", "seal", "write"} =>
         loc[p].epoch # Unset /\ Known(loc[p].epoch)

\* The Page, and the one a load has read, point at stored Revisions.
Pointed ==
    /\ revs[page.rev] # None /\ (load # None => revs[load.rev] # None)
    /\ IsFiniteSet({r \in Revs : revs[r] # None})

\* Whoever has a document has the epoch of a load recorded.
Engaged ==
    /\ registry \in Loaded \cup {0}
    /\ \A u \in Users : conn[u].at = "on" => conn[u].doc \in Loaded /\ docEpoch # Unset
    /\ registry # 0 \/ load # None => docEpoch # Unset
    /\ \A d \in Loaded : doc[d].dirty => docEpoch # Unset
    /\ docEpoch # Unset => Known(docEpoch)

\* Documents are numbered as they are loaded, and a load finds room for its own.
Numbered == \E k \in 0 .. MaxLoads : Loaded = 1 .. k /\ (load # None => k < MaxLoads)

OneRun == (inflight <=> Running # {}) /\ \A c, b \in Running : c = b

TInv ==
    /\ DataTyped /\ ProcTyped /\ Pointed /\ Engaged /\ Numbered /\ OneRun
    /\ \A p \in Procs : Anchored(p)

LEMMA NoLocTyped == NoLoc \in LocType
  BY Names, ConstantsAssumption DEF NoLoc, LocType, ConstantsAssumption, Text

\* The invariant holds at first: nothing is loaded.
LEMMA InitTInv == Init => TInv
<1> SUFFICES ASSUME Init PROVE TInv
  OBVIOUS
<1>1. PICK cast \in Casts :
        /\ typed = Marks \ cast
        /\ conn = [u \in Users |-> [NoConn EXCEPT !.at = IF u \in cast THEN "off" ELSE "away"]]
        /\ pc = [p \in Procs |-> IF p \in cast THEN "idle" ELSE "done"]
  BY DEF Init
<1>2. PICK body \in {{}, {First}}, kept \in BOOLEAN :
        /\ page = [rev |-> First, epoch |-> 0,
                   snap |-> IF ~kept THEN None
                            ELSE [base |-> IF body = {} THEN 0 ELSE MaxLoads + 1, text |-> body]]
        /\ revs = [r \in Revs |-> IF r = First
                     THEN [body |-> body, parent |-> None, at |-> 0] ELSE None]
  BY DEF Init
<1>3. /\ rows = {} /\ flying = {} /\ doc = [d \in Docs |-> None] /\ registry = 0 /\ load = None
      /\ docBase = Unset /\ docEpoch = Unset /\ tombstone = FALSE /\ drains = {}
      /\ inflight = FALSE /\ faults = 0 /\ loc = [p \in Procs |-> NoLoc]
  BY DEF Init
<1>4. body \in Text /\ MaxLoads + 1 \in Nat /\ First \in Revs
  BY ConstantsAssumption, Names DEF ConstantsAssumption, Text
<1>5. page \in PageType
  <2>1. [base |-> IF body = {} THEN 0 ELSE MaxLoads + 1, text |-> body] \in Snapshot
    BY <1>4 DEF Snapshot
  <2> QED
    BY <1>2, <1>4, <2>1 DEF PageType
<1>6. [body |-> body, parent |-> None, at |-> 0] \in RevType
  BY <1>4 DEF RevType
<1>7. revs \in [Revs -> RevType \cup {None}] /\ revs[page.rev] # None
  BY <1>2, <1>4, <1>6, NoneAssumption
<1>8. conn \in [Users -> ConnType] /\ \A u \in Users : conn[u].at # "on"
  BY <1>1, ConstantsAssumption DEF ConnType, NoConn, ConstantsAssumption
<1>9. Loaded = {} /\ Running = {}
  BY <1>1, <1>3 DEF Loaded, Running, Procs
<1>10. DataTyped
  <2>1. doc \in [Docs -> DocType \cup {None}] /\ rows \cup flying \subseteq RowType
    BY <1>3
  <2>2. registry \in 0 .. MaxLoads /\ faults \in 0 .. MaxFaults
    BY <1>3, ConstantsAssumption DEF ConstantsAssumption
  <2> QED
    BY <1>1, <1>3, <1>5, <1>7, <1>8, <2>1, <2>2 DEF DataTyped
<1>11. ProcTyped
  BY <1>1, <1>3, NoLocTyped DEF ProcTyped, Labels
<1>12. Pointed /\ OneRun
  <2>1. {r \in Revs : revs[r] # None} = {First}
    BY <1>2, <1>4, <1>7
  <2> QED
    BY <1>3, <1>7, <1>9, <2>1, FS_Singleton DEF Pointed, OneRun
<1>13. Engaged
  BY <1>3, <1>8, <1>9 DEF Engaged
<1>14. Numbered
  <2>1. 0 \in 0 .. MaxLoads /\ 1 .. 0 = {}
    BY ConstantsAssumption DEF ConstantsAssumption
  <2> QED
    BY <1>3, <1>9, <2>1 DEF Numbered
<1>15. ASSUME NEW p \in Procs PROVE Anchored(p)
  BY <1>1, <1>3 DEF Anchored, Quiet, NoLoc
<1> QED
  BY <1>10, <1>11, <1>12, <1>13, <1>14, <1>15 DEF TInv

\* What lasts in every step but a crash.
Lasts ==
    /\ Loaded \subseteq Loaded' /\ (docEpoch # Unset => docEpoch' # Unset)
    /\ \A r \in Revs : revs[r] # None => revs'[r] # None
    /\ \A e \in Nat : Known(e) => Known(e)'

LEMMA LastsIf ==
    ASSUME UNCHANGED <<doc, load>>, docEpoch # Unset => docEpoch' # Unset,
           \A r \in Revs : revs[r] # None => revs'[r] # None
    PROVE  Lasts /\ Loaded' = Loaded
  BY DEF Lasts, Loaded, Known

LEMMA AnchoredKept ==
    ASSUME Lasts, NEW p \in Procs, Anchored(p), pc'[p] = pc[p], loc'[p] = loc[p], loc[p] \in LocType
    PROVE  Anchored(p)'
<1>1. loc[p].epoch # Unset /\ Known(loc[p].epoch) => Known(loc[p].epoch)'
  BY DEF Lasts, LocType
<1>2. p \in Saves => p \in Revs
  BY Names
<1> QED
  BY <1>1, <1>2 DEF Anchored, Lasts

\* A step that moves no request and no run.
LEMMA NoMove ==
    ASSUME TInv, Lasts, UNCHANGED <<pc, loc, inflight>>, DataTyped', Pointed', Engaged', Numbered'
    PROVE  TInv'
<1>1. ASSUME NEW p \in Procs PROVE Anchored(p)'
  BY AnchoredKept DEF TInv, ProcTyped
<1>2. ProcTyped' /\ OneRun'
  BY DEF TInv, ProcTyped, OneRun, Running
<1> QED
  BY <1>1, <1>2 DEF TInv

\* Connections come and go; nothing else changes.
LEMMA ConnKeeps ==
    ASSUME TInv, NEW u \in Users, NEW c \in ConnType, conn' = [conn EXCEPT ![u] = c],
           c.at = "on" => c.doc \in Loaded /\ docEpoch # Unset,
           UNCHANGED <<database, flying, doc, registry, load, typed, maps, drains, inflight, pc, loc, faults>>
    PROVE  TInv'
<1>1. Lasts /\ Loaded' = Loaded
  BY LastsIf DEF maps, database
<1>2. DataTyped' /\ Pointed'
  BY DEF TInv, DataTyped, Pointed, database, maps
<1>3. \A v \in Users : conn'[v] = (IF v = u THEN c ELSE conn[v])
  BY DEF TInv, DataTyped
<1>4. Engaged'
  BY <1>1, <1>3 DEF TInv, Engaged, maps, Lasts, DataTyped
<1>5. Numbered'
  BY <1>1 DEF TInv, Numbered
<1> QED
  BY <1>1, <1>2, <1>4, <1>5, NoMove

LEMMA TabsKeep ==
    ASSUME TInv, NEW u \in Users, Authenticate(u) \/ Attach(u) \/ Leave(u)
    PROVE  TInv'
<1>1. conn[u] \in ConnType /\ page.epoch \in Nat /\ NoConn \in ConnType
  BY ConstantsAssumption DEF ConstantsAssumption, TInv, DataTyped, PageType, ConnType, NoConn
<1>2. CASE Authenticate(u)
  <2> DEFINE c == [conn[u] EXCEPT !.at = "authed", !.epoch = page.epoch]
  <2>1. c \in ConnType /\ c.at # "on" /\ conn' = [conn EXCEPT ![u] = c]
    BY <1>1, <1>2 DEF Authenticate, ConnType
  <2> HIDE DEF c
  <2> QED
    BY <1>2, <2>1, ConnKeeps DEF Authenticate
<1>3. CASE Attach(u)
  <2>1. CASE registry # 0 /\ conn' = [conn EXCEPT ![u] = [conn[u] EXCEPT !.at = "on", !.doc = registry]]
    <3> DEFINE c == [conn[u] EXCEPT !.at = "on", !.doc = registry]
    <3>1. c \in ConnType /\ c.doc = registry
      BY <1>1 DEF ConnType, TInv, DataTyped
    <3>2. registry \in Loaded /\ docEpoch # Unset
      BY <2>1 DEF TInv, Engaged
    <3>3. conn' = [conn EXCEPT ![u] = c]
      BY <2>1
    <3> HIDE DEF c
    <3> QED
      BY <1>3, <3>1, <3>2, <3>3, ConnKeeps DEF Attach
  <2>2. CASE conn' = [conn EXCEPT ![u].at = "wait"]
    <3> DEFINE c == [conn[u] EXCEPT !.at = "wait"]
    <3>1. c \in ConnType /\ c.at # "on" /\ conn' = [conn EXCEPT ![u] = c]
      BY <1>1, <2>2 DEF ConnType
    <3> HIDE DEF c
    <3> QED
      BY <1>3, <3>1, ConnKeeps DEF Attach
  <2> QED
    BY <1>3, <2>1, <2>2 DEF Attach
<1>4. CASE Leave(u)
  <2>1. conn' = [conn EXCEPT ![u] = NoConn] /\ NoConn.at # "on"
    BY <1>4 DEF Leave, NoConn
  <2> QED
    BY <1>1, <1>4, <2>1, ConnKeeps DEF Leave
<1> QED
  BY <1>2, <1>3, <1>4

\* A load records the epoch it has read.
LEMMA LoadReadKeeps ==
    ASSUME TInv, NEW u \in Users, LoadRead(u)
    PROVE  TInv'
<1>1. /\ load = None /\ load' = page /\ docEpoch' = page.epoch
      /\ docBase' = IF tombstone THEN docBase ELSE page.rev
      /\ conn' = [conn EXCEPT ![u] = [conn[u] EXCEPT !.at = "wait"]]
      /\ UNCHANGED <<page, revs, rows, flying, doc, registry, typed, tombstone, drains, inflight, pc, loc, faults>>
      /\ Cardinality(Loaded) < MaxLoads
  BY DEF LoadRead, database
<1>2. page \in PageType /\ page # None /\ page.epoch \in Nat /\ page.rev \in Revs
  BY NoneAssumption DEF TInv, DataTyped, PageType
<1>3. docEpoch' # Unset /\ Loaded' = Loaded
  BY <1>1, <1>2, ConstantsAssumption DEF ConstantsAssumption, Loaded
<1>4. Known(docEpoch)'
  BY <1>1, <1>2 DEF Known
<1>5. Lasts
  BY <1>1, <1>3 DEF Lasts, Known, Loaded
<1>6. [conn[u] EXCEPT !.at = "wait"] \in ConnType
  BY DEF TInv, DataTyped, ConnType
<1>7. \A v \in Users : conn'[v] = (IF v = u THEN [conn[u] EXCEPT !.at = "wait"] ELSE conn[v])
  BY <1>1 DEF TInv, DataTyped
<1>8. DataTyped'
  BY <1>1, <1>2, <1>6 DEF TInv, DataTyped
<1>9. Pointed'
  BY <1>1 DEF TInv, Pointed
<1>10. Engaged'
  <2>1. \A v \in Users : conn'[v].at = "on" => conn'[v] = conn[v]
    BY <1>7 DEF TInv, DataTyped, ConnType
  <2> QED
    BY <1>1, <1>3, <1>4, <2>1 DEF TInv, Engaged
<1>11. Numbered'
  <2>1. PICK k \in 0 .. MaxLoads : Loaded = 1 .. k
    BY DEF TInv, Numbered
  <2>2. Cardinality(Loaded) = k
    BY <2>1, FS_Interval, ConstantsAssumption DEF ConstantsAssumption
  <2> QED
    BY <1>1, <1>3, <2>1, <2>2 DEF Numbered
<1> QED
  BY <1>1, <1>5, <1>8, <1>9, <1>10, <1>11, NoMove

\* What the rows add to a text are marks.
LEMMA Applied ==
    ASSUME NEW rs \in SUBSET RowType
    PROVE  /\ \A state \in Snapshot : Apply(state, rs) \in Snapshot /\ Apply(state, rs).base = state.base
           /\ \A state \in DocType : /\ Apply(state, rs) \in DocType
                                     /\ Apply(state, rs).epoch = state.epoch
                                     /\ Apply(state, rs).dirty = state.dirty
<1>1. ASSUME NEW b PROVE {r.mark : r \in {r \in rs : r.base \in {0, b}}} \subseteq Marks
  BY DEF RowType
<1>2. ASSUME NEW t \in Text, NEW ms \in SUBSET Marks PROVE t \cup ms \in Text
  BY DEF Text
<1>3. ASSUME NEW state \in Snapshot
      PROVE  Apply(state, rs) \in Snapshot /\ Apply(state, rs).base = state.base
  <2> DEFINE ms == {r.mark : r \in {r \in rs : r.base \in {0, state.base}}}
  <2>1. Apply(state, rs) = [state EXCEPT !.text = state.text \cup ms] /\ state.text \in Text
    BY DEF Apply, Snapshot
  <2>2. state.text \cup ms \in Text
    BY <1>1, <1>2, <2>1
  <2> HIDE DEF ms
  <2> QED
    BY <2>1, <2>2 DEF Snapshot
<1>4. ASSUME NEW state \in DocType
      PROVE  /\ Apply(state, rs) \in DocType
             /\ Apply(state, rs).epoch = state.epoch /\ Apply(state, rs).dirty = state.dirty
  <2> DEFINE ms == {r.mark : r \in {r \in rs : r.base \in {0, state.base}}}
  <2>1. Apply(state, rs) = [state EXCEPT !.text = state.text \cup ms] /\ state.text \in Text
    BY DEF Apply, DocType
  <2>2. state.text \cup ms \in Text
    BY <1>1, <1>2, <2>1
  <2> HIDE DEF ms
  <2> QED
    BY <2>1, <2>2 DEF DocType
<1> QED
  BY <1>3, <1>4

\* The document of a load gets the next number, and the epoch that was read.
LEMMA LoadReplayKeeps ==
    ASSUME TInv, LoadReplay
    PROVE  TInv'
<1> DEFINE d == Cardinality(Loaded) + 1
           rs == rows \ Swept(load)
           state == Apply(Seeded(load, d), rs)
           new == [base |-> state.base, text |-> state.text, epoch |-> load.epoch, dirty |-> FALSE]
<1>1. /\ load # None /\ load' = None /\ doc' = [doc EXCEPT ![d] = new] /\ registry' = d
      /\ conn' = [u \in Users |-> IF conn[u].at = "wait"
                    THEN [conn[u] EXCEPT !.at = "on", !.doc = d] ELSE conn[u]]
      /\ rows' = rs
      /\ UNCHANGED <<page, revs, flying, typed, maps, drains, inflight, pc, loc, faults>>
  BY DEF LoadReplay
<1>2. PICK k \in 0 .. MaxLoads : Loaded = 1 .. k /\ k < MaxLoads
  BY <1>1 DEF TInv, Numbered
<1>3. d = k + 1 /\ d \in Docs /\ doc[d] = None /\ d \in 0 .. MaxLoads /\ d \in Nat
  <2>1. Cardinality(Loaded) = k
    BY <1>2, FS_Interval, ConstantsAssumption DEF ConstantsAssumption
  <2> QED
    BY <1>2, <2>1, ConstantsAssumption DEF ConstantsAssumption, Docs, Loaded
<1>4. load \in PageType /\ revs[load.rev] \in RevType /\ load.epoch \in Nat /\ docEpoch # Unset
  BY <1>1 DEF TInv, DataTyped, Pointed, Engaged, PageType
<1> HIDE DEF d
<1>5. Seeded(load, d) \in Snapshot
  <2>1. CASE Restores(load)
    BY <1>4, <2>1 DEF Restores, Seeded, PageType
  <2>2. CASE ~Restores(load)
    BY <1>3, <1>4, <2>2 DEF Seeded, Snapshot, RevType
  <2> QED
    BY <2>1, <2>2
<1>6. rs \in SUBSET RowType
  BY DEF TInv, DataTyped
<1>7. state \in Snapshot
  BY <1>5, <1>6, Applied
<1> HIDE DEF state, rs
<1>8. new \in DocType /\ new # None /\ new.epoch = load.epoch /\ ~new.dirty
  <2>1. state.base \in Nat /\ state.text \in Text
    BY <1>7 DEF Snapshot
  <2>2. new \in DocType
    BY <1>4, <2>1 DEF DocType
  <2> QED
    BY <2>2, NoneAssumption
<1> HIDE DEF new
<1>9. /\ doc' \in [Docs -> DocType \cup {None}] /\ doc'[d] = new
      /\ \A c \in Docs \ {d} : doc'[c] = doc[c]
  BY <1>1, <1>3, <1>8 DEF TInv, DataTyped
<1>10. Loaded' = Loaded \cup {d} /\ d \notin Loaded
  BY <1>3, <1>8, <1>9 DEF Loaded
<1>11. Lasts
  <2>1. ASSUME NEW e \in Nat, Known(e) PROVE Known(e)'
    <3>1. CASE \E c \in Loaded : doc[c].epoch = e
      BY <1>9, <1>10, <3>1 DEF Known, Loaded
    <3>2. CASE load.epoch = e
      BY <1>8, <1>9, <1>10, <3>2 DEF Known
    <3> QED
      BY <2>1, <3>1, <3>2 DEF Known
  <2> QED
    BY <1>1, <1>10, <2>1 DEF Lasts, maps
<1>12. conn' \in [Users -> ConnType]
  <2>1. \A u \in Users : [conn[u] EXCEPT !.at = "on", !.doc = d] \in ConnType
    <3>1. \A c \in ConnType : [c EXCEPT !.at = "on", !.doc = d] \in ConnType
      BY <1>3 DEF ConnType
    <3> QED
      BY <3>1 DEF TInv, DataTyped
  <2> QED
    BY <1>1, <2>1 DEF TInv, DataTyped
<1>13. DataTyped'
  BY <1>1, <1>3, <1>6, <1>9, <1>12 DEF TInv, DataTyped, maps
<1>14. Pointed'
  BY <1>1 DEF TInv, Pointed
<1>15. Engaged'
  <2>1. ASSUME NEW u \in Users, conn'[u].at = "on" PROVE conn'[u].doc \in Loaded'
    <3>1. CASE conn[u].at = "wait"
      <4>1. conn'[u] = [conn[u] EXCEPT !.at = "on", !.doc = d] /\ conn[u] \in ConnType
        BY <1>1, <3>1 DEF TInv, DataTyped
      <4> QED
        BY <1>10, <4>1 DEF ConnType
    <3>2. CASE conn[u].at # "wait"
      BY <1>1, <1>10, <2>1, <3>2 DEF TInv, Engaged
    <3> QED
      BY <3>1, <3>2
  <2>2. docEpoch' = docEpoch /\ docEpoch \in Nat
    BY <1>1, <1>4 DEF maps, TInv, DataTyped
  <2>3. Known(docEpoch)'
    BY <1>4, <1>11, <2>2 DEF TInv, Engaged, Lasts
  <2> QED
    BY <1>1, <1>4, <1>10, <2>1, <2>2, <2>3 DEF Engaged
<1>16. Numbered'
  <2>1. k + 1 \in 0 .. MaxLoads /\ Loaded' = 1 .. (k + 1)
    BY <1>2, <1>3, <1>10, ConstantsAssumption DEF ConstantsAssumption
  <2> QED
    BY <1>1, <2>1 DEF Numbered
<1> QED
  BY <1>1, <1>11, <1>13, <1>14, <1>15, <1>16, NoMove

\* A document takes in text; its epoch stays.
LEMMA DocTakes ==
    ASSUME TInv, NEW d \in Loaded, NEW new \in DocType, new.epoch = doc[d].epoch,
           doc' = [doc EXCEPT ![d] = new], UNCHANGED load
    PROVE  /\ doc' \in [Docs -> DocType \cup {None}] /\ Loaded' = Loaded
           /\ doc'[d] = new /\ \A c \in Docs \ {d} : doc'[c] = doc[c]
           /\ \A e : Known(e) => Known(e)'
<1>1. d \in Docs
  BY DEF Loaded
<1>2. doc' \in [Docs -> DocType \cup {None}] /\ doc'[d] = new /\ \A c \in Docs \ {d} : doc'[c] = doc[c]
  BY <1>1 DEF TInv, DataTyped
<1>3. Loaded' = Loaded
  BY <1>1, <1>2, NoneAssumption DEF Loaded
<1>4. ASSUME NEW e, Known(e) PROVE Known(e)'
  BY <1>2, <1>3, <1>4 DEF Known, Loaded
<1> QED
  BY <1>2, <1>3, <1>4

LEMMA TypeKeeps ==
    ASSUME TInv, NEW u \in Users, NEW m \in Marks, Type(u, m)
    PROVE  TInv'
<1> DEFINE d == conn[u].doc
           new == [doc[d] EXCEPT !.text = @ \cup {m}, !.dirty = TRUE]
           r == [mark |-> m, base |-> doc[d].base, epoch |-> docEpoch, at |-> Clock]
<1>1. /\ conn[u].at = "on" /\ typed' = typed \cup {m}
      /\ doc' = [doc EXCEPT ![d].text = @ \cup {m}, ![d].dirty = TRUE]
      /\ flying' = IF conn[u].epoch = docEpoch THEN flying \cup {r} ELSE flying
      /\ UNCHANGED <<database, registry, load, conn, maps, drains, inflight, pc, loc, faults>>
  BY DEF Type
<1>2. d \in Loaded /\ docEpoch # Unset /\ d \in Docs /\ doc[d] \in DocType
  BY <1>1 DEF TInv, Engaged, Loaded, DataTyped
<1>3. new \in DocType /\ new.epoch = doc[d].epoch
  BY <1>2 DEF DocType, Text
<1>4. doc' = [doc EXCEPT ![d] = new]
  BY <1>1, <1>2 DEF TInv, DataTyped
<1>5. Clock \in Nat
  BY FS_CardinalityType DEF Clock, TInv, Pointed
<1>6. r \in RowType
  BY <1>2, <1>5 DEF RowType, DocType, TInv, DataTyped
<1> HIDE DEF new, d, r
<1>7. /\ doc' \in [Docs -> DocType \cup {None}] /\ Loaded' = Loaded
      /\ doc'[d] = new /\ \A c \in Docs \ {d} : doc'[c] = doc[c]
      /\ \A e : Known(e) => Known(e)'
  BY <1>1, <1>2, <1>3, <1>4, DocTakes
<1>8. Lasts
  BY <1>1, <1>7 DEF Lasts, maps, database
<1>9. DataTyped'
  BY <1>1, <1>6, <1>7 DEF TInv, DataTyped, maps, database
<1>10. Pointed'
  BY <1>1 DEF TInv, Pointed, database
<1>11. Engaged'
  BY <1>1, <1>2, <1>7 DEF TInv, Engaged, maps
<1>12. Numbered'
  BY <1>1, <1>7 DEF TInv, Numbered
<1> QED
  BY <1>1, <1>8, <1>9, <1>10, <1>11, <1>12, NoMove

\* A step that loads nothing and forgets no epoch.
LEMMA EngagedKept ==
    ASSUME TInv, UNCHANGED <<doc, load, docEpoch>>, registry' \in {registry, 0},
           \A u \in Users : conn'[u].at = "on" => conn'[u] = conn[u]
    PROVE  Engaged' /\ Numbered'
<1>1. Loaded' = Loaded /\ \A e : Known(e) => Known(e)'
  BY DEF Loaded, Known
<1> QED
  BY <1>1 DEF TInv, Engaged, Numbered

LEMMA EngineTyped ==
    ASSUME TInv, \/ \E r \in flying : AppendRow(r)
                 \/ \E d \in Docs : Unload(d) \/ Drain(d)
    PROVE  TInv'
<1>1. CASE \E r \in flying : AppendRow(r)
  <2>1. UNCHANGED <<page, revs, engine, maps, inflight, pc, loc, faults>>
        /\ rows' \cup flying' \subseteq rows \cup flying
    BY <1>1 DEF AppendRow
  <2>2. DataTyped' /\ Pointed'
    BY <2>1 DEF TInv, DataTyped, Pointed, engine, maps
  <2> QED
    BY <2>1, <2>2, LastsIf, EngagedKept, NoMove DEF engine, maps
<1>2. ASSUME NEW d \in Docs, Unload(d) PROVE TInv'
  <2>1. UNCHANGED <<database, flying, doc, load, conn, typed, maps, drains, inflight, pc, loc, faults>>
        /\ registry' = 0
    BY <1>2 DEF Unload
  <2>2. DataTyped' /\ Pointed'
    BY <2>1, ConstantsAssumption DEF TInv, DataTyped, Pointed, database, maps, ConstantsAssumption
  <2> QED
    BY <2>1, <2>2, LastsIf, EngagedKept, NoMove DEF database, maps
<1>3. ASSUME NEW d \in Docs, Drain(d) PROVE TInv'
  <2>1. /\ UNCHANGED <<database, flying, doc, registry, load, typed, docBase, docEpoch, inflight,
                       pc, loc, faults>>
        /\ tombstone' = FALSE /\ drains' = drains \ {d}
        /\ conn' = [u \in Users |-> IF conn[u].at = "on" /\ conn[u].doc = d THEN NoConn ELSE conn[u]]
    BY <1>3 DEF Drain
  <2>2. NoConn \in ConnType /\ NoConn.at # "on"
    BY ConstantsAssumption DEF ConstantsAssumption, NoConn, ConnType
  <2>3. conn' \in [Users -> ConnType] /\ \A u \in Users : conn'[u].at = "on" => conn'[u] = conn[u]
    BY <2>1, <2>2 DEF TInv, DataTyped
  <2>4. DataTyped' /\ Pointed'
    BY <2>1, <2>3 DEF TInv, DataTyped, Pointed, database
  <2> QED
    BY <2>1, <2>3, <2>4, LastsIf, EngagedKept, NoMove DEF database
<1> QED
  BY <1>1, <1>2, <1>3

-----------------------------------------------------------------------------
(* How requests and runs move, typed. *)

LEMMA Lands ==
    ASSUME TInv, NEW p \in Procs, NEW l \in Labels, NEW x \in LocType, Move(p, l, x)
    PROVE  /\ ProcTyped' /\ pc'[p] = l /\ loc'[p] = x
           /\ \A q \in Procs \ {p} : pc'[q] = pc[q] /\ loc'[q] = loc[q]
  BY DEF TInv, ProcTyped, Move

LEMMA GotoMoves ==
    ASSUME TInv, NEW p \in Procs, NEW l, Goto(p, l)
    PROVE  Move(p, l, loc[p]) /\ loc[p] \in LocType
  BY DEF TInv, ProcTyped, Goto, Move

Runs == {"rows", "base", "seal", "write", "drop"}

\* The mutex is held by the one run that is between its first read and its last write.
LEMMA RunMoves ==
    ASSUME TInv, NEW p \in Procs, NEW l \in Labels, NEW x \in LocType, Move(p, l, x)
    PROVE  /\ p \notin Merges /\ inflight' = inflight => OneRun'
           /\ pc[p] \in Runs /\ l \in Runs /\ inflight' = inflight => OneRun'
           /\ pc[p] \notin Runs /\ l \notin Runs /\ inflight' = inflight => OneRun'
           /\ p \in Merges /\ pc[p] \in Runs /\ l \notin Runs /\ inflight' = FALSE => OneRun'
           /\ p \in Merges /\ ~inflight /\ l \in Runs /\ inflight' = TRUE => OneRun'
<1>1. pc'[p] = l /\ \A q \in Procs \ {p} : pc'[q] = pc[q]
  BY Lands
<1>2. Merges \subseteq Procs
  BY Names
<1>3. /\ Running = {c \in Merges : pc[c] \in Runs} /\ Running' = {c \in Merges : pc'[c] \in Runs}
  BY DEF Running, Runs
<1>4. (inflight <=> Running # {}) /\ \A c, b \in Running : c = b
  BY DEF TInv, OneRun
<1>5. CASE p \notin Merges
  <2>1. Running' = Running
    BY <1>1, <1>2, <1>3, <1>5
  <2> QED
    BY <1>4, <1>5, <2>1 DEF OneRun
<1>6. CASE p \in Merges /\ (pc[p] \in Runs <=> l \in Runs) /\ inflight' = inflight
  <2>1. Running' = Running
    BY <1>1, <1>2, <1>3, <1>6
  <2> QED
    BY <1>4, <1>6, <2>1 DEF OneRun
<1>7. CASE p \in Merges /\ pc[p] \in Runs /\ l \notin Runs /\ inflight' = FALSE
  <2>1. Running' = {}
    BY <1>1, <1>2, <1>3, <1>4, <1>7
  <2> QED
    BY <1>7, <2>1 DEF OneRun
<1>8. CASE p \in Merges /\ ~inflight /\ l \in Runs /\ inflight' = TRUE
  <2>1. Running' = {p}
    BY <1>1, <1>2, <1>3, <1>4, <1>8
  <2> QED
    BY <1>8, <2>1 DEF OneRun
<1> QED
  BY <1>5, <1>6, <1>7, <1>8

\* A step of a request or a run that leaves documents, loads and connections alone.
LEMMA StepKeeps ==
    ASSUME TInv, NEW p \in Procs, NEW l \in Labels, NEW x \in LocType, Move(p, l, x),
           UNCHANGED <<doc, load, conn, typed, docEpoch>>, registry' \in {registry, 0},
           page' \in PageType, revs' \in [Revs -> RevType \cup {None}],
           rows' \cup flying' \subseteq RowType, docBase' \in Revs \cup {Unset, Sentinel},
           tombstone' \in BOOLEAN, drains' \subseteq Docs, inflight' \in BOOLEAN,
           faults' \in 0 .. MaxFaults, Pointed',
           \A r \in Revs : revs[r] # None => revs'[r] # None, OneRun', Anchored(p)'
    PROVE  TInv'
<1>1. ProcTyped' /\ \A q \in Procs \ {p} : pc'[q] = pc[q] /\ loc'[q] = loc[q]
  BY Lands
<1>2. Lasts
  BY LastsIf
<1>3. ASSUME NEW q \in Procs PROVE Anchored(q)'
  <2>1. CASE q = p
    BY <2>1
  <2>2. CASE q # p
    BY <1>1, <1>2, <2>2, AnchoredKept DEF TInv, ProcTyped
  <2> QED
    BY <2>1, <2>2
<1>4. DataTyped'
  <2>1. registry' \in 0 .. MaxLoads
    BY ConstantsAssumption DEF ConstantsAssumption, TInv, DataTyped
  <2> QED
    BY <2>1 DEF TInv, DataTyped
<1>5. Engaged' /\ Numbered'
  BY EngagedKept
<1> QED
  BY <1>1, <1>3, <1>4, <1>5 DEF TInv

\* One that, besides, writes neither Page nor Revisions.
LEMMA ReadKeeps ==
    ASSUME TInv, NEW p \in Procs, NEW l \in Labels, NEW x \in LocType, Move(p, l, x),
           UNCHANGED <<page, revs, flying, doc, load, conn, typed, registry, docEpoch, tombstone,
                       drains, faults>>,
           rows' \subseteq RowType, docBase' \in Revs \cup {Unset, Sentinel},
           inflight' \in BOOLEAN, OneRun', Anchored(p)'
    PROVE  TInv'
<1>1. Pointed'
  BY DEF TInv, Pointed
<1> QED
  BY <1>1, StepKeeps DEF TInv, DataTyped

-----------------------------------------------------------------------------
(* The steps of a save, typed. *)

LEMMA SaveReads ==
    ASSUME TInv, NEW s \in Saves,
           ReadPage(s) \/ AdvanceBase(s) \/ Probe(s) \/ SealSave(s) \/ DropRows(s)
             \/ \E u \in Users : StartSave(s, u)
    PROVE  TInv'
<1>1. /\ s \in Procs /\ s \notin Merges /\ s \in Revs /\ loc[s] \in LocType /\ page \in PageType
      /\ page.rev \in Revs /\ Anchored(s) /\ inflight \in BOOLEAN
      /\ docBase \in Revs \cup {Unset, Sentinel} /\ rows \subseteq RowType
  BY Names DEF TInv, ProcTyped, DataTyped, PageType
<1>2. /\ UNCHANGED <<page, revs, flying, doc, load, conn, typed, registry, docEpoch, tombstone,
                     drains, faults, inflight>>
      /\ rows' \subseteq RowType
      /\ docBase' \in Revs \cup {Unset, Sentinel}
  BY <1>1 DEF ReadPage, AdvanceBase, Probe, SealSave, DropRows, StartSave, engine, maps, database
<1> SUFFICES \E l \in Labels : \E x \in LocType : Move(s, l, x) /\ Anchored(s)'
  BY <1>1, <1>2, RunMoves, ReadKeeps
<1>3. CASE ReadPage(s)
  <2> DEFINE x == [loc[s] EXCEPT !.seen = page.rev]
  <2>1. Move(s, "check", x) /\ x \in LocType /\ x.doc = loc[s].doc /\ "check" \in Labels
        /\ pc[s] = "read"
    BY <1>1, <1>3 DEF ReadPage, LocType, Labels
  <2> HIDE DEF x
  <2>2. pc'[s] = "check" /\ loc'[s] = x
    BY <1>1, <2>1, Lands
  <2>3. Anchored(s)'
    BY <1>1, <1>2, <2>1, <2>2 DEF Anchored, Quiet, Loaded
  <2> QED
    BY <2>1, <2>3
<1>4. CASE AdvanceBase(s)
  <2>1. Move(s, "seal", loc[s]) /\ pc[s] = "won" /\ "seal" \in Labels
    BY <1>1, <1>4, GotoMoves DEF AdvanceBase, Labels
  <2>2. pc'[s] = "seal" /\ loc'[s] = loc[s]
    BY <1>1, <2>1, Lands
  <2>3. Anchored(s)'
    BY <1>1, <1>2, <2>1, <2>2 DEF Anchored, Quiet, Loaded, Known
  <2> QED
    BY <1>1, <2>1, <2>3
<1>5. CASE Probe(s)
  <2>1. PICK l \in {"done", "failed"}, i \in Revs \cup {None} : Move(s, l, [NoLoc EXCEPT !.into = i])
    <3>1. NoLoc = [NoLoc EXCEPT !.into = None]
      BY DEF NoLoc
    <3> QED
      BY <1>1, <1>5, <3>1 DEF Probe
  <2> DEFINE x == [NoLoc EXCEPT !.into = i]
  <2>2. x \in LocType /\ x.doc = 0 /\ l \in Labels
    BY NoLocTyped DEF LocType, Labels, NoLoc
  <2> HIDE DEF x
  <2>3. pc'[s] = l /\ loc'[s] = x
    BY <1>1, <2>1, <2>2, Lands DEF x
  <2>4. Anchored(s)'
    BY <2>2, <2>3 DEF Anchored, Quiet
  <2> QED
    BY <2>1, <2>2, <2>4 DEF x
<1>6. CASE SealSave(s)
  <2>1. loc[s].doc \in Loaded /\ pc[s] = "seal"
    BY <1>1, <1>6 DEF SealSave, Anchored, Quiet
  <2>2. doc[loc[s].doc] \in DocType
    BY <2>1 DEF TInv, DataTyped, Loaded
  <2>3. Encoded(s) \in Snapshot
    BY <2>2 DEF Encoded, Snapshot, DocType
  <2> DEFINE x == [loc[s] EXCEPT !.seen = page.rev, !.enc = Encoded(s)]
  <2>4. Move(s, "write", x) /\ x \in LocType /\ x.doc = loc[s].doc /\ x.epoch = loc[s].epoch
        /\ "write" \in Labels
    BY <1>1, <1>6, <2>3 DEF SealSave, LocType, Labels
  <2> HIDE DEF x
  <2>5. pc'[s] = "write" /\ loc'[s] = x
    BY <1>1, <2>4, Lands
  <2>6. Anchored(s)'
    BY <1>1, <1>2, <2>1, <2>4, <2>5 DEF Anchored, Quiet, Loaded, Known
  <2> QED
    BY <2>4, <2>6
<1>7. CASE DropRows(s)
  <2> DEFINE x == [NoLoc EXCEPT !.into = s]
  <2>1. Move(s, "done", x) /\ x \in LocType /\ x.doc = 0 /\ "done" \in Labels
    BY <1>1, <1>7, NoLocTyped DEF DropRows, LocType, Labels, NoLoc
  <2> HIDE DEF x
  <2>2. pc'[s] = "done" /\ loc'[s] = x
    BY <1>1, <2>1, Lands
  <2>3. Anchored(s)'
    BY <2>1, <2>2 DEF Anchored, Quiet
  <2> QED
    BY <2>1, <2>3
<1>8. CASE \E u \in Users : StartSave(s, u)
  <2>1. PICK u \in Users : StartSave(s, u)
    BY <1>8
  <2>2. conn[u].doc \in Loaded /\ docEpoch # Unset /\ doc[conn[u].doc] \in DocType
        /\ conn[u].doc \in 0 .. MaxLoads
    BY <2>1 DEF StartSave, TInv, Engaged, Loaded, DataTyped, ConnType
  <2>3. doc[conn[u].doc].text \in Text /\ conn[u].doc # 0
    BY <2>2 DEF DocType, Loaded, Docs
  <2> DEFINE x == [NoLoc EXCEPT !.doc = conn[u].doc, !.body = doc[conn[u].doc].text]
  <2>4. Move(s, "read", x) /\ x \in LocType /\ x.doc = conn[u].doc /\ "read" \in Labels
    BY <2>1, <2>2, <2>3, NoLocTyped DEF StartSave, LocType, Labels, NoLoc
  <2> HIDE DEF x
  <2>5. pc'[s] = "read" /\ loc'[s] = x
    BY <1>1, <2>4, Lands
  <2>6. Anchored(s)'
    BY <1>2, <2>2, <2>3, <2>4, <2>5 DEF Anchored, Quiet, Loaded
  <2> QED
    BY <2>4, <2>6
<1> QED
  BY <1>3, <1>4, <1>5, <1>6, <1>7, <1>8

LEMMA CheckBaseTyped ==
    ASSUME TInv, NEW s \in Saves, CheckBase(s)
    PROVE  TInv'
<1>1. /\ s \in Procs /\ s \notin Merges /\ s \in Revs /\ loc[s] \in LocType /\ Anchored(s)
      /\ inflight \in BOOLEAN /\ pc[s] = "check" /\ rows \subseteq RowType
      /\ docBase \in Revs \cup {Unset, Sentinel}
      /\ UNCHANGED <<page, rows, flying, doc, load, conn, typed, registry, docEpoch, docBase,
                     tombstone, drains, faults, inflight>>
  BY Names DEF CheckBase, TInv, ProcTyped, DataTyped, engine, maps
<1>2. CASE UNCHANGED revs /\ Move(s, "failed", NoLoc)
  <2>1. "failed" \in Labels
    BY DEF Labels
  <2>2. pc'[s] = "failed" /\ loc'[s] = NoLoc
    BY <1>1, <1>2, <2>1, NoLocTyped, Lands
  <2>3. Anchored(s)'
    BY <2>2 DEF Anchored, Quiet, NoLoc
  <2> QED
    BY <1>1, <1>2, <2>1, <2>3, NoLocTyped, RunMoves, ReadKeeps
<1>3. ASSUME revs' = [revs EXCEPT ![s] = [body |-> loc[s].body, parent |-> loc[s].seen,
                                        at |-> Clock + 1]],
             Goto(s, "cas")
      PROVE  TInv'
  <2> DEFINE r == [body |-> loc[s].body, parent |-> loc[s].seen, at |-> Clock + 1]
  <2>1. Clock \in Nat
    BY FS_CardinalityType DEF Clock, TInv, Pointed
  <2>2. r \in RevType /\ r # None
    <3>1. r \in RevType
      BY <1>1, <2>1 DEF RevType, LocType
    <3> QED
      BY <3>1, NoneAssumption
  <2>3. revs' = [revs EXCEPT ![s] = r]
    BY <1>3
  <2> HIDE DEF r
  <2>4. /\ revs' \in [Revs -> RevType \cup {None}] /\ revs'[s] # None
        /\ \A q \in Revs : revs[q] # None => revs'[q] # None
        /\ {q \in Revs : revs'[q] # None} = {q \in Revs : revs[q] # None} \cup {s}
    BY <1>1, <2>2, <2>3 DEF TInv, DataTyped
  <2>5. Pointed'
    <3>1. IsFiniteSet({q \in Revs : revs'[q] # None})
      BY <2>4, FS_AddElement DEF TInv, Pointed
    <3> QED
      BY <1>1, <2>4, <3>1 DEF TInv, Pointed, DataTyped, PageType
  <2>6. Move(s, "cas", loc[s]) /\ "cas" \in Labels
    BY <1>1, <1>3, GotoMoves DEF Labels
  <2>7. pc'[s] = "cas" /\ loc'[s] = loc[s]
    BY <1>1, <2>6, Lands
  <2>8. Anchored(s)'
    BY <1>1, <2>4, <2>7 DEF Anchored, Quiet, Loaded
  <2>9. OneRun'
    BY <1>1, <2>6, RunMoves
  <2> QED
    BY <1>1, <2>4, <2>5, <2>6, <2>8, <2>9, StepKeeps DEF TInv, DataTyped
<1> QED
  BY <1>2, <1>3 DEF CheckBase

LEMMA MovePointerTyped ==
    ASSUME TInv, NEW s \in Saves, MovePointer(s)
    PROVE  TInv'
<1>1. /\ s \in Procs /\ s \notin Merges /\ s \in Revs /\ loc[s] \in LocType /\ Anchored(s)
      /\ inflight \in BOOLEAN /\ pc[s] = "cas" /\ page \in PageType /\ revs[s] # None
      /\ docEpoch # Unset /\ docEpoch \in Nat /\ Known(docEpoch)
      /\ UNCHANGED <<revs, rows, flying, doc, load, conn, typed, registry, docEpoch, docBase,
                     tombstone, drains, faults, inflight>>
  BY Names DEF MovePointer, TInv, ProcTyped, DataTyped, engine, maps, Anchored, Quiet, Engaged
<1>2. ASSUME page' = [page EXCEPT !.rev = s], Move(s, "won", [loc[s] EXCEPT !.epoch = docEpoch])
      PROVE  TInv'
  <2> DEFINE x == [loc[s] EXCEPT !.epoch = docEpoch]
  <2>1. x \in LocType /\ x.doc = loc[s].doc /\ x.epoch = docEpoch /\ "won" \in Labels
    BY <1>1 DEF LocType, Labels
  <2>2. Move(s, "won", x)
    BY <1>2
  <2> HIDE DEF x
  <2>3. pc'[s] = "won" /\ loc'[s] = x
    BY <1>1, <2>1, <2>2, Lands
  <2>4. page' \in PageType /\ page'.rev = s
    BY <1>1, <1>2 DEF PageType
  <2>5. Pointed'
    BY <1>1, <2>4 DEF TInv, Pointed
  <2>6. Anchored(s)'
    BY <1>1, <2>1, <2>3 DEF Anchored, Quiet, Loaded, Known
  <2>7. OneRun'
    BY <1>1, <2>1, <2>2, RunMoves
  <2> QED
    BY <1>1, <2>1, <2>2, <2>4, <2>5, <2>6, <2>7, StepKeeps DEF TInv, DataTyped
<1>3. ASSUME page' = page, Goto(s, "probe") PROVE TInv'
  <2>1. Move(s, "probe", loc[s]) /\ "probe" \in Labels
    BY <1>1, <1>3, GotoMoves DEF Labels
  <2>2. pc'[s] = "probe" /\ loc'[s] = loc[s]
    BY <1>1, <2>1, Lands
  <2>3. Anchored(s)'
    BY <1>1, <2>2 DEF Anchored, Quiet, Loaded
  <2> QED
    BY <1>1, <1>3, <2>1, <2>3, RunMoves, ReadKeeps DEF TInv, DataTyped
<1> QED
  BY <1>2, <1>3 DEF MovePointer

\* A snapshot that is written was sealed.
LEMMA Persisted ==
    ASSUME TInv, NEW p \in Procs, NEW ok, Persist(p, ok)
    PROVE  page' \in PageType /\ page'.rev = page.rev /\ page'.epoch = page.epoch
<1>1. page \in PageType /\ loc[p].enc \in Snapshot \cup {None}
  BY DEF TInv, DataTyped, ProcTyped, LocType
<1> QED
  BY <1>1 DEF Persist, PageType

\* Both writes may fail, up to the bound.
LEMMA FaultTyped ==
    ASSUME TInv, NEW b \in BOOLEAN,
           NEW ok \in {b} \cup (IF faults < MaxFaults THEN {FALSE} ELSE {}),
           faults' = IF ok = b THEN faults ELSE faults + 1
    PROVE  faults' \in 0 .. MaxFaults
<1>1. faults \in 0 .. MaxFaults /\ MaxFaults \in Nat
  BY ConstantsAssumption DEF ConstantsAssumption, TInv, DataTyped
<1>2. CASE ok = b
  BY <1>1, <1>2
<1>3. CASE ok # b
  <2>1. faults < MaxFaults /\ faults' = faults + 1
    BY <1>3
  <2> QED
    BY <1>1, <2>1
<1> QED
  BY <1>2, <1>3

LEMMA WriteSaveTyped ==
    ASSUME TInv, NEW s \in Saves, WriteSave(s)
    PROVE  TInv'
<1>1. /\ s \in Procs /\ s \notin Merges /\ loc[s] \in LocType /\ Anchored(s)
      /\ inflight \in BOOLEAN /\ pc[s] = "write"
      /\ UNCHANGED <<revs, rows, flying, doc, load, conn, typed, registry, docEpoch, docBase,
                     tombstone, drains, inflight>>
  BY Names DEF WriteSave, TInv, ProcTyped, DataTyped, engine, maps
<1> DEFINE b == Matches(loc[s].seen, loc[s].epoch)
<1>2. PICK ok \in {b} \cup (IF faults < MaxFaults THEN {FALSE} ELSE {}) :
        Persist(s, ok) /\ faults' = IF ok = b THEN faults ELSE faults + 1
  BY DEF WriteSave
<1>3. b \in BOOLEAN
  BY DEF Matches
<1> HIDE DEF b
<1>4. page' \in PageType /\ page'.rev = page.rev
  BY <1>1, <1>2, Persisted
<1>5. faults' \in 0 .. MaxFaults
  BY <1>2, <1>3, FaultTyped
<1>6. Pointed'
  BY <1>1, <1>4 DEF TInv, Pointed
<1>7. Move(s, "drop", loc[s]) /\ "drop" \in Labels
  BY <1>1, GotoMoves DEF WriteSave, Labels
<1>8. pc'[s] = "drop" /\ loc'[s] = loc[s]
  BY <1>1, <1>7, Lands
<1>9. Anchored(s)'
  BY <1>1, <1>8 DEF Anchored, Quiet, Loaded
<1>10. OneRun'
  BY <1>1, <1>7, RunMoves
<1> QED
  BY <1>1, <1>4, <1>5, <1>6, <1>7, <1>9, <1>10, StepKeeps DEF TInv, DataTyped

-----------------------------------------------------------------------------
(* The steps of the compactor, typed. *)

\* A run takes a document's change, or gives it the log.
LEMMA DocStep ==
    ASSUME TInv, NEW p \in Procs, NEW l \in Labels, NEW x \in LocType, Move(p, l, x),
           NEW d \in Loaded, NEW new \in DocType, new.epoch = doc[d].epoch,
           new.dirty => doc[d].dirty, doc' = [doc EXCEPT ![d] = new],
           UNCHANGED <<page, revs, rows, flying, load, conn, typed, registry, maps, drains, faults>>,
           inflight' \in BOOLEAN, OneRun', Loaded' = Loaded => Anchored(p)'
    PROVE  TInv'
<1>1. ProcTyped' /\ \A q \in Procs \ {p} : pc'[q] = pc[q] /\ loc'[q] = loc[q]
  BY Lands
<1>2. /\ doc' \in [Docs -> DocType \cup {None}] /\ Loaded' = Loaded
      /\ doc'[d] = new /\ \A c \in Docs \ {d} : doc'[c] = doc[c]
      /\ \A e : Known(e) => Known(e)'
  BY DocTakes
<1>3. Lasts
  BY <1>2 DEF Lasts, maps
<1>4. ASSUME NEW q \in Procs PROVE Anchored(q)'
  <2>1. CASE q = p
    BY <1>2, <2>1
  <2>2. CASE q # p
    BY <1>1, <1>3, <2>2, AnchoredKept DEF TInv, ProcTyped
  <2> QED
    BY <2>1, <2>2
<1>5. DataTyped'
  BY <1>2 DEF TInv, DataTyped, maps
<1>6. Pointed' /\ Numbered'
  BY <1>2 DEF TInv, Pointed, Numbered
<1>7. Engaged'
  <2>1. \A c \in Loaded : doc'[c].dirty => doc[c].dirty
    BY <1>2 DEF Loaded
  <2> QED
    BY <1>2, <2>1 DEF TInv, Engaged, maps
<1> QED
  BY <1>1, <1>4, <1>5, <1>6, <1>7 DEF TInv

LEMMA IdleMoves ==
    ASSUME TInv, NEW c \in Merges, Idle(c)
    PROVE  /\ Move(c, "idle", NoLoc) /\ "idle" \in Labels /\ NoLoc \in LocType /\ Anchored(c)'
           /\ pc[c] \in Runs /\ inflight' = FALSE => OneRun'
           /\ pc[c] \notin Runs /\ inflight' = inflight => OneRun'
<1>1. Move(c, "idle", NoLoc) /\ "idle" \in Labels /\ NoLoc \in LocType /\ c \in Procs
  BY Names, NoLocTyped DEF Idle, Labels
<1>2. pc'[c] = "idle" /\ loc'[c] = NoLoc
  BY <1>1, Lands
<1>3. Anchored(c)'
  BY <1>2 DEF Anchored, Quiet, NoLoc
<1>4. "idle" \notin Runs
  BY DEF Runs
<1> QED
  BY <1>1, <1>3, <1>4, RunMoves

LEMMA StoreTyped ==
    ASSUME TInv, NEW c \in Merges, NEW d \in Docs, Store(c, d)
    PROVE  TInv'
<1> DEFINE new == [doc[d] EXCEPT !.dirty = FALSE]
<1>1. /\ c \in Procs /\ c \notin Saves /\ loc[c] \in LocType /\ d \in Loaded /\ doc[d] \in DocType
      /\ pc[c] = "idle" /\ doc[d].dirty /\ docEpoch # Unset /\ inflight \in BOOLEAN /\ Anchored(c)
      /\ UNCHANGED <<page, revs, rows, flying, load, conn, typed, registry, maps, drains, faults,
                     inflight>>
  BY Names DEF Store, TInv, ProcTyped, DataTyped, Engaged, Loaded, database
<1>2. new \in DocType /\ new.epoch = doc[d].epoch /\ ~new.dirty
  BY <1>1 DEF DocType
<1>3. doc' = [doc EXCEPT ![d] = new]
  BY <1>1 DEF Store, TInv, DataTyped
<1> HIDE DEF new
<1>4. CASE UNCHANGED <<pc, loc>>
  <2>1. Move(c, "idle", loc[c]) /\ "idle" \in Labels
    BY <1>1, <1>4 DEF Move, Labels, TInv, ProcTyped
  <2>2. Loaded' = Loaded => Anchored(c)'
    BY <1>1, <1>4 DEF Anchored, Quiet
  <2>3. OneRun'
    BY <1>1, <2>1, RunMoves DEF Runs
  <2> QED
    BY <1>1, <1>2, <1>3, <2>1, <2>2, <2>3, DocStep
<1>5. CASE Move(c, "enter", [NoLoc EXCEPT !.doc = d])
  <2> DEFINE x == [NoLoc EXCEPT !.doc = d]
  <2>1. x \in LocType /\ x.doc = d /\ "enter" \in Labels
    <3>1. d \in 0 .. MaxLoads
      BY ConstantsAssumption DEF ConstantsAssumption, Docs
    <3> QED
      BY <3>1, NoLocTyped DEF LocType, Labels, NoLoc
  <2>2. Move(c, "enter", x)
    BY <1>5
  <2> HIDE DEF x
  <2>3. pc'[c] = "enter" /\ loc'[c] = x
    BY <1>1, <2>1, <2>2, Lands
  <2>4. Loaded' = Loaded => Anchored(c)'
    BY <1>1, <2>1, <2>3 DEF Anchored, Quiet, maps
  <2>5. OneRun'
    BY <1>1, <2>1, <2>2, RunMoves DEF Runs
  <2> QED
    BY <1>1, <1>2, <1>3, <2>1, <2>2, <2>4, <2>5, DocStep
<1> QED
  BY <1>4, <1>5 DEF Store

\* A run takes the epoch that is recorded when it takes the mutex.
LEMMA EnterTyped ==
    ASSUME TInv, NEW c \in Merges, Enter(c) \/ CompactPage(c)
    PROVE  TInv'
<1>1. /\ c \in Procs /\ c \notin Saves /\ loc[c] \in LocType /\ Anchored(c) /\ inflight \in BOOLEAN
      /\ rows \subseteq RowType /\ docBase \in Revs \cup {Unset, Sentinel}
      /\ UNCHANGED <<page, revs, rows, flying, doc, load, conn, typed, registry, docEpoch, docBase,
                     tombstone, drains, faults>>
  BY Names DEF Enter, CompactPage, TInv, ProcTyped, DataTyped, engine, maps, database
<1>2. CASE Idle(c) /\ UNCHANGED inflight /\ pc[c] = "enter"
  <2>1. pc[c] \notin Runs
    BY <1>2 DEF Runs
  <2> QED
    BY <1>1, <1>2, <2>1, IdleMoves, ReadKeeps
<1>3. ASSUME NEW x \in LocType, ~inflight, inflight' = TRUE, Move(c, "rows", x),
             x.doc \in Loaded \cup {0}, x.epoch = docEpoch, docEpoch # Unset
      PROVE  TInv'
  <2>1. "rows" \in Labels /\ "rows" \in Runs
    BY DEF Labels, Runs
  <2>2. pc'[c] = "rows" /\ loc'[c] = x
    BY <1>1, <1>3, <2>1, Lands
  <2>3. Known(docEpoch)
    BY <1>3 DEF TInv, Engaged
  <2>4. Anchored(c)'
    BY <1>1, <1>3, <2>2, <2>3 DEF Anchored, Quiet, Loaded, Known
  <2>5. OneRun'
    BY <1>1, <1>3, <2>1, RunMoves
  <2> QED
    BY <1>1, <1>3, <2>1, <2>4, <2>5, ReadKeeps
<1>4. CASE Enter(c) /\ ~inflight
  <2> DEFINE x == [loc[c] EXCEPT !.epoch = docEpoch]
  <2>1. x \in LocType /\ x.doc = loc[c].doc /\ x.epoch = docEpoch
    BY <1>1 DEF LocType, TInv, DataTyped
  <2>2. inflight' = TRUE /\ Move(c, "rows", x) /\ loc[c].doc \in Loaded \cup {0} /\ docEpoch # Unset
    BY <1>1, <1>4 DEF Enter, Anchored, Quiet
  <2> HIDE DEF x
  <2> QED
    BY <1>3, <1>4, <2>1, <2>2
<1>5. CASE CompactPage(c)
  <2> DEFINE x == [NoLoc EXCEPT !.epoch = docEpoch]
  <2>1. x \in LocType /\ x.doc = 0 /\ x.epoch = docEpoch
    BY NoLocTyped DEF LocType, NoLoc, TInv, DataTyped
  <2>2. ~inflight /\ inflight' = TRUE /\ Move(c, "rows", x) /\ docEpoch # Unset
    BY <1>5 DEF CompactPage, TInv, Engaged
  <2> HIDE DEF x
  <2> QED
    BY <1>3, <2>1, <2>2
<1> QED
  BY <1>2, <1>4, <1>5 DEF Enter

LEMMA CollectTyped ==
    ASSUME TInv, NEW c \in Merges, CollectRows(c)
    PROVE  TInv'
<1>1. /\ c \in Procs /\ c \notin Saves /\ loc[c] \in LocType /\ Anchored(c) /\ inflight \in BOOLEAN
      /\ rows \subseteq RowType /\ docBase \in Revs \cup {Unset, Sentinel} /\ pc[c] = "rows"
      /\ UNCHANGED <<page, revs, rows, flying, load, conn, typed, registry, maps, drains, faults>>
      /\ UNCHANGED <<docEpoch, docBase, tombstone>>
  BY Names DEF CollectRows, TInv, ProcTyped, DataTyped, maps, database
<1>2. "base" \in Labels /\ "seal" \in Labels /\ "base" \in Runs /\ "seal" \in Runs /\ pc[c] \in Runs
  BY <1>1 DEF Labels, Runs
<1>3. CASE Idle(c) /\ inflight' = FALSE /\ UNCHANGED doc
  BY <1>1, <1>2, <1>3, IdleMoves, ReadKeeps
<1> DEFINE x == [loc[c] EXCEPT !.rows = rows]
<1>4. x \in LocType /\ x.doc = loc[c].doc /\ x.epoch = loc[c].epoch
  BY <1>1 DEF LocType
<1> HIDE DEF x
<1>5. CASE loc[c].doc = 0 /\ Move(c, "base", x) /\ UNCHANGED <<doc, inflight>>
  <2>1. pc'[c] = "base" /\ loc'[c] = x
    BY <1>1, <1>2, <1>4, <1>5, Lands
  <2>2. Anchored(c)'
    BY <1>1, <1>4, <1>5, <2>1 DEF Anchored, Quiet, Loaded, Known
  <2> QED
    BY <1>1, <1>2, <1>4, <1>5, <2>2, RunMoves, ReadKeeps
<1>6. CASE /\ loc[c].doc # 0 /\ Move(c, "seal", x) /\ UNCHANGED inflight
           /\ doc' = [doc EXCEPT ![loc[c].doc] = Apply(@, rows)]
  <2> DEFINE d == loc[c].doc
             new == Apply(doc[d], rows)
  <2>1. d \in Loaded /\ d \in Docs /\ doc[d] \in DocType /\ d # 0
    BY <1>1, <1>6 DEF Anchored, Loaded, TInv, DataTyped
  <2>2. new \in DocType /\ new.epoch = doc[d].epoch /\ new.dirty = doc[d].dirty
    BY <1>1, <2>1, Applied
  <2>3. doc' = [doc EXCEPT ![d] = new]
    BY <1>6, <2>1 DEF TInv, DataTyped
  <2>4. pc'[c] = "seal" /\ loc'[c] = x
    BY <1>1, <1>2, <1>4, <1>6, Lands
  <2>5. OneRun'
    BY <1>1, <1>2, <1>4, <1>6, RunMoves
  <2> DEFINE e == loc[c].epoch
  <2>6. Known(e) /\ e # Unset /\ loc[c].doc = d /\ x.epoch = e /\ docEpoch # Unset
    BY <1>1, <1>4 DEF Anchored, Quiet
  <2> HIDE DEF new, d, e
  <2>8. \A f : Known(f) => Known(f)'
    <3>1. load' = load
      BY <1>1
    <3> QED
      BY <2>1, <2>2, <2>3, <3>1, DocTakes
  <2>9. loc'[c].doc = d /\ loc'[c].epoch = e /\ d \in Loaded
    BY <1>4, <2>1, <2>4, <2>6
  <2>10. Known(loc[c].epoch)'
    BY <2>6, <2>8, <2>9
  <2>7. Loaded' = Loaded => Anchored(c)'
    <3> SUFFICES ASSUME Loaded' = Loaded PROVE Anchored(c)'
      OBVIOUS
    <3>1. pc'[c] = "seal" /\ c \notin Saves /\ docEpoch' # Unset
      BY <1>1, <2>4, <2>6
    <3>2. loc'[c].doc \in Loaded' \cup {0} /\ loc'[c].doc # 0 /\ loc'[c].epoch # Unset
      BY <2>1, <2>6, <2>9
    <3> QED
      BY <2>10, <3>1, <3>2 DEF Anchored, Quiet
  <2>11. c \in Procs /\ "seal" \in Labels /\ x \in LocType /\ Move(c, "seal", x)
    BY <1>1, <1>2, <1>4, <1>6
  <2>12. new.epoch = doc[d].epoch /\ (new.dirty => doc[d].dirty) /\ inflight' \in BOOLEAN
         /\ UNCHANGED <<page, revs, rows, flying, load, conn, typed, registry, maps, drains, faults>>
    BY <1>1, <1>6, <2>2
  <2>13. d \in Loaded /\ new \in DocType
    BY <2>1, <2>2
  <2> QED
    BY <2>3, <2>5, <2>7, <2>11, <2>12, <2>13, DocStep
<1>7. CASE loc[c].doc = 0 /\ rows = {}
  BY <1>3, <1>7 DEF CollectRows
<1>8. CASE loc[c].doc = 0 /\ rows # {}
  BY <1>5, <1>8 DEF CollectRows, x
<1>9. CASE loc[c].doc # 0
  BY <1>6, <1>9 DEF CollectRows, x
<1> QED
  BY <1>7, <1>8, <1>9

\* Without a document the rows are folded into the snapshot.
LEMMA MergeBaseTyped ==
    ASSUME TInv, NEW c \in Merges, MergeBase(c)
    PROVE  TInv'
<1> DEFINE from == IF page.snap = None THEN [base |-> 0, text |-> {}] ELSE page.snap
           enc == Apply(from, loc[c].rows)
           x == [loc[c] EXCEPT !.enc = enc]
<1>1. /\ c \in Procs /\ c \notin Saves /\ loc[c] \in LocType /\ Anchored(c) /\ inflight \in BOOLEAN
      /\ rows \subseteq RowType /\ docBase \in Revs \cup {Unset, Sentinel} /\ pc[c] = "base"
      /\ Move(c, "seal", x) /\ page \in PageType
      /\ UNCHANGED <<page, revs, rows, flying, doc, load, conn, typed, registry, docEpoch, docBase,
                     tombstone, drains, faults, inflight>>
  BY Names DEF MergeBase, TInv, ProcTyped, DataTyped, maps, database, engine
<1>2. from \in Snapshot
  BY <1>1 DEF Snapshot, PageType, Text
<1>3. enc \in Snapshot
  BY <1>1, <1>2, Applied DEF LocType
<1>4. enc # None
  BY <1>3, NoneAssumption
<1> HIDE DEF enc, from
<1>5. x \in LocType /\ x.doc = loc[c].doc /\ x.epoch = loc[c].epoch /\ x.enc # None
      /\ "seal" \in Labels /\ "seal" \in Runs /\ pc[c] \in Runs
  BY <1>1, <1>3, <1>4 DEF LocType, Labels, Runs
<1> HIDE DEF x
<1>6. pc'[c] = "seal" /\ loc'[c] = x
  BY <1>1, <1>5, Lands
<1>7. Anchored(c)'
  BY <1>1, <1>5, <1>6 DEF Anchored, Quiet, Loaded, Known
<1> QED
  BY <1>1, <1>5, <1>7, RunMoves, ReadKeeps

LEMMA SealMergeTyped ==
    ASSUME TInv, NEW c \in Merges, SealMerge(c)
    PROVE  TInv'
<1> DEFINE state == IF loc[c].doc = 0 THEN loc[c].enc ELSE Encoded(c)
           x == [loc[c] EXCEPT !.seen = page.rev, !.enc = state]
<1>1. /\ c \in Procs /\ c \notin Saves /\ loc[c] \in LocType /\ Anchored(c) /\ inflight \in BOOLEAN
      /\ rows \subseteq RowType /\ docBase \in Revs \cup {Unset, Sentinel} /\ pc[c] = "seal"
      /\ page.rev \in Revs
      /\ UNCHANGED <<page, revs, rows, flying, doc, load, conn, typed, registry, docEpoch, docBase,
                     tombstone, drains, faults>>
      /\ \/ Idle(c) /\ inflight' = FALSE
         \/ Move(c, "write", x) /\ UNCHANGED inflight
  BY Names DEF SealMerge, TInv, ProcTyped, DataTyped, maps, database, engine, PageType
<1>2. state \in Snapshot \cup {None}
  <2>1. CASE loc[c].doc = 0
    BY <1>1, <2>1 DEF LocType
  <2>2. CASE loc[c].doc # 0
    <3>1. doc[loc[c].doc] \in DocType
      BY <1>1, <2>2 DEF Anchored, Loaded, TInv, DataTyped
    <3> QED
      BY <2>2, <3>1 DEF Encoded, Snapshot, DocType
  <2> QED
    BY <2>1, <2>2
<1> HIDE DEF state
<1>3. x \in LocType /\ x.doc = loc[c].doc /\ x.epoch = loc[c].epoch
      /\ "write" \in Labels /\ "write" \in Runs /\ pc[c] \in Runs
  BY <1>1, <1>2 DEF LocType, Labels, Runs
<1> HIDE DEF x
<1>4. CASE Idle(c) /\ inflight' = FALSE
  BY <1>1, <1>3, <1>4, IdleMoves, ReadKeeps
<1>5. CASE Move(c, "write", x) /\ UNCHANGED inflight
  <2>1. pc'[c] = "write" /\ loc'[c] = x
    BY <1>1, <1>3, <1>5, Lands
  <2>2. Anchored(c)'
    BY <1>1, <1>3, <2>1 DEF Anchored, Quiet, Loaded, Known
  <2> QED
    BY <1>1, <1>3, <1>5, <2>2, RunMoves, ReadKeeps
<1> QED
  BY <1>1, <1>4, <1>5

LEMMA WriteMergeTyped ==
    ASSUME TInv, NEW c \in Merges, WriteMerge(c)
    PROVE  TInv'
<1>1. /\ c \in Procs /\ c \notin Saves /\ loc[c] \in LocType /\ Anchored(c) /\ inflight \in BOOLEAN
      /\ pc[c] = "write"
      /\ UNCHANGED <<revs, rows, flying, doc, load, conn, typed, registry, docEpoch, docBase,
                     tombstone, drains>>
  BY Names DEF WriteMerge, TInv, ProcTyped, DataTyped, engine, maps
<1> DEFINE b == Matches(loc[c].seen, loc[c].epoch)
<1>2. PICK ok \in {b} \cup (IF faults < MaxFaults THEN {FALSE} ELSE {}) :
        /\ Persist(c, ok) /\ faults' = IF ok = b THEN faults ELSE faults + 1
        /\ \/ Goto(c, "drop") /\ UNCHANGED inflight
           \/ Idle(c) /\ inflight' = FALSE
  BY DEF WriteMerge
<1>3. b \in BOOLEAN
  BY DEF Matches
<1> HIDE DEF b
<1>4. page' \in PageType /\ page'.rev = page.rev
  BY <1>1, <1>2, Persisted
<1>5. faults' \in 0 .. MaxFaults
  BY <1>2, <1>3, FaultTyped
<1>6. Pointed'
  BY <1>1, <1>4 DEF TInv, Pointed
<1>7. pc[c] \in Runs
  BY <1>1 DEF Runs
<1>8. CASE Goto(c, "drop") /\ UNCHANGED inflight
  <2>1. Move(c, "drop", loc[c]) /\ "drop" \in Labels /\ "drop" \in Runs
    BY <1>1, <1>8, GotoMoves DEF Labels, Runs
  <2>2. pc'[c] = "drop" /\ loc'[c] = loc[c]
    BY <1>1, <2>1, Lands
  <2>3. Anchored(c)'
    BY <1>1, <2>2 DEF Anchored, Quiet, Loaded
  <2>4. OneRun'
    BY <1>1, <1>7, <1>8, <2>1, RunMoves
  <2> QED
    BY <1>1, <1>4, <1>5, <1>6, <1>8, <2>1, <2>3, <2>4, StepKeeps DEF TInv, DataTyped
<1>9. CASE Idle(c) /\ inflight' = FALSE
  <2>1. OneRun' /\ Anchored(c)' /\ Move(c, "idle", NoLoc) /\ "idle" \in Labels /\ NoLoc \in LocType
    BY <1>7, <1>9, IdleMoves
  <2> QED
    BY <1>1, <1>4, <1>5, <1>6, <1>9, <2>1, StepKeeps DEF TInv, DataTyped
<1> QED
  BY <1>2, <1>8, <1>9

LEMMA DropFoldedTyped ==
    ASSUME TInv, NEW c \in Merges, DropFolded(c)
    PROVE  TInv'
<1>1. /\ c \in Procs /\ pc[c] \in Runs /\ rows' \subseteq RowType
      /\ docBase \in Revs \cup {Unset, Sentinel} /\ Idle(c) /\ inflight' = FALSE
      /\ UNCHANGED <<page, revs, flying, doc, load, conn, typed, registry, docEpoch, docBase,
                     tombstone, drains, faults>>
  BY Names DEF DropFolded, LeftUnfolded, TInv, DataTyped, maps, engine, Runs
<1> QED
  BY <1>1, IdleMoves, ReadKeeps

-----------------------------------------------------------------------------
(* Outside writes and crashes, typed. *)

LEMMA BeginTyped ==
    ASSUME TInv, NEW x \in Outside, Begin(x) \/ ClearRows(x)
    PROVE  TInv'
<1>1. /\ x \in Procs /\ x \notin Saves /\ x \notin Merges /\ loc[x] \in LocType /\ Anchored(x)
      /\ inflight \in BOOLEAN /\ page.epoch \in Nat /\ rows' \subseteq RowType
      /\ docBase \in Revs \cup {Unset, Sentinel}
      /\ UNCHANGED <<page, revs, flying, doc, load, conn, typed, registry, docEpoch, docBase,
                     tombstone, drains, faults, inflight>>
  <2>1. x \in Procs /\ x \notin Saves /\ x \notin Merges
    BY Names DEF Outside
  <2>2. rows' \subseteq RowType
    BY DEF Begin, ClearRows, TInv, DataTyped, database
  <2>3. /\ inflight \in BOOLEAN /\ page.epoch \in Nat /\ docBase \in Revs \cup {Unset, Sentinel}
        /\ loc[x] \in LocType /\ Anchored(x)
    BY <2>1 DEF TInv, DataTyped, ProcTyped, PageType
  <2>4. UNCHANGED <<page, revs, flying, doc, load, conn, typed, registry, docEpoch, docBase,
                    tombstone, drains, faults, inflight>>
    BY DEF Begin, ClearRows, maps, database, engine
  <2> QED
    BY <2>1, <2>2, <2>3, <2>4
<1>2. CASE Begin(x)
  <2> DEFINE y == [NoLoc EXCEPT !.epoch = page.epoch]
  <2>1. y \in LocType /\ y.doc = 0 /\ y.epoch # Unset /\ Move(x, "replace", y)
        /\ "replace" \in Labels
    BY <1>1, <1>2, NoLocTyped, ConstantsAssumption
       DEF ConstantsAssumption, Begin, LocType, NoLoc, Labels
  <2> HIDE DEF y
  <2>2. pc'[x] = "replace" /\ loc'[x] = y
    BY <1>1, <2>1, Lands
  <2>3. Anchored(x)'
    BY <1>1, <2>1, <2>2 DEF Anchored, Quiet
  <2> QED
    BY <1>1, <2>1, <2>3, RunMoves, ReadKeeps
<1>3. CASE ClearRows(x)
  <2>1. Move(x, "tell", loc[x]) /\ "tell" \in Labels
    BY <1>1, <1>3, GotoMoves DEF ClearRows, Labels
  <2>2. pc'[x] = "tell" /\ loc'[x] = loc[x]
    BY <1>1, <2>1, Lands
  <2>3. Anchored(x)'
    BY <1>1, <2>2 DEF Anchored, Quiet, Loaded
  <2> QED
    BY <1>1, <2>1, <2>3, RunMoves, ReadKeeps
<1> QED
  BY <1>2, <1>3

\* A body write stores its Revision and points the Page at it.
LEMMA ReplaceBodyTyped ==
    ASSUME TInv, NEW x \in Outside, ReplaceBody(x)
    PROVE  TInv'
<1> DEFINE r == [body |-> {x}, parent |-> page.rev, at |-> Clock + 1]
<1>1. /\ x \in Procs /\ x \notin Saves /\ x \notin Merges /\ x \in Edits /\ x \in Revs
      /\ loc[x] \in LocType /\ Anchored(x) /\ pc[x] = "replace" /\ inflight \in BOOLEAN
      /\ page.rev \in Revs
      /\ revs' = [revs EXCEPT ![x] = r]
      /\ page' = [rev |-> x, epoch |-> loc[x].epoch + 1, snap |-> None]
      /\ UNCHANGED <<rows, flying, doc, load, conn, typed, registry, docEpoch, docBase,
                     tombstone, drains, faults, inflight>>
  BY Names DEF ReplaceBody, TInv, ProcTyped, DataTyped, maps, engine, PageType, Revs
<1>2. Clock \in Nat
  BY FS_CardinalityType DEF Clock, TInv, Pointed
<1>3. r \in RevType /\ r # None
  <2>1. {x} \in Text
    BY <1>1 DEF Text
  <2>2. r \in RevType
    BY <1>1, <1>2, <2>1 DEF RevType
  <2> QED
    BY <2>2, NoneAssumption
<1> HIDE DEF r
<1>4. /\ revs' \in [Revs -> RevType \cup {None}] /\ revs'[x] # None
      /\ \A q \in Revs : revs[q] # None => revs'[q] # None
      /\ {q \in Revs : revs'[q] # None} = {q \in Revs : revs[q] # None} \cup {x}
  BY <1>1, <1>3 DEF TInv, DataTyped
<1>5. page' \in PageType /\ page'.rev = x
  <2>1. loc[x].epoch \in Nat
    BY <1>1 DEF Anchored, LocType
  <2> QED
    BY <1>1, <2>1 DEF PageType
<1>6. Pointed'
  <2>1. IsFiniteSet({q \in Revs : revs'[q] # None})
    <3>1. IsFiniteSet({q \in Revs : revs[q] # None})
      BY DEF TInv, Pointed
    <3>2. IsFiniteSet({q \in Revs : revs[q] # None} \cup {x})
      BY <3>1, FS_AddElement
    <3> QED
      BY <1>4, <3>2
  <2>2. load' # None => revs'[load'.rev] # None
    BY <1>1, <1>4 DEF TInv, Pointed, DataTyped, PageType
  <2> QED
    BY <1>4, <1>5, <2>1, <2>2 DEF Pointed
<1>7. Move(x, "clear", loc[x]) /\ "clear" \in Labels
  BY <1>1, GotoMoves DEF ReplaceBody, Labels
<1>8. pc'[x] = "clear" /\ loc'[x] = loc[x]
  BY <1>1, <1>7, Lands
<1>9. Anchored(x)'
  BY <1>1, <1>8 DEF Anchored, Quiet, Loaded
<1>10. OneRun'
  BY <1>1, <1>7, RunMoves
<1> QED
  BY <1>1, <1>4, <1>5, <1>6, <1>7, <1>9, <1>10, StepKeeps DEF TInv, DataTyped

LEMMA MovePathTyped ==
    ASSUME TInv, NEW x \in Outside, MovePath(x) \/ InvalidatePages(x)
    PROVE  TInv'
<1>1. /\ x \in Procs /\ x \notin Saves /\ x \notin Merges /\ loc[x] \in LocType /\ Anchored(x)
      /\ inflight \in BOOLEAN /\ page \in PageType
      /\ UNCHANGED <<revs, rows, flying, doc, load, conn, typed, docEpoch, faults, inflight>>
  <2>1. x \in Procs /\ x \notin Saves /\ x \notin Merges
    BY Names DEF Outside
  <2>2. inflight \in BOOLEAN /\ page \in PageType /\ loc[x] \in LocType /\ Anchored(x)
    BY <2>1 DEF TInv, DataTyped, ProcTyped
  <2>3. UNCHANGED <<revs, rows, flying, doc, load, conn, typed, docEpoch, faults, inflight>>
    BY DEF MovePath, InvalidatePages, maps, engine, database
  <2> QED
    BY <2>1, <2>2, <2>3
<1>2. CASE MovePath(x)
  <2>1. Move(x, "tell", loc[x]) /\ "tell" \in Labels
    BY <1>1, <1>2, GotoMoves DEF MovePath, Labels
  <2>2. pc'[x] = "tell" /\ loc'[x] = loc[x]
    BY <1>1, <2>1, Lands
  <2>3. Anchored(x)'
    BY <1>1, <2>2 DEF Anchored, Quiet, Loaded
  <2>4. page' \in PageType /\ page'.rev = page.rev
    BY <1>1, <1>2 DEF MovePath, PageType
  <2>5. Pointed'
    BY <1>1, <2>4 DEF TInv, Pointed
  <2>6. OneRun'
    BY <1>1, <2>1, RunMoves
  <2>7. UNCHANGED <<registry, docBase, tombstone, drains>>
    BY <1>2 DEF MovePath, engine, maps
  <2> QED
    BY <1>1, <2>1, <2>3, <2>4, <2>5, <2>6, <2>7, StepKeeps DEF TInv, DataTyped
<1>3. CASE InvalidatePages(x)
  <2>1. Move(x, "done", NoLoc) /\ "done" \in Labels /\ NoLoc \in LocType
    BY <1>3, NoLocTyped DEF InvalidatePages, Labels
  <2>2. pc'[x] = "done" /\ loc'[x] = NoLoc
    BY <1>1, <2>1, Lands
  <2>3. Anchored(x)'
    BY <2>2 DEF Anchored, Quiet, NoLoc
  <2>4. page' = page /\ registry' = 0 /\ docBase' = Sentinel /\ tombstone' = (registry # 0)
        /\ drains' = IF registry = 0 THEN drains ELSE drains \cup {registry}
    BY <1>3 DEF InvalidatePages, database
  <2>5. drains' \subseteq Docs
    BY <2>4 DEF TInv, DataTyped, Engaged, Loaded
  <2>6. Pointed'
    BY <1>1, <2>4 DEF TInv, Pointed
  <2>7. OneRun'
    BY <1>1, <2>1, RunMoves
  <2> QED
    BY <1>1, <2>1, <2>3, <2>4, <2>5, <2>6, <2>7, StepKeeps DEF TInv, DataTyped
<1> QED
  BY <1>2, <1>3

\* A crash leaves the numbers of the documents behind, and nothing else of them.
LEMMA CrashTyped == TInv /\ Crash => TInv'
<1> SUFFICES ASSUME TInv, Crash PROVE TInv'
  OBVIOUS
<1> DEFINE blank == [base |-> 0, text |-> {}, epoch |-> 0, dirty |-> FALSE]
<1>1. /\ faults < MaxFaults /\ faults' = faults + 1
      /\ doc' = [d \in Docs |-> IF doc[d] = None THEN None ELSE blank]
      /\ registry' = 0 /\ load' = None /\ drains' = {} /\ flying' = {}
      /\ conn' = [u \in Users |-> IF conn[u].at = "away" THEN conn[u] ELSE NoConn]
      /\ docBase' = Unset /\ docEpoch' = Unset /\ tombstone' = FALSE /\ inflight' = FALSE
      /\ pc' = [p \in Procs |-> IF pc[p] \in {"idle", "done", "failed"} THEN pc[p]
                               ELSE IF p \in Merges THEN "idle" ELSE "failed"]
      /\ loc' = [p \in Procs |-> IF pc[p] = "done" THEN loc[p] ELSE NoLoc]
      /\ UNCHANGED <<page, revs, rows, typed>>
  BY DEF Crash, database
<1>2. blank \in DocType /\ blank # None /\ ~blank.dirty
  <2>1. blank \in DocType
    BY DEF DocType, Text
  <2> QED
    BY <2>1, NoneAssumption
<1> HIDE DEF blank
<1>3. /\ doc' \in [Docs -> DocType \cup {None}] /\ Loaded' = Loaded
      /\ \A d \in Loaded : doc'[d] = blank
  BY <1>1, <1>2 DEF TInv, DataTyped, Loaded
<1>4. conn' \in [Users -> ConnType] /\ \A u \in Users : conn'[u].at # "on"
  BY <1>1, ConstantsAssumption DEF ConstantsAssumption, TInv, DataTyped, NoConn, ConnType
<1>5. \A p \in Procs : pc'[p] \in Quiet /\ (loc'[p] = loc[p] \/ loc'[p] = NoLoc)
  BY <1>1 DEF Quiet
<1>6. DataTyped'
  <2>1. 0 \in 0 .. MaxLoads /\ faults + 1 \in 0 .. MaxFaults
    BY <1>1, ConstantsAssumption DEF ConstantsAssumption, TInv, DataTyped
  <2> QED
    BY <1>1, <1>3, <1>4, <2>1 DEF TInv, DataTyped
<1>7. ProcTyped'
  BY <1>1, NoLocTyped DEF TInv, ProcTyped, Labels
<1>8. Pointed'
  BY <1>1 DEF TInv, Pointed
<1>9. Engaged'
  BY <1>1, <1>2, <1>3, <1>4 DEF Engaged
<1>10. Numbered'
  BY <1>1, <1>3 DEF TInv, Numbered
<1>11. OneRun'
  <2>1. Running' = {}
    BY <1>5, Names DEF Running, Quiet
  <2> QED
    BY <1>1, <2>1 DEF OneRun
<1>12. ASSUME NEW p \in Procs PROVE Anchored(p)'
  <2>1. loc'[p].doc \in Loaded \cup {0}
    BY <1>5 DEF TInv, Anchored, NoLoc
  <2> QED
    BY <1>3, <1>5, <2>1 DEF Anchored, Quiet
<1> QED
  BY <1>6, <1>7, <1>8, <1>9, <1>10, <1>11, <1>12 DEF TInv

\* Every step keeps the types and the anchors.
LEMMA NextTInv == TInv /\ [Next]_vars => TInv'
<1> SUFFICES ASSUME TInv, [Next]_vars PROVE TInv'
  OBVIOUS
<1>1. CASE UNCHANGED vars
  <2>1. UNCHANGED <<page, revs, rows, flying, doc, registry, load, conn, typed, docBase, docEpoch,
                    tombstone, drains, inflight, pc, loc, faults>>
    BY <1>1 DEF vars
  <2>2. DataTyped' /\ Pointed'
    BY <2>1 DEF TInv, DataTyped, Pointed
  <2> QED
    BY <2>1, <2>2, LastsIf, EngagedKept, NoMove
<1>2. ASSUME NEW u \in Users, Tab(u) PROVE TInv'
  BY <1>2, TabsKeep, LoadReadKeeps, TypeKeeps, SaveReads DEF Tab
<1>3. ASSUME NEW s \in Saves, Save(s) PROVE TInv'
  BY <1>3, SaveReads, CheckBaseTyped, MovePointerTyped, WriteSaveTyped DEF Save
<1>4. ASSUME NEW c \in Merges, Merge(c) PROVE TInv'
  BY <1>4, StoreTyped, EnterTyped, CollectTyped, MergeBaseTyped, SealMergeTyped, WriteMergeTyped,
     DropFoldedTyped DEF Merge
<1>5. ASSUME NEW x \in Outside, FromOutside(x) PROVE TInv'
  BY <1>5, BeginTyped, ReplaceBodyTyped, MovePathTyped DEF FromOutside
<1> QED
  BY <1>1, <1>2, <1>3, <1>4, <1>5, LoadReplayKeeps, EngineTyped, CrashTyped DEF Next

-----------------------------------------------------------------------------
(* The theorems of the types and of the epoch fence. *)

LEMMA TInvHolds == Spec => []TInv
<1> QED
  BY InitTInv, NextTInv, PTL DEF Spec

\* The types, and what TypeOK says besides, from the invariant.
LEMMA TInvTypes == ASSUME TInv PROVE TypeOK
<1>1. DataTyped /\ ProcTyped /\ \A u \in Users : conn[u].at = "on" => conn[u].doc \in Loaded
  BY DEF TInv, Engaged
<1>2. Cardinality(Running) = (IF inflight THEN 1 ELSE 0)
  <2>1. CASE inflight
    <3>1. PICK c \in Running : TRUE
      BY <2>1 DEF TInv, OneRun
    <3>2. Running = {c}
      BY DEF TInv, OneRun
    <3> QED
      BY <2>1, <3>2, FS_Singleton
  <2>2. CASE ~inflight
    <3>1. Running = {}
      BY <2>2 DEF TInv, OneRun
    <3> QED
      BY <2>2, <3>1, FS_EmptySet
  <2> QED
    BY <2>1, <2>2
<1> QED
  BY <1>1, <1>2 DEF TypeOK

(* Every document, request and run keeps its type, a connection that is served
   has a document, and one run at most is between its first read and its last
   write (compaction.ts:320-345), in every process that compacts and crashes. *)
THEOREM TypesHold == Spec => []TypeOK
<1> QED
  BY TInvTypes, TInvHolds, PTL

\* A pointer write that matches finds the epoch it matches recorded.
LEMMA PointerIsFenced ==
    ASSUME TInv, NEW s \in Saves, MovePointer(s), page' # page
    PROVE  Known(page.epoch)
<1>1. s \in Procs /\ pc[s] = "cas" /\ docEpoch \in {Unset, page.epoch}
  BY Names DEF MovePointer, Matches
<1>2. docEpoch # Unset /\ Known(docEpoch)
  BY <1>1 DEF TInv, Anchored, Quiet, Engaged
<1> QED
  BY <1>1, <1>2

\* A snapshot write that matches was begun under an epoch that was recorded.
LEMMA SnapshotIsFenced ==
    ASSUME TInv, NEW p \in Procs, pc[p] = "write", page' # page, NEW b \in BOOLEAN,
           b = Matches(loc[p].seen, loc[p].epoch),
           NEW ok \in {b} \cup (IF faults < MaxFaults THEN {FALSE} ELSE {}), Persist(p, ok)
    PROVE  Known(page.epoch)
<1>1. ok # FALSE
  BY DEF Persist
<1>2. ok = b /\ b = TRUE
  BY <1>1
<1>3. loc[p].epoch \in {Unset, page.epoch}
  BY <1>2 DEF Matches
<1>4. loc[p].epoch # Unset /\ Known(loc[p].epoch)
  BY DEF TInv, Anchored
<1> QED
  BY <1>3, <1>4

\* Whoever changes the Page moves, and nobody else does.
LEMMA OneWriter ==
    ASSUME TInv, [Next]_vars, page' # page, NEW p \in Saves \cup Merges, pc'[p] # pc[p]
    PROVE  \/ p \in Saves /\ (MovePointer(p) \/ WriteSave(p))
           \/ p \in Merges /\ WriteMerge(p)
<1>1. p \in Procs /\ p \notin Outside /\ NoLoc \in LocType
  BY Names, NoLocTyped DEF Outside
<1>2. ASSUME NEW q \in Procs, NEW l, Goto(q, l) \/ \E x : Move(q, l, x) PROVE q = p
  BY <1>1, <1>2 DEF Goto, Move, TInv, ProcTyped
<1>3. ~UNCHANGED vars
  BY DEF vars
<1>4. ASSUME NEW u \in Users, Tab(u) PROVE FALSE
  BY <1>4 DEF Tab, Authenticate, Attach, LoadRead, Leave, Type, StartSave, database
<1>5. ASSUME NEW s \in Saves, Save(s) PROVE s = p /\ (MovePointer(p) \/ WriteSave(p))
  <2>1. MovePointer(s) \/ WriteSave(s)
    BY <1>5 DEF Save, ReadPage, CheckBase, AdvanceBase, Probe, SealSave, DropRows, database
  <2>2. s \in Procs /\ ((\E l : Goto(s, l)) \/ (\E l, x : Move(s, l, x)))
    BY <2>1, Names DEF MovePointer, WriteSave
  <2> QED
    BY <1>2, <2>1, <2>2
<1>6. ASSUME NEW c \in Merges, Merge(c) PROVE c = p /\ WriteMerge(p)
  <2>1. WriteMerge(c)
    BY <1>6 DEF Merge, Store, Enter, CompactPage, CollectRows, MergeBase, SealMerge, DropFolded, database
  <2>2. c \in Procs /\ ((\E l : Goto(c, l)) \/ (\E l, x : Move(c, l, x)))
    BY <2>1, Names DEF WriteMerge, Idle
  <2> QED
    BY <1>2, <2>1, <2>2
<1>7. ASSUME NEW x \in Outside, FromOutside(x) PROVE FALSE
  <2>1. x \in Procs /\ ((\E l : Goto(x, l)) \/ (\E l, y : Move(x, l, y)))
    BY <1>7 DEF FromOutside, Begin, ReplaceBody, MovePath, ClearRows, InvalidatePages, Procs
  <2> QED
    BY <1>1, <1>2, <2>1
<1>8. ~LoadReplay /\ ~Crash
  BY DEF LoadReplay, Crash, database
<1>9. /\ \A r \in flying : ~AppendRow(r)
      /\ \A d \in Docs : ~Unload(d) /\ ~Drain(d)
  BY DEF AppendRow, Unload, Drain, database
<1> QED
  BY <1>3, <1>4, <1>5, <1>6, <1>7, <1>8, <1>9 DEF Next

LEMMA StepFenced ==
    ASSUME TInv, [Next]_vars, page' # page, NEW p \in Saves \cup Merges, pc'[p] # pc[p]
    PROVE  Known(page.epoch)
<1>1. p \in Procs
  BY Names
<1>2. Matches(loc[p].seen, loc[p].epoch) \in BOOLEAN
  BY DEF Matches
<1>3. CASE p \in Saves /\ MovePointer(p)
  BY <1>3, PointerIsFenced
<1>4. CASE p \in Saves /\ WriteSave(p)
  BY <1>1, <1>2, <1>4, SnapshotIsFenced DEF WriteSave
<1>5. CASE p \in Merges /\ WriteMerge(p)
  BY <1>1, <1>2, <1>5, SnapshotIsFenced DEF WriteMerge
<1> QED
  BY <1>3, <1>4, <1>5, OneWriter

(* No save and no checkpoint of a document that was loaded under another epoch
   reaches the Page unless this process has loaded, or is loading, the Page
   under the epoch it has now (persist-yjs-state.ts:188, save-flow.ts:443-488). *)
THEOREM FenceAlwaysHolds == Spec => FenceHolds
<1>1. TInv /\ [Next]_vars =>
        [\A p \in Saves \cup Merges : Writes(p) /\ doc[loc[p].doc].epoch # page.epoch =>
           \/ \E d \in Loaded : doc[d].epoch = page.epoch
           \/ load # None /\ load.epoch = page.epoch]_vars
  BY StepFenced DEF Writes, Known
<1> QED
  BY <1>1, TInvHolds, PTL DEF Spec, FenceHolds

-----------------------------------------------------------------------------
(* What compaction runs keep, until a body is first saved or replaced. *)

\* No Revision but the one the page started with is stored.
Fresh == \A r \in Revs \ {First} : revs[r] = None

\* Whoever is past the store of a Revision has stored it.
Named(p) ==
    /\ p \in Saves /\ pc[p] \in {"won", "seal", "write", "drop"} => revs[p] # None
    /\ p \in Outside /\ pc[p] = "clear" => p \in Edits /\ revs[p] # None

\* A snapshot of a page that has a body is not empty.
Whole(p) == p.snap # None /\ revs[First].body # {} => p.snap.text # {}

\* No row is of a later epoch than the Page, nor than the Page a load has read.
Dated ==
    /\ docEpoch # Unset => docEpoch <= page.epoch
    /\ \A r \in rows \cup flying : r.epoch <= page.epoch
    /\ load # None => docEpoch = load.epoch /\ \A r \in rows \cup flying : r.epoch <= load.epoch

\* What a run has collected shows in what it goes on with.
Gathered(c) ==
    /\ pc[c] = "base" => loc[c].doc = 0
    /\ pc[c] = "seal" /\ loc[c].doc = 0 => \A r \in loc[c].rows : Folded(r, loc[c].enc)
    /\ pc[c] = "seal" /\ loc[c].doc # 0 => \A r \in loc[c].rows : Folded(r, doc[loc[c].doc])
    /\ pc[c] = "write" =>
         /\ \A r \in loc[c].rows : Folded(r, loc[c].enc)
         /\ loc[c].enc.text # {} \/ revs[First].body = {}
    /\ pc[c] = "drop" => \A r \in loc[c].rows : Folded(r, page.snap)

Pristine ==
    /\ Dated /\ Whole(page) /\ (load # None => Whole(load)) /\ revs[First].at = 0
    /\ \A c \in Merges : Gathered(c)

KInv == (\A p \in Procs : Named(p)) /\ (Fresh => Pristine)

\* The invariant holds at first: there are no rows, and no run has begun.
LEMMA InitKInv == ASSUME Init PROVE KInv
<1>1. /\ \A p \in Procs : pc[p] \in {"idle", "done"}
      /\ rows = {} /\ flying = {} /\ load = None /\ docEpoch = Unset
  BY DEF Init
<1>2. PICK body \in {{}, {First}}, kept \in BOOLEAN :
        /\ page = [rev |-> First, epoch |-> 0,
                   snap |-> IF ~kept THEN None
                            ELSE [base |-> IF body = {} THEN 0 ELSE MaxLoads + 1, text |-> body]]
        /\ revs = [r \in Revs |-> IF r = First
                     THEN [body |-> body, parent |-> None, at |-> 0] ELSE None]
  BY DEF Init
<1>3. revs[First].body = body /\ revs[First].at = 0
  BY <1>2, Names
<1>4. Whole(page)
  BY <1>2, <1>3 DEF Whole
<1> QED
  BY <1>1, <1>3, <1>4, Names DEF KInv, Pristine, Named, Dated, Gathered

\* An edit stores its Revision.
LEMMA ReplaceStores ==
    ASSUME TInv, NEW x \in Edits, ReplaceBody(x)
    PROVE  \E v \in RevType : revs' = [revs EXCEPT ![x] = v] /\ revs'[x] # None
<1> DEFINE v == [body |-> {x}, parent |-> page.rev, at |-> Clock + 1]
<1>1. revs' = [revs EXCEPT ![x] = v] /\ x \in Revs
  BY Names DEF ReplaceBody
<1>2. Clock \in Nat
  BY FS_CardinalityType DEF Clock, TInv, Pointed
<1>3. v \in RevType /\ revs \in [Revs -> RevType \cup {None}]
  BY <1>2 DEF TInv, DataTyped, PageType, RevType, Text
<1>4. v # None
  BY <1>3, NoneAssumption
<1> HIDE DEF v
<1> QED
  BY <1>1, <1>3, <1>4

\* A step stores one Revision at most: a save's, or that of an edit.
LEMMA RevisionsGrow ==
    ASSUME TInv, [Next]_vars
    PROVE  \/ revs' = revs
           \/ \E p \in Saves \cup Edits : \E v \in RevType :
                revs' = [revs EXCEPT ![p] = v]
<1>1. Clock \in Nat
  BY FS_CardinalityType DEF Clock, TInv, Pointed
<1>2. ASSUME NEW s \in Saves, CheckBase(s), revs' # revs
      PROVE  \E v \in RevType : revs' = [revs EXCEPT ![s] = v]
  <2> DEFINE v == [body |-> loc[s].body, parent |-> loc[s].seen, at |-> Clock + 1]
  <2>1. revs' = [revs EXCEPT ![s] = v]
    BY <1>2 DEF CheckBase
  <2>2. v \in RevType
    BY <1>1, Names DEF TInv, ProcTyped, LocType, RevType
  <2> QED
    BY <2>1, <2>2
<1>3. ASSUME NEW x \in Outside, ReplaceBody(x)
      PROVE  x \in Edits /\ \E v \in RevType : revs' = [revs EXCEPT ![x] = v]
  BY <1>3, ReplaceStores DEF ReplaceBody
<1>4. CASE UNCHANGED vars
  BY <1>4 DEF vars
<1>5. ASSUME NEW u \in Users, Tab(u) PROVE revs' = revs
  BY <1>5 DEF Tab, Authenticate, Attach, LoadRead, Leave, Type, StartSave, database
<1>6. ASSUME NEW s \in Saves, Save(s) PROVE revs' = revs \/ CheckBase(s)
  BY <1>6 DEF Save, ReadPage, MovePointer, AdvanceBase, Probe, SealSave, WriteSave, DropRows, database
<1>7. ASSUME NEW c \in Merges, Merge(c) PROVE revs' = revs
  BY <1>7 DEF Merge, Store, Enter, CompactPage, CollectRows, MergeBase, SealMerge, WriteMerge, DropFolded,
       database
<1>8. ASSUME NEW x \in Outside, FromOutside(x) PROVE revs' = revs \/ ReplaceBody(x)
  BY <1>8 DEF FromOutside, Begin, MovePath, ClearRows, InvalidatePages, database
<1>9. LoadReplay \/ Crash \/ (\E r \in flying : AppendRow(r)) => revs' = revs
  BY DEF LoadReplay, Crash, AppendRow, database
<1>10. ASSUME NEW d \in Docs, Unload(d) \/ Drain(d) PROVE revs' = revs
  BY <1>10 DEF Unload, Drain, database
<1> QED
  BY <1>2, <1>3, <1>4, <1>5, <1>6, <1>7, <1>8, <1>9, <1>10 DEF Next

\* What is stored stays; and before a body is saved or replaced, nothing is.
LEMMA StaysFresh ==
    ASSUME TInv, [Next]_vars
    PROVE  /\ \A r \in Revs : revs[r] # None => revs'[r] # None
           /\ \A x \in Edits : ReplaceBody(x) => revs'[x] # None
           /\ Fresh' => revs' = revs /\ Fresh
<1>1. revs \in [Revs -> RevType \cup {None}] /\ None \notin RevType
  BY NoneAssumption DEF TInv, DataTyped
<1>2. CASE revs' = revs
  <2>1. ASSUME NEW x \in Edits, ReplaceBody(x) PROVE revs'[x] # None
    BY <2>1, <1>1, <1>2, ReplaceStores
  <2> QED
    BY <1>2, <2>1 DEF Fresh
<1>3. ASSUME NEW p \in Saves \cup Edits, NEW v \in RevType, revs' = [revs EXCEPT ![p] = v]
      PROVE  /\ \A r \in Revs : revs[r] # None => revs'[r] # None
             /\ \A x \in Edits : ReplaceBody(x) => revs'[x] # None
             /\ ~Fresh'
  <2>1. p \in Revs \ {First} /\ revs'[p] = v
    BY <1>1, <1>3, Names
  <2> QED
    BY <1>1, <1>3, <2>1, ReplaceStores DEF Fresh
<1> QED
  BY <1>2, <1>3, RevisionsGrow

\* A save that is past its pointer write has stored its Revision, and so has an edit.
LEMMA NamedKept ==
    ASSUME TInv, KInv, [Next]_vars, NEW p \in Procs
    PROVE  Named(p)'
<1> DEFINE Past == {"won", "seal", "write", "drop"}
<1>1. /\ pc \in [Procs -> Labels] /\ Named(p) /\ (p \in Saves /\ pc[p] = "cas" => revs[p] # None)
      /\ (p \in Saves \cup Edits => p \in Revs) /\ Saves \cap (Merges \cup Outside) = {}
      /\ Edits \cap Merges = {} /\ Saves \cup Merges \cup Outside \subseteq Procs /\ Edits \subseteq Outside
  BY Names, ConstantsAssumption DEF TInv, ProcTyped, Anchored, KInv, ConstantsAssumption, Outside, Procs
<1>2. ASSUME p \in Saves, pc'[p] \in Past PROVE pc[p] \in Past \cup {"cas"}
  <2>2. ASSUME NEW u \in Users, Tab(u) PROVE pc[p] \in Past \cup {"cas"}
    BY <1>1, <1>2, <2>2 DEF Tab, Authenticate, Attach, LoadRead, Leave, Type, StartSave, Move
  <2>3. ASSUME NEW s \in Saves, Save(s) PROVE pc[p] \in Past \cup {"cas"}
    BY <1>1, <1>2, <2>3 DEF Save, ReadPage, CheckBase, MovePointer, AdvanceBase, Probe, SealSave, WriteSave,
         DropRows, Move, Goto
  <2>4. ASSUME NEW c \in Merges, Merge(c) PROVE pc'[p] = pc[p]
    <3>1. (\E l : Goto(c, l)) \/ (\E l, x : Move(c, l, x)) \/ pc' = pc
      BY <2>4 DEF Merge, Store, Enter, CompactPage, CollectRows, MergeBase, SealMerge, WriteMerge,
           DropFolded, Idle
    <3> QED
      BY <1>1, <1>2, <3>1 DEF Goto, Move
  <2>5. ASSUME NEW x \in Outside, FromOutside(x) PROVE pc'[p] = pc[p]
    BY <1>1, <1>2, <2>5 DEF FromOutside, Begin, ReplaceBody, MovePath, ClearRows, InvalidatePages, Goto, Move
  <2>6. LoadReplay \/ UNCHANGED vars \/ (\E r \in flying : AppendRow(r)) => pc' = pc
    BY DEF LoadReplay, AppendRow, vars
  <2>7. ASSUME NEW d \in Docs, Unload(d) \/ Drain(d) PROVE pc' = pc
    BY <2>7 DEF Unload, Drain
  <2>8. Crash => pc'[p] = pc[p] \/ pc'[p] = "failed"
    BY <1>1, <1>2 DEF Crash
  <2> QED
    BY <1>2, <2>2, <2>3, <2>4, <2>5, <2>6, <2>7, <2>8 DEF Next
<1>3. ASSUME p \in Outside, pc'[p] = "clear" PROVE pc[p] = "clear" \/ (p \in Edits /\ ReplaceBody(p))
  <2>1. ASSUME NEW u \in Users, Tab(u) PROVE pc'[p] = pc[p]
    BY <1>1, <1>3, <2>1 DEF Tab, Authenticate, Attach, LoadRead, Leave, Type, StartSave, Move
  <2>2. ASSUME NEW s \in Saves, Save(s) PROVE pc'[p] = pc[p]
    BY <1>1, <1>3, <2>2 DEF Save, ReadPage, CheckBase, MovePointer, AdvanceBase, Probe, SealSave, WriteSave,
         DropRows, Move, Goto
  <2>3. ASSUME NEW c \in Merges, Merge(c) PROVE pc'[p] = pc[p]
    BY <1>1, <1>3, <2>3 DEF Merge, Store, Enter, CompactPage, CollectRows, MergeBase, SealMerge, WriteMerge,
         DropFolded, Idle, Goto, Move
  <2>4. ASSUME NEW x \in Outside, FromOutside(x)
      PROVE  pc'[p] = pc[p] \/ (p \in Edits /\ ReplaceBody(p))
    BY <1>1, <1>3, <2>4 DEF FromOutside, Begin, ReplaceBody, MovePath, ClearRows, InvalidatePages, Goto, Move
  <2>5. LoadReplay \/ UNCHANGED vars \/ (\E r \in flying : AppendRow(r)) => pc' = pc
    BY DEF LoadReplay, AppendRow, vars
  <2>6. ASSUME NEW d \in Docs, Unload(d) \/ Drain(d) PROVE pc' = pc
    BY <2>6 DEF Unload, Drain
  <2>7. Crash => pc'[p] = pc[p] \/ pc'[p] = "failed"
    BY <1>1, <1>3 DEF Crash
  <2> QED
    BY <1>3, <2>1, <2>2, <2>3, <2>4, <2>5, <2>6, <2>7 DEF Next
<1> QED
  BY <1>1, <1>2, <1>3, StaysFresh DEF Named

\* Before a body is saved or replaced, everybody points at the Revision of the start.
LEMMA FreshRevs ==
    ASSUME TInv, Fresh
    PROVE  page.rev = First /\ (load # None => load.rev = First)
<1>1. page.rev \in Revs /\ (load # None => load.rev \in Revs)
  BY DEF TInv, DataTyped, PageType
<1> QED
  BY <1>1 DEF TInv, Pointed, Fresh

\* Where a run has collected its rows.
Carrying == {"base", "seal", "write", "drop"}

\* The documents keep their base and lose no text.
Grown ==
    \A d \in Loaded : doc'[d] # None /\ doc'[d].base = doc[d].base /\ doc[d].text \subseteq doc'[d].text

LEMMA FoldedGrows ==
    ASSUME NEW r, NEW a, NEW b, Folded(r, a), b # None, b.base = a.base, a.text \subseteq b.text
    PROVE  Folded(r, b)
  BY DEF Folded

\* What a run has collected still shows, as long as the run and the snapshot stay.
LEMMA GatheredKept ==
    ASSUME TInv, NEW c \in Merges, Gathered(c), pc'[c] = pc[c], loc'[c] = loc[c], revs' = revs,
           pc[c] = "drop" => page'.snap = page.snap, pc[c] = "seal" => Grown
    PROVE  Gathered(c)'
<1>1. loc[c].doc \in Loaded \cup {0}
  BY Names DEF TInv, Anchored
<1>2. ASSUME pc[c] = "seal", loc[c].doc # 0, NEW r \in loc[c].rows PROVE Folded(r, doc'[loc[c].doc])
  BY <1>1, <1>2, FoldedGrows DEF Gathered, Grown
<1> QED
  BY <1>2 DEF Gathered, Folded

\* A step that writes no Page, gives no run its rows and adds none to the log.
LEMMA CalmKeeps ==
    ASSUME TInv, Pristine, UNCHANGED <<page, revs, load, docEpoch>>,
           rows' \cup flying' \subseteq rows \cup flying, Grown,
           \A c \in Merges : pc'[c] \notin Carrying \/ (pc'[c] = pc[c] /\ loc'[c] = loc[c])
    PROVE  Pristine'
<1>1. ASSUME NEW c \in Merges PROVE Gathered(c)'
  <2>1. CASE pc'[c] \notin Carrying
    BY <2>1 DEF Gathered, Carrying
  <2>2. CASE pc'[c] = pc[c] /\ loc'[c] = loc[c]
    BY <2>2, GatheredKept DEF Pristine
  <2> QED
    BY <2>1, <2>2
<1>2. Dated' /\ Whole(page)' /\ (load' # None => Whole(load)') /\ revs'[First].at = 0
  BY DEF Pristine, Dated, Whole
<1> QED
  BY <1>1, <1>2 DEF Pristine

LEMMA SameGrown == ASSUME TInv, doc' = doc PROVE Grown
  BY DEF Grown, Loaded

\* Only p moves, to a label where nothing has been collected.
LEMMA LightMove ==
    ASSUME TInv, NEW p \in Procs, NEW l, (\E x : Move(p, l, x)) \/ Goto(p, l), l \notin Carrying \/ p \notin Merges
    PROVE  \A c \in Merges : pc'[c] \notin Carrying \/ (pc'[c] = pc[c] /\ loc'[c] = loc[c])
  BY Names DEF Move, Goto, TInv, ProcTyped

\* What a step takes out of the log, as CompactionKeeps allows it.
Lost == \A r \in rows \ rows' : Folded(r, page.snap) \/ r.epoch # page.epoch

\* A load reads the Page with the epoch of its rows.
LEMMA LoadReadPristine ==
    ASSUME TInv, Pristine, NEW u \in Users, LoadRead(u)
    PROVE  Pristine' /\ rows' = rows
<1>1. /\ load' = page /\ docEpoch' = page.epoch
      /\ UNCHANGED <<page, revs, rows, flying, doc, pc, loc>>
  BY DEF LoadRead, database
<1>2. \A c \in Merges : Gathered(c)'
  BY <1>1, SameGrown, GatheredKept DEF Pristine
<1>3. page.epoch \in Nat
  BY DEF TInv, DataTyped, PageType
<1> QED
  BY <1>1, <1>2, <1>3 DEF Pristine, Dated, Whole

\* A keystroke adds to its document, and its row has the epoch recorded last.
LEMMA TypePristine ==
    ASSUME TInv, Pristine, NEW u \in Users, NEW m \in Marks, Type(u, m)
    PROVE  Pristine' /\ rows' = rows
<1> DEFINE d == conn[u].doc
           new == [doc[d] EXCEPT !.text = @ \cup {m}, !.dirty = TRUE]
           row == [mark |-> m, base |-> doc[d].base, epoch |-> docEpoch, at |-> Clock]
<1>1. /\ conn[u].at = "on" /\ doc' = [doc EXCEPT ![d].text = @ \cup {m}, ![d].dirty = TRUE]
      /\ flying' = IF conn[u].epoch = docEpoch THEN flying \cup {row} ELSE flying
      /\ UNCHANGED <<page, revs, rows, load, docEpoch, pc, loc>>
  BY DEF Type, database, maps
<1>2. d \in Loaded /\ docEpoch # Unset /\ d \in Docs /\ doc[d] \in DocType
  BY <1>1 DEF TInv, Engaged, Loaded, DataTyped
<1>3. new \in DocType /\ new.base = doc[d].base /\ doc[d].text \subseteq new.text
  BY <1>2 DEF DocType, Text
<1>4. doc' = [doc EXCEPT ![d] = new]
  BY <1>1, <1>2 DEF TInv, DataTyped
<1>5. row.epoch = docEpoch
  OBVIOUS
<1> HIDE DEF new, d, row
<1>6. doc'[d] = new /\ \A e \in Docs \ {d} : doc'[e] = doc[e]
  BY <1>2, <1>4 DEF TInv, DataTyped
<1>7. Grown
  BY <1>2, <1>3, <1>6, NoneAssumption DEF Grown, Loaded
<1>8. \A c \in Merges : Gathered(c)'
  BY <1>1, <1>7, GatheredKept DEF Pristine
<1>9. docEpoch \in Nat /\ page.epoch \in Nat
  BY <1>2 DEF TInv, DataTyped, PageType
<1>10. Dated'
  BY <1>1, <1>2, <1>5, <1>9 DEF Pristine, Dated
<1> QED
  BY <1>1, <1>8, <1>10 DEF Pristine, Whole

LEMMA TabPristine ==
    ASSUME TInv, Pristine, NEW u \in Users, Tab(u)
    PROVE  Pristine' /\ rows' = rows
<1>1. ASSUME Authenticate(u) \/ Attach(u) \/ Leave(u) PROVE Pristine' /\ rows' = rows
  <2>1. UNCHANGED <<page, revs, rows, flying, load, docEpoch, doc, pc, loc>>
    BY <1>1 DEF Authenticate, Attach, Leave, database, maps
  <2> QED
    BY <2>1, SameGrown, CalmKeeps
<1>2. ASSUME NEW s \in Saves, StartSave(s, u) PROVE Pristine' /\ rows' = rows
  <2>1. UNCHANGED <<page, revs, rows, flying, load, docEpoch, doc>> /\ s \in Procs \ Merges
    BY <1>2, Names DEF StartSave, database, engine, maps
  <2>2. \E x : Move(s, "read", x)
    BY <1>2 DEF StartSave
  <2> QED
    BY <2>1, <2>2, LightMove, SameGrown, CalmKeeps
<1> QED
  BY <1>1, <1>2, LoadReadPristine, TypePristine DEF Tab

\* The load that ends drops rows of an older epoch only: the snapshot of a page with a body
\* is not empty, and no row is older than the body the page started with.
LEMMA LoadReplayPristine ==
    ASSUME TInv, Pristine, Fresh, LoadReplay
    PROVE  Pristine' /\ Lost
<1> DEFINE d == Cardinality(Loaded) + 1
           rs == rows \ Swept(load)
           state == Apply(Seeded(load, d), rs)
           new == [base |-> state.base, text |-> state.text, epoch |-> load.epoch, dirty |-> FALSE]
<1>1. /\ load # None /\ load' = None /\ doc' = [doc EXCEPT ![d] = new] /\ rows' = rs
      /\ UNCHANGED <<page, revs, flying, docEpoch, pc, loc>>
  BY DEF LoadReplay, maps
<1>2. PICK k \in 0 .. MaxLoads : Loaded = 1 .. k /\ k < MaxLoads
  BY <1>1 DEF TInv, Numbered
<1>3. d = k + 1 /\ d \notin Loaded
  <2>1. Cardinality(Loaded) = k
    BY <1>2, FS_Interval, ConstantsAssumption DEF ConstantsAssumption
  <2> QED
    BY <1>2, <2>1
<1> HIDE DEF d, state, new
<1>4. Grown
  BY <1>1, <1>3, NoneAssumption DEF Grown, Loaded, TInv, DataTyped
<1>5. Lost
  <2>1. load.rev = First /\ load \in PageType /\ load.epoch \in Nat /\ page.epoch \in Nat
    BY <1>1, FreshRevs DEF TInv, DataTyped, PageType
  <2>2. load.epoch = docEpoch /\ docEpoch # Unset /\ docEpoch <= page.epoch
    BY <1>1 DEF Pristine, Dated, TInv, Engaged
  <2>3. Whole(load) /\ revs[First].at = 0
    BY <1>1 DEF Pristine
  <2>4. ASSUME NEW r \in rows, r \in Swept(load) PROVE r.epoch # page.epoch
    <3>1. r.at \in Nat /\ r.epoch \in Nat /\ r.epoch <= load.epoch
      BY <1>1 DEF TInv, DataTyped, RowType, Pristine, Dated
    <3>2. ~(~Restores(load) /\ load.snap # None /\ revs[load.rev].body # {})
      BY <2>1, <2>3 DEF Restores, Whole
    <3>3. ~(r.at < revs[load.rev].at)
      BY <2>1, <2>3, <3>1
    <3>4. r.epoch # load.epoch
      BY <2>4, <3>2, <3>3 DEF Swept
    <3> QED
      BY <2>1, <2>2, <3>1, <3>4
  <2> QED
    BY <1>1, <2>4 DEF Lost
<1>6. \A c \in Merges : Gathered(c)'
  BY <1>1, <1>4, GatheredKept DEF Pristine
<1> QED
  BY <1>1, <1>5, <1>6 DEF Pristine, Dated, Whole

-----------------------------------------------------------------------------
(* The requests. *)

\* Until a body is saved, no save gets past the store of its Revision.
LEMMA SavePristine ==
    ASSUME TInv, KInv, Fresh, UNCHANGED revs, NEW s \in Saves, Save(s)
    PROVE  Pristine' /\ rows' = rows
<1>1. s \in Procs \ Merges /\ s \in Revs \ {First}
  BY Names
<1>2. revs[s] = None /\ pc[s] \notin {"cas", "won", "seal", "write", "drop"}
  BY <1>1 DEF Fresh, KInv, Named, TInv, Anchored
<1>3. UNCHANGED <<page, rows, flying, load, docEpoch, doc>>
      /\ (\E l : (\E x : Move(s, l, x)) \/ Goto(s, l))
  <2>1. ReadPage(s) \/ CheckBase(s) \/ Probe(s)
    BY <1>2 DEF Save, MovePointer, AdvanceBase, SealSave, WriteSave, DropRows
  <2> QED
    BY <2>1 DEF ReadPage, CheckBase, Probe, database, engine, maps
<1>4. Pristine
  BY DEF KInv
<1> QED
  BY <1>1, <1>3, <1>4, LightMove, SameGrown, CalmKeeps

\* Nor does an edit; and a path move only brings the epoch forward.
LEMMA OutsidePristine ==
    ASSUME TInv, KInv, Fresh, UNCHANGED revs, NEW x \in Outside, FromOutside(x)
    PROVE  ReplaceBody(x) \/ (Pristine' /\ rows' = rows)
<1>1. x \in Procs \ Merges /\ Pristine
  BY Names DEF KInv, Outside
<1>2. \A c \in Merges : Begin(x) \/ MovePath(x) \/ InvalidatePages(x) => pc'[c] = pc[c] /\ loc'[c] = loc[c]
  BY <1>1, Names DEF Begin, MovePath, InvalidatePages, Move, Goto, TInv, ProcTyped
<1>3. CASE Begin(x) \/ InvalidatePages(x)
  <2>1. UNCHANGED <<page, rows, flying, load, docEpoch, doc>>
    BY <1>3 DEF Begin, InvalidatePages, database, engine, maps
  <2> QED
    BY <1>1, <1>2, <1>3, <2>1, SameGrown, CalmKeeps
<1>4. CASE MovePath(x)
  <2>1. page' = [page EXCEPT !.epoch = @ + 1] /\ UNCHANGED <<rows, flying, load, docEpoch, doc>>
    BY <1>4 DEF MovePath, engine, maps
  <2>2. page \in PageType
    BY DEF TInv, DataTyped
  <2>3. page'.snap = page.snap /\ page'.epoch = page.epoch + 1 /\ page.epoch \in Nat
    BY <2>1, <2>2 DEF PageType
  <2>4. \A c \in Merges : Gathered(c)'
    BY <1>1, <1>2, <1>4, <2>1, <2>3, SameGrown, GatheredKept DEF Pristine
  <2>5. Dated'
    <3>1. \A r \in rows \cup flying : r.epoch \in Nat
      BY DEF TInv, DataTyped, RowType
    <3>2. docEpoch \in Nat \cup {Unset}
      BY DEF TInv, DataTyped
    <3> QED
      BY <1>1, <2>1, <2>3, <3>1, <3>2 DEF Pristine, Dated
  <2> QED
    BY <1>1, <2>1, <2>3, <2>4, <2>5 DEF Pristine, Whole
<1>5. ~ClearRows(x)
  <2>1. ASSUME pc[x] = "clear" PROVE FALSE
    BY <1>1, <2>1, Names DEF KInv, Named, Fresh
  <2> QED
    BY <1>1, <2>1 DEF ClearRows
<1> QED
  BY <1>3, <1>4, <1>5 DEF FromOutside

\* A crash leaves the database, and no run in the middle of its work.
LEMMA CrashPristine ==
    ASSUME TInv, Pristine, Crash
    PROVE  Pristine' /\ rows' = rows
<1>1. /\ UNCHANGED <<page, revs, rows>> /\ flying' = {} /\ load' = None /\ docEpoch' = Unset
      /\ pc' = [p \in Procs |-> IF pc[p] \in {"idle", "done", "failed"} THEN pc[p]
                               ELSE IF p \in Merges THEN "idle" ELSE "failed"]
  BY DEF Crash, database
<1>2. \A c \in Merges : pc'[c] \notin Carrying
  BY <1>1, Names DEF Carrying
<1> QED
  BY <1>1, <1>2 DEF Pristine, Dated, Whole, Gathered, Carrying

-----------------------------------------------------------------------------
(* The runs of the compactor. *)

\* What rows are applied to shows them.
LEMMA ApplyFolds ==
    ASSUME NEW rs \in SUBSET RowType, NEW state \in Snapshot \cup DocType
    PROVE  /\ \A r \in rs : Folded(r, Apply(state, rs))
           /\ Apply(state, rs).base = state.base /\ state.text \subseteq Apply(state, rs).text
<1> DEFINE ms == {r.mark : r \in {r \in rs : r.base \in {0, state.base}}}
<1>1. Apply(state, rs) = [state EXCEPT !.text = state.text \cup ms]
  BY DEF Apply
<1>2. \A r \in rs : r.base \in {0, state.base} => r.mark \in ms
  OBVIOUS
<1> HIDE DEF ms
<1>3. Apply(state, rs).base = state.base /\ Apply(state, rs).text = state.text \cup ms
  BY <1>1 DEF Snapshot, DocType
<1>4. Apply(state, rs) # None
  BY Applied, NoneAssumption
<1> QED
  BY <1>2, <1>3, <1>4 DEF Folded

\* A run moves; what it has collected by then shows.
LEMMA RunKeeps ==
    ASSUME TInv, Pristine, NEW c \in Merges, NEW l, NEW x, Move(c, l, x) \/ (Goto(c, l) /\ x = loc[c]),
           UNCHANGED <<page, revs, load, docEpoch>>, rows' \cup flying' \subseteq rows \cup flying,
           Grown, Gathered(c)' \/ l \notin Carrying
    PROVE  Pristine'
<1>1. /\ pc'[c] = l /\ \A b \in Merges \ {c} : pc'[b] = pc[b] /\ loc'[b] = loc[b]
  BY Names DEF Move, Goto, TInv, ProcTyped
<1>2. ASSUME NEW b \in Merges PROVE Gathered(b)'
  <2>1. CASE b = c
    BY <1>1, <2>1 DEF Gathered, Carrying
  <2>2. CASE b # c
    BY <1>1, <2>2, GatheredKept DEF Pristine
  <2> QED
    BY <2>1, <2>2
<1> QED
  BY <1>2 DEF Pristine, Dated, Whole

\* Stores, entries and runs that find nothing to do.
LEMMA LightPristine ==
    ASSUME TInv, Pristine, NEW c \in Merges,
           \/ \E d \in Docs : Store(c, d)
           \/ Enter(c) \/ CompactPage(c)
    PROVE  Pristine' /\ rows' = rows
<1>1. "idle" \notin Carrying /\ "enter" \notin Carrying /\ "rows" \notin Carrying
  BY DEF Carrying
<1>2. ASSUME NEW d \in Docs, Store(c, d) PROVE Pristine' /\ rows' = rows
  <2>1. /\ UNCHANGED <<page, revs, rows, flying, load, docEpoch>>
        /\ doc' = [doc EXCEPT ![d].dirty = FALSE] /\ doc[d] # None
        /\ UNCHANGED <<pc, loc>> \/ \E x : Move(c, "enter", x)
    BY <1>2 DEF Store, database, maps
  <2>2. Grown
    <3> DEFINE new == [doc[d] EXCEPT !.dirty = FALSE]
    <3>1. doc[d] \in DocType /\ doc' = [doc EXCEPT ![d] = new]
      BY <2>1 DEF TInv, DataTyped
    <3>2. new \in DocType /\ new.base = doc[d].base /\ new.text = doc[d].text
      BY <3>1 DEF DocType
    <3> HIDE DEF new
    <3> QED
      BY <3>1, <3>2, NoneAssumption DEF Grown, Loaded, TInv, DataTyped
  <2>3. c \in Procs
    BY Names
  <2> QED
    BY <1>1, <2>1, <2>2, <2>3, LightMove, CalmKeeps
<1>3. CASE Enter(c) \/ CompactPage(c)
  <2>1. /\ UNCHANGED <<page, revs, rows, flying, load, docEpoch, doc>> /\ c \in Procs
        /\ \E x : Move(c, "idle", x) \/ Move(c, "rows", x)
    BY <1>3, Names DEF Enter, CompactPage, Idle, database, engine, maps
  <2> QED
    BY <1>1, <2>1, LightMove, SameGrown, CalmKeeps
<1> QED
  BY <1>2, <1>3

\* A run that stores a document gives it the rows it has read.
LEMMA CollectPristine ==
    ASSUME TInv, Pristine, NEW c \in Merges, CollectRows(c)
    PROVE  Pristine' /\ rows' = rows
<1> DEFINE x == [loc[c] EXCEPT !.rows = rows]
<1>1. /\ c \in Procs /\ loc[c] \in LocType /\ Anchored(c) /\ rows \in SUBSET RowType
      /\ UNCHANGED <<page, revs, rows, flying, load, docEpoch>>
  BY Names DEF CollectRows, TInv, ProcTyped, DataTyped, maps, database
<1>2. x.rows = rows /\ x.doc = loc[c].doc
  BY <1>1 DEF LocType
<1>3. "idle" \notin Carrying
  BY DEF Carrying
<1> HIDE DEF x
<1>4. CASE Move(c, "idle", NoLoc) /\ UNCHANGED doc
  BY <1>1, <1>3, <1>4, RunKeeps, SameGrown
<1>5. CASE loc[c].doc = 0 /\ Move(c, "base", x) /\ UNCHANGED doc
  <2>1. pc'[c] = "base" /\ loc'[c] = x
    BY <1>1, <1>5 DEF Move, TInv, ProcTyped
  <2>2. Gathered(c)'
    BY <1>2, <1>5, <2>1 DEF Gathered
  <2> QED
    BY <1>1, <1>5, <2>2, RunKeeps, SameGrown
<1>6. CASE /\ loc[c].doc # 0 /\ Move(c, "seal", x)
           /\ doc' = [doc EXCEPT ![loc[c].doc] = Apply(@, rows)]
  <2> DEFINE d == loc[c].doc
             new == Apply(doc[d], rows)
  <2>1. d \in Loaded /\ d \in Docs /\ doc[d] \in DocType
    BY <1>1, <1>6 DEF Anchored, Loaded, TInv, DataTyped
  <2>2. new \in DocType /\ new.base = doc[d].base /\ doc[d].text \subseteq new.text
        /\ \A r \in rows : Folded(r, new)
    BY <1>1, <2>1, Applied, ApplyFolds
  <2>3. doc' = [doc EXCEPT ![d] = new]
    BY <1>6, <2>1 DEF TInv, DataTyped
  <2>4. pc'[c] = "seal" /\ loc'[c] = x
    BY <1>1, <1>6 DEF Move, TInv, ProcTyped
  <2>5. d # 0 /\ loc'[c].doc = d /\ loc'[c].rows = rows
    BY <1>2, <1>6, <2>4
  <2> HIDE DEF new, d
  <2>6. doc'[d] = new /\ Grown
    BY <2>1, <2>2, <2>3, NoneAssumption DEF Grown, Loaded, TInv, DataTyped
  <2>7. Gathered(c)'
    BY <2>2, <2>4, <2>5, <2>6 DEF Gathered, Folded
  <2> QED
    BY <1>1, <1>6, <2>6, <2>7, RunKeeps
<1>7. CASE loc[c].doc = 0
  BY <1>4, <1>5, <1>7 DEF CollectRows, Idle, x
<1>8. CASE loc[c].doc # 0
  BY <1>6, <1>8 DEF CollectRows, x
<1> QED
  BY <1>1, <1>7, <1>8

\* Without a document the rows are applied to the snapshot.
LEMMA MergeBasePristine ==
    ASSUME TInv, Pristine, NEW c \in Merges, MergeBase(c)
    PROVE  Pristine' /\ rows' = rows
<1> DEFINE from == IF page.snap = None THEN [base |-> 0, text |-> {}] ELSE page.snap
           enc == Apply(from, loc[c].rows)
           x == [loc[c] EXCEPT !.enc = enc]
<1>1. /\ c \in Procs /\ loc[c] \in LocType /\ Move(c, "seal", x) /\ page \in PageType
      /\ Anchored(c) /\ pc[c] = "base"
      /\ UNCHANGED <<page, revs, rows, flying, doc, load, docEpoch>>
  BY Names DEF MergeBase, TInv, ProcTyped, DataTyped, maps, database, engine
<1>2. from \in Snapshot /\ loc[c].rows \in SUBSET RowType
  BY <1>1 DEF Snapshot, PageType, Text, LocType
<1>3. \A r \in loc[c].rows : Folded(r, enc)
  BY <1>2, ApplyFolds
<1> HIDE DEF enc, from
<1>4. x.rows = loc[c].rows /\ x.enc = enc /\ x.doc = loc[c].doc
  BY <1>1 DEF LocType
<1> HIDE DEF x
<1>5. pc'[c] = "seal" /\ loc'[c] = x
  BY <1>1 DEF Move, TInv, ProcTyped
<1>6. Gathered(c)'
  <2>1. loc[c].doc = 0
    BY <1>1 DEF Pristine, Gathered
  <2> QED
    BY <1>3, <1>4, <1>5, <2>1 DEF Gathered, Folded
<1> QED
  BY <1>1, <1>6, RunKeeps, SameGrown

\* What a run is about to write shows its rows, and is empty only if the body is.
LEMMA SealMergePristine ==
    ASSUME TInv, Pristine, Fresh, NEW c \in Merges, SealMerge(c)
    PROVE  Pristine' /\ rows' = rows
<1> DEFINE state == IF loc[c].doc = 0 THEN loc[c].enc ELSE Encoded(c)
           x == [loc[c] EXCEPT !.seen = page.rev, !.enc = state]
<1>1. /\ c \in Procs /\ loc[c] \in LocType /\ Anchored(c) /\ Gathered(c) /\ pc[c] = "seal"
      /\ page.rev = First
      /\ UNCHANGED <<page, revs, rows, flying, doc, load, docEpoch>>
      /\ \/ Move(c, "idle", NoLoc)
         \/ ~Shrinks(state) /\ Move(c, "write", x)
  BY Names, FreshRevs DEF SealMerge, Idle, Pristine, TInv, ProcTyped, maps, database, engine
<1>2. \A r \in loc[c].rows : Folded(r, state)
  <2>1. CASE loc[c].doc = 0
    BY <1>1, <2>1 DEF Gathered
  <2>2. CASE loc[c].doc # 0
    <3>1. doc[loc[c].doc] \in DocType /\ \A r \in loc[c].rows : Folded(r, doc[loc[c].doc])
      BY <1>1, <2>2 DEF Anchored, Loaded, Gathered, TInv, DataTyped
    <3>2. Encoded(c) \in Snapshot
      BY <3>1 DEF Encoded, Snapshot, DocType
    <3>3. Encoded(c) # None /\ Encoded(c).base = doc[loc[c].doc].base
          /\ Encoded(c).text = doc[loc[c].doc].text
      BY <3>2, NoneAssumption DEF Encoded
    <3>4. state = Encoded(c)
      BY <2>2
    <3> QED
      BY <3>1, <3>3, <3>4 DEF Folded
  <2> QED
    BY <2>1, <2>2
<1> HIDE DEF state
<1>3. x.rows = loc[c].rows /\ x.enc = state
  BY <1>1 DEF LocType
<1> HIDE DEF x
<1>4. CASE Move(c, "idle", NoLoc)
  <2>1. "idle" \notin Carrying
    BY DEF Carrying
  <2> QED
    BY <1>1, <1>4, <2>1, RunKeeps, SameGrown
<1>5. CASE ~Shrinks(state) /\ Move(c, "write", x)
  <2>1. pc'[c] = "write" /\ loc'[c] = x
    BY <1>1, <1>5 DEF Move, TInv, ProcTyped
  <2>2. state.text # {} \/ revs[First].body = {}
    BY <1>1, <1>5 DEF Shrinks
  <2>3. Gathered(c)'
    BY <1>1, <1>2, <1>3, <2>1, <2>2 DEF Gathered, Folded
  <2> QED
    BY <1>1, <1>5, <2>3, RunKeeps, SameGrown
<1> QED
  BY <1>1, <1>4, <1>5

\* The one run that is past its first read writes the snapshot.
LEMMA WriteMergePristine ==
    ASSUME TInv, Pristine, NEW c \in Merges, WriteMerge(c)
    PROVE  Pristine' /\ rows' = rows
<1>1. /\ c \in Procs /\ Gathered(c) /\ pc[c] = "write" /\ page \in PageType
      /\ UNCHANGED <<revs, rows, flying, doc, load, docEpoch>>
  BY Names DEF WriteMerge, Pristine, TInv, DataTyped, engine, maps
<1>2. PICK ok \in {Matches(loc[c].seen, loc[c].epoch)}
                    \cup (IF faults < MaxFaults THEN {FALSE} ELSE {}) :
        /\ Persist(c, ok)
        /\ \/ ok /\ Goto(c, "drop")
           \/ Move(c, "idle", NoLoc)
  BY DEF WriteMerge, Idle
<1>3. page'.epoch = page.epoch
      /\ (page' = page \/ page'.snap = loc[c].enc)
      /\ (ok => page'.snap = loc[c].enc)
  BY <1>1, <1>2 DEF Persist, PageType
<1>4. ASSUME NEW b \in Merges \ {c} PROVE pc[b] \notin Carrying /\ pc'[b] = pc[b]
  <2>1. pc[b] \notin Carrying
    BY <1>1 DEF TInv, OneRun, Running, Carrying
  <2>2. pc'[b] = pc[b]
    BY <1>1, <1>2, Names DEF Goto, Move, TInv, ProcTyped
  <2> QED
    BY <2>1, <2>2
<1>5. Gathered(c)'
  <2>1. CASE ok /\ Goto(c, "drop")
    <3>1. pc'[c] = "drop" /\ loc'[c] = loc[c]
      BY <1>1, <2>1 DEF Goto, TInv, ProcTyped
    <3> QED
      BY <1>1, <1>3, <2>1, <3>1 DEF Gathered, Folded
  <2>2. CASE Move(c, "idle", NoLoc)
    <3>1. pc'[c] = "idle"
      BY <1>1, <2>2 DEF Move, TInv, ProcTyped
    <3> QED
      BY <3>1 DEF Gathered
  <2> QED
    BY <1>2, <2>1, <2>2
<1>6. \A b \in Merges : Gathered(b)'
  BY <1>4, <1>5 DEF Gathered, Carrying
<1>7. Whole(page)'
  BY <1>1, <1>3 DEF Pristine, Whole, Gathered
<1> QED
  BY <1>1, <1>3, <1>6, <1>7 DEF Pristine, Dated, Whole

\* The rows that go are those the snapshot it has written shows.
LEMMA DropFoldedPristine ==
    ASSUME TInv, Pristine, NEW c \in Merges, DropFolded(c)
    PROVE  Pristine' /\ Lost
<1>1. /\ c \in Procs /\ Gathered(c) /\ pc[c] = "drop" /\ rows' = rows \ loc[c].rows
      /\ Move(c, "idle", NoLoc)
      /\ UNCHANGED <<page, revs, flying, doc, load, docEpoch>>
  BY Names DEF DropFolded, LeftUnfolded, Idle, Pristine, engine, maps
<1>2. Lost
  BY <1>1 DEF Lost, Gathered
<1>3. "idle" \notin Carrying
  BY DEF Carrying
<1> QED
  BY <1>1, <1>2, <1>3, RunKeeps, SameGrown

-----------------------------------------------------------------------------
\* Every step keeps the invariant, and the log loses only what it may.
LEMMA NextKInv ==
    ASSUME TInv, KInv, [Next]_vars
    PROVE  KInv' /\ (Fresh' => Lost)
<1>1. \A p \in Procs : Named(p)'
  BY NamedKept
<1>2. ASSUME Fresh' PROVE Pristine' /\ Lost
  <2>1. Fresh /\ revs' = revs /\ Pristine
    BY <1>2, StaysFresh DEF KInv
  <2>2. rows' = rows => Lost
    BY DEF Lost
  <2>3. CASE UNCHANGED vars
    <3>1. \A c \in Merges : pc'[c] = pc[c] /\ loc'[c] = loc[c]
      BY <2>3 DEF vars
    <3> QED
      BY <2>1, <2>2, <2>3, <3>1, SameGrown, CalmKeeps DEF vars
  <2>4. ASSUME NEW u \in Users, Tab(u) PROVE Pristine' /\ Lost
    BY <2>1, <2>2, <2>4, TabPristine
  <2>5. CASE LoadReplay
    BY <2>1, <2>5, LoadReplayPristine
  <2>6. ASSUME NEW r \in flying, AppendRow(r) PROVE Pristine' /\ Lost
    <3>1. /\ UNCHANGED <<page, revs, load, docEpoch, doc, pc, loc>>
          /\ rows' \cup flying' \subseteq rows \cup flying /\ rows \ rows' = {}
      BY <2>6 DEF AppendRow, engine, maps
    <3> QED
      BY <2>1, <3>1, SameGrown, CalmKeeps DEF Lost
  <2>7. ASSUME NEW s \in Saves, Save(s) PROVE Pristine' /\ Lost
    BY <2>1, <2>2, <2>7, SavePristine
  <2>8. ASSUME NEW c \in Merges, Merge(c) PROVE Pristine' /\ Lost
    BY <2>1, <2>2, <2>8, LightPristine, CollectPristine, MergeBasePristine, SealMergePristine,
       WriteMergePristine, DropFoldedPristine DEF Merge
  <2>9. ASSUME NEW x \in Outside, FromOutside(x) PROVE Pristine' /\ Lost
    <3>1. ASSUME ReplaceBody(x) PROVE FALSE
      <4>1. x \in Edits /\ x \in Revs \ {First}
        BY <3>1, Names DEF ReplaceBody
      <4>2. revs'[x] # None
        BY <3>1, <4>1, StaysFresh
      <4> QED
        BY <1>2, <4>1, <4>2 DEF Fresh
    <3> QED
      BY <2>1, <2>2, <2>9, <3>1, OutsidePristine
  <2>10. ASSUME NEW d \in Docs, Unload(d) \/ Drain(d) PROVE Pristine' /\ Lost
    <3>1. UNCHANGED <<page, revs, rows, flying, load, docEpoch, doc, pc, loc>>
      BY <2>10 DEF Unload, Drain, database, maps
    <3> QED
      BY <2>1, <2>2, <3>1, SameGrown, CalmKeeps
  <2>11. CASE Crash
    BY <2>1, <2>2, <2>11, CrashPristine
  <2> QED
    BY <2>3, <2>4, <2>5, <2>6, <2>7, <2>8, <2>9, <2>10, <2>11 DEF Next
<1> QED
  BY <1>1, <1>2 DEF KInv

(* Until the body is first saved or replaced, the compactor and the loads take a
   row out of the log only when the stored snapshot shows it, or when the page
   has left the epoch it was typed in (compaction.ts:298-313). *)
THEOREM CompactionAlwaysKeeps == Spec => CompactionKeeps
<1>1. Init => KInv
  BY InitKInv
<1>2. TInv /\ TInv' /\ KInv /\ [Next]_vars => KInv'
  BY NextKInv
<1>3. TInv /\ KInv /\ [Next]_vars =>
        [(\A r \in Revs \ {First} : revs'[r] = None) =>
           \A r \in rows \ rows' : Folded(r, page.snap) \/ r.epoch # page.epoch]_vars
  BY NextKInv DEF Fresh, Lost
<1> QED
  BY <1>1, <1>2, <1>3, TInvHolds, PTL DEF Spec, CompactionKeeps

=============================================================================
