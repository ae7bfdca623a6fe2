--------------------------- MODULE CollabDocument ---------------------------
(***************************************************************************)
(* The collaborative editing of ONE page in one process of packages/collab *)
(* (src/hooks, save-flow.ts, compaction.ts, persist-yjs-state.ts,          *)
(* invalidation.ts) together with the writes of packages/api that replace  *)
(* the page under it (models/page.ts, service/page-history/transition.ts). *)
(*                                                                         *)
(* A text is the set of marks it shows: each keystroke, the body the page  *)
(* started with and the body each outside edit brings is one mark.  Yjs is *)
(* external: a document has a base, the seeding that made its first items  *)
(* (0 when it began empty), and an update row shows in a document of its   *)
(* own base only, or in any if it was typed on none.  Deletions are left   *)
(* out, so only a document that began empty has an empty text.             *)
(*                                                                         *)
(* An action is one database call with the synchronous code up to the next *)
(* one.  The server's document, its connections and the four maps keyed by *)
(* page name live in the process and end with it.                          *)
(***************************************************************************)
EXTENDS Naturals, FiniteSets

CONSTANTS
    Users,    \* browser tabs, each with one connection
    Marks,    \* keystrokes; each is typed once
    Saves,    \* save requests; a save's Revision carries its name
    Merges,   \* runs of the compactor
    Edits,    \* body writes that bypass the editor (updatePage)
    Renames,  \* path moves: they advance the epoch and keep the body
    First,    \* the Revision the page starts with
    Casts,    \* the sets of tabs, keystrokes, requests and runs that take part
    MaxLoads, \* bound on the documents loaded
    MaxFaults,\* bound on crashes and failed snapshot writes
    Unset,    \* `undefined' in the maps
    Sentinel, \* INVALIDATED_DOC_BASE
    None

Outside == Edits \cup Renames
Procs == Saves \cup Merges \cup Outside
Revs == Saves \cup Edits \cup {First}
Docs == 1 .. MaxLoads

ASSUME ConstantsAssumption ==
    /\ Saves \cap Merges = {} /\ (Saves \cup Merges) \cap Outside = {}
    /\ Edits \cap Renames = {} /\ First \notin Procs
    /\ Marks \cap Revs = {} /\ Unset # Sentinel /\ Unset \notin Nat
    /\ {None, Unset, Sentinel} \cap (Revs \cup Marks) = {}
    /\ Casts \subseteq SUBSET (Users \cup Marks \cup Procs)
    /\ MaxLoads \in Nat /\ MaxFaults \in Nat

VARIABLES
    page,     \* the Page: its pointer, its epoch and its snapshot (yjsState)
    revs,     \* the stored Revisions
    rows,     \* the PageYjsUpdate log
    flying,   \* rows whose insertion is under way
    doc,      \* the documents this process has loaded
    registry, \* the document registered under the page's name, or 0
    load,     \* the load under way: the Page it read
    conn,     \* each tab's connection
    typed,    \* the keystrokes made, and those that never will be
    docBase,  \* docBaseRevisions
    docEpoch, \* docEpochRevisions
    tombstone,\* invalidatedPages
    drains,   \* detached documents whose connections are to be closed
    inflight, \* the compactor's mutex
    pc, loc,  \* where each request and run is, and its locals
    faults

database == <<page, revs, rows>>
maps == <<docBase, docEpoch, tombstone>>
engine == <<doc, registry, load, conn, typed, drains>>
vars == <<page, revs, rows, flying, doc, registry, load, conn, typed, docBase, docEpoch,
          tombstone, drains, inflight, pc, loc, faults>>

Text == SUBSET (Marks \cup Edits \cup {First})
Snapshot == [base : Nat, text : Text]
PageType == [rev : Revs, epoch : Nat, snap : Snapshot \cup {None}]
RowType == [mark : Marks, base : Nat, epoch : Nat, at : Nat]
RevType == [body : Text, parent : Revs \cup {None}, at : Nat]
DocType == [base : Nat, text : Text, epoch : Nat, dirty : BOOLEAN]
LocType == [doc : 0 .. MaxLoads, body : Text, seen : Revs, epoch : Nat \cup {Unset},
            rows : SUBSET RowType, enc : Snapshot \cup {None}, into : Revs \cup {None}]
ConnType == [at : {"away", "off", "authed", "wait", "on"}, epoch : Nat, doc : 0 .. MaxLoads]
Labels == {"idle", "done", "failed", "read", "check", "cas", "won", "probe", "seal", "write",
           "drop", "enter", "rows", "base", "replace", "clear", "tell"}

ASSUME NoneAssumption == None \notin Snapshot \cup PageType \cup RevType \cup DocType

NoLoc == [doc |-> 0, body |-> {}, seen |-> First, epoch |-> Unset, rows |-> {},
          enc |-> None, into |-> None]
NoConn == [at |-> "off", epoch |-> 0, doc |-> 0]

\* A page with its body, checkpointed by an earlier process or never edited; or
\* an empty one.  Who is not of the cast takes no part.
Init ==
    /\ \E body \in {{}, {First}}, kept \in BOOLEAN :
        /\ page = [rev |-> First, epoch |-> 0,
                   snap |-> IF ~kept THEN None
                            ELSE [base |-> IF body = {} THEN 0 ELSE MaxLoads + 1,
                                  text |-> body]]
        /\ revs = [r \in Revs |-> IF r = First
                     THEN [body |-> body, parent |-> None, at |-> 0] ELSE None]
    /\ \E cast \in Casts :
        /\ typed = Marks \ cast
        /\ conn = [u \in Users |-> [NoConn EXCEPT !.at = IF u \in cast THEN "off" ELSE "away"]]
        /\ pc = [p \in Procs |-> IF p \in cast THEN "idle" ELSE "done"]
    /\ rows = {} /\ flying = {}
    /\ doc = [d \in Docs |-> None] /\ registry = 0 /\ load = None
    /\ docBase = Unset /\ docEpoch = Unset /\ tombstone = FALSE /\ drains = {}
    /\ inflight = FALSE /\ faults = 0
    /\ loc = [p \in Procs |-> NoLoc]

-----------------------------------------------------------------------------
Clock == Cardinality({r \in Revs : revs[r] # None})

Loaded == {d \in Docs : doc[d] # None}

\* What a document shows once the rows rs have been applied to it.
Apply(state, rs) ==
    [state EXCEPT !.text = @ \cup {r.mark : r \in {r \in rs : r.base \in {0, state.base}}}]

Goto(p, l) == pc' = [pc EXCEPT ![p] = l] /\ UNCHANGED loc

Move(p, l, x) == pc' = [pc EXCEPT ![p] = l] /\ loc' = [loc EXCEPT ![p] = x]

-----------------------------------------------------------------------------
(* Connections and loading. *)

\* onAuthenticate: the connection is pinned to the epoch the Page has now.
Authenticate(u) ==
    /\ conn[u].at = "off"
    /\ conn' = [conn EXCEPT ![u] = [@ EXCEPT !.at = "authed", !.epoch = page.epoch]]
    /\ UNCHANGED <<database, flying, doc, registry, load, typed, maps, drains, inflight, pc, loc, faults>>

\* A registered document is shared; otherwise the tab waits for the load.
Attach(u) ==
    /\ conn[u].at = "authed"
    /\ \/ load = None /\ registry # 0
          /\ conn' = [conn EXCEPT ![u] = [@ EXCEPT !.at = "on", !.doc = registry]]
       \/ load # None
          /\ conn' = [conn EXCEPT ![u].at = "wait"]
    /\ UNCHANGED <<database, flying, doc, registry, load, typed, maps, drains, inflight, pc, loc, faults>>

(* onLoadDocument up to its read of the Page: the epoch is recorded whatever
   happens, the base only while no invalidation is draining the page. *)
LoadRead(u) ==
    /\ conn[u].at = "authed" /\ registry = 0 /\ load = None
    /\ Cardinality(Loaded) < MaxLoads
    /\ load' = page
    /\ docEpoch' = page.epoch
    /\ docBase' = IF tombstone THEN docBase ELSE page.rev
    /\ conn' = [conn EXCEPT ![u].at = "wait"]
    /\ UNCHANGED <<database, flying, doc, registry, typed, tombstone, drains, inflight, pc, loc, faults>>

Restores(p) == p.snap # None /\ p.snap.text # {}

\* What the load starts from: the snapshot, or the body seeded afresh.
Seeded(p, d) ==
    IF Restores(p) THEN p.snap
    ELSE [base |-> IF revs[p.rev].body = {} THEN 0 ELSE d, text |-> revs[p.rev].body]

\* clearResidualUpdates, purgeStaleResidualUpdates and the sweep of the replay.
Swept(p) ==
    IF ~Restores(p) /\ p.snap # None /\ revs[p.rev].body # {} THEN rows
    ELSE {r \in rows : \/ r.epoch # p.epoch
                       \/ /\ ~Restores(p) /\ revs[p.rev].body # {}
                          /\ r.at < revs[p.rev].at}

(* The rest of onLoadDocument: residual rows are swept or replayed, and
   Hocuspocus registers the document and serves the tabs that wait for it. *)
LoadReplay ==
    /\ load # None
    /\ LET d == Cardinality(Loaded) + 1
           state == Apply(Seeded(load, d), rows \ Swept(load))
       IN /\ doc' = [doc EXCEPT ![d] = [base |-> state.base, text |-> state.text,
                                        epoch |-> load.epoch, dirty |-> FALSE]]
          /\ registry' = d
          /\ conn' = [u \in Users |-> IF conn[u].at = "wait"
                        THEN [conn[u] EXCEPT !.at = "on", !.doc = d] ELSE conn[u]]
    /\ rows' = rows \ Swept(load)
    /\ load' = None
    /\ UNCHANGED <<page, revs, flying, typed, maps, drains, inflight, pc, loc, faults>>

(* A keystroke reaches the tab's document; onChange refuses the row of a
   connection whose epoch is not the one recorded last, and otherwise starts
   its insertion, stamped with that epoch. *)
Type(u, m) ==
    LET d == conn[u].doc
        row == [mark |-> m, base |-> doc[d].base, epoch |-> docEpoch, at |-> Clock]
    IN /\ conn[u].at = "on"
       /\ m \notin typed /\ typed' = typed \cup {m}
       /\ doc' = [doc EXCEPT ![d].text = @ \cup {m}, ![d].dirty = TRUE]
       /\ flying' = IF conn[u].epoch = docEpoch THEN flying \cup {row} ELSE flying
       /\ UNCHANGED <<database, registry, load, conn, maps, drains, inflight, pc, loc, faults>>

AppendRow(r) ==
    /\ r \in flying
    /\ rows' = rows \cup {r} /\ flying' = flying \ {r}
    /\ UNCHANGED <<page, revs, engine, maps, inflight, pc, loc, faults>>

Leave(u) ==
    /\ conn[u].at = "on"
    /\ conn' = [conn EXCEPT ![u] = NoConn]
    /\ UNCHANGED <<database, flying, doc, registry, load, typed, maps, drains, inflight, pc, loc, faults>>

Connected(d) == \E u \in Users : conn[u].at = "on" /\ conn[u].doc = d

\* unloadImmediately, once the store of the last change has ended.
Unload(d) ==
    /\ registry = d /\ d # 0 /\ ~Connected(d) /\ ~doc[d].dirty
    /\ \A c \in Merges : pc[c] \notin {"idle", "done"} => loc[c].doc # d
    /\ registry' = 0
    /\ UNCHANGED <<database, flying, doc, load, conn, typed, maps, drains, inflight, pc, loc, faults>>

-----------------------------------------------------------------------------
(* executeSave. *)

\* The body is what the document shows when the request arrives.
StartSave(s, u) ==
    /\ pc[s] = "idle" /\ conn[u].at = "on"
    /\ Move(s, "read", [NoLoc EXCEPT !.doc = conn[u].doc, !.body = doc[conn[u].doc].text])
    /\ UNCHANGED <<database, flying, engine, maps, inflight, faults>>

ReadPage(s) ==
    /\ pc[s] = "read"
    /\ Move(s, "check", [loc[s] EXCEPT !.seen = page.rev])
    /\ UNCHANGED <<database, flying, engine, maps, inflight, faults>>

\* The early divergence check; then the Revision is stored, not yet pointed at.
CheckBase(s) ==
    /\ pc[s] = "check"
    /\ IF docBase \notin {Unset, loc[s].seen}
         THEN Move(s, "failed", NoLoc) /\ UNCHANGED revs
         ELSE /\ revs' = [revs EXCEPT ![s] = [body |-> loc[s].body, parent |-> loc[s].seen,
                                             at |-> Clock + 1]]
              /\ Goto(s, "cas")
    /\ UNCHANGED <<page, rows, flying, engine, maps, inflight, faults>>

\* Mutants: a filter without its pointer, and one without its epoch.
MatchesAnyRevision(seen, epoch) == epoch \in {Unset, page.epoch}

MatchesAnyEpoch(seen, epoch) == page.rev = seen

\* The filters of the pointer write and of the snapshot write.
Matches(seen, epoch) == page.rev = seen /\ epoch \in {Unset, page.epoch}

MovePointer(s) ==
    /\ pc[s] = "cas"
    /\ IF Matches(loc[s].seen, docEpoch)
         THEN /\ page' = [page EXCEPT !.rev = s]
              /\ Move(s, "won", [loc[s] EXCEPT !.epoch = docEpoch])
         ELSE Goto(s, "probe") /\ UNCHANGED page
    /\ UNCHANGED <<revs, rows, flying, engine, maps, inflight, faults>>

AdvanceBase(s) ==
    /\ pc[s] = "won"
    /\ docBase' = s
    /\ Goto(s, "seal")
    /\ UNCHANGED <<database, flying, engine, docEpoch, tombstone, inflight, faults>>

\* Mutant: the bodies are not compared.
CoalescesAnyBody(s) == docBase = page.rev

\* tryCoalesce: a save of this process won with the very same body.
Coalesces(s) == docBase = page.rev /\ revs[page.rev].body = loc[s].body

\* The probes are a few milliseconds apart; the loser gives up after the last.
Probe(s) ==
    /\ pc[s] = "probe"
    /\ IF Coalesces(s) THEN Move(s, "done", [NoLoc EXCEPT !.into = page.rev])
                       ELSE Move(s, "failed", NoLoc)
    /\ UNCHANGED <<database, flying, engine, maps, inflight, faults>>

\* persistYjsState up to its write: the pointer it saw and the encoded document.
Encoded(p) == [base |-> doc[loc[p].doc].base, text |-> doc[loc[p].doc].text]

SealSave(s) ==
    /\ pc[s] = "seal"
    /\ Move(s, "write", [loc[s] EXCEPT !.seen = page.rev, !.enc = Encoded(s)])
    /\ UNCHANGED <<database, flying, engine, maps, inflight, faults>>

Persist(p, ok) ==
    page' = IF ok THEN [page EXCEPT !.snap = loc[p].enc] ELSE page

\* A write refused or failed is only logged.
WriteSave(s) ==
    /\ pc[s] = "write"
    /\ \E ok \in {Matches(loc[s].seen, loc[s].epoch)} \cup (IF faults < MaxFaults THEN {FALSE} ELSE {}) :
        /\ Persist(s, ok)
        /\ faults' = IF ok = Matches(loc[s].seen, loc[s].epoch) THEN faults ELSE faults + 1
    /\ Goto(s, "drop")
    /\ UNCHANGED <<revs, rows, flying, engine, maps, inflight>>

DropRows(s) ==
    /\ pc[s] = "drop"
    /\ rows' = {}
    /\ Move(s, "done", [NoLoc EXCEPT !.into = s])
    /\ UNCHANGED <<page, revs, flying, engine, maps, inflight, faults>>

-----------------------------------------------------------------------------
(* The compactor. *)

Idle(c) == Move(c, "idle", NoLoc)

\* onStoreDocument, fired some time after a change or by the last disconnect.
Store(c, d) ==
    /\ pc[c] = "idle" /\ doc[d] # None /\ doc[d].dirty
    /\ doc' = [doc EXCEPT ![d].dirty = FALSE]
    /\ IF docBase = Sentinel \/ tombstone THEN UNCHANGED <<pc, loc>>
       ELSE Move(c, "enter", [NoLoc EXCEPT !.doc = d])
    /\ UNCHANGED <<database, flying, registry, load, conn, typed, maps, drains, inflight, faults>>

\* storeCheckpoint: one run at a time, and the epoch is taken first.
Enter(c) ==
    /\ pc[c] = "enter"
    /\ IF inflight THEN Idle(c) /\ UNCHANGED inflight
       ELSE inflight' = TRUE /\ Move(c, "rows", [loc[c] EXCEPT !.epoch = docEpoch])
    /\ UNCHANGED <<database, flying, engine, maps, faults>>

\* Mutant: the mutex is not looked at.
CompactPageAnyway(c) ==
    /\ pc[c] = "idle" /\ rows # {}
    /\ registry # 0 \/ \E u \in Users : conn[u].at = "on"
    /\ inflight' = TRUE
    /\ Move(c, "rows", [NoLoc EXCEPT !.epoch = docEpoch])
    /\ UNCHANGED <<database, flying, engine, maps, faults>>

\* compactPage, fired by a document's changes or stores once the log is long or
\* old; nothing waits for it to end.
CompactPage(c) ==
    /\ pc[c] = "idle" /\ rows # {} /\ ~inflight
    /\ registry # 0 \/ \E u \in Users : conn[u].at = "on"
    /\ inflight' = TRUE
    /\ Move(c, "rows", [NoLoc EXCEPT !.epoch = docEpoch])
    /\ UNCHANGED <<database, flying, engine, maps, faults>>

\* The log is read whole, whatever epoch its rows bear.
CollectRows(c) ==
    /\ pc[c] = "rows"
    /\ IF loc[c].doc = 0 /\ rows = {}
         THEN Idle(c) /\ inflight' = FALSE /\ UNCHANGED doc
         ELSE /\ Move(c, IF loc[c].doc = 0 THEN "base" ELSE "seal", [loc[c] EXCEPT !.rows = rows])
              /\ doc' = IF loc[c].doc = 0 THEN doc ELSE [doc EXCEPT ![loc[c].doc] = Apply(@, rows)]
              /\ UNCHANGED inflight
    /\ UNCHANGED <<database, flying, registry, load, conn, typed, maps, drains, faults>>

MergeBase(c) ==
    /\ pc[c] = "base"
    /\ LET from == IF page.snap = None THEN [base |-> 0, text |-> {}] ELSE page.snap
       IN Move(c, "seal", [loc[c] EXCEPT !.enc = Apply(from, loc[c].rows)])
    /\ UNCHANGED <<database, flying, engine, maps, inflight, faults>>

\* evaluateAntiShrink: nothing may replace something.
Shrinks(state) == state.text = {} /\ revs[page.rev].body # {}

SealMerge(c) ==
    LET state == IF loc[c].doc = 0 THEN loc[c].enc ELSE Encoded(c)
    IN /\ pc[c] = "seal"
       /\ IF Shrinks(state) THEN Idle(c) /\ inflight' = FALSE
          ELSE /\ Move(c, "write", [loc[c] EXCEPT !.seen = page.rev, !.enc = state])
               /\ UNCHANGED inflight
       /\ UNCHANGED <<database, flying, engine, maps, faults>>

\* Only a run whose snapshot was written may drop the rows it has folded.
WriteMerge(c) ==
    /\ pc[c] = "write"
    /\ \E ok \in {Matches(loc[c].seen, loc[c].epoch)} \cup (IF faults < MaxFaults THEN {FALSE} ELSE {}) :
        /\ Persist(c, ok)
        /\ faults' = IF ok = Matches(loc[c].seen, loc[c].epoch) THEN faults ELSE faults + 1
        /\ IF ok /\ loc[c].rows # {} THEN Goto(c, "drop") /\ UNCHANGED inflight
                                     ELSE Idle(c) /\ inflight' = FALSE
    /\ UNCHANGED <<revs, rows, flying, engine, maps>>

\* Mutant: the whole log goes.
LeftNothing(c) == {}

LeftUnfolded(c) == rows \ loc[c].rows

DropFolded(c) ==
    /\ pc[c] = "drop"
    /\ rows' = LeftUnfolded(c)
    /\ Idle(c) /\ inflight' = FALSE
    /\ UNCHANGED <<page, revs, flying, engine, maps, faults>>

-----------------------------------------------------------------------------
(* Writes from outside the editor, and crashes. *)

\* updatePage reads the whole Page; a path move is one atomic update.
Begin(x) ==
    /\ pc[x] = "idle"
    /\ Move(x, "replace", [NoLoc EXCEPT !.epoch = page.epoch])
    /\ UNCHANGED <<database, flying, engine, maps, inflight, faults>>

\* pushRevision with replaceCollabState: the epoch is what was read, plus one.
ReplaceBody(x) ==
    /\ pc[x] = "replace" /\ x \in Edits
    /\ revs' = [revs EXCEPT ![x] = [body |-> {x}, parent |-> page.rev, at |-> Clock + 1]]
    /\ page' = [rev |-> x, epoch |-> loc[x].epoch + 1, snap |-> None]
    /\ Goto(x, "clear")
    /\ UNCHANGED <<rows, flying, engine, maps, inflight, faults>>

MovePath(x) ==
    /\ pc[x] = "replace" /\ x \in Renames
    /\ page' = [page EXCEPT !.epoch = @ + 1]
    /\ Goto(x, "tell")
    /\ UNCHANGED <<revs, rows, flying, engine, maps, inflight, faults>>

ClearRows(x) ==
    /\ pc[x] = "clear"
    /\ rows' = {}
    /\ Goto(x, "tell")
    /\ UNCHANGED <<page, revs, flying, engine, maps, inflight, faults>>

(* invalidatePages: the sentinel base, the tombstone, and the stale document
   out of the registry; with no document there is nothing to drain. *)
InvalidatePages(x) ==
    /\ pc[x] = "tell"
    /\ docBase' = Sentinel
    /\ tombstone' = (registry # 0)
    /\ drains' = IF registry = 0 THEN drains ELSE drains \cup {registry}
    /\ registry' = 0
    /\ Move(x, "done", NoLoc)
    /\ UNCHANGED <<database, flying, doc, load, conn, typed, docEpoch, inflight, faults>>

\* After the grace window; the tombstone goes whoever has set it.
Drain(d) ==
    /\ d \in drains
    /\ conn' = [u \in Users |-> IF conn[u].at = "on" /\ conn[u].doc = d THEN NoConn ELSE conn[u]]
    /\ tombstone' = FALSE /\ drains' = drains \ {d}
    /\ UNCHANGED <<database, flying, doc, registry, load, typed, docBase, docEpoch, inflight,
                   pc, loc, faults>>

Crash ==
    /\ faults < MaxFaults /\ faults' = faults + 1
    /\ doc' = [d \in Docs |-> IF doc[d] = None THEN None
                             ELSE [base |-> 0, text |-> {}, epoch |-> 0, dirty |-> FALSE]]
    /\ registry' = 0 /\ load' = None /\ drains' = {} /\ flying' = {}
    /\ conn' = [u \in Users |-> IF conn[u].at = "away" THEN conn[u] ELSE NoConn]
    /\ docBase' = Unset /\ docEpoch' = Unset /\ tombstone' = FALSE /\ inflight' = FALSE
    /\ pc' = [p \in Procs |-> IF pc[p] \in {"idle", "done", "failed"} THEN pc[p]
                             ELSE IF p \in Merges THEN "idle" ELSE "failed"]
    /\ loc' = [p \in Procs |-> IF pc[p] = "done" THEN loc[p] ELSE NoLoc]
    /\ UNCHANGED <<database, typed>>

-----------------------------------------------------------------------------
Tab(u) ==
    \/ Authenticate(u) \/ Attach(u) \/ LoadRead(u) \/ Leave(u)
    \/ \E m \in Marks : Type(u, m)
    \/ \E s \in Saves : StartSave(s, u)

Save(s) ==
    \/ ReadPage(s) \/ CheckBase(s) \/ MovePointer(s) \/ AdvanceBase(s) \/ Probe(s)
    \/ SealSave(s) \/ WriteSave(s) \/ DropRows(s)

Merge(c) ==
    \/ \E d \in Docs : Store(c, d)
    \/ Enter(c) \/ CompactPage(c) \/ CollectRows(c) \/ MergeBase(c)
    \/ SealMerge(c) \/ WriteMerge(c) \/ DropFolded(c)

FromOutside(x) ==
    Begin(x) \/ ReplaceBody(x) \/ MovePath(x) \/ ClearRows(x) \/ InvalidatePages(x)

Next ==
    \/ \E u \in Users : Tab(u)
    \/ LoadReplay
    \/ \E r \in flying : AppendRow(r)
    \/ \E s \in Saves : Save(s)
    \/ \E c \in Merges : Merge(c)
    \/ \E x \in Outside : FromOutside(x)
    \/ \E d \in Docs : Unload(d) \/ Drain(d)
    \/ Crash

Spec == Init /\ [][Next]_vars
-----------------------------------------------------------------------------
\* Where a run of the compactor holds its mutex.
Running == {c \in Merges : pc[c] \in {"rows", "base", "seal", "write", "drop"}}

DataTyped ==
    /\ page \in PageType /\ revs \in [Revs -> RevType \cup {None}]
    /\ rows \cup flying \subseteq RowType
    /\ doc \in [Docs -> DocType \cup {None}] /\ registry \in 0 .. MaxLoads
    /\ load \in PageType \cup {None} /\ conn \in [Users -> ConnType] /\ typed \subseteq Marks
    /\ docBase \in Revs \cup {Unset, Sentinel} /\ docEpoch \in Nat \cup {Unset}
    /\ tombstone \in BOOLEAN /\ drains \subseteq Docs /\ inflight \in BOOLEAN
    /\ faults \in 0 .. MaxFaults

ProcTyped == pc \in [Procs -> Labels] /\ loc \in [Procs -> LocType]

(* Types of the state; a connection has a document, and at most one run of the
   compactor is between its first read and its last write (compaction.ts:320-345). *)
TypeOK ==
    /\ DataTyped /\ ProcTyped
    /\ Cardinality(Running) = (IF inflight THEN 1 ELSE 0)
    /\ \A u \in Users : conn[u].at = "on" => conn[u].doc \in Loaded

(* A save that is reported as done has its very text stored under the Revision
   it reports, its own or the one it was coalesced into (save-flow.ts:488-556). *)
ReportedTextIsStored ==
    \A s \in Saves : pc[s] = "done" /\ loc[s].into # None =>
        revs[loc[s].into].body = revs[s].body

(* A save replaces the Revision it was derived from and no other: whatever was
   written since it read the Page, from this process or from outside, stops it
   (save-flow.ts:443-488). *)
SavesChain ==
    [][page'.rev \in Saves /\ page'.rev # page.rev => revs[page'.rev].parent = page.rev]_vars

\* The document p writes from, in a step that changes the Page.
Writes(p) == pc[p] \in {"cas", "write"} /\ pc'[p] # pc[p] /\ page' # page /\ loc[p].doc # 0

(* The epoch fence (doc-epoch.ts, persist-yjs-state.ts:188): a document loaded
   before a body write or a path move reaches the Page, by a save or by a
   checkpoint, only if this process has since loaded the page again.  The map is
   keyed by the page's name, so that load opens the fence for the old document
   as well; see StaleSaveConflicts.  A compaction of a page that nobody has open
   writes from no document and is not meant here. *)
FenceHolds ==
    [][\A p \in Saves \cup Merges : Writes(p) /\ doc[loc[p].doc].epoch # page.epoch =>
         \/ \E d \in Loaded : doc[d].epoch = page.epoch
         \/ load # None /\ load.epoch = page.epoch]_vars

\* The snapshot shows the row, or its base is not the snapshot's.
Folded(r, snap) == snap # None /\ (r.base \in {0, snap.base} => r.mark \in snap.text)

(* Until the body is first saved or replaced, whatever crashes, fails or runs at
   the same time, the compactor takes a row out of the log only when the stored
   snapshot shows it, or with the epoch it was typed in (compaction.ts:298-313). *)
CompactionKeeps ==
    [][(\A r \in Revs \ {First} : revs'[r] = None) =>
         \A r \in rows \ rows' : Folded(r, page.snap) \/ r.epoch # page.epoch]_vars

(* "correctness against a stale editor is the `collabLifecycleVersion' epoch,
   enforced independently of whether this call ever reaches a live doc"
   (models/page.ts:795-797): a document loaded before an outside edit is never
   saved over it. *)
StaleSaveConflicts ==
    [][\A s \in Saves : pc[s] = "cas" /\ page'.rev = s /\ page.rev # s =>
         doc[loc[s].doc].epoch = page.epoch]_vars
=============================================================================
