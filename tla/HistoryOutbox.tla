---------------------------- MODULE HistoryOutbox ----------------------------
(***************************************************************************)
(* The page-history write path of packages/api/src/service/page-history    *)
(* for ONE page: the allocator that gives each content save its place      *)
(* (content-sequence.ts), the skeleton of the page-event commands          *)
(* (page-event-command.ts with commands/visibility.ts and                  *)
(* commands/publish-draft.ts), the single-slot outbox both claim and its   *)
(* materializer (materialize.ts), the operator's repair scans (repair.ts)  *)
(* and the hard deletion (deletion.ts, purge.ts).                          *)
(*                                                                         *)
(* MongoDB runs standalone: one document is written atomically, nothing    *)
(* wider is.  An action is therefore one database call together with the   *)
(* local computation up to the next one.  Consecutive calls are merged     *)
(* only where the second reads facts that never change once true (the      *)
(* write and the verification of a materialization, the two existence      *)
(* reads of hasSequencedHistory), so no interleaving is lost.              *)
(*                                                                         *)
(* A process is one call: a Revision's save, a command's request, a repair *)
(* run (which may be started again for ever), a deletion.  Times are       *)
(* logical: `clock' counts the Revisions prepared so far.  A Revision gets *)
(* its `createdAt' from it before it is saved, so Revisions may be saved   *)
(* in another order than they were created in.                             *)
(***************************************************************************)
EXTENDS Naturals

CONSTANTS
    Revs,       \* content Revisions; each is saved by one request
    Cmds,       \* page-event commands
    Publishers, \* the commands that are publishDraftPage; others change the grant
    Grants,     \* the grants of changePageVisibility
    Target,     \* the grant each visibility command asks for
    Scans,      \* repair processes
    Deleters,   \* requests that delete the page
    Legacy,     \* a Revision saved before tracking existed, or None
    Casts,      \* which of the processes take part, one set per kind of run
    Stray,      \* sequences a write outside the protocol may stamp on a Revision
    MaxClaim,   \* DEFAULT_MAX_CLAIM_ATTEMPTS and MAX_CLAIM_ATTEMPTS
    MaxAssist,  \* DEFAULT_MAX_DRAIN_ASSISTS
    MaxFaults,  \* bound on crashes, failed calls and stray writes
    None

Items == Revs \cup Cmds
Procs == Items \cup Scans \cup Deleters

ASSUME ConstantsAssumption ==
    /\ Revs \cap Cmds = {} /\ Items \cap Scans = {}
    /\ (Items \cup Scans) \cap Deleters = {}
    /\ Publishers \subseteq Cmds
    /\ Target \in [Cmds -> Grants]
    /\ Legacy \in Revs \cup {None}
    /\ None \notin Procs \cup Grants
    /\ Casts \subseteq SUBSET Procs /\ Stray \subseteq Nat \ {0}
    /\ MaxClaim \in Nat /\ MaxAssist \in Nat /\ MaxFaults \in Nat

VARIABLES
    page,    \* the Page document: see PageType
    born,    \* createdAt of each Revision, 0 while it is not stored
    row,     \* historySequence of a Revision, sequence of an event; 0 for none
    detail,  \* the payload of each stored event
    clock,   \* Revisions prepared so far
    pc,      \* where each process is
    loc,     \* the locals of each process
    old,     \* the newest Revision older than the repair's grace window
    faults   \* crashes, failed calls and stray writes so far

vars == <<page, born, row, detail, clock, pc, loc, old, faults>>

Values == Grants \cup {"draft", "published"}
Payload == [from : Values, to : Values]

\* The outbox slot: what is to be stored, for whom, at which sequence.  The
\* entryId of the code is fresh for each claim; here the sequence is, because
\* a claim always raises the counter.
Entry == [type : {"content_revision", "migration_revision"}, item : Revs, seq : Nat]
           \cup [type : {"page_event"}, item : Cmds, seq : Nat, payload : Payload]

ASSUME NoneAssumption == None \notin Entry

PageType == [live : BOOLEAN, tracking : {"untracked", "ready"}, seq : Nat,
             slot : Entry \cup {None}, revision : Revs \cup {None}, started : Nat,
             grant : Grants, status : {"draft", "published"}]

Labels == {"prepare", "save", "point", "check1", "read", "history", "check2", "claim",
           "heal", "heal_drain", "plan", "change", "idle", "rows", "counter", "s_claim",
           "s_check", "s_cas", "d_history", "d_read", "d_rows", "d_cas", "revisions",
           "events", "m_read", "m_write", "m_drain", "done"}

\* Where a materialization may return to.
Returns == {"check1", "plan", "idle", "s_claim", "d_read", "done"}

Modes == {"none", "promote", "next", "event", "untracked", "ready", "restored"}

LocType == [n : Nat, at : Nat, mode : Modes, from : Values \cup {None},
            claims : Nat, assists : Nat, saw : BOOLEAN, entry : Entry \cup {None},
            ret : Returns, own : BOOLEAN, todo : SUBSET Revs, cur : Revs \cup {None},
            top : Nat]

NoLoc == [n |-> 0, at |-> 0, mode |-> "none", from |-> None, claims |-> 0,
          assists |-> 0, saw |-> FALSE, entry |-> None, ret |-> "done",
          own |-> FALSE, todo |-> {}, cur |-> None, top |-> 0]

\* Where a process is before it starts and after it ends.
Start(p) == IF p \in Revs THEN "prepare" ELSE IF p \in Cmds THEN "plan" ELSE "idle"
Rest(p) == IF p \in Scans THEN "idle" ELSE "done"

-----------------------------------------------------------------------------
(* The states a deployment can start in: a page that never had history or is
   older than the feature, a page tracked since its Revision was saved, with
   that Revision stored or still staged, and such a page after a stale
   document save demoted it (content-sequence.ts:39-46), with or without its
   counter. *)
Init ==
    /\ born = [r \in Revs |-> IF r = Legacy THEN 1 ELSE 0]
    /\ clock = IF Legacy = None THEN 0 ELSE 1
    /\ \E g \in Grants, s \in {"draft", "published"}, t \in {"untracked", "ready"},
          sequenced \in BOOLEAN, kept \in BOOLEAN, staged \in BOOLEAN :
        /\ t = "ready" => kept
        /\ kept \/ staged => sequenced
        /\ sequenced => Legacy # None
        /\ row = [i \in Items |-> IF sequenced /\ ~staged /\ i = Legacy THEN 1 ELSE 0]
        /\ page = [live |-> TRUE, tracking |-> t,
                   seq |-> IF kept THEN 1 ELSE 0,
                   slot |-> IF staged
                              THEN [type |-> "content_revision", item |-> Legacy, seq |-> 1]
                              ELSE None,
                   revision |-> Legacy, started |-> IF kept THEN 2 ELSE 0,
                   grant |-> g, status |-> s]
    /\ detail = [c \in Cmds |-> None]
    /\ \E cast \in Casts :
          pc = [p \in Procs |-> IF p = Legacy \/ p \notin cast THEN "done" ELSE Start(p)]
    /\ loc = [p \in Procs |-> NoLoc]
    /\ old = 0 /\ faults = 0

-----------------------------------------------------------------------------
\* Process p goes on at l with the locals x.
Move(p, l, x) == pc' = [pc EXCEPT ![p] = l] /\ loc' = [loc EXCEPT ![p] = x]

Goto(p, l) == Move(p, l, loc[p])

Finish(p) == Move(p, Rest(p), NoLoc)

Ready == page.live /\ page.tracking = "ready"

\* isPromotableTrackingShape and its filter PROMOTABLE_TRACKING_FILTER.
Promotable == page.live /\ page.tracking = "untracked" /\ page.seq = 0

\* A stored Revision without a place: what `historySequence: null' matches.
Unsequenced(r) == born[r] # 0 /\ row[r] = 0

HasSequencedHistory == \E i \in Items : row[i] # 0

(***************************************************************************)
(* materializePendingEntry: read the slot, store what it names, clear it.  *)
(* The caller sets `ret', where to continue, and `own', whether the call   *)
(* follows its own claim: that decides where a throw is caught.            *)
(***************************************************************************)
Materialize(p, l, isOwn, extra) ==
    Move(p, "m_read", [extra EXCEPT !.ret = l, !.own = isOwn])

\* What a call keeps when it goes round its loop again.
Again(p, l) ==
    Move(p, l, [NoLoc EXCEPT !.claims = loc[p].claims, !.assists = loc[p].assists,
                             !.saw = loc[p].saw, !.todo = loc[p].todo])

Resume(p) == IF loc[p].ret = Rest(p) THEN Finish(p) ELSE Again(p, loc[p].ret)

\* The catch of each caller: an assisting request reads the page again, the
\* allocator examines its own failed entry, a repair run gives the page up.
Throw(p) ==
    IF p \in Scans THEN Finish(p)
    ELSE IF loc[p].own /\ p \in Revs THEN Goto(p, "heal")
    ELSE Resume(p)

MRead(p) ==
    /\ pc[p] = "m_read"
    /\ IF page.slot = None
         THEN Resume(p)
         ELSE Move(p, "m_write", [loc[p] EXCEPT !.entry = page.slot])
    /\ UNCHANGED <<page, born, row, detail, clock, old, faults>>

\* An event is inserted unless its id is there; a Revision is stamped only
\* while it has no sequence, and a different one found there is a throw.
StoreEvent(p, e) ==
    /\ IF row[e.item] = 0
         THEN /\ row' = [row EXCEPT ![e.item] = e.seq]
              /\ detail' = [detail EXCEPT ![e.item] = e.payload]
         ELSE UNCHANGED <<row, detail>>
    /\ Goto(p, "m_drain")

\* Mutant: the write is not idempotent, a Revision already stamped is a throw.
StampRevisionOnce(p, e) ==
    /\ IF Unsequenced(e.item)
         THEN row' = [row EXCEPT ![e.item] = e.seq] /\ Goto(p, "m_drain")
         ELSE Throw(p) /\ UNCHANGED row
    /\ UNCHANGED detail

StampRevision(p, e) ==
    /\ row' = IF Unsequenced(e.item) THEN [row EXCEPT ![e.item] = e.seq] ELSE row
    /\ IF born[e.item] # 0 /\ row'[e.item] = e.seq
         THEN Goto(p, "m_drain")
         ELSE Throw(p)
    /\ UNCHANGED detail

MWrite(p) ==
    /\ pc[p] = "m_write"
    /\ LET e == loc[p].entry
       IN  IF e.type = "page_event" THEN StoreEvent(p, e) ELSE StampRevision(p, e)
    /\ UNCHANGED <<page, born, clock, old, faults>>

\* Mutant: the slot is cleared whatever it holds by now.
DrainedAnyEntry(e) == [page EXCEPT !.slot = None]

\* drainPendingHistoryEntry: matched on the identity of the entry.
Drained(e) == IF page.slot = e THEN [page EXCEPT !.slot = None] ELSE page

MDrain(p) ==
    /\ pc[p] = "m_drain"
    /\ page' = Drained(loc[p].entry)
    /\ Resume(p)
    /\ UNCHANGED <<born, row, detail, clock, old, faults>>

-----------------------------------------------------------------------------
(***************************************************************************)
(* A content save: the Revision is prepared, with its createdAt, and its   *)
(* body rendered; it is stored; the page's pointer is moved; then          *)
(* allocateContentSequence runs.  A save whose pointer write does not      *)
(* match (the collab path) ends after the Revision is stored, as in a      *)
(* crash.                                                                  *)
(***************************************************************************)
PrepareRevision(r) ==
    /\ pc[r] = "prepare"
    /\ clock' = clock + 1
    /\ Move(r, "save", [loc[r] EXCEPT !.at = clock + 1])
    /\ UNCHANGED <<page, born, row, detail, old, faults>>

SaveRevision(r) ==
    /\ pc[r] = "save"
    /\ born' = [born EXCEPT ![r] = loc[r].at]
    /\ Move(r, "point", NoLoc)
    /\ UNCHANGED <<page, row, detail, clock, old, faults>>

MovePointer(r) ==
    /\ pc[r] = "point"
    /\ IF page.live
         THEN /\ page' = [page EXCEPT !.revision = r]
              /\ Goto(r, "check1")
         ELSE Finish(r) /\ UNCHANGED page
    /\ UNCHANGED <<born, row, detail, clock, old, faults>>

AllocCheckFirst(r) ==
    /\ pc[r] = "check1"
    /\ IF Unsequenced(r) THEN Goto(r, "read") ELSE Finish(r)
    /\ UNCHANGED <<page, born, row, detail, clock, old, faults>>

AllocRead(r) ==
    /\ pc[r] = "read"
    /\ LET promote == Promotable /\ page.slot = None /\ page.revision = r
       IN  IF promote
             THEN Move(r, "history", [loc[r] EXCEPT !.mode = "promote", !.n = 0])
           ELSE IF ~Ready THEN Finish(r)
           ELSE IF page.slot # None
             THEN IF loc[r].assists >= MaxAssist THEN Finish(r)
                  ELSE Materialize(r, "check1", FALSE,
                                   [loc[r] EXCEPT !.assists = @ + 1])
           ELSE Move(r, "check2", [loc[r] EXCEPT !.mode = "next", !.n = page.seq])
    /\ UNCHANGED <<page, born, row, detail, clock, old, faults>>

\* Mutant: the stored history is not looked at before promoting.
AllocHistorySkipped(r) ==
    /\ pc[r] = "history"
    /\ Goto(r, "check2")
    /\ UNCHANGED <<page, born, row, detail, clock, old, faults>>

\* Mutant: the first positive answer is not remembered.
AllocHistoryForgotten(r) ==
    /\ pc[r] = "history"
    /\ Goto(r, IF HasSequencedHistory THEN "check1" ELSE "check2")
    /\ UNCHANGED <<page, born, row, detail, clock, old, faults>>

AllocHistory(r) ==
    /\ pc[r] = "history"
    /\ IF ~HasSequencedHistory THEN Goto(r, "check2")
       ELSE IF loc[r].saw THEN Finish(r)
       ELSE Move(r, "check1", [loc[r] EXCEPT !.saw = TRUE])
    /\ UNCHANGED <<page, born, row, detail, clock, old, faults>>

\* The second look at the Revision; `at' is the claim's occurredAt.
AllocCheckSecond(r) ==
    /\ pc[r] = "check2"
    /\ IF ~Unsequenced(r) \/ loc[r].claims >= MaxClaim THEN Finish(r)
       ELSE Move(r, "claim", [loc[r] EXCEPT !.claims = @ + 1, !.at = clock])
    /\ UNCHANGED <<page, born, row, detail, clock, old, faults>>

ContentEntry(r, n) == [type |-> "content_revision", item |-> r, seq |-> n]

\* The promoting compare-and-set pins the pointer; trackingStartedAt comes
\* after every Revision created up to `at', those not yet saved included.
PromoteMatches(r) == Promotable /\ page.slot = None /\ page.revision = r

\* Mutant: the compare-and-set does not pin the counter.
NextMatchesAnyCounter(r) == Ready /\ page.slot = None

NextMatches(r) == Ready /\ page.seq = loc[r].n /\ page.slot = None

AllocClaim(r) ==
    /\ pc[r] = "claim"
    /\ LET n == loc[r].n + 1
           wins == IF loc[r].mode = "promote" THEN PromoteMatches(r) ELSE NextMatches(r)
       IN  IF wins
             THEN /\ page' = [page EXCEPT !.seq = n, !.slot = ContentEntry(r, n),
                                 !.tracking = "ready",
                                 !.started = IF loc[r].mode = "promote"
                                               THEN loc[r].at + 1 ELSE @]
                  /\ Materialize(r, "done", TRUE, loc[r])
             ELSE Again(r, "check1") /\ UNCHANGED page
    /\ UNCHANGED <<born, row, detail, clock, old, faults>>

\* Mutant: the failed materialization is not examined.
AllocHealNever(r) ==
    /\ pc[r] = "heal" /\ Finish(r)
    /\ UNCHANGED <<page, born, row, detail, clock, old, faults>>

\* The self-heal: only when the Revision holds a sequence other than the one
\* claimed for it can the entry never be stored; then it is drained.
AllocHeal(r) ==
    /\ pc[r] = "heal"
    /\ IF born[r] # 0 /\ row[r] \notin {0, loc[r].n + 1}
         THEN Goto(r, "heal_drain")
         ELSE Finish(r)
    /\ UNCHANGED <<page, born, row, detail, clock, old, faults>>

HealDrain(r) ==
    /\ pc[r] = "heal_drain"
    /\ page' = Drained(ContentEntry(r, loc[r].n + 1))
    /\ Finish(r)
    /\ UNCHANGED <<born, row, detail, clock, old, faults>>

-----------------------------------------------------------------------------
(***************************************************************************)
(* runPageEventCommand.  The plan of a command is its field, the value it  *)
(* asks for, and whether the change has an event.                          *)
(***************************************************************************)
Observed(c) == IF c \in Publishers THEN page.status ELSE page.grant

Requested(c) == IF c \in Publishers THEN "published" ELSE Target[c]

\* publishDraftPage has nothing to do on a page that left `draft'.
PlanIsNoop(c) == c \in Publishers /\ page.status # "draft"

\* Mutant: an occupied outbox makes the command skip its event.
PlanHasEventIfIdle(c) == Observed(c) # Requested(c) /\ page.slot = None

\* changePageVisibility always writes, and records only a real change.
PlanHasEvent(c) == Observed(c) # Requested(c)

CmdRead(c) ==
    /\ pc[c] = "plan"
    /\ IF ~page.live \/ PlanIsNoop(c) THEN Finish(c)
       ELSE IF Ready /\ PlanHasEvent(c) /\ page.slot # None
         THEN IF loc[c].assists >= MaxAssist THEN Finish(c)
              ELSE Materialize(c, "plan", FALSE, [loc[c] EXCEPT !.assists = @ + 1])
       ELSE IF loc[c].claims >= MaxClaim THEN Finish(c)
       ELSE Move(c, "change", [loc[c] EXCEPT
                !.claims = @ + 1, !.n = page.seq, !.from = Observed(c),
                !.mode = IF Ready /\ PlanHasEvent(c) THEN "event" ELSE page.tracking])
    /\ UNCHANGED <<page, born, row, detail, clock, old, faults>>

WithField(c, v) ==
    IF c \in Publishers THEN [page EXCEPT !.status = v] ELSE [page EXCEPT !.grant = v]

EventEntry(c, n, from) ==
    [type |-> "page_event", item |-> c, seq |-> n,
     payload |-> [from |-> from, to |-> Requested(c)]]

\* The change and the staged event are one compare-and-set on the Page.
CmdRecord(c) ==
    /\ pc[c] = "change" /\ loc[c].mode = "event"
    /\ IF NextMatches(c) /\ Observed(c) = loc[c].from
         THEN /\ page' = [WithField(c, Requested(c)) EXCEPT
                             !.seq = loc[c].n + 1,
                             !.slot = EventEntry(c, loc[c].n + 1, loc[c].from)]
              /\ Materialize(c, "done", TRUE, loc[c])
         ELSE Again(c, "plan") /\ UNCHANGED page
    /\ UNCHANGED <<born, row, detail, clock, old, faults>>

\* The branch without an event pins the value and the tracking state observed.
SilentMatches(c) ==
    page.live /\ Observed(c) = loc[c].from /\ page.tracking = loc[c].mode

CmdSilent(c) ==
    /\ pc[c] = "change" /\ loc[c].mode # "event"
    /\ IF SilentMatches(c)
         THEN page' = WithField(c, Requested(c)) /\ Finish(c)
         ELSE Again(c, "plan") /\ UNCHANGED page
    /\ UNCHANGED <<born, row, detail, clock, old, faults>>

-----------------------------------------------------------------------------
(***************************************************************************)
(* The repair runs an operator starts (`crowi-admin page-history repair'). *)
(***************************************************************************)
RepairOutbox(s) ==
    /\ pc[s] = "idle" /\ page.slot # None
    /\ Materialize(s, "idle", FALSE, NoLoc)
    /\ UNCHANGED <<page, born, row, detail, clock, old, faults>>

ScanStart(s) ==
    /\ pc[s] = "idle" /\ page.live
    /\ Goto(s, IF Ready THEN "rows" ELSE "d_history")
    /\ UNCHANGED <<page, born, row, detail, clock, old, faults>>

Placed == {i \in Items : row[i] # 0}

\* The largest sequence a row holds (Math.max over the owners, 0 for none).
Assigned == {row[i] : i \in Items} \cup {0}

IsMaxAssigned(m) == \A i \in Items : row[i] <= m

SharedSequence == \E i, j \in Placed : i # j /\ row[i] = row[j]

\* collectSequenceOwners: a sequence held twice blocks the page.
ScanRows(s) ==
    /\ pc[s] = "rows"
    /\ \/ SharedSequence /\ Finish(s)
       \/ /\ ~SharedSequence
          /\ \E m \in Assigned :
               IsMaxAssigned(m) /\ Move(s, "counter", [loc[s] EXCEPT !.top = m])
    /\ UNCHANGED <<page, born, row, detail, clock, old, faults>>

\* Mutant: only the Revision the page points at is looked for.
MissingPointedAt(s) ==
    {r \in Revs : /\ Unsequenced(r) /\ r = page.revision
                  /\ born[r] >= page.started
                  /\ (loc[s].mode = "restored" \/ born[r] <= old)}

\* The counter is read after the rows; one behind them blocks the page.
\* The scan of a page it has just restored has no grace window.
Missing(s) ==
    {r \in Revs : /\ Unsequenced(r)
                  /\ born[r] >= page.started
                  /\ (loc[s].mode = "restored" \/ born[r] <= old)}

Blocks(s) == page.seq < loc[s].top

\* On to the next Revision of `rest', or the end of the page.
SkipTo(s, rest) ==
    IF rest = {} THEN Finish(s)
    ELSE Move(s, "s_claim", [loc[s] EXCEPT !.todo = rest, !.claims = 0])

ScanCounter(s) ==
    /\ pc[s] = "counter"
    /\ IF ~page.live \/ Blocks(s) THEN Finish(s) ELSE SkipTo(s, Missing(s))
    /\ UNCHANGED <<page, born, row, detail, clock, old, faults>>

\* claimAndAssignSequence over the missing Revisions, oldest first.
IsOldest(r, R) == \A q \in R : born[r] <= born[q]

ScanClaimRead(s) ==
    /\ pc[s] = "s_claim"
    /\ \E r \in loc[s].todo :
        /\ IsOldest(r, loc[s].todo)
        /\ IF ~page.live \/ loc[s].claims >= MaxClaim THEN SkipTo(s, loc[s].todo \ {r})
           ELSE IF page.slot # None
             THEN Materialize(s, "s_claim", FALSE, [loc[s] EXCEPT !.claims = @ + 1])
           ELSE Move(s, "s_check", [loc[s] EXCEPT !.n = page.seq, !.cur = r,
                                                  !.claims = @ + 1])
    /\ UNCHANGED <<page, born, row, detail, clock, old, faults>>

\* Mutant: the list made at the start of the scan is trusted.
ScanCheckSkipped(s) ==
    /\ pc[s] = "s_check" /\ Goto(s, "s_cas")
    /\ UNCHANGED <<page, born, row, detail, clock, old, faults>>

\* Mutant: the wrong discriminator.
MigrationEntryMistyped(r, n) == [type |-> "page_event", item |-> r, seq |-> n]

\* The Revision is examined after the page: the order is load-bearing.
ScanCheck(s) ==
    /\ pc[s] = "s_check"
    /\ IF Unsequenced(loc[s].cur) THEN Goto(s, "s_cas")
       ELSE SkipTo(s, loc[s].todo \ {loc[s].cur})
    /\ UNCHANGED <<page, born, row, detail, clock, old, faults>>

MigrationEntry(r, n) == [type |-> "migration_revision", item |-> r, seq |-> n]

ScanMatches(s) == page.live /\ page.seq = loc[s].n /\ page.slot = None

ScanClaim(s) ==
    /\ pc[s] = "s_cas"
    /\ LET rest == loc[s].todo \ {loc[s].cur}
       IN  IF ScanMatches(s)
             THEN /\ page' = [page EXCEPT !.seq = loc[s].n + 1,
                                 !.slot = MigrationEntry(loc[s].cur, loc[s].n + 1)]
                  /\ Materialize(s, IF rest = {} THEN "idle" ELSE "s_claim", TRUE,
                                 [loc[s] EXCEPT !.todo = rest, !.claims = 0])
             ELSE Again(s, "s_claim") /\ UNCHANGED page
    /\ UNCHANGED <<born, row, detail, clock, old, faults>>

(***************************************************************************)
(* restoreDemotedPage: an untracked page with sequenced history gets its   *)
(* tracking back, with a counter that covers every stored sequence.        *)
(***************************************************************************)
DemotedHistory(s) ==
    /\ pc[s] = "d_history"
    /\ IF HasSequencedHistory THEN Goto(s, "d_read") ELSE Finish(s)
    /\ UNCHANGED <<page, born, row, detail, clock, old, faults>>

DemotedRead(s) ==
    /\ pc[s] = "d_read"
    /\ IF ~page.live \/ Ready THEN Finish(s)
       ELSE IF page.slot # None
         THEN IF loc[s].assists > 0 THEN Finish(s)
              ELSE Materialize(s, "d_read", FALSE, [loc[s] EXCEPT !.assists = 1])
       ELSE Move(s, "d_rows", [loc[s] EXCEPT !.n = page.seq, !.at = page.started])
    /\ UNCHANGED <<page, born, row, detail, clock, old, faults>>

\* The tracking start is the recorded one, or else the createdAt of the
\* Revision with the lowest sequence; without either the page is blocked.
StartsToRestore(s) ==
    IF loc[s].at # 0 THEN {loc[s].at}
    ELSE {born[r] : r \in {q \in Revs \cap Placed : \A i \in Placed : row[q] <= row[i]}}
           \ {0}

DemotedRows(s) ==
    /\ pc[s] = "d_rows"
    /\ \/ (SharedSequence \/ StartsToRestore(s) = {}) /\ Finish(s)
       \/ /\ ~SharedSequence
          /\ \E start \in StartsToRestore(s), m \in Assigned :
               /\ IsMaxAssigned(m)
               /\ Move(s, "d_cas", [loc[s] EXCEPT !.at = start, !.top = m])
    /\ UNCHANGED <<page, born, row, detail, clock, old, faults>>

RestoreMatches(s) ==
    page.live /\ page.tracking = "untracked" /\ page.seq = loc[s].n /\ page.slot = None

\* Mutant: the counter is left as the demotion had it.
DemotedRestoreKeepsCounter(s) ==
    /\ pc[s] = "d_cas"
    /\ IF RestoreMatches(s)
         THEN /\ page' = [page EXCEPT !.tracking = "ready", !.started = loc[s].at]
              /\ Move(s, "rows", [NoLoc EXCEPT !.mode = "restored"])
         ELSE Finish(s) /\ UNCHANGED page
    /\ UNCHANGED <<born, row, detail, clock, old, faults>>

\* Only restoring once leads on to the scan of the ready page.
DemotedRestore(s) ==
    /\ pc[s] = "d_cas"
    /\ IF RestoreMatches(s)
         THEN /\ page' = [page EXCEPT !.tracking = "ready", !.started = loc[s].at,
                             !.seq = IF loc[s].top > loc[s].n THEN loc[s].top ELSE @]
              /\ Move(s, "rows", [NoLoc EXCEPT !.mode = "restored"])
         ELSE Finish(s) /\ UNCHANGED page
    /\ UNCHANGED <<born, row, detail, clock, old, faults>>

\* Time passes: one more Revision leaves the grace window, which repairs look at.
Age ==
    /\ \E s \in Scans : pc[s] # "done"
    /\ old < clock /\ old' = old + 1
    /\ UNCHANGED <<page, born, row, detail, clock, pc, loc, faults>>

-----------------------------------------------------------------------------
(***************************************************************************)
(* deletePageWithMode: the Page goes first; each cleanup step may fail     *)
(* without stopping the next (PageCleanupIncompleteError).                 *)
(***************************************************************************)
DeletePage(d) ==
    /\ pc[d] = "idle"
    /\ page' = [page EXCEPT !.live = FALSE, !.slot = None]
    /\ Goto(d, "revisions")
    /\ UNCHANGED <<born, row, detail, clock, old, faults>>

RemoveRevisions(d) ==
    /\ pc[d] = "revisions"
    /\ born' = [r \in Revs |-> 0]
    /\ row' = [i \in Items |-> IF i \in Revs THEN 0 ELSE row[i]]
    /\ Goto(d, "events")
    /\ UNCHANGED <<page, detail, clock, old, faults>>

PurgeEvents(d) ==
    /\ pc[d] = "events"
    /\ row' = [i \in Items |-> IF i \in Cmds THEN 0 ELSE row[i]]
    /\ detail' = [c \in Cmds |-> None]
    /\ Goto(d, "done")
    /\ UNCHANGED <<page, born, clock, old, faults>>

-----------------------------------------------------------------------------
(***************************************************************************)
(* Faults: a process stops between two calls, a database call inside a     *)
(* materialization throws, a Revision is stamped outside the protocol.     *)
(***************************************************************************)
Fault == faults < MaxFaults /\ faults' = faults + 1

Crash(p) ==
    /\ pc[p] \notin {Start(p), Rest(p), "done"}
    /\ Fault
    /\ Finish(p)
    /\ UNCHANGED <<page, born, row, detail, clock, old>>

CallFails(p) ==
    /\ \/ pc[p] \in {"m_read", "m_write", "m_drain"} /\ Throw(p)
       \/ pc[p] = "revisions" /\ Goto(p, "events")
    /\ Fault
    /\ UNCHANGED <<page, born, row, detail, clock, old>>

StrayWrite(r) ==
    /\ Unsequenced(r)
    /\ \E q \in Stray : row' = [row EXCEPT ![r] = q]
    /\ Fault
    /\ UNCHANGED <<page, born, detail, clock, pc, loc, old>>

-----------------------------------------------------------------------------
MaterializeStep(p) == MRead(p) \/ MWrite(p) \/ MDrain(p)

SaveStep(r) ==
    \/ PrepareRevision(r) \/ SaveRevision(r) \/ MovePointer(r)
    \/ AllocCheckFirst(r) \/ AllocRead(r) \/ AllocHistory(r) \/ AllocCheckSecond(r)
    \/ AllocClaim(r) \/ AllocHeal(r) \/ HealDrain(r) \/ MaterializeStep(r)

CmdStep(c) == CmdRead(c) \/ CmdRecord(c) \/ CmdSilent(c) \/ MaterializeStep(c)

RepairStep(s) ==
    \/ ScanRows(s) \/ ScanCounter(s) \/ ScanClaimRead(s) \/ ScanCheck(s)
    \/ ScanClaim(s) \/ DemotedHistory(s) \/ DemotedRead(s) \/ DemotedRows(s)
    \/ DemotedRestore(s) \/ MaterializeStep(s)

DeleteStep(d) == DeletePage(d) \/ RemoveRevisions(d) \/ PurgeEvents(d)

Next ==
    \/ \E r \in Revs : SaveStep(r) \/ StrayWrite(r)
    \/ \E c \in Cmds : CmdStep(c)
    \/ \E s \in Scans : RepairOutbox(s) \/ ScanStart(s) \/ RepairStep(s) \/ Age
    \/ \E d \in Deleters : DeleteStep(d)
    \/ \E p \in Procs : Crash(p) \/ CallFails(p)

Spec == Init /\ [][Next]_vars

\* A request that has not crashed goes on; the operator keeps repairing.
Fairness ==
    /\ \A r \in Revs : WF_vars(SaveStep(r))
    /\ \A c \in Cmds : WF_vars(CmdStep(c))
    /\ \A s \in Scans : /\ WF_vars(RepairStep(s))
                         /\ SF_vars(RepairOutbox(s))
                         /\ SF_vars(ScanStart(s))
                         /\ WF_vars(Age)

FairSpec == Spec /\ Fairness

-----------------------------------------------------------------------------
\* Every document and every local has its type: the slot in particular holds
\* only entries that some materializer knows how to store.
TypeOK ==
    /\ page \in PageType
    /\ born \in [Revs -> Nat]
    /\ row \in [Items -> Nat]
    /\ detail \in [Cmds -> Payload \cup {None}]
    /\ clock \in Nat /\ old \in Nat /\ faults \in Nat
    /\ pc \in [Procs -> Labels]
    /\ loc \in [Procs -> LocType]

\* The timeline a reader is owed: what is stored, and what is staged.
Staged(i) == page.slot # None /\ page.slot.item = i

PlaceOf(i) == IF ~page.live THEN 0 ELSE IF Staged(i) THEN page.slot.seq ELSE row[i]

PayloadOf(c) == IF Staged(c) THEN page.slot.payload ELSE detail[c]

\* No two items of a page ever share a sequence, stored or staged (the
\* cross-collection invariant no index can enforce).
NoSharedSequence ==
    \A i, j \in Items : PlaceOf(i) = PlaceOf(j) /\ PlaceOf(i) # 0 => i = j

\* The occupied slot can always be stored: the Revision it names has no
\* sequence yet, or already this one.  Otherwise the slot is jammed for ever.
SlotCanSettle ==
    page.slot # None => row[page.slot.item] \in {0, page.slot.seq}

\* A scan never finds the counter of a healthy page behind its rows, whatever
\* allocated between its two reads, so it never blocks such a page.
NeverBlocksHealthyPage ==
    \A s \in Scans : pc[s] = "counter" /\ page.live => ~Blocks(s)

\* The recorded visibility changes chain: each starts from the grant the one
\* before it set, and the last one set the grant the page has now.
VisibilityChain ==
    LET moved == {c \in Cmds \ Publishers : PlaceOf(c) # 0}
        after(c) == {d \in moved : PlaceOf(d) > PlaceOf(c)}
    IN  \A c \in moved :
          /\ after(c) = {} => PayloadOf(c).to = page.grant
          /\ \A d \in after(c) : (\A e \in after(c) : PlaceOf(d) <= PlaceOf(e))
                => PayloadOf(c).to = PayloadOf(d).from

\* The outbox protocol implements the timeline: staging is the atomic step,
\* storing and draining are invisible.
Timeline == INSTANCE PageTimeline WITH
    place <- [i \in Items |-> PlaceOf(i)],
    last <- page.seq,
    open <- page.tracking = "ready",
    value <- <<page.grant, page.status>>,
    gone <- ~page.live

TimelineSpec == Timeline!Spec

\* An occupied slot is eventually cleared, whoever crashed holding it.
SlotDrains == page.slot # None ~> page.slot = None

\* A slot jammed by a write outside the protocol is cleared by the request
\* that claimed it, if that request is still there (allocateContentSequence's
\* self-heal); the faults of the run are spent on the write, not on a crash.
Jammed(r) == ~SlotCanSettle /\ page.slot.item = r

JamIsHealed == \A r \in Revs : (Jammed(r) /\ pc[r] # "done") ~> ~Jammed(r)

\* Every Revision created since tracking began gets its place in the end, even
\* if its own request died or gave up under contention.  One created before and
\* saved after is below the boundary: the repair does not look for it.
EveryRevisionPlaced ==
    \A r \in Revs : (Ready /\ born[r] # 0 /\ born[r] >= page.started)
                     ~> (row[r] # 0 \/ ~page.live)

\* The retry budgets end every request, even beside a slot nobody can clear.
RequestsEnd == \A p \in Items : pc[p] # Start(p) ~> pc[p] = "done"

-----------------------------------------------------------------------------
\* purge.ts:42-45 says that once Page.deleteOne has committed, no new event of
\* the page can ever be created.
NoEventAfterDelete ==
    [][\A c \in Cmds : ~page.live /\ row'[c] # 0 => row[c] # 0]_vars

\* repair.ts:849-853 says that a Revision written before its page was promoted
\* must never be given a sequence after the one that promoted it.
BelowBoundaryUnplaced ==
    \A r \in Revs : page.tracking = "ready" /\ PlaceOf(r) > 1 => born[r] >= page.started
=============================================================================
