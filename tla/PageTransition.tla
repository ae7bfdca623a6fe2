--------------------------- MODULE PageTransition ---------------------------
(***************************************************************************)
(* The operations that move ONE page: rename, trash and restore, with the  *)
(* idempotency records they run under and the operator's sweep of stranded *)
(* operations (packages/api/src/service/page-history: transition.ts,       *)
(* operation.ts, commands/rename.ts, commands/trash.ts, commands/restore.ts *)
(* and their handlers in hono/handlers/page.ts).                           *)
(*                                                                         *)
(* A move is two compare-and-sets on the Page with work in between: the    *)
(* first claims the page, sets its new path and hides it (`renaming'), the *)
(* second gives it its final status, releases it and stages the event.     *)
(* The same request may be delivered several times under one key; each     *)
(* delivery, and the sweep, may resume what another one left.  An action   *)
(* is one database call with the local computation up to the next one.     *)
(*                                                                         *)
(* What becomes of a staged event is the subject of HistoryOutbox; here    *)
(* storing and draining it are one step, the sequence of the page advances *)
(* only with its moves, and the one thing that can keep an event from      *)
(* being stored is an earlier one of the same operation.                   *)
(***************************************************************************)
EXTENDS Naturals, Sequences

CONSTANTS
    Ops,        \* idempotency keys: each names one operation
    Command,    \* "rename", "trash" or "restore", for each operation
    Target,     \* the path each rename asks for
    Redirects,  \* the renames that ask for a redirect stub
    Deliveries, \* requests; several may carry the same key
    Key,        \* the operation each delivery carries
    Sweeps,     \* runs of resumeStrandedTransitions
    Deleters,   \* requests that delete the page outright
    Paths, Home,\* the paths, and the one the page starts at
    TrashOf,    \* getDeletedPageName; a page is trashed from its domain
    RestoreOf,  \* getRevertDeletedPageName, where it changes the path
    Starts,     \* kinds of run: who takes part, and whether the page is tracked
    MaxEnter,   \* DEFAULT_MAX_ENTER_ATTEMPTS
    MaxClaim,   \* DEFAULT_MAX_CLAIM_ATTEMPTS
    MaxFaults,  \* bound on crashes
    None

Movers == Deliveries \cup Sweeps
Procs == Movers \cup Deleters

ASSUME ConstantsAssumption ==
    /\ Command \in [Ops -> {"rename", "trash", "restore"}]
    /\ Target \in [Ops -> Paths] /\ Redirects \subseteq Ops
    /\ Key \in [Deliveries -> Ops]
    /\ Deliveries \cap Sweeps = {} /\ Movers \cap Deleters = {}
    /\ Home \in Paths
    /\ DOMAIN TrashOf \subseteq Paths /\ \A p \in DOMAIN TrashOf : TrashOf[p] \in Paths \ {p}
    /\ DOMAIN RestoreOf \subseteq Paths /\ \A p \in DOMAIN RestoreOf : RestoreOf[p] \in Paths \ {p}
    /\ Starts \subseteq [cast : SUBSET Procs, tracked : BOOLEAN]
    /\ MaxEnter \in Nat /\ MaxClaim \in Nat /\ MaxFaults \in Nat
    /\ None \notin Ops \cup Paths

VARIABLES
    page,    \* the Page document
    stubs,   \* the redirect each path holds, or None
    record,  \* the PageHistoryOperation of each key, or None
    log,     \* the operations whose event the page has, in sequence order
    done,    \* how often each operation has committed a move (history only)
    pc, loc, \* where each process is, and its locals
    faults   \* crashes so far

vars == <<page, stubs, record, log, done, pc, loc, faults>>

Settled == {"published", "deleted"}

Statuses == Settled \cup {"renaming"}

\* `staged': the last event of the log still waits in the outbox slot; `legacy': the page
\* had no history at the start (history only).
PageType == [live : BOOLEAN, path : Paths, status : Statuses, holder : Ops \cup {None},
             ready : BOOLEAN, staged : BOOLEAN, legacy : BOOLEAN]

Results == {"open", "succeeded", "failed", "moot"}

RecordType == [from : Paths, to : Paths, fromStatus : Settled, toStatus : Settled,
               result : Results, old : BOOLEAN]

\* A missing record is no record, and no place is a place to go.
ASSUME NoneAssumption == None \notin RecordType /\ None \notin Paths \X Settled

Labels == {"read", "resolve", "prepare", "create", "reread", "promote", "enter",
           "classify", "reload", "vacate", "exit_read", "exit", "store", "evidence",
           "assist", "row", "complete", "moot", "correct", "judge", "fail", "delete",
           "purge", "idle", "done"}

LocType == [op : Ops \cup {None}, path : Paths \cup {None}, status : Statuses \cup {None},
            ready : BOOLEAN, enters : Nat, claims : Nat, n : Nat, event : BOOLEAN,
            next : Labels, settled : BOOLEAN, failed : BOOLEAN]

NoLoc == [op |-> None, path |-> None, status |-> None, ready |-> FALSE, enters |-> 0,
          claims |-> 0, n |-> 0, event |-> FALSE, next |-> "done", settled |-> FALSE,
          failed |-> FALSE]

Start(p) == IF p \in Deliveries THEN "read" ELSE "idle"
Rest(p) == IF p \in Sweeps THEN "idle" ELSE "done"

Init ==
    /\ \E start \in Starts :
         /\ page = [live |-> TRUE, path |-> Home, status |-> "published", holder |-> None,
                    ready |-> start.tracked, staged |-> FALSE, legacy |-> ~start.tracked]
         /\ pc = [p \in Procs |-> IF p \in start.cast THEN Start(p) ELSE "done"]
    /\ stubs = [p \in Paths |-> None]
    /\ record = [o \in Ops |-> None]
    /\ log = <<>>
    /\ done = [o \in Ops |-> 0]
    /\ loc = [p \in Procs |-> NoLoc]
    /\ faults = 0

-----------------------------------------------------------------------------
Move(p, l, x) == pc' = [pc EXCEPT ![p] = l] /\ loc' = [loc EXCEPT ![p] = x]

Goto(p, l) == Move(p, l, loc[p])

Finish(p) == Move(p, Rest(p), NoLoc)

Op(p) == loc[p].op
Rec(p) == record[loc[p].op]

\* All a process still needs once the record holds the rest.
For(p) == [NoLoc EXCEPT !.op = Op(p)]

\* A step that only reads leaves every document alone.
ReadOnly == UNCHANGED <<page, stubs, record, log, done, faults>>

\* What a Page says of an operation (classifyResume).
Classify(o) ==
    IF ~page.live THEN "page-missing"
    ELSE IF page.holder = o THEN "resume-own"
    ELSE IF page.holder # None THEN "owned-elsewhere"
    ELSE IF page.path = record[o].to /\ page.status = record[o].toStatus THEN "already-settled"
    ELSE IF page.path = record[o].from /\ page.status = record[o].fromStatus THEN "not-entered"
    ELSE "indeterminate"

-----------------------------------------------------------------------------
(***************************************************************************)
(* A delivery: read the page, resolve the key, and on a miss check the     *)
(* destination and create the record, which decides who goes first.        *)
(***************************************************************************)
Read(d) ==
    /\ pc[d] = "read"
    /\ IF page.live
         THEN Move(d, "resolve", [loc[d] EXCEPT !.op = Key[d], !.path = page.path,
                                     !.status = page.status, !.ready = page.ready])
         ELSE Finish(d)
    /\ ReadOnly

\* Mutant: a new move may start while the page is hidden by another one.
ResolveInTransit(d) ==
    /\ pc[d] = "resolve"
    /\ IF Rec(d) = None THEN Goto(d, "prepare")
       ELSE IF Rec(d).result = "open" THEN Goto(d, "reread")
       ELSE Finish(d)
    /\ ReadOnly

\* A settled key is replayed and changes nothing; an open one is resumed; a
\* new one is refused while the page is on its way somewhere else.
Resolve(d) ==
    /\ pc[d] = "resolve"
    /\ IF Rec(d) = None
         THEN IF loc[d].status = "renaming" THEN Finish(d) ELSE Goto(d, "prepare")
       ELSE IF Rec(d).result = "open" THEN Goto(d, "reread")
       ELSE Finish(d)
    /\ ReadOnly

\* Where a first delivery would move the page, from where it read it.
Destination(d) ==
    CASE Command[Op(d)] = "rename" -> Target[Op(d)]
      [] Command[Op(d)] = "trash" -> TrashOf[loc[d].path]
      [] Command[Op(d)] = "restore" -> RestoreOf[loc[d].path]

\* A rename removes any redirect from its destination, a restore only the one
\* that leads back to the page; the page itself is a refusal.
Prepare(d) ==
    /\ pc[d] = "prepare"
    /\ LET o == Op(d)
           here == loc[d].path
       IN  \/ /\ Command[o] = "rename"
              /\ IF page.live /\ page.path = Target[o]
                   THEN Finish(d) /\ UNCHANGED stubs
                   ELSE stubs' = [stubs EXCEPT ![Target[o]] = None] /\ Goto(d, "create")
           \/ /\ Command[o] = "trash"
              /\ IF here \in DOMAIN TrashOf THEN Goto(d, "create") ELSE Finish(d)
              /\ UNCHANGED stubs
           \/ /\ Command[o] = "restore"
              /\ IF here \in DOMAIN RestoreOf /\ stubs[RestoreOf[here]] \in {here, None}
                                              /\ ~(page.live /\ page.path = RestoreOf[here])
                   THEN stubs' = [stubs EXCEPT ![RestoreOf[here]] = None] /\ Goto(d, "create")
                   ELSE Finish(d) /\ UNCHANGED stubs
    /\ UNCHANGED <<page, record, log, done, faults>>

FinalStatus(d) ==
    CASE Command[Op(d)] = "rename" -> loc[d].status
      [] Command[Op(d)] = "trash" -> "deleted"
      [] Command[Op(d)] = "restore" -> "published"

\* An untracked page is promoted before it is renamed.
Begin(o, ready) == IF Command[o] = "rename" /\ ~ready THEN "promote" ELSE "enter"

\* The unique index arbitrates; the loser answers that a move is in progress.
Create(d) ==
    /\ pc[d] = "create"
    /\ IF Rec(d) = None
         THEN /\ record' = [record EXCEPT ![Op(d)] =
                    [from |-> loc[d].path, to |-> Destination(d),
                     fromStatus |-> loc[d].status, toStatus |-> FinalStatus(d),
                     result |-> "open", old |-> FALSE]]
              /\ Move(d, Begin(Op(d), loc[d].ready), For(d))
         ELSE Finish(d) /\ UNCHANGED record
    /\ UNCHANGED <<page, stubs, log, done, faults>>

\* What a caller does when the page turns out to be deleted.
Missing(p) == IF p \in Sweeps THEN Finish(p) ELSE Goto(p, "moot")

\* Resuming an operation starts from the page and the record.
Reread(p) ==
    /\ pc[p] = "reread"
    /\ IF page.live
         THEN Move(p, Begin(Op(p), page.ready), For(p))
         ELSE Missing(p)
    /\ ReadOnly

-----------------------------------------------------------------------------
(***************************************************************************)
(* The move: runPageTransition.                                            *)
(***************************************************************************)
\* allocateContentSequence with promotionOnly: the page becomes tracked, is
\* not eligible, or the attempt is contended, before or after the promotion.
Promote(p) ==
    /\ pc[p] = "promote"
    /\ IF ~page.live THEN Missing(p) /\ UNCHANGED page
       ELSE IF page.ready \/ page.path # Rec(p).from THEN Goto(p, "enter") /\ UNCHANGED page
       ELSE \/ page' = [page EXCEPT !.ready = TRUE] /\ (Goto(p, "enter") \/ Finish(p))
            \/ UNCHANGED page /\ (Goto(p, "enter") \/ Finish(p))
    /\ UNCHANGED <<stubs, record, log, done, faults>>

\* Mutant: the compare-and-set pins the path and not who holds the page.
EnterMatchesByPath(p) == page.live /\ page.path = Rec(p).from

EnterMatches(p) ==
    /\ page.live /\ page.path = Rec(p).from
    /\ page.holder = None /\ page.status = Rec(p).fromStatus

\* The unique index on the path makes the update throw when a redirect has
\* taken the destination; the record stays open.
Enter(p) ==
    /\ pc[p] = "enter"
    /\ IF ~EnterMatches(p) THEN Goto(p, "classify") /\ UNCHANGED page
       ELSE IF stubs[Rec(p).to] # None THEN Finish(p) /\ UNCHANGED page
       ELSE /\ page' = [page EXCEPT !.path = Rec(p).to, !.status = "renaming",
                                    !.holder = Op(p)]
            /\ Move(p, "vacate", For(p))
    /\ UNCHANGED <<stubs, record, log, done, faults>>

ClassifyEntry(p) ==
    /\ pc[p] = "classify"
    /\ LET decision == Classify(Op(p))
       IN  \/ decision = "resume-own" /\ Move(p, "reload", [loc[p] EXCEPT !.next = "vacate"])
           \/ decision = "already-settled" /\ Move(p, "reload", [loc[p] EXCEPT !.next = "evidence"])
           \/ /\ decision = "not-entered"
              /\ IF loc[p].enters + 1 < MaxEnter
                   THEN Move(p, "enter", [loc[p] EXCEPT !.enters = @ + 1])
                   ELSE Finish(p)
           \/ decision \in {"owned-elsewhere", "indeterminate"} /\ Finish(p)
           \/ decision = "page-missing" /\ Missing(p)
    /\ ReadOnly

\* The evidence that follows a command only completes its record.
AfterCommand(p) == [For(p) EXCEPT !.next = "complete"]

Reload(p) ==
    /\ pc[p] = "reload"
    /\ IF ~page.live THEN Missing(p)
       ELSE IF loc[p].next = "vacate" THEN Move(p, "vacate", For(p))
       ELSE Move(p, "evidence", AfterCommand(p))
    /\ ReadOnly

\* afterEnter and settleVacatedPath: the old path gets a redirect unless
\* something has taken it.
LeavesStub(o) == Command[o] = "trash" \/ o \in Redirects

Vacate(p) ==
    /\ pc[p] = "vacate"
    /\ LET from == Rec(p).from
       IN  stubs' = IF /\ LeavesStub(Op(p)) /\ stubs[from] = None
                       /\ ~(page.live /\ page.path = from)
                      THEN [stubs EXCEPT ![from] = Rec(p).to] ELSE stubs
    /\ Goto(p, "exit_read")
    /\ UNCHANGED <<page, record, log, done, faults>>

\* Events are unique by page, operation and kind: the second one of an operation
\* cannot be stored, by anybody, and keeps the only slot of the page.
Jammed ==
    /\ page.staged
    /\ \E i \in DOMAIN log : i < Len(log) /\ log[i] = log[Len(log)]

\* The page once somebody has tried to store what is staged.
Drained == IF Jammed THEN page ELSE [page EXCEPT !.staged = FALSE]

\* runPageEventCommand's snapshot; an occupied slot is materialized first, until
\* the budget of these assists is used up.
ExitRead(p) ==
    /\ pc[p] = "exit_read"
    /\ IF ~page.live \/ (loc[p].claims >= MaxClaim /\ ~(page.ready /\ page.staged))
         THEN Finish(p) /\ UNCHANGED page
       ELSE IF page.ready /\ page.staged
         THEN (IF Jammed THEN Finish(p) ELSE Goto(p, "exit_read")) /\ page' = Drained
       ELSE /\ Move(p, "exit", [loc[p] EXCEPT !.claims = @ + 1, !.n = Len(log),
                                              !.event = page.ready])
            /\ UNCHANGED page
    /\ UNCHANGED <<stubs, record, log, done, faults>>

\* Mutant: the compare-and-set does not pin the operation.
ExitMatchesAnyHolder(p) ==
    /\ page.live /\ page.path = Rec(p).to
    /\ page.ready = loc[p].event
    /\ loc[p].event => Len(log) = loc[p].n /\ ~page.staged

ExitMatches(p) ==
    /\ page.live /\ page.holder = Op(p) /\ page.path = Rec(p).to
    /\ page.ready = loc[p].event
    /\ loc[p].event => Len(log) = loc[p].n /\ ~page.staged

Exit(p) ==
    /\ pc[p] = "exit"
    /\ IF ExitMatches(p)
         THEN /\ page' = [page EXCEPT !.status = Rec(p).toStatus, !.holder = None,
                                      !.staged = loc[p].event]
              /\ log' = IF loc[p].event THEN Append(log, Op(p)) ELSE log
              /\ done' = [done EXCEPT ![Op(p)] = @ + 1]
              /\ IF loc[p].event THEN Goto(p, "store") ELSE Move(p, "evidence", AfterCommand(p))
         ELSE Goto(p, "exit_read") /\ UNCHANGED <<page, log, done>>
    /\ UNCHANGED <<stubs, record, faults>>

\* The move is committed whether its event could be stored or not.
Store(p) ==
    /\ pc[p] = "store"
    /\ page' = Drained
    /\ Move(p, "evidence", AfterCommand(p))
    /\ UNCHANGED <<stubs, record, log, done, faults>>

-----------------------------------------------------------------------------
(***************************************************************************)
(* hasOperationCompletionEvidence: the page first, then the stored events. *)
(***************************************************************************)
StagedFor(o) == page.live /\ page.staged /\ log[Len(log)] = o

Stored(o) == \E i \in DOMAIN log : log[i] = o /\ ~(page.live /\ page.staged /\ i = Len(log))

\* Only the position of an untracked page can prove a move.
\* Mutant: the position is taken for proof on a tracked page as well.
PositionProvesAny(o) == page.live /\ Classify(o) = "already-settled"

\* Mutant: the status alone is taken for the position.
PositionProvesByStatus(o) ==
    page.live /\ ~page.ready /\ page.holder = None /\ page.status = record[o].toStatus

PositionProves(o) == page.live /\ ~page.ready /\ Classify(o) = "already-settled"

Evidence(p) ==
    /\ pc[p] = "evidence"
    /\ IF StagedFor(Op(p)) THEN Goto(p, "assist")
       ELSE Move(p, "row", [loc[p] EXCEPT !.settled = PositionProves(Op(p))])
    /\ ReadOnly

Proven(p) == Goto(p, IF loc[p].failed THEN "correct" ELSE "complete")

\* The staged entry is the proof, whether the assist succeeds or not.
Assist(p) ==
    /\ pc[p] = "assist"
    /\ page' = Drained
    /\ Proven(p)
    /\ UNCHANGED <<stubs, record, log, done, faults>>

Row(p) ==
    /\ pc[p] = "row"
    /\ IF Stored(Op(p)) \/ loc[p].settled THEN Proven(p)
       ELSE IF loc[p].next = "judge" /\ ~loc[p].failed THEN Goto(p, "judge")
       ELSE Finish(p)
    /\ ReadOnly

\* completeOperation writes a result only over none.
Settle(p, result) ==
    /\ record' = IF Rec(p).result = "open"
                   THEN [record EXCEPT ![Op(p)].result = result] ELSE record
    /\ Finish(p)
    /\ UNCHANGED <<page, stubs, log, done, faults>>

Complete(p) == pc[p] = "complete" /\ Settle(p, "succeeded")

Moot(p) == pc[p] = "moot" /\ Settle(p, "moot")

-----------------------------------------------------------------------------
(***************************************************************************)
(* resumeStrandedTransitions, one operation at a time: every operation     *)
(* without a result, or with a failure that may have been premature.       *)
(***************************************************************************)
\* Mutant: a failure is final.
UnresolvedOpen(o) == record[o] # None /\ record[o].result = "open"

Unresolved(o) == record[o] # None /\ record[o].result \in {"open", "failed"}

Visit(s, o) ==
    /\ pc[s] = "idle" /\ Unresolved(o)
    /\ Move(s, "evidence", [NoLoc EXCEPT !.op = o, !.next = "judge",
                                         !.failed = record[o].result = "failed"])
    /\ ReadOnly

Correct(s) ==
    /\ pc[s] = "correct"
    /\ record' = IF Rec(s).result = "failed"
                   THEN [record EXCEPT ![Op(s)].result = "succeeded"] ELSE record
    /\ Finish(s)
    /\ UNCHANGED <<page, stubs, log, done, faults>>

\* Mutant: a transition that is held is reported, not resumed.
JudgeOnlyReports(s) ==
    /\ pc[s] = "judge"
    /\ LET decision == Classify(Op(s))
       IN  \/ decision = "not-entered" /\ (IF Rec(s).old THEN Goto(s, "fail") ELSE Finish(s))
           \/ decision = "page-missing" /\ Goto(s, "moot")
           \/ decision \notin {"not-entered", "page-missing"} /\ Finish(s)
    /\ ReadOnly

Judge(s) ==
    /\ pc[s] = "judge"
    /\ LET decision == Classify(Op(s))
       IN  \/ decision = "resume-own" /\ Goto(s, "reread")
           \/ decision = "not-entered" /\ (IF Rec(s).old THEN Goto(s, "fail") ELSE Finish(s))
           \/ decision = "page-missing" /\ Goto(s, "moot")
           \/ decision \in {"already-settled", "owned-elsewhere", "indeterminate"} /\ Finish(s)
    /\ ReadOnly

Fail(s) == pc[s] = "fail" /\ Settle(s, "failed")

\* An operation leaves the grace window a live request is given.
Age(o) ==
    /\ record[o] # None /\ ~record[o].old
    /\ record' = [record EXCEPT ![o].old = TRUE]
    /\ UNCHANGED <<page, stubs, log, done, pc, loc, faults>>

\* Any other writer of the page, or the outbox repair, stores the event if it can.
OutboxDrained ==
    /\ page.live /\ page.staged /\ ~Jammed
    /\ page' = Drained
    /\ UNCHANGED <<stubs, record, log, done, pc, loc, faults>>

-----------------------------------------------------------------------------
\* The hard deletion looks at the page once, when it is asked for.
DeleteLook(x) ==
    /\ pc[x] = "idle"
    /\ IF page.live /\ page.status # "renaming" THEN Goto(x, "delete") ELSE Finish(x)
    /\ ReadOnly

DeletePage(x) ==
    /\ pc[x] = "delete"
    /\ page' = [page EXCEPT !.live = FALSE]
    /\ Goto(x, "purge")
    /\ UNCHANGED <<stubs, record, log, done, faults>>

PurgeEvents(x) ==
    /\ pc[x] = "purge"
    /\ log' = <<>>
    /\ Finish(x)
    /\ UNCHANGED <<page, stubs, record, done, faults>>

Crash(p) ==
    /\ pc[p] \notin {Start(p), Rest(p), "done"}
    /\ faults < MaxFaults /\ faults' = faults + 1
    /\ Finish(p)
    /\ UNCHANGED <<page, stubs, record, log, done>>

-----------------------------------------------------------------------------
MoveStep(p) ==
    \/ Reread(p) \/ Promote(p) \/ Enter(p) \/ ClassifyEntry(p) \/ Reload(p) \/ Vacate(p)
    \/ ExitRead(p) \/ Exit(p) \/ Store(p)
    \/ Evidence(p) \/ Assist(p) \/ Row(p) \/ Complete(p) \/ Moot(p)

DeliveryStep(d) == Read(d) \/ Resolve(d) \/ Prepare(d) \/ Create(d) \/ MoveStep(d)

SweepStep(s) == Correct(s) \/ Judge(s) \/ Fail(s) \/ MoveStep(s)

Next ==
    \/ \E d \in Deliveries : DeliveryStep(d)
    \/ \E s \in Sweeps : SweepStep(s) \/ \E o \in Ops : Visit(s, o)
    \/ \E x \in Deleters : DeleteLook(x) \/ DeletePage(x) \/ PurgeEvents(x)
    \/ \E o \in Ops : Age(o)
    \/ OutboxDrained
    \/ \E p \in Movers : Crash(p)

Spec == Init /\ [][Next]_vars

\* A request that has not crashed goes on; the operator keeps sweeping, and
\* each sweep visits every operation.
Fairness ==
    /\ \A d \in Deliveries : WF_vars(DeliveryStep(d))
    /\ \A s \in Sweeps : WF_vars(SweepStep(s)) /\ \A o \in Ops : SF_vars(Visit(s, o))
    /\ \A o \in Ops : WF_vars(Age(o))

FairSpec == Spec /\ Fairness

-----------------------------------------------------------------------------
\* Every document and local has its type; a page that is hidden is held, and
\* the operation that holds it has a record to resume it from.
TypeOK ==
    /\ page \in PageType
    /\ stubs \in [Paths -> Paths \cup {None}]
    /\ record \in [Ops -> RecordType \cup {None}]
    /\ log \in Seq(Ops)
    /\ done \in [Ops -> Nat]
    /\ pc \in [Procs -> Labels]
    /\ loc \in [Procs -> LocType]
    /\ faults \in Nat
    /\ (page.status = "renaming") <=> (page.holder # None)
    /\ page.holder # None => record[page.holder] # None

Result(o) == IF record[o] = None THEN "none" ELSE record[o].result

\* Moves are atomic to readers and the history of a tracked page is exactly
\* the list of its moves, however deliveries, sweeps and crashes interleave.
Place(path, status) == <<path, status>>

From(o) == Place(record[o].from, record[o].fromStatus)
To(o) == Place(record[o].to, record[o].toStatus)

Moves == INSTANCE PageMoves WITH
    Places <- Paths \X Settled,
    Nowhere <- None,
    at <- IF page.holder = None THEN Place(page.path, page.status) ELSE From(page.holder),
    moving <- IF page.holder = None THEN None ELSE To(page.holder),
    tracked <- page.ready,
    journal <- [i \in DOMAIN log |-> [from |-> From(log[i]), to |-> To(log[i])]],
    gone <- ~page.live

MovesSpec == Moves!Spec

\* An operation reported as succeeded did move the page: by itself if the page
\* had a history from the start, and at least by a move to the same place if
\* only its position could be looked at.
SucceededMoved ==
    \A o \in Ops : Result(o) = "succeeded" =>
        \/ done[o] > 0
        \/ page.legacy /\ \E q \in Ops : done[q] > 0 /\ To(q) = To(o)

\* A failure recorded while the request was still at work does not stand: once
\* the move is in the history, the sweep turns it into a success.
LateSuccessCorrected ==
    \A o \in Ops : (Result(o) = "failed" /\ \E i \in DOMAIN log : log[i] = o)
                   ~> (Result(o) = "succeeded" \/ ~page.live)

\* A page left hidden by a crash is brought to its destination, as long as
\* nobody has declared the operation that holds it failed, and unless the slot
\* is jammed by a second event of an operation that moved the page twice: no
\* exit can stage its event then, and a page that is entered stays hidden.
HeldTransitionSettles ==
    \A o \in Ops : (page.live /\ page.holder = o /\ Result(o) = "open")
                   ~> (~page.live \/ page.holder # o \/ Result(o) # "open" \/ Jammed)

\* transition.ts:204-205 says that a page left mid-transition is not abandoned
\* but handed to the operator's repair.
TransitionSettles ==
    (page.live /\ page.holder # None) ~> (~page.live \/ page.holder = None)

\* handlers/page.ts:2062-2067 says that running an operation again resumes it
\* rather than entering it a second time.
MovesOnce == \A o \in Ops : done[o] <= 1
=============================================================================
