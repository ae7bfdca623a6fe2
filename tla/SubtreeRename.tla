----------------------------- MODULE SubtreeRename -----------------------------
(***************************************************************************)
(* The rename of a page with its descendants, as one request that may be   *)
(* delivered several times (packages/api/src/service/page-history/commands *)
(* /subtree-rename.ts, its handler in hono/handlers/page.ts, and the sweep *)
(* of operation.ts as util/page-history-repair.ts wires it).               *)
(*                                                                         *)
(* A root record seals the list of members; each member gets a record of   *)
(* its own, made by whichever delivery gets there first, and is moved by   *)
(* the transition that PageTransition models in full: here its two         *)
(* compare-and-sets and the storing of its event are kept, redirects,      *)
(* promotion and retries of a contended slot are not.  A place is a folder *)
(* a page may be in: "old" and "new" are those of the request.             *)
(***************************************************************************)
EXTENDS Naturals, FiniteSets

CONSTANTS
    Members,    \* the page the request names and its descendants
    Root,       \* the page it names
    Deliveries, \* requests that carry the same key
    Sweeps,     \* runs of resumeStrandedTransitions
    Casts,      \* the deliveries and sweeps that may take part together
    Width,      \* RENAME_TREE_CONCURRENCY
    MaxFaults,  \* bound on crashes, failed calls, and moves and deletions by others
    None

Actors == Deliveries \cup Sweeps

Places == {"old", "new", "out"}

Terminal == {"succeeded", "failed", "moot"}

RecordType == [from : Places \cup {None}, to : Places, result : {"open"} \cup Terminal]

RootType == [members : SUBSET Members, result : {"open", "succeeded"}]

ConstantsAssumption ==
    /\ Root \in Members /\ IsFiniteSet(Members)
    /\ Deliveries \cap Sweeps = {} /\ Casts \subseteq SUBSET Actors
    /\ Width \in Nat \ {0} /\ MaxFaults \in Nat
    /\ None \notin Places \cup RecordType \cup RootType

VARIABLES
    page,   \* each member's Page: see PageType
    stored, \* the members whose grouped event is a PageHistoryEvent
    root,   \* the record of the request, or None
    record, \* the record of each member, or None
    dpc,    \* where each delivery is
    base,   \* what it takes for the old path of the root page
    list,   \* the members it would seal
    pc, loc,\* where its worker on each member is, and the worker's locals
    moves,  \* how often each member was moved by the operation (history only)
    strays, \* the members that others moved or deleted (history only)
    faults

vars == <<page, stored, root, record, dpc, base, list, pc, loc, moves, strays, faults>>

\* `held' by the operation of its record; `staged': the event is in the slot.
PageType == [live : BOOLEAN, place : Places, held : BOOLEAN, staged : BOOLEAN]

Labels == {"off", "todo", "read", "claim", "enter", "classify", "exit", "store",
           "judge", "row", "verdict", "complete", "moot", "fail", "hook", "current",
           "ok", "no", "clash", "dead"}

LocType == [seen : Places \cup {None}, from : Places \cup {None}, to : Places,
            allowed : BOOLEAN, gone : BOOLEAN, moved : BOOLEAN]

NoLoc == [seen |-> None, from |-> None, to |-> "new", allowed |-> FALSE, gone |-> FALSE,
          moved |-> FALSE]

Init ==
    /\ page = [m \in Members |->
                 [live |-> TRUE, place |-> "old", held |-> FALSE, staged |-> FALSE]]
    /\ stored = {} /\ root = None /\ record = [m \in Members |-> None]
    /\ \E cast \in Casts :
         /\ dpc = [d \in Deliveries |-> IF d \in cast THEN "start" ELSE "done"]
         /\ pc = [a \in Actors |-> [m \in Members |->
                    IF a \in Sweeps \ cast THEN "dead" ELSE "off"]]
    /\ base = [d \in Deliveries |-> None]
    /\ list = [d \in Deliveries |-> {}]
    /\ loc = [a \in Actors |-> [m \in Members |-> NoLoc]]
    /\ moves = [m \in Members |-> 0] /\ strays = {} /\ faults = 0

-----------------------------------------------------------------------------
(* A delivery, up to the point where its workers start. *)

Documents == <<page, stored, root, record, moves, strays>>
Workers == <<pc, loc>>

To(d, l) == dpc' = [dpc EXCEPT ![d] = l]

\* Whether the key is known decides how the page is read.
Start(d) ==
    /\ dpc[d] = "start"
    /\ To(d, IF root = None THEN "look" ELSE "relook")
    /\ UNCHANGED <<Documents, base, list, Workers, faults>>

\* A first delivery needs its page, settled, and lists the subtree.
Look(d) ==
    /\ dpc[d] = "look"
    /\ IF ~page[Root].live \/ page[Root].held
         THEN To(d, "done") /\ UNCHANGED <<base, list>>
         ELSE /\ base' = [base EXCEPT ![d] = page[Root].place]
              /\ list' = [list EXCEPT ![d] = {m \in Members : m = Root \/
                   (page[m].live /\ ~page[m].held /\ page[m].place = page[Root].place)}]
              /\ To(d, "seal")
    /\ UNCHANGED <<Documents, Workers, faults>>

\* A replay takes the page as it is, or none.
Relook(d) ==
    /\ dpc[d] = "relook"
    /\ base' = [base EXCEPT ![d] = IF page[Root].live THEN page[Root].place ELSE None]
    /\ To(d, "first")
    /\ UNCHANGED <<Documents, list, Workers, faults>>

\* createRoot: the unique index arbitrates, the loser takes the winner's list.
Seal(d) ==
    /\ dpc[d] = "seal"
    /\ root' = IF root = None THEN [members |-> list[d], result |-> "open"] ELSE root
    /\ list' = [list EXCEPT ![d] = {}]
    /\ To(d, "first")
    /\ UNCHANGED <<page, stored, record, moves, strays, base, Workers, faults>>

\* The record of the root page, if there is one, says where it was.
Canonical(d) ==
    /\ dpc[d] = "first"
    /\ LET from == IF record[Root] # None /\ record[Root].from # None
                     THEN record[Root].from ELSE base[d]
       IN  IF from = None THEN To(d, "done") /\ UNCHANGED <<base, pc>>
           ELSE /\ base' = [base EXCEPT ![d] = from]
                /\ pc' = [pc EXCEPT ![d] =
                     [m \in Members |-> IF m \in root.members THEN "todo" ELSE "off"]]
                /\ To(d, "work")
    /\ UNCHANGED <<Documents, list, loc, faults>>

-----------------------------------------------------------------------------
(* A worker: executeMember and what surrounds it. *)

Answers == {"ok", "no", "clash", "dead"}

Busy(a, m) == pc[a][m] \notin Answers \cup {"off", "todo"}

Move(a, m, l, x) ==
    /\ pc' = [pc EXCEPT ![a][m] = l]
    /\ loc' = [loc EXCEPT ![a][m] = x]
    /\ UNCHANGED <<dpc, base, list>>

\* Locals are kept no longer than they are needed.
Goto(a, m, l) == Move(a, m, l, NoLoc)

ReadOnly == UNCHANGED <<Documents, faults>>

(* A worker is started while fewer than Width are at work (mapWithConcurrency).
   It looks where the page is, then what its record says: in this order. *)
Peek(d, m) ==
    /\ dpc[d] = "work" /\ pc[d][m] = "todo"
    /\ Cardinality({n \in Members : Busy(d, n)}) < Width
    /\ Move(d, m, "read",
            [NoLoc EXCEPT !.seen = IF page[m].live THEN page[m].place ELSE None])
    /\ ReadOnly

\* Mutant: what the page said when it was looked at decides, record or not.
FromPeek(d, m) == loc[d][m].seen

\* Where the member is moved from: its record's word, if it has one.
FromRecord(d, m) == IF record[m] = None THEN loc[d][m].seen ELSE record[m].from

\* A page that is gone falls back to the path of the root, which is no place
\* of its own; a page outside the old root may not be moved.
ReadRecord(d, m) ==
    /\ pc[d][m] = "read"
    /\ LET from == FromRecord(d, m)
           inside == m = Root \/ from \in {base[d], None}
       IN  Move(d, m, "claim",
             [NoLoc EXCEPT
                !.from = from,
                !.to = IF record[m] # None THEN record[m].to
                       ELSE IF inside THEN "new" ELSE from,
                !.allowed = record[m] # None \/ inside])
    /\ ReadOnly

\* outcomeFromSettledMember.
Reported(m, result) == IF result = "succeeded" /\ page[m].live THEN "ok" ELSE "no"

\* The record is made, or it must name the same move.  A first worker clears
\* the destination, which may be impossible.
Claim(d, m) ==
    /\ pc[d][m] = "claim"
    /\ LET x == loc[d][m]
           on == IF x.allowed THEN "enter" ELSE "judge"
       IN  \/ /\ record[m] = None
              /\ record' = [record EXCEPT ![m] =
                               [from |-> x.from, to |-> x.to, result |-> "open"]]
              /\ Goto(d, m, on) \/ Goto(d, m, "judge")
           \/ /\ record[m] # None
              /\ Goto(d, m, IF record[m].from # x.from \/ record[m].to # x.to THEN "clash"
                            ELSE IF record[m].result # "open"
                              THEN Reported(m, record[m].result)
                            ELSE on)
              /\ UNCHANGED record
    /\ UNCHANGED <<page, stored, root, moves, strays, faults>>

-----------------------------------------------------------------------------
(* The move, as PageTransition has it. *)

Off(a) == IF a \in Sweeps THEN "off" ELSE "current"

Enter(a, m) ==
    /\ pc[a][m] = "enter"
    /\ IF page[m].live /\ ~page[m].held /\ page[m].place = record[m].from
         THEN /\ page' = [page EXCEPT ![m].place = record[m].to, ![m].held = TRUE]
              /\ Goto(a, m, "exit")
         ELSE Goto(a, m, "classify") /\ UNCHANGED page
    /\ UNCHANGED <<stored, root, record, moves, strays, faults>>

\* What already happened is looked up by the judgement that follows.  A sweep
\* may look again whenever it likes.
Classify(a, m) ==
    /\ pc[a][m] = "classify"
    /\ \/ /\ ~page[m].live \/ (~page[m].held /\ page[m].place = record[m].to)
          /\ Goto(a, m, IF a \in Sweeps THEN "off" ELSE "judge")
       \/ page[m].live /\ page[m].held /\ Goto(a, m, "exit")
       \/ /\ page[m].live /\ ~page[m].held
          /\ page[m].place = record[m].from /\ record[m].from # record[m].to
          /\ Goto(a, m, "enter") \/ Goto(a, m, Off(a))
       \/ /\ page[m].live /\ ~page[m].held
          /\ page[m].place \notin {record[m].from, record[m].to}
          /\ Goto(a, m, Off(a))
    /\ ReadOnly

\* Mutant: the second compare-and-set does not ask for the claim of the first.
HeldOrNot(m) == page[m].live

StillHeld(m) == page[m].live /\ page[m].held

\* Events are unique by page, operation and kind: the second one of the group on
\* a page that others moved back cannot be stored, and keeps the page's only slot.
Jammed(m) == page[m].staged /\ m \in stored

Exit(a, m) ==
    /\ pc[a][m] = "exit"
    /\ IF StillHeld(m) /\ ~Jammed(m)
         THEN /\ page' = [page EXCEPT ![m].held = FALSE, ![m].staged = TRUE]
              /\ stored' = IF page[m].staged THEN stored \cup {m} ELSE stored
              /\ moves' = [moves EXCEPT ![m] = @ + 1]
              /\ Goto(a, m, "store")
         ELSE Goto(a, m, Off(a)) /\ UNCHANGED <<page, stored, moves>>
    /\ UNCHANGED <<root, record, strays, faults>>

\* materializePendingEntry, for one's own event or on another's behalf.
Store(a, m) ==
    /\ pc[a][m] = "store"
    /\ IF page[m].live /\ page[m].staged /\ ~Jammed(m)
         THEN page' = [page EXCEPT ![m].staged = FALSE] /\ stored' = stored \cup {m}
         ELSE UNCHANGED <<page, stored>>
    /\ Goto(a, m, "complete")
    /\ UNCHANGED <<root, record, moves, strays, faults>>

-----------------------------------------------------------------------------
(* Settling a member: settleMemberFailureFromDurableState, and the sweep. *)

\* Mutant: only events that are stored already count.
NoStagedEvent(m) == FALSE

StagedEvent(m) == page[m].live /\ page[m].staged

Judge(a, m) ==
    /\ pc[a][m] = "judge"
    /\ IF StagedEvent(m) THEN Goto(a, m, "store")
       ELSE Move(a, m, "row", [NoLoc EXCEPT !.gone = ~page[m].live,
                                           !.moved = moves[m] > 0])
    /\ ReadOnly

\* Without an event a sweep reads the page again; a failure it finds stands.
Row(a, m) ==
    /\ pc[a][m] = "row"
    /\ Goto(a, m, IF m \in stored THEN "complete"
                  ELSE IF a \in Sweeps
                    THEN IF record[m].result = "failed" THEN "off" ELSE "verdict"
                  ELSE IF loc[a][m].gone THEN "moot" ELSE "no")
    /\ ReadOnly

\* An exception, or a page in no state to be moved: the record is read again.
Current(d, m) ==
    /\ pc[d][m] = "current"
    /\ Goto(d, m, IF record[m] = None THEN "no"
                  ELSE IF record[m].result = "open" THEN "judge"
                  ELSE Reported(m, record[m].result))
    /\ ReadOnly

\* completeOperation writes over no result; the sweep's correction over a failure.
Settle(a, m, result) ==
    /\ record' = IF \/ record[m].result = "open"
                    \/ record[m].result = "failed" /\ a \in Sweeps /\ result = "succeeded"
                   THEN [record EXCEPT ![m].result = result] ELSE record
    /\ Goto(a, m, IF a \in Sweeps THEN "hook"
                  ELSE IF result = "moot" THEN "no" ELSE Reported(m, record'[m].result))
    /\ UNCHANGED <<page, stored, root, moves, strays, faults>>

Complete(a, m) == pc[a][m] = "complete" /\ Settle(a, m, "succeeded")

Moot(a, m) == pc[a][m] = "moot" /\ Settle(a, m, "moot")

Fail(s, m) == pc[s][m] = "fail" /\ Settle(s, m, "failed")

Visit(s, m) ==
    /\ \A n \in Members : pc[s][n] = "off"
    /\ record[m] # None /\ record[m].result \in {"open", "failed"}
    /\ Move(s, m, "judge", NoLoc)
    /\ ReadOnly

\* An operation that never entered fails once it is older than the grace
\* window, which may be at any time.
Verdict(s, m) ==
    /\ pc[s][m] = "verdict"
    /\ Goto(s, m, IF ~page[m].live THEN "moot"
                  ELSE IF page[m].held THEN "enter"
                  ELSE IF page[m].place = record[m].from /\ record[m].from # record[m].to
                    THEN "fail"
                  ELSE "off")
    /\ ReadOnly

-----------------------------------------------------------------------------
\* Mutant: only the records that exist are counted.
RecordedFinished == \A m \in root.members : record[m] # None => record[m].result \in Terminal

\* settleSubtreeRootAfterMember counts terminal results among the sealed keys.
AllFinished == \A m \in root.members : record[m] # None /\ record[m].result \in Terminal

SettleRoot == root' = IF AllFinished THEN [root EXCEPT !.result = "succeeded"] ELSE root

Hook(s, m) ==
    /\ pc[s][m] = "hook"
    /\ SettleRoot
    /\ Goto(s, m, "off")
    /\ UNCHANGED <<page, stored, record, moves, strays, faults>>

\* The sweep's inspection of the root's own record.
Inspect(s) ==
    /\ \A n \in Members : pc[s][n] = "off"
    /\ root # None /\ root.result = "open"
    /\ SettleRoot
    /\ UNCHANGED <<page, stored, record, moves, strays, dpc, base, list, Workers, faults>>

Answer(d) ==
    /\ dpc[d] = "work" /\ \A m \in root.members : pc[d][m] \in Answers
    /\ SettleRoot
    /\ To(d, "done")
    /\ base' = [base EXCEPT ![d] = None]
    /\ UNCHANGED <<page, stored, record, moves, strays, list, Workers, faults>>

-----------------------------------------------------------------------------
Fault == faults < MaxFaults /\ faults' = faults + 1

\* Another operation moves a member, as one step: its own event needs the slot.
MovedElsewhere(m, to) ==
    /\ page[m].live /\ ~page[m].held /\ page[m].place # to /\ ~Jammed(m) /\ Fault
    /\ page' = [page EXCEPT ![m].place = to, ![m].staged = FALSE]
    /\ stored' = IF page[m].staged THEN stored \cup {m} ELSE stored
    /\ strays' = strays \cup {m}
    /\ UNCHANGED <<root, record, moves, dpc, base, list, Workers>>

\* The events of a deleted page are purged.
Deleted(m) ==
    /\ page[m].live /\ Fault
    /\ page' = [page EXCEPT ![m].live = FALSE]
    /\ stored' = stored \ {m}
    /\ strays' = strays \cup {m}
    /\ UNCHANGED <<root, record, moves, dpc, base, list, Workers>>

\* A database call of a worker throws.
Throw(d, m) ==
    /\ Busy(d, m) /\ pc[d][m] # "current" /\ Fault
    /\ Goto(d, m, "current")
    /\ UNCHANGED Documents

\* The process that serves a delivery, or a sweep, dies.
Crash(a) ==
    /\ \/ a \in Deliveries /\ dpc[a] \notin {"start", "done"}
       \/ a \in Sweeps /\ \E m \in Members : Busy(a, m)
    /\ Fault
    /\ dpc' = IF a \in Deliveries THEN [dpc EXCEPT ![a] = "done"] ELSE dpc
    /\ pc' = [pc EXCEPT ![a] = [m \in Members |->
                IF a \in Sweeps THEN "off" ELSE IF Busy(a, m) THEN "dead" ELSE pc[a][m]]]
    /\ UNCHANGED <<Documents, base, list, loc>>

Next ==
    \/ \E d \in Deliveries :
         \/ Start(d) \/ Look(d) \/ Relook(d) \/ Seal(d) \/ Canonical(d) \/ Answer(d)
         \/ \E m \in Members : \/ Peek(d, m) \/ ReadRecord(d, m)
                               \/ Claim(d, m) \/ Current(d, m) \/ Throw(d, m)
    \/ \E s \in Sweeps :
         \/ Inspect(s)
         \/ \E m \in Members : Visit(s, m) \/ Verdict(s, m) \/ Fail(s, m) \/ Hook(s, m)
    \/ \E a \in Actors :
         \/ Crash(a)
         \/ \E m \in Members :
              \/ Enter(a, m) \/ Classify(a, m) \/ Exit(a, m) \/ Store(a, m)
              \/ Judge(a, m) \/ Row(a, m) \/ Complete(a, m) \/ Moot(a, m)
    \/ \E m \in Members : Deleted(m) \/ \E to \in Places : MovedElsewhere(m, to)

Spec == Init /\ [][Next]_vars

-----------------------------------------------------------------------------
TypeOK ==
    /\ page \in [Members -> PageType]
    /\ stored \subseteq Members /\ strays \subseteq Members
    /\ root \in RootType \cup {None}
    /\ record \in [Members -> RecordType \cup {None}]
    /\ dpc \in [Deliveries -> {"start", "look", "relook", "seal", "first", "work", "done"}]
    /\ base \in [Deliveries -> Places \cup {None}]
    /\ list \in [Deliveries -> SUBSET Members]
    /\ pc \in [Actors -> [Members -> Labels]]
    /\ loc \in [Actors -> [Members -> LocType]]
    /\ moves \in [Members -> Nat] /\ faults \in Nat

Succeeded(m) == record[m] # None /\ record[m].result = "succeeded"

(* The root is reported as finished only when every sealed member is: members
   nobody has made a record for yet count as unfinished
   (subtree-rename.ts:367-376). *)
RootIsHonest ==
    root # None /\ root.result = "succeeded" => AllFinished

(* Deliveries of one key name the same move for a member, whatever either of them
   saw of the other's work (subtree-rename.ts:297-300). *)
DeliveriesAgree ==
    \A d \in Deliveries : \A m \in Members :
        pc[d][m] = "clash" => strays \cap {m, Root} # {}

(* However deliveries, sweeps and crashes interleave, a member is moved once
   (subtree-rename.test.ts:468), and is reported as moved only if it was. *)
MembersMoveOnce ==
    \A m \in Members : /\ strays \cap {m, Root} = {} => moves[m] <= 1
                       /\ Succeeded(m) => moves[m] > 0

(* A delivery does not answer that a member failed when it had been moved before
   the page was read for that answer, unless a sweep had written it off
   (subtree-rename.ts:105-109, operation.ts:258-263). *)
HonestStep ==
    \A d \in Deliveries : \A m \in Members :
        pc[d][m] = "row" /\ pc'[d][m] = "no" => ~loc[d][m].moved \/ ~page[m].live

FailureIsHonest == [][HonestStep]_vars
================================================================================
