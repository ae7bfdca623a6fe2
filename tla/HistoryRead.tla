----------------------------- MODULE HistoryRead -----------------------------
(***************************************************************************)
(* The history of ONE page read page by page (service/page-history/read.ts *)
(* under GET /pages/{pageId}/history) while HistoryOutbox goes on beneath  *)
(* it.  A client walks from the newest entry to the oldest, each request   *)
(* with the cursor the one before returned.  A request reads the Page,     *)
(* then the events and the Revisions that have a place, in either order,   *)
(* then the Revisions that have none: four database calls, and the entries *)
(* move from the slot to their rows in between.                            *)
(*                                                                         *)
(* The lookup of a staged event's own row is left out: it chooses between  *)
(* two copies of one entry.  Actors, payloads and the encoding of the      *)
(* cursor are left out; places stand for positions, ties have no part.     *)
(***************************************************************************)
EXTENDS HistoryOutbox, Sequences, FiniteSets

CONSTANTS Watched, \* the casts beside which a client reads
          Limits   \* the page sizes it may ask for

\* A query answers with finitely many documents.
ASSUME ReadAssumption ==
    /\ Watched \subseteq Casts /\ Limits \subseteq Nat \ {0}
    /\ IsFiniteSet(Items)

VARIABLE walk      \* the client's walk: see WalkType

allVars == <<vars, walk>>

\* An entry of the answer: its place, or 0, what it is sorted by, and whether it
\* was found in the slot.
Entries == [item : Items, seq : Nat, key : Nat, staged : BOOLEAN]

Regions == {"sequenced", "unsequenced"}

\* PageHistoryCursor.  No boundary (0) is a walk over an untracked page.
Cursors == [region : Regions, after : Nat, upper : Nat, boundary : Nat]

ASSUME NoCursorAssumption == None \notin Cursors

\* `owed' is what the page had when the walk began: see Owing.
WalkType == [at : {"off", "page", "rows", "rest", "done", "gone", "corrupt"}, limit : Limits,
             cursor : Cursors \cup {None}, todo : SUBSET {"events", "revisions"},
             ready : BOOLEAN, region : Regions, upper : Nat, boundary : Nat,
             pending : SUBSET Entries, found : SUBSET Entries, shown : Seq(Entries),
             owed : SUBSET Items]

ReadInit ==
    /\ Init
    /\ \E n \in Limits, reads \in BOOLEAN :
         /\ reads <=> \E cast \in Watched :
                        \A p \in Procs \ {Legacy} : pc[p] # "done" <=> p \in cast
         /\ reads \/ \A k \in Limits : n <= k
         /\ walk = [at |-> IF reads THEN "page" ELSE "off", limit |-> n,
                    cursor |-> None, todo |-> {}, ready |-> FALSE,
                    region |-> "unsequenced", upper |-> 0, boundary |-> 0,
                    pending |-> {}, found |-> {}, shown |-> <<>>, owed |-> {}]

-----------------------------------------------------------------------------
Stored(i) == [item |-> i, seq |-> row[i], key |-> row[i], staged |-> FALSE]
Loose(r) == [item |-> r, seq |-> 0, key |-> born[r], staged |-> FALSE]

\* compareSequenced and compareUnsequenced put the newest first; the answer puts
\* what has a place before what has none.  Only an event and its staged copy could
\* tie: the row is then put first.
Before(a, b) ==
    \/ a.seq # 0 /\ b.seq = 0
    \/ (a.seq = 0 <=> b.seq = 0) /\ a.key > b.key
    \/ (a.seq = 0 <=> b.seq = 0) /\ a.key = b.key /\ ~a.staged /\ b.staged

Rank(S, e) == Cardinality({f \in S : Before(f, e)})

\* The first n entries, and all of them as a sequence.
First(S, n) == {e \in S : Rank(S, e) < n}
InOrder(S) == [k \in 1..Cardinality(S) |-> CHOOSE e \in S : Rank(S, e) = k - 1]

\* What a query sorted newest first returns under a limit; one entry more than
\* the client asked for tells whether there is a next page.
Fetched(S) == First(S, walk.limit + 1)

\* The cursor of this walk, when it is in this region.
Continues(region) == walk.cursor # None /\ walk.cursor.region = region

\* sequencedAfter, and the upper bound the first request fixed.
InWindow(n) == n <= walk.upper /\ (Continues("sequenced") => n < walk.cursor.after)

\* Mutant: an entry that is only staged is not projected.
NothingProjected == {}

\* projectPendingEntry: only the event of a command is shown while it is staged.
Projected ==
    IF page.slot # None /\ page.slot.type = "page_event"
      THEN {[item |-> page.slot.item, seq |-> page.slot.seq, key |-> page.slot.seq,
             staged |-> TRUE]}
      ELSE {}

OnTimeline == {c \in Cmds : PlaceOf(c) # 0} \cup {r \in Revs : row[r] # 0}

\* Saved before the page was tracked, and without a place, stored or staged.
BelowBoundary(boundary) ==
    {r \in Revs : born[r] # 0 /\ PlaceOf(r) = 0 /\ born[r] < boundary}

\* What a walk that begins now owes its client.
Owing(boundary) ==
    IF boundary = 0 THEN {r \in Revs : born[r] # 0}
    ELSE OnTimeline \cup BelowBoundary(boundary)

\* What the first request of a walk decides holds for the whole of it.
WalkPage ==
    /\ walk.at = "page"
    /\ LET first == walk.cursor = None
           started == IF Ready THEN page.started ELSE 0
           boundary == IF first THEN started ELSE walk.cursor.boundary
           region == IF ~first THEN walk.cursor.region
                     ELSE IF boundary # 0 THEN "sequenced" ELSE "unsequenced"
           placed == boundary # 0 /\ region = "sequenced"
       IN  walk' = IF ~page.live THEN [walk EXCEPT !.at = "gone"]
                   ELSE [walk EXCEPT
                     !.at = IF placed THEN "rows" ELSE "rest",
                     !.todo = IF placed THEN {"events", "revisions"} ELSE {},
                     !.ready = boundary # 0, !.region = region, !.boundary = boundary,
                     !.upper = IF boundary = 0 THEN 0
                               ELSE IF first THEN page.seq ELSE walk.cursor.upper,
                     !.pending = IF placed THEN Projected ELSE {}, !.found = {},
                     !.owed = IF first THEN Owing(boundary) ELSE @]

\* The two queries of one request, which run at the same time.
FindRows(kind, S) ==
    /\ walk.at = "rows" /\ kind \in walk.todo
    /\ LET rest == walk.todo \ {kind}
           rows == {Stored(i) : i \in {j \in S \cap Placed : InWindow(row[j])}}
       IN  walk' = [walk EXCEPT !.found = @ \cup Fetched(rows), !.todo = rest,
                                !.at = IF rest = {} THEN "rest" ELSE @]

FindEvents == FindRows("events", Cmds)
FindRevisions == FindRows("revisions", Revs)

\* Mutant: the staged entry is added though its row was found.
WithPendingAnyway == walk.found \cup walk.pending

WithPending ==
    walk.found \cup {e \in walk.pending : \A f \in walk.found : f.item # e.item}

\* The rows mergeTimeline keeps, of what the two queries and the slot gave.
Merged == {e \in WithPending : InWindow(e.seq)}

\* PageHistoryCorruptionError.
Corrupt == \E e, f \in Merged : e.seq = f.seq /\ e.item # f.item

\* Mutant: Revisions that have a place are listed among those without.
UnplacedAny ==
    {r \in Revs : /\ born[r] # 0
                  /\ walk.ready => born[r] < walk.boundary
                  /\ Continues("unsequenced") => born[r] < walk.cursor.after}

\* On an untracked page every Revision; on a tracked one those from before.
Unplaced ==
    {r \in Revs : /\ born[r] # 0
                  /\ walk.ready => row[r] = 0 /\ born[r] < walk.boundary
                  /\ Continues("unsequenced") => born[r] < walk.cursor.after}

\* The third query, and the answer.
FindRest ==
    /\ walk.at = "rest"
    /\ LET rest == Fetched({Loose(r) : r \in Unplaced})
           all == IF walk.region = "unsequenced" THEN rest
                  ELSE Fetched(Merged) \cup rest
           window == InOrder(First(all, walk.limit))
           end == window[Len(window)]
       IN  walk' = IF Corrupt THEN [walk EXCEPT !.at = "corrupt"]
                   ELSE IF Cardinality(all) <= walk.limit
                     THEN [walk EXCEPT !.at = "done", !.shown = @ \o window]
                   ELSE [walk EXCEPT !.at = "page", !.shown = @ \o window,
                          !.cursor = [region |-> IF end.seq # 0 THEN "sequenced"
                                                 ELSE "unsequenced",
                                      after |-> end.key, upper |-> walk.upper,
                                      boundary |-> walk.boundary]]

ReadStep == WalkPage \/ FindEvents \/ FindRevisions \/ FindRest

ReadNext ==
    \/ Next /\ UNCHANGED walk
    \/ ReadStep /\ UNCHANGED vars

ReadSpec == ReadInit /\ [][ReadNext]_allVars

-----------------------------------------------------------------------------
\* What a walk owes is released once it has a place beyond the walk's bound.
StillOwed == {i \in walk.owed : walk.boundary = 0 \/ PlaceOf(i) <= walk.upper}

(* A walk shows nothing twice, what has a place before what has none, newest
   first, whatever is stored, staged or restored between its requests; and it
   never takes two copies of a healthy page's timeline for a corrupt one
   (read.ts:190-228, :311-340). *)
WalkInOrder ==
    /\ walk \in WalkType
    /\ walk.at # "corrupt"
    /\ \A m, n \in DOMAIN walk.shown : m < n =>
         /\ walk.shown[m].item # walk.shown[n].item
         /\ walk.shown[n].seq # 0 => walk.shown[m].seq > walk.shown[n].seq
         /\ walk.shown[m].seq = 0 => walk.shown[m].key > walk.shown[n].key

(* A walk that reaches the end of a page that is still there has shown all the
   page had when it began.  That is its timeline, an event still in the slot
   included: an entry leaves the slot only after its row is stored, and is looked
   for in that order (read.ts:261-313); and the Revisions from before tracking,
   unless one of them was meanwhile given a place beyond the bound the first
   request fixed.  A Revision saved during the walk is not owed: its createdAt may
   lie behind the cursor. *)
WalkIsComplete ==
    walk.at = "done" /\ page.live =>
        StillOwed \subseteq {walk.shown[n].item : n \in DOMAIN walk.shown}
===============================================================================
