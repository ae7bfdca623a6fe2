---------------------------- MODULE RenderAdmission ----------------------------
(***************************************************************************)
(* Embeds whose rendering is admission-controlled, in one api process      *)
(* (packages/api/src/renderer/core/render-admission.ts, with its callers   *)
(* cachedRenderOrPending in renderer/cache/index.ts and                    *)
(* renderCodeBlockForPreview in renderer/core/code-block-dispatch.ts): the *)
(* stored entry of each embed, the map of renders in flight that views of  *)
(* a page share, and the pool of slots with its queue, which views and the *)
(* editor's previews compete for.                                          *)
(*                                                                         *)
(* A call asks for one embed; a render bears the name of the call that     *)
(* started it.  The code between two awaits is one step.                   *)
(***************************************************************************)
EXTENDS Naturals, FiniteSets, SequencesExt

CONSTANTS
    Calls,      \* views and previews of an embed
    Keys,       \* embeds
    Asked,      \* what the calls may ask for: [Calls -> Ask]
    Users,      \* users; None is a guest, whom only the global cap limits
    MaxGlobal,  \* maxConcurrentGlobal
    MaxPerUser, \* maxConcurrentPerUser
    QueueDepth,
    None

Ask == [key : Keys, user : Users \cup {None}, preview : BOOLEAN]

ConstantsAssumption ==
    /\ Asked \subseteq [Calls -> Ask] /\ None \notin Users \cup Calls
    /\ {MaxGlobal, MaxPerUser} \subseteq Nat \ {0} /\ QueueDepth \in Nat

VARIABLES
    ask,     \* what each call asks for
    entry,   \* how old the stored entry of each embed is
    flight,  \* inFlightAdmissionRender: the render of each embed, or None
    pool,    \* the renders that hold a slot, and those that wait for one
    storing, \* renders whose result is being stored
    aborted, \* previews that were given up
    pc,      \* where each call is
    seen     \* the age it read

vars == <<ask, entry, flight, pool, storing, aborted, pc, seen>>

EntryAges == {"none", "fresh", "stale", "expired"}

Init ==
    /\ ask \in Asked
    /\ entry = [k \in Keys |-> "none"] /\ flight = [k \in Keys |-> None]
    /\ pool = [running |-> {}, queue |-> <<>>] /\ storing = {} /\ aborted = {}
    /\ pc = [v \in Calls |-> "start"] /\ seen = [v \in Calls |-> "none"]

-----------------------------------------------------------------------------
(* The pool. *)

OfUser(vs, u) == {v \in vs : ask[v].user = u}

UserHasCapacity(p, v) ==
    ask[v].user = None \/ Cardinality(OfUser(p.running, ask[v].user)) < MaxPerUser

HasCapacity(p, v) == Cardinality(p.running) < MaxGlobal /\ UserHasCapacity(p, v)

\* Mutant: the head of the queue only.
HeadIfGrantable(p) ==
    IF p.queue # <<>> /\ HasCapacity(p, Head(p.queue)) THEN 1 ELSE 0

\* A view has the higher priority; then the order of arrival counts.
Precedes(p, i, j) ==
    LET high(n) == ~ask[p.queue[n]].preview
    IN  IF high(i) = high(j) THEN i <= j ELSE high(i)

\* pickNextGrantableIndex: a saturated user's renders are skipped.  0 is none.
NextGrantable(p) ==
    LET can == {i \in DOMAIN p.queue : HasCapacity(p, p.queue[i])}
    IN  IF can = {} THEN 0 ELSE CHOOSE i \in can : \A j \in can : Precedes(p, i, j)

\* One iteration of drainQueue.
Granted(p) ==
    LET i == NextGrantable(p)
    IN  IF i = 0 THEN p
        ELSE [running |-> p.running \cup {p.queue[i]}, queue |-> RemoveAt(p.queue, i)]

\* drainQueue: as many as the pool can take.
Drained(p) ==
    LET after[n \in 0 .. Len(p.queue)] == IF n = 0 THEN p ELSE Granted(after[n - 1])
    IN  after[Len(p.queue)]

-----------------------------------------------------------------------------
(* A call. *)

Stage(v, l) == pc' = [pc EXCEPT ![v] = l]

\* Mutant: the queue has no end.
RefusedIfAborted(v) == v \in aborted

\* acquireRenderSlot: a slot, a place in the queue, or a refusal.
Refused(v) ==
    \/ v \in aborted
    \/ ~HasCapacity(pool, v) /\ Len(pool.queue) >= QueueDepth

Admitted(v) ==
    IF HasCapacity(pool, v) THEN [pool EXCEPT !.running = @ \cup {v}]
                            ELSE [pool EXCEPT !.queue = Append(@, v)]

\* renderCodeBlockForPreview neither reads nor shares anything.
Preview(v) ==
    /\ pc[v] = "start" /\ ask[v].preview
    /\ pool' = IF Refused(v) THEN pool ELSE Admitted(v)
    /\ Stage(v, IF Refused(v) THEN "ended" ELSE "wait")
    /\ UNCHANGED <<ask, entry, flight, storing, aborted, seen>>

Get(v) ==
    /\ pc[v] = "start" /\ ~ask[v].preview
    /\ seen' = [seen EXCEPT ![v] = entry[ask[v].key]]
    /\ Stage(v, "decide")
    /\ UNCHANGED <<ask, entry, flight, pool, storing, aborted>>

Launch(v, waits) ==
    IF Refused(v) THEN Stage(v, "ended") /\ UNCHANGED <<pool, flight>>
    ELSE /\ pool' = Admitted(v)
         /\ flight' = [flight EXCEPT ![ask[v].key] = v]
         /\ Stage(v, IF waits THEN "wait" ELSE "ended")

\* Mutant: a refresh that found no render in flight when it was due does not look again.
JoinOrLaunch(v, waits) ==
    IF waits /\ flight[ask[v].key] # None THEN Stage(v, "wait") /\ UNCHANGED <<pool, flight>>
    ELSE Launch(v, waits)

\* dedupedRenderOrSkip: a render in flight is shared.
Join(v, waits) ==
    IF flight[ask[v].key] # None
      THEN Stage(v, IF waits THEN "wait" ELSE "ended") /\ UNCHANGED <<pool, flight>>
      ELSE Launch(v, waits)

\* A fresh entry is the answer; a stale one too, with a refresh in the background
\* unless a render is in flight; otherwise the view waits for a render.
Decide(v) ==
    /\ pc[v] = "decide"
    /\ \/ seen[v] = "fresh" /\ Stage(v, "ended") /\ UNCHANGED <<pool, flight>>
       \/ /\ seen[v] = "stale"
          /\ Stage(v, IF flight[ask[v].key] = None THEN "due" ELSE "ended")
          /\ UNCHANGED <<pool, flight>>
       \/ seen[v] \in {"none", "expired"} /\ Join(v, TRUE)
    /\ UNCHANGED <<ask, entry, storing, aborted, seen>>

\* The callback of setImmediate.
Refresh(v) ==
    /\ pc[v] = "due"
    /\ Join(v, FALSE)
    /\ UNCHANGED <<ask, entry, storing, aborted, seen>>

\* The render of k is over, and the views that shared it are answered.
Over(k) ==
    /\ flight' = [flight EXCEPT ![k] = None]
    /\ pc' = [w \in Calls |-> IF pc[w] = "wait" /\ ~ask[w].preview /\ ask[w].key = k
                             THEN "ended" ELSE pc[w]]

\* render() ends, and the slot is given back whatever its outcome; an exception
\* leaves the entry alone.
Finish(v) ==
    /\ v \in pool.running
    /\ pool' = Drained([pool EXCEPT !.running = @ \ {v}])
    /\ \/ ask[v].preview /\ Stage(v, "ended") /\ UNCHANGED <<storing, flight>>
       \/ ~ask[v].preview /\ storing' = storing \cup {v} /\ UNCHANGED <<flight, pc>>
       \/ ~ask[v].preview /\ Over(ask[v].key) /\ UNCHANGED storing
    /\ UNCHANGED <<ask, entry, aborted, seen>>

\* persistRenderResult; the store refuses what is too large, or fails.
Store(v) ==
    /\ v \in storing /\ storing' = storing \ {v}
    /\ entry' = [entry EXCEPT ![ask[v].key] = "fresh"] \/ UNCHANGED entry
    /\ Over(ask[v].key)
    /\ UNCHANGED <<ask, pool, aborted, seen>>

\* A preview is superseded: only while it waits for a slot does that end it.
Abort(v) ==
    /\ ask[v].preview /\ pc[v] # "ended" /\ v \notin aborted
    /\ aborted' = aborted \cup {v}
    /\ \/ /\ \E i \in DOMAIN pool.queue :
               pool.queue[i] = v /\ pool' = [pool EXCEPT !.queue = RemoveAt(@, i)]
          /\ Stage(v, "ended")
       \/ v \notin ToSet(pool.queue) /\ UNCHANGED <<pool, pc>>
    /\ UNCHANGED <<ask, entry, flight, storing, seen>>

\* Time passes for an entry, or its page is invalidated.
Age(k) ==
    /\ entry' = [entry EXCEPT ![k] = CASE @ = "fresh" -> "stale" [] @ = "stale" -> "expired"
                                       [] OTHER -> "none"]
    /\ entry' # entry
    /\ UNCHANGED <<ask, flight, pool, storing, aborted, pc, seen>>

Next ==
    \/ \E v \in Calls : Preview(v) \/ Get(v) \/ Decide(v) \/ Refresh(v) \/ Finish(v) \/ Store(v) \/ Abort(v)
    \/ \E k \in Keys : Age(k)

Spec == Init /\ [][Next]_vars

-----------------------------------------------------------------------------
Waiting == ToSet(pool.queue)

TypeOK ==
    /\ ask \in Asked /\ entry \in [Keys -> EntryAges] /\ flight \in [Keys -> Calls \cup {None}]
    /\ pool.running \subseteq Calls /\ pool.queue \in BoundedSeq(Calls, QueueDepth)
    /\ storing \subseteq Calls /\ aborted \subseteq Calls
    /\ pc \in [Calls -> {"start", "decide", "due", "wait", "ended"}]
    /\ seen \in [Calls -> EntryAges]

(* A render waits only while it may not run: neither a release nor the place of another
   in the queue leaves a slot idle that a waiting render could take
   (render-admission.ts:186-199). *)
WorkConserving == \A v \in Waiting : ~HasCapacity(pool, v)

(* What a view awaits is in flight, and a view's render that waits, runs or is being
   stored is the one its embed's map names: an embed is rendered for its views once at a
   time, and no view is left behind by a render that ended
   (renderer/cache/index.ts:512-527). *)
OneRenderPerKey ==
    \A v \in Calls : ~ask[v].preview =>
        /\ v \in Waiting \cup pool.running \cup storing => flight[ask[v].key] = v
        /\ pc[v] = "wait" => flight[ask[v].key] # None
================================================================================
