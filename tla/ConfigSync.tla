------------------------------ MODULE ConfigSync ------------------------------
(***************************************************************************)
(* The settings of ONE plugin: stored in the Config collection, cached in  *)
(* the memory of every replica and applied to the driver the plugin keeps  *)
(* in a state cell (service/config.ts, models/config.ts, plugin-manager.ts *)
(* and plugin-state-cell.ts of packages/api/src; the request is that of    *)
(* hono/handlers/admin/plugins.ts).                                        *)
(*                                                                         *)
(* A save writes in a turn of its replica's write queue; what follows the  *)
(* write is in the turn only if it failed.  A plugin may write a setting   *)
(* back while it is reconfigured.  Redis delivers a message to every other *)
(* replica, whose handlers overlap.  A setting's value is the save that    *)
(* wrote it.  Dependent plugins, the mailer, the verification of a save    *)
(* and deleteConfig, which nothing calls, are left out.                    *)
(***************************************************************************)
EXTENDS Naturals, Sequences

CONSTANTS
    Replicas,
    Requests,  \* administrators' saves
    Backs,     \* what the plugin writes while a request reconfigures it
    Calls,     \* calls that use the driver
    Casts,     \* which requests and calls take part, one set per kind of run
    Of,        \* the request of each of Backs
    Site,      \* the replica of each request and call
    Group,     \* the settings of the atomic group, one document
    Keys,      \* the settings that are written one by one
    Wants,     \* what each save writes
    MaxFaults, \* bound on database calls that fail
    None

Writers == Requests \cup Backs
Settings == Keys \cup {Group}
Parts == {"group", "rest"}

ConstantsAssumption ==
    /\ Of \in [Backs -> Requests]
    /\ Casts \subseteq SUBSET (Requests \cup Calls)
    /\ Site \in [Requests \cup Calls -> Replicas]
    /\ Group \notin Keys
    /\ Wants \in [Writers -> SUBSET Settings \ {{}}]
    \* setConfig writes one setting at a time
    /\ \A b \in Backs : \E k \in Keys : Wants[b] = {k}
    /\ (Requests \cup Calls) \cap Backs = {}
    /\ None \notin Writers \cup Nat
    /\ MaxFaults \in Nat

VARIABLES
    db, mem,  \* the stored settings, and each replica's copy
    turns,    \* who waits for the write queue of each replica; the first has the turn
    messages, \* the messages sent, and where their handlers are
    cell,     \* the state cell of each replica
    using,    \* the generation each call holds; 0 before, None when it is over
    pc, loc,  \* where each save is, and its locals
    faults

vars == <<db, mem, turns, messages, cell, using, pc, loc, faults>>

Copy == [Settings -> Writers \cup {None}]

Topics == [to : Replicas, of : Writers, part : Parts]

Labels == {"idle", "call", "write", "apply", "tell", "outside", "after",
           "reload", "reloaded", "inside", "within", "done", "blind"}

\* inline: the save runs in the turn of the code that called it.
LocType == [part : Parts, todo : SUBSET Settings, failed : BOOLEAN, inline : BOOLEAN,
            read : Copy \cup {None}]

\* The generation that is live, its value, and the generations that were closed.
CellType == [live : Nat \ {0}, value : Copy, closed : SUBSET Nat]

PartOf(s, part) == IF part = "group" THEN Wants[s] \cap {Group} ELSE Wants[s] \cap Keys

Fresh(s) ==
    LET part == IF Group \in Wants[s] THEN "group" ELSE "rest"
    IN  [part |-> part, todo |-> PartOf(s, part), failed |-> FALSE, inline |-> FALSE, read |-> None]

Init ==
    /\ db = [k \in Settings |-> None]
    /\ mem = [r \in Replicas |-> db]
    /\ turns = [r \in Replicas |-> <<>>]
    /\ messages = [m \in Topics |-> [at |-> "none", read |-> None]]
    /\ cell = [r \in Replicas |-> [live |-> 1, value |-> db, closed |-> {}]]
    /\ \E cast \in Casts :
         /\ using = [c \in Calls |-> IF c \in cast THEN 0 ELSE None]
         /\ pc = [s \in Writers |-> IF s \in cast THEN "call" ELSE "idle"]
    /\ loc = [s \in Writers |-> Fresh(s)]
    /\ faults = 0

-----------------------------------------------------------------------------
At(s) == Site[IF s \in Backs THEN Of[s] ELSE s]

Goto(s, l) == pc' = [pc EXCEPT ![s] = l]

Fault == faults < MaxFaults /\ faults' = faults + 1

\* serializeWrite: the save has the turn, or runs in its caller's.
Turn(s) == loc[s].inline \/ (turns[At(s)] # <<>> /\ Head(turns[At(s)]) = s)

Leave(s) == turns' = IF loc[s].inline THEN turns ELSE [turns EXCEPT ![At(s)] = Tail(@)]

\* Mutant: a save called from inside a turn waits like any other.
NeverInline(s) == FALSE

\* writeContext: the code that calls runs in a turn, as a failed save's notification does.
Inline(s) == s \in Backs /\ pc[Of[s]] = "within"

\* Mutant: the plugins follow the changes of their own replica only.
FollowsLocal(source) == source = "local"

\* handleConfigChange: who saved reconfigures by itself.
Follows(source) == source = "remote"

-----------------------------------------------------------------------------
\* Mutant: a replaced value is disposed of whoever uses it.
UnusedAnyway(r, g, holds) == TRUE

\* refCount = 0
Unused(r, g, holds) == \A c \in Calls : ~(Site[c] = r /\ holds[c] = g)

\* maybeDispose, of a generation that is no longer live.
Dispose(x, r, g, holds) == IF Unused(r, g, holds) THEN [x EXCEPT !.closed = @ \cup {g}] ELSE x

\* StateCell.set with what the plugin reads, from its reconfigure.
SetCell(r) ==
    LET x == cell[r]
    IN  cell' = [cell EXCEPT ![r] =
                   Dispose([x EXCEPT !.live = x.live + 1, !.value = mem[r]], r, x.live, using)]

\* postUpdate
Notify(r, source) == IF Follows(source) THEN SetCell(r) ELSE UNCHANGED cell

\* withValue
Use(c) ==
    /\ using[c] = 0 /\ using' = [using EXCEPT ![c] = cell[Site[c]].live]
    /\ UNCHANGED <<db, mem, turns, messages, cell, pc, loc, faults>>

EndUse(c) ==
    /\ using[c] \notin {0, None} /\ using' = [using EXCEPT ![c] = None]
    /\ LET r == Site[c]
       IN  cell' = IF using[c] = cell[r].live THEN cell
                   ELSE [cell EXCEPT ![r] = Dispose(cell[r], r, using[c], using')]
    /\ UNCHANGED <<db, mem, turns, messages, pc, loc, faults>>

-----------------------------------------------------------------------------
\* A part of a request, or the plugin's write, is handed to the queue.
Call(s) ==
    /\ pc[s] = "call" /\ Goto(s, "write")
    /\ loc' = [loc EXCEPT ![s].inline = Inline(s)]
    /\ turns' = IF Inline(s) THEN turns ELSE [turns EXCEPT ![At(s)] = Append(@, s)]
    /\ UNCHANGED <<db, mem, messages, cell, using, faults>>

\* updateByParams for one key: what becomes of one is nothing to the others.
WriteKey(s, k) ==
    /\ pc[s] = "write" /\ Turn(s) /\ k \in loc[s].todo
    /\ \/ db' = [db EXCEPT ![k] = s] /\ loc' = [loc EXCEPT ![s].todo = @ \ {k}] /\ UNCHANGED faults
       \/ Fault /\ loc' = [loc EXCEPT ![s].todo = @ \ {k}, ![s].failed = TRUE] /\ UNCHANGED db
    /\ UNCHANGED <<mem, turns, messages, cell, using, pc>>

\* All are settled.  Only a failed saveConfig is made good by reloading.
Settle(s) ==
    /\ pc[s] = "write" /\ Turn(s) /\ loc[s].todo = {}
    /\ IF ~loc[s].failed
         THEN /\ mem' = [mem EXCEPT ![At(s)] = [k \in Settings |->
                           IF k \in PartOf(s, loc[s].part) THEN s ELSE @[k]]]
              /\ Goto(s, "tell") /\ Leave(s)
       ELSE IF s \in Requests /\ loc[s].part = "rest"
         THEN Goto(s, "reload") /\ UNCHANGED <<mem, turns>>
       ELSE Goto(s, "done") /\ Leave(s) /\ UNCHANGED mem
    /\ UNCHANGED <<db, messages, cell, using, loc, faults>>

Publish(s) ==
    messages' = [m \in Topics |->
                   IF m.of = s /\ m.part = loc[s].part /\ m.to # At(s)
                     THEN [messages[m] EXCEPT !.at = "sent"] ELSE messages[m]]

\* notifyUpdated(changed, 'local'); then the request's other part, or its reconfigure.
Tell(s) ==
    /\ pc[s] = "tell"
    /\ Publish(s) /\ Notify(At(s), "local")
    /\ LET more == loc[s].part = "group" /\ Wants[s] \cap Keys # {}
       IN  /\ Goto(s, IF more THEN "call" ELSE IF s \in Backs THEN "done" ELSE "outside")
           /\ loc' = IF more THEN [loc EXCEPT ![s].part = "rest", ![s].todo = PartOf(s, "rest")]
                     ELSE loc
    /\ UNCHANGED <<db, mem, turns, using, faults>>

\* load(): one read of the collection; a second failure ends the turn in silence.
ReloadRead(s) ==
    /\ pc[s] = "reload"
    /\ \/ /\ loc' = [loc EXCEPT ![s].read = db]
          /\ Goto(s, "reloaded") /\ UNCHANGED <<turns, faults>>
       \/ Fault /\ Goto(s, "blind") /\ Leave(s) /\ UNCHANGED loc
    /\ UNCHANGED <<db, mem, messages, cell, using>>

ReloadSet(s) ==
    /\ pc[s] = "reloaded"
    /\ mem' = [mem EXCEPT ![At(s)] = loc[s].read]
    /\ loc' = [loc EXCEPT ![s].read = None]
    /\ Publish(s) /\ Goto(s, "inside")
    /\ UNCHANGED <<db, turns, cell, using, faults>>

\* The plugin is reconfigured for the request, and may then write a setting.
Reconfigure(s) ==
    /\ pc[s] \in {"outside", "inside"}
    /\ IF pc[s] = "outside" THEN SetCell(At(s)) ELSE Notify(At(s), "remote")
    /\ \E B \in SUBSET {b \in Backs : Of[b] = s} :
         pc' = [p \in Writers |-> IF p \in B THEN "call" ELSE IF p # s THEN pc[p]
                                ELSE IF pc[s] = "outside" THEN "after" ELSE "within"]
    /\ UNCHANGED <<db, mem, turns, messages, using, loc, faults>>

Return(s) ==
    /\ pc[s] \in {"after", "within"}
    /\ \A b \in Backs : Of[b] = s => pc[b] \in {"idle", "done"}
    /\ Goto(s, "done")
    /\ IF pc[s] = "within" THEN Leave(s) ELSE UNCHANGED turns
    /\ UNCHANGED <<db, mem, messages, cell, using, loc, faults>>

-----------------------------------------------------------------------------
\* The subscriber loads, sets and notifies; it takes no turn.
HandleRead(m) ==
    /\ messages[m].at = "sent"
    /\ messages' = [messages EXCEPT ![m] = [at |-> "read", read |-> db]]
    /\ UNCHANGED <<db, mem, turns, cell, using, pc, loc, faults>>

HandleSet(m) ==
    /\ messages[m].at = "read"
    /\ messages' = [messages EXCEPT ![m] = [at |-> "set", read |-> None]]
    /\ mem' = [mem EXCEPT ![m.to] = messages[m].read]
    /\ UNCHANGED <<db, turns, cell, using, pc, loc, faults>>

HandleNotify(m) ==
    /\ messages[m].at = "set"
    /\ messages' = [messages EXCEPT ![m].at = "handled"]
    /\ Notify(m.to, "remote")
    /\ UNCHANGED <<db, mem, turns, using, pc, loc, faults>>

SaveStep(s) ==
    \/ Call(s) \/ (\E k \in Settings : WriteKey(s, k)) \/ Settle(s) \/ Tell(s)
    \/ ReloadRead(s) \/ ReloadSet(s) \/ Reconfigure(s) \/ Return(s)

HandlerStep(m) == HandleRead(m) \/ HandleSet(m) \/ HandleNotify(m)

Next ==
    \/ \E s \in Writers : SaveStep(s)
    \/ \E m \in Topics : HandlerStep(m)
    \/ \E c \in Calls : Use(c) \/ EndUse(c)

Spec == Init /\ [][Next]_vars

-----------------------------------------------------------------------------
TypeOK ==
    /\ db \in Copy /\ mem \in [Replicas -> Copy]
    /\ turns \in [Replicas -> Seq(Writers)]
    /\ messages \in [Topics -> [at : {"none", "sent", "read", "set", "handled"},
                                read : Copy \cup {None}]]
    /\ cell \in [Replicas -> CellType]
    /\ using \in [Calls -> Nat \cup {None}]
    /\ pc \in [Writers -> Labels] /\ loc \in [Writers -> LocType]
    /\ faults \in 0 .. MaxFaults

\* The save waits for a turn or for the plugin's write.
Waits(s) ==
    \/ pc[s] = "write" /\ ~Turn(s)
    \/ pc[s] \in {"after", "within"} /\ \E b \in Backs : Of[b] = s /\ pc[b] \notin {"idle", "done"}

\* No save can go on, and every message is handled.
Still ==
    /\ \A s \in Writers : pc[s] \in {"idle", "done", "blind"} \/ Waits(s)
    /\ \A m \in Topics : messages[m].at \in {"none", "handled"}

\* A save failed and so did the reload that was to make it good.
Blind == \E s \in Writers : pc[s] = "blind"

Listening(r) == \E m \in Topics : m.to = r /\ messages[m].at # "none"

(* When nothing can go on, no save is left waiting, not even the plugin's own write
   from inside a failed save's turn, and the memory of a replica nobody has sent a
   message to is what the database holds, whichever of its saves failed half-way
   (config.ts:33-40, :192-209, :273-297). *)
StoreIsMirrored ==
    Still => /\ \A s \in Writers : pc[s] \in {"idle", "done", "blind"}
             /\ \A r \in Replicas : Blind \/ Listening(r) \/ mem[r] = db

(* The driver of every replica is then configured as the replica's memory says, in
   all the settings that the plugin does not write itself, even after a group was
   stored and the rest of the request failed (plugin-manager.ts:388-393). *)
DriversFollowMemory ==
    Still /\ ~Blind =>
        \A r \in Replicas, k \in Settings :
            (\A b \in Backs : k \notin Wants[b]) => cell[r].value[k] = mem[r][k]

(* No call holds a driver that was closed, and no replaced driver stays open once
   nobody holds it (plugin-state-cell.ts:26-78). *)
CellsAreSafe ==
    \A r \in Replicas :
        LET held == {using[c] : c \in {d \in Calls : Site[d] = r}}
        IN  /\ held \cap cell[r].closed = {}
            /\ \A g \in 1 .. cell[r].live - 1 : g \in held \/ g \in cell[r].closed
===============================================================================
