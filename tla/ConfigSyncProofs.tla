--------------------------- MODULE ConfigSyncProofs ---------------------------
(***************************************************************************)
(* Proofs about ConfigSync, for any replicas, saves, settings and calls.   *)
(***************************************************************************)
EXTENDS ConfigSync, TLAPS

\* No setting is written back twice while one request reconfigures the plugin: such
\* writes are run at once, without a turn of their own.
OneWriteEach ==
    \A a, b \in Backs : a # b /\ Of[a] = Of[b] => Wants[a] \cap Wants[b] = {}

\* The save has a turn of its own, or waits for it.
Queued(s) == pc[s] \in {"write", "reload", "reloaded", "inside", "within"} /\ ~loc[s].inline

\* The queue of a replica holds its saves, each once.
QueueSound(r) ==
    LET q == turns[r]
    IN  /\ \A i \in 1 .. Len(q) : At(q[i]) = r /\ Queued(q[i])
        /\ \A i, j \in 1 .. Len(q) : q[i] = q[j] => i = j

SaveSound(s) ==
    /\ Queued(s) => \E i \in 1 .. Len(turns[At(s)]) : turns[At(s)][i] = s
    /\ pc[s] \in {"reload", "reloaded", "inside", "within"} => Turn(s) /\ loc[s].part = "rest"
    /\ pc[s] = "reloaded" => loc[s].read \in Copy
    /\ pc[s] \in {"idle", "call"} \/ (pc[s] = "write" /\ ~Turn(s)) =>
         loc[s].todo = PartOf(s, loc[s].part)
    /\ pc[s] = "tell" \/ loc[s].todo = PartOf(s, loc[s].part) => ~loc[s].failed
    /\ loc[s].todo \subseteq PartOf(s, loc[s].part)
    /\ loc[s].part = "group" => Group \in Wants[s]

\* What a save has stored is not among the settings it has yet to store, or, if it is all
\* there was, failed to.
StoreSound(s) ==
    /\ \A k \in Settings : db[k] = s =>
         \/ k \in PartOf(s, loc[s].part) \ loc[s].todo
         \/ loc[s].part = "rest" /\ k = Group
    /\ loc[s].failed /\ (loc[s].part = "group" \/ s \in Backs) =>
         \A k \in PartOf(s, loc[s].part) : db[k] # s

\* A request never runs inside a turn; it lasts as long as what is written back for it.
RequestSound(s) == ~loc[s].inline

BackSound(b) ==
    /\ pc[b] \in {"idle", "call", "write", "tell", "done"} /\ loc[b].part = "rest"
    /\ pc[b] \in {"call", "write", "tell"} => pc[Of[b]] \in {"after", "within"}
    /\ pc[b] \in {"write", "tell"} => (loc[b].inline <=> pc[Of[b]] = "within")
    /\ pc[Of[b]] \notin {"after", "within", "done"} => pc[b] = "idle"

MessageSound(m) == messages[m].at = "read" => messages[m].read \in Copy

Inv ==
    /\ TypeOK
    /\ \A r \in Replicas : QueueSound(r)
    /\ \A s \in Writers : SaveSound(s) /\ StoreSound(s)
    /\ \A s \in Requests : RequestSound(s)
    /\ \A b \in Backs : BackSound(b)
    /\ \A m \in Topics : MessageSound(m)

\* A cell closes what it replaced, and a call holds what was live.
CellSound(r) ==
    /\ cell[r].closed \subseteq 1 .. cell[r].live - 1
    /\ \A c \in Calls : Site[c] = r /\ using[c] \notin {0, None} => using[c] \in 1 .. cell[r].live

CellsInv == CellsAreSafe /\ \A r \in Replicas : CellSound(r)

\* The save has stored, or is about to store, a setting that the replica will hear of: by a
\* message, or because it is the save's own.
Owes(s, k, r) ==
    /\ s \in Writers /\ k \in PartOf(s, loc[s].part)
    /\ pc[s] \in {"write", "reload", "reloaded"} \/ (pc[s] = "tell" /\ At(s) # r)

OwesAway(s, k, r) == Owes(s, k, r) /\ At(s) # r

Deaf(r) == ~Blind /\ ~Listening(r)

MirrorInv ==
    /\ \A r \in Replicas : Deaf(r) =>
         \A k \in Settings : mem[r][k] = db[k] \/ Owes(db[k], k, r)
    /\ \A s \in Writers : Deaf(At(s)) =>
         /\ pc[s] = "write" /\ ~loc[s].failed =>
              \A k \in PartOf(s, loc[s].part) \ loc[s].todo : db[k] = s \/ OwesAway(db[k], k, At(s))
         /\ pc[s] = "reloaded" =>
              \A k \in Settings : loc[s].read[k] = db[k] \/ OwesAway(db[k], k, At(s))

\* A request has changed memory, or is about to, and has yet to reconfigure the plugin.
Due(s) ==
    \/ pc[s] \in {"tell", "outside", "inside"}
    \/ pc[s] \in {"call", "write", "reload", "reloaded"} /\ loc[s].part = "rest" /\ Group \in Wants[s]

\* The driver has the setting, or will be given it: its replica still has to reconfigure it.
Covered(r, k) ==
    \/ cell[r].value[k] = mem[r][k]
    \/ \E s \in Requests : At(s) = r /\ Due(s)
    \/ \E m \in Topics : m.to = r /\ messages[m].at = "set"

\* A part of a save is made known once.
SentOnce(m) ==
    messages[m].at # "none" =>
        \/ m.part = "group" /\ loc[m.of].part = "rest"
        \/ m.part = loc[m.of].part /\ pc[m.of] \in {"outside", "inside", "after", "within", "done"}

DriversInv ==
    /\ \A m \in Topics : SentOnce(m)
    /\ ~Blind => \A r \in Replicas, k \in Settings : (\E b \in Backs : k \in Wants[b]) \/ Covered(r, k)

-----------------------------------------------------------------------------
(* Where saves run, and what a queue is. *)

LEMMA Places ==
    ASSUME ConstantsAssumption
    PROVE  /\ Requests \subseteq Writers /\ Backs \subseteq Writers /\ None \notin Writers /\ None \notin Nat
           /\ \A s \in Writers : At(s) \in Replicas /\ (s \in Requests \/ s \in Backs)
           /\ \A s \in Writers, p \in Parts : PartOf(s, p) \subseteq Settings
           /\ \A b \in Backs : Of[b] \in Requests /\ At(Of[b]) = At(b) /\ b \notin Requests
           /\ \A b \in Backs : \E k \in Keys : Wants[b] = {k}
           /\ \A b \in Backs : Group \notin Wants[b]
           /\ Group \notin Keys
  BY DEF ConstantsAssumption, Writers, At, PartOf, Settings

LEMMA Joining ==
    ASSUME NEW S, NEW q \in Seq(S), NEW x \in S
    PROVE  /\ Append(q, x) \in Seq(S) /\ Len(Append(q, x)) = Len(q) + 1 /\ Len(q) \in Nat
           /\ \A i \in 1 .. Len(q) : Append(q, x)[i] = q[i]
           /\ Append(q, x)[Len(q) + 1] = x
           /\ q # <<>> => Append(q, x) # <<>> /\ Head(Append(q, x)) = Head(q)
  OBVIOUS

LEMMA Leaving ==
    ASSUME NEW S, NEW q \in Seq(S), q # <<>>
    PROVE  /\ Tail(q) \in Seq(S) /\ Len(q) \in Nat \ {0} /\ Len(Tail(q)) = Len(q) - 1
           /\ \A i \in 1 .. Len(Tail(q)) : Tail(q)[i] = q[i + 1]
           /\ Head(q) = q[1]
  OBVIOUS

InQueue(s) == \E i \in 1 .. Len(turns[At(s)]) : turns[At(s)][i] = s

\* What a step of a save does to the queues.
QueueRel(s) ==
    /\ turns' \in [Replicas -> Seq(Writers)]
    /\ \A r \in Replicas : QueueSound(r)'
    /\ \A t \in Writers \ {s} : (Turn(t) => Turn(t)') /\ (InQueue(t) => InQueue(t)')

\* The other saves stay where they are.
Alone(s) == \A t \in Writers \ {s} : pc'[t] = pc[t] /\ loc'[t] = loc[t]

LEMMA StaysRel ==
    ASSUME Inv, ConstantsAssumption, NEW s \in Writers, Alone(s), turns' = turns, Queued(s) => Queued(s)'
    PROVE  QueueRel(s)
<1>1. turns \in [Replicas -> Seq(Writers)]
  BY DEF Inv, TypeOK
<1>2. ASSUME NEW r \in Replicas PROVE QueueSound(r)'
  <2>1. QueueSound(r) /\ \A i \in 1 .. Len(turns[r]) : turns[r][i] \in Writers
    BY <1>1 DEF Inv
  <2>2. \A t \in Writers : Queued(t) => Queued(t)'
    BY DEF Alone, Queued
  <2> QED
    BY <2>1, <2>2 DEF QueueSound
<1>3. \A t \in Writers \ {s} : (Turn(t) => Turn(t)') /\ (InQueue(t) => InQueue(t)')
  BY DEF Alone, Turn, InQueue
<1> QED
  BY <1>1, <1>2, <1>3 DEF QueueRel

LEMMA JoinsRel ==
    ASSUME Inv, ConstantsAssumption, NEW s \in Writers, Alone(s), ~Queued(s), Queued(s)',
           turns' = [turns EXCEPT ![At(s)] = Append(@, s)]
    PROVE  QueueRel(s) /\ InQueue(s)'
<1> DEFINE r == At(s)
           q == turns[r]
<1>1. turns \in [Replicas -> Seq(Writers)] /\ r \in Replicas /\ q \in Seq(Writers)
  BY Places DEF Inv, TypeOK
<1>2. turns'[r] = Append(q, s) /\ \A u \in Replicas \ {r} : turns'[u] = turns[u]
  BY <1>1
<1>3. /\ Append(q, s) \in Seq(Writers) /\ Len(Append(q, s)) = Len(q) + 1 /\ Len(q) \in Nat
      /\ \A i \in 1 .. Len(q) : Append(q, s)[i] = q[i]
      /\ Append(q, s)[Len(q) + 1] = s
      /\ q # <<>> => Append(q, s) # <<>> /\ Head(Append(q, s)) = Head(q)
  BY <1>1, Joining
<1>4. turns' \in [Replicas -> Seq(Writers)]
  BY <1>1, <1>3
<1>5. \A t \in Writers : Queued(t) => Queued(t)' /\ t # s
  BY DEF Alone, Queued
<1>6. ASSUME NEW u \in Replicas PROVE QueueSound(u)'
  <2>1. QueueSound(u) /\ \A i \in 1 .. Len(turns[u]) : turns[u][i] \in Writers
    BY <1>1 DEF Inv
  <2>2. CASE u # r
    BY <1>2, <1>5, <2>1, <2>2 DEF QueueSound
  <2>3. CASE u = r
    <3>1. \A i \in 1 .. Len(q) : q[i] \in Writers /\ At(q[i]) = r /\ Queued(q[i]) /\ q[i] # s
      BY <1>5, <2>1, <2>3 DEF QueueSound
    <3>2. \A i, j \in 1 .. Len(q) : q[i] = q[j] => i = j
      BY <2>1, <2>3 DEF QueueSound
    <3> HIDE DEF q, r
    <3>3. \A i \in 1 .. Len(q) + 1 : i \in 1 .. Len(q) \/ i = Len(q) + 1
      BY <1>3
    <3>4. ASSUME NEW i \in 1 .. Len(turns'[r])
          PROVE  \E t \in Writers : turns'[r][i] = t /\ At(t) = r /\ (Queued(t) \/ t = s)
      BY <1>2, <1>3, <3>1, <3>3 DEF r
    <3>5. ASSUME NEW i \in 1 .. Len(q) + 1, NEW j \in 1 .. Len(q) + 1, Append(q, s)[i] = Append(q, s)[j]
          PROVE  i = j
      <4>1. \A n \in 1 .. Len(q) : Append(q, s)[n] = q[n] /\ q[n] # s
        BY <1>3, <3>1
      <4>2. CASE i = Len(q) + 1 \/ j = Len(q) + 1
        BY <1>3, <3>3, <3>5, <4>1, <4>2
      <4>3. CASE i \in 1 .. Len(q) /\ j \in 1 .. Len(q)
        BY <3>2, <3>5, <4>1, <4>3
      <4> QED
        BY <3>3, <4>2, <4>3
    <3>6. \A i, j \in 1 .. Len(turns'[r]) : turns'[r][i] = turns'[r][j] => i = j
      BY <1>2, <1>3, <3>5
    <3> QED
      BY <1>5, <2>3, <3>4, <3>6 DEF QueueSound
  <2> QED
    BY <2>2, <2>3
<1>7. ASSUME NEW t \in Writers \ {s} PROVE (Turn(t) => Turn(t)') /\ (InQueue(t) => InQueue(t)')
  <2>1. At(t) \in Replicas /\ loc'[t] = loc[t]
    BY Places DEF Alone
  <2>2. CASE At(t) # r
    BY <1>2, <2>1, <2>2 DEF Turn, InQueue
  <2>3. CASE At(t) = r
    <3>1. Turn(t) => Turn(t)'
      BY <1>2, <1>3, <2>1, <2>3 DEF Turn
    <3>2. InQueue(t) => InQueue(t)'
      <4>1. SUFFICES ASSUME NEW i \in 1 .. Len(q), q[i] = t PROVE InQueue(t)'
        BY <2>3 DEF InQueue
      <4>2. i \in 1 .. Len(turns'[r]) /\ turns'[r][i] = t
        BY <1>2, <1>3, <4>1
      <4> QED
        BY <2>3, <4>2 DEF InQueue
    <3> QED
      BY <3>1, <3>2
  <2> QED
    BY <2>2, <2>3
<1>8. InQueue(s)'
  BY <1>2, <1>3 DEF InQueue
<1> QED
  BY <1>4, <1>6, <1>7, <1>8 DEF QueueRel

\* The save that has the turn is the first in its queue, and nowhere else.
LEMMA LeavesRel ==
    ASSUME Inv, ConstantsAssumption, NEW s \in Writers, Alone(s), ~loc[s].inline, Turn(s), Leave(s)
    PROVE  QueueRel(s)
<1> DEFINE r == At(s)
           q == turns[r]
<1>1. turns \in [Replicas -> Seq(Writers)] /\ r \in Replicas /\ q \in Seq(Writers)
  BY Places DEF Inv, TypeOK
<1>2. q # <<>> /\ Head(q) = s /\ turns' = [turns EXCEPT ![r] = Tail(@)]
  BY DEF Turn, Leave
<1>3. turns'[r] = Tail(q) /\ \A u \in Replicas \ {r} : turns'[u] = turns[u]
  BY <1>1, <1>2
<1>4. /\ Tail(q) \in Seq(Writers) /\ Len(q) \in Nat \ {0} /\ Len(Tail(q)) = Len(q) - 1
      /\ \A i \in 1 .. Len(Tail(q)) : Tail(q)[i] = q[i + 1]
      /\ q[1] = s
  BY <1>1, <1>2, Leaving
<1>5. turns' \in [Replicas -> Seq(Writers)]
  BY <1>1, <1>2, <1>4
<1>6. \A t \in Writers \ {s} : Queued(t) => Queued(t)'
  BY DEF Alone, Queued
<1>7. /\ \A i \in 1 .. Len(q) : q[i] \in Writers /\ At(q[i]) = r /\ Queued(q[i])
      /\ \A i, j \in 1 .. Len(q) : q[i] = q[j] => i = j
  BY <1>1 DEF Inv, QueueSound
<1>8. ASSUME NEW u \in Replicas PROVE QueueSound(u)'
  <2>1. CASE u # r
    <3>1. QueueSound(u) /\ \A i \in 1 .. Len(turns[u]) : turns[u][i] \in Writers
      BY <1>1 DEF Inv
    <3>2. \A i \in 1 .. Len(turns[u]) : turns[u][i] # s
      BY <2>1, <3>1 DEF QueueSound
    <3> QED
      BY <1>3, <1>6, <2>1, <3>1, <3>2 DEF QueueSound
  <2>2. CASE u = r
    <3> HIDE DEF q, r
    <3>1. \A i \in 1 .. Len(Tail(q)) : i + 1 \in 2 .. Len(q) /\ i + 1 \in 1 .. Len(q) /\ i \in Nat
      BY <1>4
    <3>2. \A i \in 2 .. Len(q) : q[i] # s
      BY <1>4, <1>7
    <3>3. ASSUME NEW i \in 1 .. Len(turns'[r])
          PROVE  \E t \in Writers \ {s} : turns'[r][i] = t /\ At(t) = r /\ Queued(t)
      BY <1>3, <1>4, <1>7, <3>1, <3>2
    <3>4. ASSUME NEW i \in 1 .. Len(Tail(q)), NEW j \in 1 .. Len(Tail(q)), Tail(q)[i] = Tail(q)[j]
          PROVE  i = j
      <4>1. i + 1 = j + 1
        BY <1>4, <1>7, <3>1, <3>4
      <4> QED
        BY <3>1, <4>1
    <3>5. \A i, j \in 1 .. Len(turns'[r]) : turns'[r][i] = turns'[r][j] => i = j
      BY <1>3, <3>4
    <3> QED
      BY <1>6, <2>2, <3>3, <3>5 DEF QueueSound
  <2> QED
    BY <2>1, <2>2
<1>9. ASSUME NEW t \in Writers \ {s} PROVE (Turn(t) => Turn(t)') /\ (InQueue(t) => InQueue(t)')
  <2>1. At(t) \in Replicas /\ loc'[t] = loc[t]
    BY Places DEF Alone
  <2>2. CASE At(t) # r
    BY <1>3, <2>1, <2>2 DEF Turn, InQueue
  <2>3. CASE At(t) = r
    <3>1. Turn(t) => Turn(t)'
      BY <1>2, <2>1, <2>3 DEF Turn
    <3>2. InQueue(t) => InQueue(t)'
      <4>1. SUFFICES ASSUME NEW i \in 1 .. Len(q), q[i] = t PROVE InQueue(t)'
        BY <2>3 DEF InQueue
      <4>2. i # 1
        BY <1>4, <4>1
      <4>3. i - 1 \in 1 .. Len(Tail(q)) /\ (i - 1) + 1 = i
        BY <1>4, <4>2
      <4>4. Tail(q)[i - 1] = t
        BY <1>4, <4>1, <4>3
      <4>5. i - 1 \in 1 .. Len(turns'[r]) /\ turns'[r][i - 1] = t
        BY <1>3, <4>3, <4>4
      <4> QED
        BY <2>3, <4>5 DEF InQueue
    <3> QED
      BY <3>1, <3>2
  <2> QED
    BY <2>2, <2>3
<1> QED
  BY <1>5, <1>8, <1>9 DEF QueueRel

-----------------------------------------------------------------------------
(* What a step of one save must keep for the others. *)

\* The step is the save's own: it writes in its own name, and takes nothing of the request's
\* from what is written back for it.
OwnStep(s) ==
    /\ Alone(s) /\ QueueRel(s)
    /\ \A k \in Settings : db'[k] \in {db[k], s}
    /\ s \in Requests =>
         /\ \A b \in Backs : Of[b] = s => pc[b] \in {"idle", "done"}
         /\ pc'[s] = "done" \/ pc[s] \notin {"after", "within", "done"}

OwnSound(s) ==
    /\ SaveSound(s) /\ StoreSound(s)
    /\ s \in Requests => RequestSound(s)
    /\ s \in Backs => BackSound(s)

LEMMA OwnStepKeeps ==
    ASSUME Inv, ConstantsAssumption, NEW s \in Writers, OwnStep(s), TypeOK', OwnSound(s)',
           \A m \in Topics : MessageSound(m)'
    PROVE  Inv'
<1>1. \A r \in Replicas : QueueSound(r)'
  BY DEF OwnStep, QueueRel
<1>2. ASSUME NEW t \in Writers \ {s} PROVE SaveSound(t)' /\ StoreSound(t)'
  <2>1. /\ SaveSound(t) /\ StoreSound(t) /\ pc'[t] = pc[t] /\ loc'[t] = loc[t]
        /\ Turn(t) => Turn(t)'
        /\ InQueue(t) => InQueue(t)'
    BY DEF Inv, OwnStep, Alone, QueueRel
  <2>2. Queued(t)' <=> Queued(t)
    BY <2>1 DEF Queued
  <2>3. SaveSound(t)'
    BY <2>1, <2>2 DEF SaveSound, InQueue
  <2>4. /\ \A k \in Settings : db'[k] = t => db[k] = t
        /\ \A k \in PartOf(t, loc[t].part) : k \in Settings
    BY DEF OwnStep, PartOf, Settings
  <2>5. StoreSound(t)'
    BY <2>1, <2>4 DEF StoreSound
  <2> QED
    BY <2>3, <2>5
<1>3. \A t \in Requests : RequestSound(t)'
  BY Places DEF Inv, RequestSound, OwnStep, Alone, OwnSound
<1>4. ASSUME NEW b \in Backs PROVE BackSound(b)'
  <2>1. CASE b = s
    BY <2>1 DEF OwnSound
  <2>2. CASE b # s
    <3>1. BackSound(b) /\ pc'[b] = pc[b] /\ loc'[b] = loc[b] /\ Of[b] \in Requests /\ Of[b] \in Writers
      BY <2>2, Places DEF Inv, OwnStep, Alone
    <3>2. CASE Of[b] = s
      <4>1. /\ pc[b] \in {"idle", "done"}
            /\ pc'[Of[b]] = "done" \/ pc[Of[b]] \notin {"after", "within", "done"}
        BY <3>1, <3>2 DEF OwnStep
      <4> QED
        BY <3>1, <4>1 DEF BackSound
    <3>3. CASE Of[b] # s
      <4>1. pc'[Of[b]] = pc[Of[b]]
        BY <3>1, <3>3 DEF OwnStep, Alone
      <4> QED
        BY <3>1, <4>1 DEF BackSound
    <3> QED
      BY <3>2, <3>3
  <2> QED
    BY <2>1, <2>2
<1> QED
  BY <1>1, <1>2, <1>3, <1>4 DEF Inv, OwnSound

LEMMA SaveFacts ==
    ASSUME Inv, ConstantsAssumption, NEW s \in Writers
    PROVE  /\ At(s) \in Replicas /\ loc[s] \in LocType /\ pc[s] \in Labels
           /\ SaveSound(s) /\ StoreSound(s)
           /\ s \in Requests => ~loc[s].inline
           /\ s \in Backs => BackSound(s)
           /\ s \in Requests /\ pc[s] \notin {"after", "within"} =>
                \A b \in Backs : Of[b] = s => pc[b] \in {"idle", "done"}
           /\ \A m \in Topics : MessageSound(m)
           /\ s \in Requests \/ s \in Backs
<1>1. At(s) \in Replicas /\ loc[s] \in LocType /\ pc[s] \in Labels /\ (s \in Requests \/ s \in Backs)
  BY Places DEF Inv, TypeOK
<1>2. SaveSound(s) /\ StoreSound(s) /\ (s \in Requests => ~loc[s].inline) /\ (s \in Backs => BackSound(s))
  BY DEF Inv, RequestSound
<1>3. ASSUME pc[s] \notin {"after", "within"}, NEW b \in Backs, Of[b] = s PROVE pc[b] \in {"idle", "done"}
  BY <1>3 DEF Inv, BackSound
<1> QED
  BY <1>1, <1>2, <1>3 DEF Inv

LEMMA CallKeeps ==
    ASSUME Inv, ConstantsAssumption, NEW s \in Writers, Call(s)
    PROVE  Inv'
<1>1. /\ pc[s] = "call" /\ pc' = [pc EXCEPT ![s] = "write"]
      /\ loc' = [loc EXCEPT ![s].inline = Inline(s)]
      /\ UNCHANGED <<db, mem, messages, cell, using, faults>>
  BY DEF Call, Goto
<1>2. TypeOK /\ Inline(s) \in BOOLEAN
  BY DEF Inv, Inline
<1>3. /\ pc'[s] = "write" /\ loc'[s] = [loc[s] EXCEPT !.inline = Inline(s)] /\ Alone(s)
      /\ pc' \in [Writers -> Labels] /\ loc' \in [Writers -> LocType]
  BY <1>1, <1>2 DEF TypeOK, Alone, Labels, LocType
<1>4. /\ loc'[s].inline = Inline(s) /\ loc'[s].todo = loc[s].todo /\ loc'[s].part = loc[s].part
      /\ loc'[s].failed = loc[s].failed
  BY <1>3, SaveFacts DEF LocType
<1>5. QueueRel(s) /\ (Queued(s)' => InQueue(s)')
  <2>1. CASE Inline(s)
    BY <1>1, <1>3, <1>4, <2>1, StaysRel DEF Call, Queued
  <2>2. CASE ~Inline(s)
    BY <1>1, <1>3, <1>4, <2>2, JoinsRel DEF Call, Queued
  <2> QED
    BY <2>1, <2>2
<1>6. OwnStep(s)
  BY <1>1, <1>3, <1>5, SaveFacts DEF OwnStep
<1>7. TypeOK'
  BY <1>1, <1>2, <1>3, <1>5 DEF TypeOK, QueueRel
<1>8. SaveSound(s)' /\ StoreSound(s)'
  BY <1>1, <1>3, <1>4, <1>5, SaveFacts DEF SaveSound, StoreSound, InQueue
<1>9. s \in Requests => RequestSound(s)'
  BY <1>4, Places DEF RequestSound, Inline
<1>10. s \in Backs => BackSound(s)'
  <2> HAVE s \in Backs
  <2>1. BackSound(s) /\ Of[s] \in Writers /\ Of[s] # s
    BY Places, SaveFacts
  <2>2. pc'[Of[s]] = pc[Of[s]]
    BY <1>3, <2>1 DEF Alone
  <2> QED
    BY <1>1, <1>3, <1>4, <2>1, <2>2 DEF BackSound, Inline
<1>11. \A m \in Topics : MessageSound(m)'
  BY <1>1, SaveFacts DEF MessageSound
<1> QED
  BY <1>6, <1>7, <1>8, <1>9, <1>10, <1>11, OwnStepKeeps DEF OwnSound

LEMMA WriteKeeps ==
    ASSUME Inv, ConstantsAssumption, NEW s \in Writers, NEW k \in Settings, WriteKey(s, k)
    PROVE  Inv'
<1>1. /\ pc[s] = "write" /\ Turn(s) /\ k \in loc[s].todo
      /\ UNCHANGED <<mem, turns, messages, cell, using, pc>>
  BY DEF WriteKey
<1>2. TypeOK /\ loc[s] \in LocType
  BY SaveFacts DEF Inv
<1>3. /\ db' \in Copy /\ faults' \in 0 .. MaxFaults /\ loc' \in [Writers -> LocType] /\ Alone(s)
      /\ loc'[s].todo = loc[s].todo \ {k} /\ loc'[s].part = loc[s].part /\ loc'[s].inline = loc[s].inline
      /\ \A j \in Settings : db'[j] = db[j] \/ (j = k /\ db'[j] = s)
      /\ loc'[s].failed => loc[s].failed \/ db' = db
  <2>1. CASE db' = [db EXCEPT ![k] = s] /\ loc' = [loc EXCEPT ![s].todo = @ \ {k}] /\ UNCHANGED faults
    BY <1>1, <1>2, <2>1 DEF TypeOK, Copy, LocType, Alone
  <2>2. CASE Fault /\ loc' = [loc EXCEPT ![s].todo = @ \ {k}, ![s].failed = TRUE] /\ UNCHANGED db
    <3>1. faults' \in 0 .. MaxFaults
      BY <1>2, <2>2, ConstantsAssumption DEF TypeOK, Fault, ConstantsAssumption
    <3>2. loc' \in [Writers -> LocType] /\ Alone(s)
      BY <1>1, <1>2, <2>2 DEF TypeOK, LocType, Alone
    <3>3. loc'[s].todo = loc[s].todo \ {k} /\ loc'[s].part = loc[s].part /\ loc'[s].inline = loc[s].inline
      BY <1>1, <1>2, <2>2 DEF TypeOK, LocType
    <3> QED
      BY <1>2, <2>2, <3>1, <3>2, <3>3 DEF TypeOK
  <2> QED
    BY <2>1, <2>2 DEF WriteKey
<1>4. QueueRel(s) /\ Turn(s)' /\ (Queued(s)' <=> Queued(s))
  <2>1. Queued(s)' <=> Queued(s)
    BY <1>1, <1>3 DEF Queued
  <2>2. QueueRel(s)
    BY <1>1, <1>3, <2>1, StaysRel
  <2> QED
    BY <1>1, <1>3, <2>1, <2>2 DEF Turn
<1>5. OwnStep(s)
  BY <1>1, <1>3, <1>4, SaveFacts DEF OwnStep
<1>6. TypeOK'
  BY <1>1, <1>2, <1>3 DEF TypeOK
<1>7. SaveSound(s) /\ StoreSound(s) /\ k \in PartOf(s, loc[s].part) /\ k \notin loc'[s].todo
  BY <1>1, <1>3, SaveFacts DEF SaveSound
<1>8. SaveSound(s)'
  BY <1>1, <1>3, <1>4, <1>7 DEF SaveSound
<1>9. StoreSound(s)'
  <2>1. \A j \in Settings : db'[j] = s =>
           \/ j \in PartOf(s, loc'[s].part) \ loc'[s].todo
           \/ loc'[s].part = "rest" /\ j = Group
    BY <1>3, <1>7 DEF StoreSound
  <2>2. ASSUME loc'[s].failed, loc'[s].part = "group" \/ s \in Backs, NEW j \in PartOf(s, loc'[s].part)
        PROVE  db'[j] # s
    <3>1. PartOf(s, loc[s].part) = {k} /\ j = k /\ j \in Settings
      <4>1. CASE s \in Backs
        BY <1>3, <1>7, <2>2, <4>1, SaveFacts, Places DEF BackSound, PartOf
      <4>2. CASE loc[s].part = "group"
        BY <1>3, <1>7, <2>2, <4>2 DEF PartOf, Settings
      <4> QED
        BY <1>3, <2>2, <4>1, <4>2
    <3>2. loc[s].todo = {k} /\ ~loc[s].failed /\ db[j] # s
      <4>1. loc[s].todo = {k}
        BY <1>1, <1>7, <3>1 DEF SaveSound
      <4>2. db[j] # s
        BY <1>7, <3>1, <4>1, Places, SaveFacts, <1>3, <2>2 DEF StoreSound, BackSound, PartOf
      <4> QED
        BY <1>7, <3>1, <4>1, <4>2 DEF SaveSound
    <3> QED
      BY <1>3, <2>2, <3>1, <3>2
  <2> QED
    BY <2>1, <2>2 DEF StoreSound
<1>10. s \in Requests => RequestSound(s)'
  BY <1>3, SaveFacts DEF RequestSound
<1>11. s \in Backs => BackSound(s)'
  BY <1>1, <1>3, SaveFacts DEF BackSound
<1>12. \A m \in Topics : MessageSound(m)'
  BY <1>1, SaveFacts DEF MessageSound
<1> QED
  BY <1>5, <1>6, <1>8, <1>9, <1>10, <1>11, <1>12, OwnStepKeeps DEF OwnSound

\* A save that leaves its turn, or had none of its own.
LEMMA LeaveRel ==
    ASSUME Inv, ConstantsAssumption, NEW s \in Writers, Alone(s), Turn(s), Leave(s), loc' = loc, ~Queued(s)'
    PROVE  QueueRel(s)
<1>1. CASE loc[s].inline
  BY <1>1, StaysRel DEF Leave, Queued
<1>2. CASE ~loc[s].inline
  BY <1>2, LeavesRel
<1> QED
  BY <1>1, <1>2

LEMMA SettleKeeps ==
    ASSUME Inv, ConstantsAssumption, NEW s \in Writers, Settle(s)
    PROVE  Inv'
<1>1. /\ pc[s] = "write" /\ Turn(s) /\ loc[s].todo = {} /\ TypeOK
      /\ UNCHANGED <<db, messages, cell, using, loc, faults>>
  BY DEF Settle, Inv
<1>2. /\ At(s) \in Replicas /\ loc[s] \in LocType /\ SaveSound(s) /\ StoreSound(s)
      /\ s \in Requests => ~loc[s].inline
      /\ s \in Backs => BackSound(s)
  BY SaveFacts
<1>3. ASSUME NEW l \in {"tell", "reload", "done"}, Goto(s, l), mem' \in [Replicas -> Copy],
             IF l = "reload" THEN UNCHANGED turns /\ s \in Requests /\ loc[s].part = "rest" ELSE Leave(s),
             l = "tell" => ~loc[s].failed
      PROVE  Inv'
  <2>1. /\ pc'[s] = l /\ pc' \in [Writers -> Labels] /\ Alone(s)
    BY <1>1, <1>3 DEF Goto, TypeOK, Labels, Alone
  <2>2. QueueRel(s)
    <3>1. CASE l = "reload"
      BY <1>1, <1>3, <2>1, <3>1, StaysRel DEF Queued
    <3>2. CASE l # "reload"
      BY <1>1, <1>3, <2>1, <3>2, LeaveRel DEF Queued
    <3> QED
      BY <3>1, <3>2
  <2>3. TypeOK'
    BY <1>1, <1>3, <2>1, <2>2 DEF TypeOK, QueueRel
  <2>4. OwnStep(s)
    BY <1>1, <2>1, <2>2, SaveFacts DEF OwnStep
  <2>5. SaveSound(s)'
    <3>1. l = "reload" => Turn(s)' /\ (Queued(s)' => Queued(s)) /\ turns' = turns
      BY <1>1, <1>3 DEF Turn, Queued
    <3> QED
      BY <1>1, <1>2, <1>3, <2>1, <3>1 DEF SaveSound, Queued
  <2>6. StoreSound(s)'
    BY <1>1, <1>2 DEF StoreSound
  <2>7. s \in Backs => BackSound(s)'
    <3> HAVE s \in Backs
    <3>1. Of[s] \in Writers /\ Of[s] # s /\ s \notin Requests
      BY Places
    <3>2. pc'[Of[s]] = pc[Of[s]] /\ l # "reload"
      BY <1>3, <2>1, <3>1 DEF Alone
    <3> QED
      BY <1>1, <1>2, <2>1, <3>2 DEF BackSound
  <2>8. (s \in Requests => RequestSound(s)') /\ \A m \in Topics : MessageSound(m)'
    BY <1>1, SaveFacts DEF RequestSound, MessageSound
  <2> QED
    BY <2>3, <2>4, <2>5, <2>6, <2>7, <2>8, OwnStepKeeps DEF OwnSound
<1>4. CASE ~loc[s].failed
  <2>1. /\ mem' = [mem EXCEPT ![At(s)] = [k \in Settings |-> IF k \in PartOf(s, loc[s].part) THEN s ELSE @[k]]]
        /\ Goto(s, "tell") /\ Leave(s)
    BY <1>4 DEF Settle
  <2>2. mem' \in [Replicas -> Copy]
    BY <1>1, <1>2, <2>1 DEF TypeOK, Copy
  <2> QED
    BY <1>3, <1>4, <2>1, <2>2
<1>5. CASE loc[s].failed
  <2>1. mem' = mem /\ mem' \in [Replicas -> Copy]
    BY <1>1, <1>5 DEF Settle, TypeOK
  <2>2. CASE s \in Requests /\ loc[s].part = "rest"
    BY <1>3, <1>5, <2>1, <2>2 DEF Settle
  <2>3. CASE ~(s \in Requests /\ loc[s].part = "rest")
    BY <1>3, <1>5, <2>1, <2>3 DEF Settle
  <2> QED
    BY <2>2, <2>3
<1> QED
  BY <1>4, <1>5

\* What is published, and what the state cell becomes.
LEMMA PublishKeeps ==
    ASSUME TypeOK, \A m \in Topics : MessageSound(m), NEW s, Publish(s)
    PROVE  /\ messages' \in [Topics -> [at : {"none", "sent", "read", "set", "handled"}, read : Copy \cup {None}]]
           /\ \A m \in Topics : MessageSound(m)'
           /\ \A m \in Topics : messages'[m] = messages[m] \/ messages'[m].at = "sent"
<1> DEFINE T == [at : {"none", "sent", "read", "set", "handled"}, read : Copy \cup {None}]
<1>1. messages \in [Topics -> T]
  BY DEF TypeOK
<1>2. ASSUME NEW m \in Topics
      PROVE  /\ messages'[m] \in T
             /\ messages'[m] = messages[m] \/ messages'[m].at = "sent"
  BY <1>1, <1>2 DEF Publish
<1>3. messages' \in [Topics -> T]
  BY <1>2 DEF Publish
<1> QED
  BY <1>2, <1>3 DEF MessageSound

LEMMA SetCellType ==
    ASSUME TypeOK, NEW r \in Replicas, SetCell(r)
    PROVE  cell' \in [Replicas -> CellType]
<1> DEFINE x == [cell[r] EXCEPT !.live = @ + 1, !.value = mem[r]]
<1>1. cell \in [Replicas -> CellType] /\ mem[r] \in Copy
  BY DEF TypeOK
<1>2. cell[r].live \in Nat \ {0} /\ cell[r].closed \subseteq Nat /\ x \in CellType
  <2>1. cell[r] \in CellType /\ cell[r].live + 1 \in Nat \ {0}
    BY <1>1 DEF CellType
  <2> QED
    BY <1>1, <2>1 DEF CellType
<1>3. [x EXCEPT !.closed = @ \cup {cell[r].live}] \in CellType
  BY <1>2 DEF CellType
<1>4. Dispose(x, r, cell[r].live, using) \in CellType
  BY <1>2, <1>3 DEF Dispose
<1>5. cell' = [cell EXCEPT ![r] = Dispose(x, r, cell[r].live, using)]
  BY DEF SetCell, Dispose
<1> HIDE DEF x
<1> QED
  BY <1>1, <1>4, <1>5

LEMMA NotifyType ==
    ASSUME TypeOK, NEW r \in Replicas, NEW source, Notify(r, source)
    PROVE  cell' \in [Replicas -> CellType]
  BY SetCellType DEF TypeOK, Notify

LEMMA TellKeeps ==
    ASSUME Inv, ConstantsAssumption, NEW s \in Writers, Tell(s)
    PROVE  Inv'
<1> DEFINE more == loc[s].part = "group" /\ Wants[s] \cap Keys # {}
           l == IF more THEN "call" ELSE IF s \in Backs THEN "done" ELSE "outside"
<1>1. /\ pc[s] = "tell" /\ TypeOK /\ Publish(s) /\ Notify(At(s), "local") /\ Goto(s, l)
      /\ loc' = IF more THEN [loc EXCEPT ![s].part = "rest", ![s].todo = PartOf(s, "rest")] ELSE loc
      /\ UNCHANGED <<db, mem, turns, using, faults>>
  BY DEF Tell, Inv
<1>2. /\ At(s) \in Replicas /\ loc[s] \in LocType /\ SaveSound(s) /\ StoreSound(s)
      /\ s \in Requests => ~loc[s].inline
      /\ s \in Backs => BackSound(s)
      /\ \A m \in Topics : MessageSound(m)
  BY SaveFacts
<1>3. /\ messages' \in [Topics -> [at : {"none", "sent", "read", "set", "handled"}, read : Copy \cup {None}]]
      /\ \A m \in Topics : MessageSound(m)'
  BY <1>1, <1>2, PublishKeeps
<1>4. cell' \in [Replicas -> CellType]
  BY <1>1, <1>2, NotifyType
<1>5. l \in Labels /\ l \in {"call", "done", "outside"}
  BY DEF Labels
<1>6. pc'[s] = l /\ pc' \in [Writers -> Labels]
  BY <1>1, <1>5 DEF Goto, TypeOK
<1>7. /\ loc' \in [Writers -> LocType]
      /\ loc'[s] = IF more THEN [loc[s] EXCEPT !.part = "rest", !.todo = PartOf(s, "rest")] ELSE loc[s]
      /\ \A t \in Writers \ {s} : loc'[t] = loc[t]
  <2>1. PartOf(s, "rest") \in SUBSET Settings
    BY Places DEF Parts
  <2> QED
    BY <1>1, <2>1 DEF TypeOK, LocType, Parts
<1>8. Alone(s)
  BY <1>1, <1>7 DEF Alone, Goto, TypeOK
<1>9. QueueRel(s)
  BY <1>1, <1>8, StaysRel DEF Queued
<1>10. OwnStep(s)
  BY <1>1, <1>8, <1>9, SaveFacts DEF OwnStep
<1>11. TypeOK'
  BY <1>1, <1>3, <1>4, <1>6, <1>7 DEF TypeOK
<1>12. CASE more
  <2>1. /\ pc'[s] = "call" /\ loc'[s].part = "rest" /\ loc'[s].todo = PartOf(s, "rest")
        /\ loc'[s].failed = loc[s].failed /\ loc'[s].inline = loc[s].inline
    BY <1>2, <1>6, <1>7, <1>12 DEF LocType
  <2>2. s \in Requests
    BY <1>2, <1>12, SaveFacts DEF BackSound
  <2>3. SaveSound(s)'
    BY <1>1, <1>2, <2>1 DEF SaveSound, Queued
  <2>4. StoreSound(s)'
    BY <1>1, <1>2, <1>12, <2>1, <2>2, Places DEF StoreSound, PartOf, SaveSound
  <2>5. RequestSound(s)' /\ s \notin Backs
    BY <1>2, <2>1, <2>2, Places DEF RequestSound
  <2> QED
    BY <1>3, <1>10, <1>11, <2>3, <2>4, <2>5, OwnStepKeeps DEF OwnSound
<1>13. CASE ~more
  <2>1. pc'[s] \in {"done", "outside"} /\ loc'[s] = loc[s] /\ (s \in Backs => pc'[s] = "done")
    BY <1>6, <1>7, <1>13
  <2>2. SaveSound(s)' /\ StoreSound(s)' /\ (s \in Requests => RequestSound(s)')
    BY <1>1, <1>2, <2>1 DEF SaveSound, StoreSound, Queued, RequestSound
  <2>3. s \in Backs => BackSound(s)'
    <3> HAVE s \in Backs
    <3>1. Of[s] \in Writers /\ Of[s] # s
      BY Places
    <3>2. pc'[Of[s]] = pc[Of[s]]
      BY <1>8, <3>1 DEF Alone
    <3> QED
      BY <1>1, <1>2, <2>1, <3>2 DEF BackSound
  <2> QED
    BY <1>3, <1>10, <1>11, <2>2, <2>3, OwnStepKeeps DEF OwnSound
<1> QED
  BY <1>12, <1>13

LEMMA ReloadReadKeeps ==
    ASSUME Inv, ConstantsAssumption, NEW s \in Writers, ReloadRead(s)
    PROVE  Inv'
<1>1. /\ pc[s] = "reload" /\ TypeOK /\ UNCHANGED <<db, mem, messages, cell, using>>
      /\ At(s) \in Replicas /\ loc[s] \in LocType /\ SaveSound(s) /\ StoreSound(s)
      /\ Turn(s) /\ s \in Requests /\ s \notin Backs /\ ~loc[s].inline
      /\ \A m \in Topics : MessageSound(m)
  <2>1. pc[s] = "reload" /\ UNCHANGED <<db, mem, messages, cell, using>>
    BY DEF ReloadRead
  <2> QED
    BY <2>1, SaveFacts, Places DEF Inv, BackSound, SaveSound
<1>2. ASSUME NEW l \in {"reloaded", "blind"}, Goto(s, l), faults' \in 0 .. MaxFaults,
             IF l = "blind" THEN Leave(s) /\ loc' = loc
             ELSE UNCHANGED turns /\ loc' = [loc EXCEPT ![s].read = db]
      PROVE  Inv'
  <2> db \in Copy \cup {None} /\ loc \in [Writers -> LocType]
    BY <1>1 DEF TypeOK
  <2>1. /\ pc'[s] = l /\ pc' \in [Writers -> Labels] /\ Alone(s)
    BY <1>1, <1>2 DEF Goto, TypeOK, Labels, Alone
  <2>0. loc' \in [Writers -> LocType]
    BY <1>2 DEF LocType
  <2>2. /\ loc'[s].inline = loc[s].inline /\ loc'[s].todo = loc[s].todo /\ loc'[s].part = loc[s].part
        /\ loc'[s].failed = loc[s].failed /\ (l = "reloaded" => loc'[s].read = db)
    BY <1>1, <1>2 DEF TypeOK, LocType
  <2>3. QueueRel(s)
    <3>1. CASE l = "blind"
      BY <1>1, <1>2, <2>1, <3>1, LeaveRel DEF Queued
    <3>2. CASE l = "reloaded"
      BY <1>2, <2>1, <2>2, <3>2, StaysRel DEF Queued
    <3> QED
      BY <3>1, <3>2
  <2>4. OwnStep(s)
    BY <1>1, <2>1, <2>3, SaveFacts DEF OwnStep
  <2>5. TypeOK'
    BY <1>1, <1>2, <2>0, <2>1, <2>3 DEF TypeOK, QueueRel
  <2>6. SaveSound(s)'
    <3>1. l = "reloaded" => Turn(s)' /\ (Queued(s)' => Queued(s)) /\ turns' = turns
      BY <1>1, <1>2, <2>2 DEF Turn, Queued
    <3>2. db \in Copy
      BY <1>1 DEF TypeOK
    <3> QED
      BY <1>1, <2>1, <2>2, <3>1, <3>2 DEF SaveSound, Queued
  <2>7. StoreSound(s)' /\ RequestSound(s)' /\ \A m \in Topics : MessageSound(m)'
    BY <1>1, <2>2 DEF StoreSound, RequestSound, MessageSound
  <2> QED
    BY <1>1, <2>4, <2>5, <2>6, <2>7, OwnStepKeeps DEF OwnSound
<1>3. CASE Fault /\ Goto(s, "blind") /\ Leave(s) /\ UNCHANGED loc
  <2>1. faults' \in 0 .. MaxFaults
    BY <1>1, <1>3, ConstantsAssumption DEF TypeOK, Fault, ConstantsAssumption
  <2> QED
    BY <1>2, <1>3, <2>1
<1>4. CASE loc' = [loc EXCEPT ![s].read = db] /\ Goto(s, "reloaded") /\ UNCHANGED <<turns, faults>>
  <2>1. faults' \in 0 .. MaxFaults
    BY <1>1, <1>4 DEF TypeOK
  <2> QED
    BY <1>2, <1>4, <2>1
<1> QED
  BY <1>3, <1>4 DEF ReloadRead

LEMMA ReloadSetKeeps ==
    ASSUME Inv, ConstantsAssumption, NEW s \in Writers, ReloadSet(s)
    PROVE  Inv'
<1>1. /\ pc[s] = "reloaded" /\ TypeOK /\ UNCHANGED <<db, turns, cell, using, faults>>
      /\ mem' = [mem EXCEPT ![At(s)] = loc[s].read] /\ loc' = [loc EXCEPT ![s].read = None]
      /\ Publish(s) /\ Goto(s, "inside")
  BY DEF ReloadSet, Inv
<1>2. /\ At(s) \in Replicas /\ loc[s] \in LocType /\ SaveSound(s) /\ StoreSound(s)
      /\ Turn(s) /\ s \in Requests /\ s \notin Backs /\ ~loc[s].inline
      /\ \A m \in Topics : MessageSound(m)
  BY <1>1, SaveFacts, Places DEF BackSound, SaveSound
<1>3. /\ pc'[s] = "inside" /\ pc' \in [Writers -> Labels] /\ loc' \in [Writers -> LocType] /\ Alone(s)
      /\ loc'[s].inline = loc[s].inline /\ loc'[s].todo = loc[s].todo /\ loc'[s].part = loc[s].part
      /\ loc'[s].failed = loc[s].failed
  BY <1>1 DEF Goto, TypeOK, Labels, Alone, LocType
<1>4. QueueRel(s)
  BY <1>1, <1>3, StaysRel DEF Queued
<1>5. OwnStep(s)
  BY <1>1, <1>2, <1>3, <1>4, SaveFacts DEF OwnStep
<1>6. mem' \in [Replicas -> Copy]
  BY <1>1, <1>2 DEF TypeOK, SaveSound
<1>7. /\ messages' \in [Topics -> [at : {"none", "sent", "read", "set", "handled"}, read : Copy \cup {None}]]
      /\ \A m \in Topics : MessageSound(m)'
  BY <1>1, <1>2, PublishKeeps
<1>8. TypeOK'
  BY <1>1, <1>3, <1>6, <1>7 DEF TypeOK
<1>9. SaveSound(s)' /\ StoreSound(s)' /\ RequestSound(s)'
  <2>1. Turn(s)' /\ (Queued(s)' => Queued(s))
    BY <1>1, <1>2, <1>3 DEF Turn, Queued
  <2> QED
    BY <1>1, <1>2, <1>3, <2>1 DEF SaveSound, StoreSound, RequestSound
<1> QED
  BY <1>2, <1>5, <1>7, <1>8, <1>9, OwnStepKeeps DEF OwnSound

LEMMA ReturnKeeps ==
    ASSUME Inv, ConstantsAssumption, NEW s \in Writers, Return(s)
    PROVE  Inv'
<1>1. /\ pc[s] \in {"after", "within"} /\ \A b \in Backs : Of[b] = s => pc[b] \in {"idle", "done"}
      /\ Goto(s, "done") /\ TypeOK /\ UNCHANGED <<db, mem, messages, cell, using, loc, faults>>
  BY DEF Return, Inv
<1>2. /\ At(s) \in Replicas /\ loc[s] \in LocType /\ SaveSound(s) /\ StoreSound(s)
      /\ s \in Requests /\ s \notin Backs /\ ~loc[s].inline
      /\ \A m \in Topics : MessageSound(m)
  BY <1>1, SaveFacts, Places DEF BackSound
<1>3. pc'[s] = "done" /\ pc' \in [Writers -> Labels] /\ Alone(s) /\ ~Queued(s)'
  BY <1>1 DEF Goto, TypeOK, Labels, Alone, Queued
<1>4. QueueRel(s)
  <2>1. CASE pc[s] = "within"
    BY <1>1, <1>2, <1>3, <2>1, LeaveRel DEF Return, SaveSound
  <2>2. CASE pc[s] = "after"
    BY <1>3, <2>2, StaysRel DEF Return, Queued
  <2> QED
    BY <1>1, <2>1, <2>2
<1>5. OwnStep(s)
  BY <1>1, <1>3, <1>4 DEF OwnStep
<1>6. TypeOK'
  BY <1>1, <1>3, <1>4 DEF TypeOK, QueueRel
<1>7. SaveSound(s)' /\ StoreSound(s)' /\ RequestSound(s)' /\ \A m \in Topics : MessageSound(m)'
  BY <1>1, <1>2, <1>3 DEF SaveSound, StoreSound, RequestSound, MessageSound
<1> QED
  BY <1>2, <1>5, <1>6, <1>7, OwnStepKeeps DEF OwnSound

\* Reconfiguring moves the request, and of what is written back for it only what has not begun.
LEMMA ReconfigureKeeps ==
    ASSUME Inv, ConstantsAssumption, NEW s \in Writers, Reconfigure(s)
    PROVE  Inv'
<1>1. /\ pc[s] \in {"outside", "inside"} /\ TypeOK
      /\ UNCHANGED <<db, mem, turns, messages, using, loc, faults>>
  BY DEF Reconfigure, Inv
<1>2. PICK B \in SUBSET {b \in Backs : Of[b] = s} :
         pc' = [p \in Writers |-> IF p \in B THEN "call" ELSE IF p # s THEN pc[p]
                                  ELSE IF pc[s] = "outside" THEN "after" ELSE "within"]
  BY DEF Reconfigure
<1>3. /\ At(s) \in Replicas /\ s \in Requests /\ s \notin Backs /\ s \notin B
      /\ \A m \in Topics : MessageSound(m)
  BY <1>1, SaveFacts, Places DEF BackSound
<1>4. cell' \in [Replicas -> CellType]
  BY <1>1, <1>3, SetCellType, NotifyType DEF Reconfigure
<1>5. /\ pc' \in [Writers -> Labels]
      /\ pc'[s] = IF pc[s] = "outside" THEN "after" ELSE "within"
      /\ \A b \in B : pc'[b] = "call"
      /\ \A t \in Writers : t \notin B /\ t # s => pc'[t] = pc[t]
  BY <1>1, <1>2, <1>3, Places DEF TypeOK, Labels
<1>6. TypeOK'
  BY <1>1, <1>4, <1>5 DEF TypeOK
<1>7. \A b \in B : b \in Backs /\ b \in Writers /\ Of[b] = s /\ pc[b] = "idle"
  BY <1>1, <1>2, Places DEF Inv, BackSound
<1>8. \A t \in Writers : Queued(t)' <=> Queued(t)
  <2> TAKE t \in Writers
  <2>1. CASE t \in B
    BY <1>5, <1>7, <2>1 DEF Queued
  <2>2. CASE t = s
    BY <1>1, <1>5, <2>2, SaveFacts, <1>3 DEF Queued, SaveSound, Turn
  <2>3. CASE t \notin B /\ t # s
    BY <1>1, <1>5, <2>3 DEF Queued
  <2> QED
    BY <2>1, <2>2, <2>3
<1>9. \A r \in Replicas : QueueSound(r)'
  <2> TAKE r \in Replicas
  <2>1. QueueSound(r) /\ \A i \in 1 .. Len(turns[r]) : turns[r][i] \in Writers
    BY <1>1 DEF Inv, TypeOK
  <2> QED
    BY <1>1, <1>8, <2>1 DEF QueueSound
<1>10. ASSUME NEW t \in Writers PROVE SaveSound(t)' /\ StoreSound(t)'
  <2>1. SaveSound(t) /\ StoreSound(t) /\ (Queued(t)' <=> Queued(t)) /\ (Turn(t)' <=> Turn(t))
    BY <1>1, <1>8 DEF Inv, Turn
  <2>2. StoreSound(t)'
    BY <1>1, <2>1 DEF StoreSound
  <2>3. CASE t \in B
    BY <1>1, <1>5, <1>7, <2>1, <2>2, <2>3 DEF SaveSound
  <2>4. CASE t = s
    BY <1>1, <1>5, <2>1, <2>2, <2>4 DEF SaveSound
  <2>5. CASE t \notin B /\ t # s
    BY <1>1, <1>5, <2>1, <2>2, <2>5 DEF SaveSound
  <2> QED
    BY <2>3, <2>4, <2>5
<1>11. \A t \in Requests : RequestSound(t)'
  BY <1>1 DEF Inv, RequestSound
<1>12. ASSUME NEW b \in Backs PROVE BackSound(b)'
  <2>1. BackSound(b) /\ b \in Writers /\ Of[b] \in Writers /\ Of[b] \notin Backs /\ b # s
    BY <1>3, Places DEF Inv
  <2>2. CASE Of[b] = s
    BY <1>1, <1>5, <2>1, <2>2 DEF BackSound
  <2>3. CASE Of[b] # s
    <3>1. pc'[b] = pc[b] /\ pc'[Of[b]] = pc[Of[b]]
      BY <1>5, <1>7, <2>1, <2>3
    <3> QED
      BY <1>1, <2>1, <3>1 DEF BackSound
  <2> QED
    BY <2>2, <2>3
<1>13. \A m \in Topics : MessageSound(m)'
  BY <1>1, <1>3 DEF MessageSound
<1> QED
  BY <1>6, <1>9, <1>10, <1>11, <1>12, <1>13 DEF Inv

\* What no step of a save changes keeps the invariant.
LEMMA ElsewhereKeeps ==
    ASSUME Inv, UNCHANGED <<db, turns, pc, loc>>, TypeOK', \A m \in Topics : MessageSound(m)'
    PROVE  Inv'
<1>1. \A r \in Replicas : QueueSound(r)'
  BY DEF Inv, QueueSound, Queued
<1>2. \A s \in Writers : SaveSound(s)' /\ StoreSound(s)'
  BY DEF Inv, SaveSound, StoreSound, Queued, Turn
<1>3. (\A s \in Requests : RequestSound(s)') /\ (\A b \in Backs : BackSound(b)')
  BY DEF Inv, RequestSound, BackSound
<1> QED
  BY <1>1, <1>2, <1>3 DEF Inv

LEMMA HandlerKeeps ==
    ASSUME Inv, ConstantsAssumption, NEW m \in Topics, HandlerStep(m)
    PROVE  Inv'
<1> DEFINE T == [at : {"none", "sent", "read", "set", "handled"}, read : Copy \cup {None}]
<1>1. TypeOK /\ messages \in [Topics -> T] /\ m.to \in Replicas /\ \A n \in Topics : MessageSound(n)
  BY DEF Inv, TypeOK, Topics
<1>2. CASE HandleRead(m)
  <2>1. /\ messages' = [messages EXCEPT ![m] = [at |-> "read", read |-> db]]
        /\ UNCHANGED <<db, mem, turns, cell, using, pc, loc, faults>> /\ db \in Copy
    BY <1>1, <1>2 DEF HandleRead, TypeOK
  <2>2. messages' \in [Topics -> T] /\ \A n \in Topics : MessageSound(n)'
    BY <1>1, <2>1 DEF MessageSound
  <2>3. TypeOK'
    BY <1>1, <2>1, <2>2 DEF TypeOK
  <2> QED
    BY <2>1, <2>2, <2>3, ElsewhereKeeps
<1>3. CASE HandleSet(m)
  <2>1. /\ messages[m].at = "read" /\ messages' = [messages EXCEPT ![m] = [at |-> "set", read |-> None]]
        /\ mem' = [mem EXCEPT ![m.to] = messages[m].read]
        /\ UNCHANGED <<db, turns, cell, using, pc, loc, faults>>
    BY <1>3 DEF HandleSet
  <2>2. messages' \in [Topics -> T] /\ \A n \in Topics : MessageSound(n)'
    BY <1>1, <2>1 DEF MessageSound
  <2>3. mem' \in [Replicas -> Copy]
    BY <1>1, <2>1 DEF TypeOK, MessageSound
  <2>4. TypeOK'
    BY <1>1, <2>1, <2>2, <2>3 DEF TypeOK
  <2> QED
    BY <2>1, <2>2, <2>4, ElsewhereKeeps
<1>4. CASE HandleNotify(m)
  <2>1. /\ messages[m].at = "set" /\ messages' = [messages EXCEPT ![m].at = "handled"]
        /\ Notify(m.to, "remote") /\ UNCHANGED <<db, mem, turns, using, pc, loc, faults>>
    BY <1>4 DEF HandleNotify
  <2>2. messages' \in [Topics -> T] /\ \A n \in Topics : MessageSound(n)'
    BY <1>1, <2>1 DEF MessageSound
  <2>3. cell' \in [Replicas -> CellType]
    BY <1>1, <2>1, NotifyType
  <2>4. TypeOK'
    BY <1>1, <2>1, <2>2, <2>3 DEF TypeOK
  <2> QED
    BY <2>1, <2>2, <2>4, ElsewhereKeeps
<1> QED
  BY <1>2, <1>3, <1>4 DEF HandlerStep

LEMMA CallsKeep ==
    ASSUME Inv, ConstantsAssumption, NEW c \in Calls, Use(c) \/ EndUse(c)
    PROVE  Inv'
<1>1. TypeOK /\ Site[c] \in Replicas /\ (\A m \in Topics : MessageSound(m))
  BY DEF Inv, ConstantsAssumption
<1>2. cell[Site[c]] \in CellType /\ using \in [Calls -> Nat \cup {None}]
  BY <1>1 DEF TypeOK
<1>3. CASE Use(c)
  <2>1. using' \in [Calls -> Nat \cup {None}]
    BY <1>2, <1>3 DEF Use, CellType
  <2>2. TypeOK'
    BY <1>1, <1>3, <2>1 DEF TypeOK, Use
  <2>3. UNCHANGED <<db, turns, pc, loc>> /\ \A m \in Topics : MessageSound(m)'
    BY <1>1, <1>3 DEF Use, MessageSound
  <2> QED
    BY <2>2, <2>3, ElsewhereKeeps
<1>4. CASE EndUse(c)
  <2>1. /\ using[c] \notin {0, None} /\ using' = [using EXCEPT ![c] = None]
        /\ UNCHANGED <<db, mem, turns, messages, pc, loc, faults>>
    BY <1>4 DEF EndUse
  <2>2. using[c] \in Nat /\ using' \in [Calls -> Nat \cup {None}]
    BY <1>2, <2>1
  <2>3. Dispose(cell[Site[c]], Site[c], using[c], using') \in CellType
    BY <1>2, <2>2 DEF Dispose, CellType
  <2>4. \/ cell' = cell
        \/ cell' = [cell EXCEPT ![Site[c]] = Dispose(cell[Site[c]], Site[c], using[c], using')]
    BY <1>4 DEF EndUse
  <2>5. cell' \in [Replicas -> CellType]
    BY <1>1, <2>3, <2>4 DEF TypeOK
  <2>6. TypeOK'
    BY <1>1, <2>1, <2>2, <2>5 DEF TypeOK
  <2>7. UNCHANGED <<db, turns, pc, loc>> /\ \A m \in Topics : MessageSound(m)'
    BY <1>1, <2>1 DEF MessageSound
  <2> QED
    BY <2>6, <2>7, ElsewhereKeeps
<1> QED
  BY <1>3, <1>4

LEMMA InitInv == ASSUME ConstantsAssumption, Init PROVE Inv
<1> DEFINE e == [k \in Settings |-> None]
<1>1. PICK cast \in Casts :
         /\ using = [c \in Calls |-> IF c \in cast THEN 0 ELSE None]
         /\ pc = [s \in Writers |-> IF s \in cast THEN "call" ELSE "idle"]
  BY DEF Init
<1>2. /\ e \in Copy /\ None \notin Writers /\ db = e /\ mem = [r \in Replicas |-> e]
      /\ turns = [r \in Replicas |-> <<>>] /\ loc = [s \in Writers |-> Fresh(s)]
      /\ messages = [m \in Topics |-> [at |-> "none", read |-> None]]
      /\ cell = [r \in Replicas |-> [live |-> 1, value |-> e, closed |-> {}]] /\ faults = 0
  BY Places DEF Init, Copy
<1>3. ASSUME NEW s \in Writers
      PROVE  /\ Fresh(s) \in LocType /\ Fresh(s).todo = PartOf(s, Fresh(s).part) /\ ~Fresh(s).failed
             /\ ~Fresh(s).inline /\ (Fresh(s).part = "group" <=> Group \in Wants[s])
             /\ Fresh(s).part \in Parts
  BY Places DEF Fresh, LocType, Parts
<1>4. \A s \in Writers : pc[s] \in {"idle", "call"} /\ loc[s] = Fresh(s)
  BY <1>1, <1>2
<1>5. TypeOK
  <2>1. db \in Copy /\ mem \in [Replicas -> Copy] /\ faults \in 0 .. MaxFaults
    BY <1>2 DEF ConstantsAssumption
  <2>2. turns \in [Replicas -> Seq(Writers)]
    BY <1>2
  <2>3. messages \in [Topics -> [at : {"none", "sent", "read", "set", "handled"}, read : Copy \cup {None}]]
    BY <1>2
  <2>4. cell \in [Replicas -> CellType]
    BY <1>2 DEF CellType
  <2>5. using \in [Calls -> Nat \cup {None}] /\ pc \in [Writers -> Labels]
    BY <1>1 DEF Labels
  <2>6. loc \in [Writers -> LocType]
    BY <1>2, <1>3
  <2> QED
    BY <2>1, <2>2, <2>3, <2>4, <2>5, <2>6 DEF TypeOK
<1>6. ASSUME NEW r \in Replicas PROVE QueueSound(r)
  <2>1. turns[r] = <<>>
    BY <1>2
  <2>2. \A i \in 1 .. Len(<<>>) : FALSE
    OBVIOUS
  <2>3. \A i \in 1 .. Len(turns[r]) : FALSE
    BY <2>1, <2>2
  <2> QED
    BY <2>3 DEF QueueSound
<1>7. \A s \in Writers : SaveSound(s) /\ StoreSound(s)
  BY <1>2, <1>3, <1>4 DEF SaveSound, StoreSound, Queued
<1>8. \A s \in Requests : RequestSound(s)
  BY <1>3, <1>4, Places DEF RequestSound
<1>9. ASSUME NEW b \in Backs PROVE BackSound(b)
  <2>1. cast \subseteq Requests \cup Calls /\ b \notin cast /\ b \in Writers /\ Of[b] \in Writers
    BY <1>1, Places DEF ConstantsAssumption
  <2>2. pc[b] = "idle" /\ loc[b].part = "rest" /\ pc[Of[b]] \in {"idle", "call"}
    BY <1>1, <1>3, <1>4, <2>1, Places DEF Parts
  <2> QED
    BY <2>2 DEF BackSound
<1> QED
  BY <1>2, <1>5, <1>6, <1>7, <1>8, <1>9 DEF Inv, MessageSound

LEMMA SaveStepKeeps ==
    ASSUME Inv, ConstantsAssumption, NEW s \in Writers, SaveStep(s)
    PROVE  Inv'
  BY CallKeeps, WriteKeeps, SettleKeeps, TellKeeps, ReloadReadKeeps, ReloadSetKeeps, ReconfigureKeeps,
     ReturnKeeps DEF SaveStep

LEMMA NextInv ==
    ASSUME Inv, ConstantsAssumption, [Next]_vars
    PROVE  Inv'
<1>1. CASE UNCHANGED vars
  <2>1. TypeOK' /\ \A m \in Topics : MessageSound(m)'
    BY <1>1 DEF Inv, vars, TypeOK, MessageSound
  <2> QED
    BY <1>1, <2>1, ElsewhereKeeps DEF vars
<1>2. CASE Next
  BY <1>2, SaveStepKeeps, HandlerKeeps, CallsKeep DEF Next
<1> QED
  BY <1>1, <1>2

-----------------------------------------------------------------------------
(* The state cells. *)

Holds(r, g) == \E c \in Calls : Site[c] = r /\ using[c] = g

\* CellsInv, of one replica and without the set of what is held.
CellGood(r) ==
    /\ cell[r].closed \subseteq 1 .. cell[r].live - 1
    /\ \A c \in Calls : Site[c] = r /\ using[c] \notin {0, None} => using[c] \in 1 .. cell[r].live
    /\ \A g \in cell[r].closed : ~Holds(r, g)
    /\ \A g \in 1 .. cell[r].live - 1 : Holds(r, g) \/ g \in cell[r].closed

LEMMA CellsInvGood ==
    /\ CellsInv <=> \A r \in Replicas : CellGood(r)
    /\ CellsInv' <=> \A r \in Replicas : CellGood(r)'
  BY DEF CellsInv, CellsAreSafe, CellSound, CellGood, Holds

LEMMA SetCellGood ==
    ASSUME TypeOK, \A r \in Replicas : CellGood(r), NEW p \in Replicas, SetCell(p), using' = using
    PROVE  \A r \in Replicas : CellGood(r)'
<1> DEFINE x == cell[p]
           y == [x EXCEPT !.live = x.live + 1, !.value = mem[p]]
<1>1. cell \in [Replicas -> CellType] /\ x \in CellType /\ x.live \in Nat \ {0}
  BY DEF TypeOK, CellType
<1>2. cell' = [cell EXCEPT ![p] = Dispose(y, p, x.live, using)]
  BY DEF SetCell
<1>3. y \in CellType /\ y.live = x.live + 1 /\ y.closed = x.closed
  <2>1. mem[p] \in Copy /\ x.live + 1 \in Nat \ {0}
    BY <1>1 DEF TypeOK
  <2> QED
    BY <1>1, <2>1 DEF CellType
<1>4. Unused(p, x.live, using) <=> ~Holds(p, x.live)
  BY DEF Unused, Holds
<1>5. cell'[p] = Dispose(y, p, x.live, using) /\ \A r \in Replicas \ {p} : cell'[r] = cell[r]
  BY <1>1, <1>2
<1>6. cell'[p].live = x.live + 1 /\ cell'[p].closed = IF Holds(p, x.live) THEN x.closed ELSE x.closed \cup {x.live}
  <2> HIDE DEF y
  <2>1. CASE Holds(p, x.live)
    BY <1>3, <1>4, <1>5, <2>1 DEF Dispose
  <2>2. CASE ~Holds(p, x.live)
    BY <1>3, <1>4, <1>5, <2>2 DEF Dispose, CellType
  <2> QED
    BY <2>1, <2>2
<1>7. \A r, g : Holds(r, g)' <=> Holds(r, g)
  BY DEF Holds
<1>8. CellGood(p)'
  <2>1. CellGood(p)
    OBVIOUS
  <2> HIDE DEF y
  <2>2. cell'[p].closed \subseteq 1 .. x.live
    BY <1>1, <1>6, <2>1 DEF CellGood
  <2>3. \A c \in Calls : Site[c] = p /\ using'[c] \notin {0, None} => using'[c] \in 1 .. x.live + 1
    BY <1>1, <2>1 DEF CellGood
  <2>4. \A g \in cell'[p].closed : ~Holds(p, g)
    BY <1>6, <2>1 DEF CellGood
  <2>5. \A g \in 1 .. x.live : Holds(p, g) \/ g \in cell'[p].closed
    BY <1>1, <1>6, <2>1 DEF CellGood
  <2>6. cell'[p].live - 1 = x.live
    BY <1>1, <1>6
  <2> QED
    BY <1>6, <1>7, <2>2, <2>3, <2>4, <2>5, <2>6 DEF CellGood
<1>9. \A r \in Replicas \ {p} : CellGood(r)'
  BY <1>5, <1>7 DEF CellGood
<1> QED
  BY <1>8, <1>9

LEMMA NotifyGood ==
    ASSUME TypeOK, \A r \in Replicas : CellGood(r), NEW p \in Replicas, NEW source, Notify(p, source),
           using' = using
    PROVE  \A r \in Replicas : CellGood(r)'
<1>1. CASE Follows(source)
  BY <1>1, SetCellGood DEF Notify
<1>2. CASE ~Follows(source)
  BY <1>2 DEF Notify, CellGood, Holds
<1> QED
  BY <1>1, <1>2

LEMMA UseGood ==
    ASSUME TypeOK, ConstantsAssumption, \A r \in Replicas : CellGood(r), NEW c \in Calls, Use(c)
    PROVE  \A r \in Replicas : CellGood(r)'
<1> DEFINE p == Site[c]
<1>1. /\ p \in Replicas /\ cell[p].live \in Nat \ {0} /\ using \in [Calls -> Nat \cup {None}] /\ None \notin Nat
      /\ using[c] = 0 /\ using' = [using EXCEPT ![c] = cell[p].live] /\ cell' = cell
  BY DEF TypeOK, CellType, ConstantsAssumption, Use
<1>2. using'[c] = cell[p].live /\ \A d \in Calls \ {c} : using'[d] = using[d]
  BY <1>1
<1> SUFFICES ASSUME NEW r \in Replicas PROVE CellGood(r)'
  OBVIOUS
<1>3. CellGood(r)
  OBVIOUS
<1>4. ASSUME NEW g PROVE (Holds(r, g)' => Holds(r, g) \/ (r = p /\ g = cell[p].live)) /\ (Holds(r, g) /\ g # 0 => Holds(r, g)')
  BY <1>1, <1>2 DEF Holds
<1>5. \A d \in Calls : Site[d] = r /\ using'[d] \notin {0, None} => using'[d] \in 1 .. cell[r].live
  BY <1>1, <1>2, <1>3 DEF CellGood
<1>6. cell[r].live \notin cell[r].closed /\ cell[r].live \in Nat
  BY <1>3 DEF CellGood, TypeOK, CellType
<1>7. \A g \in cell[r].closed : ~Holds(r, g)'
  BY <1>3, <1>4, <1>6 DEF CellGood
<1>8. \A g \in 1 .. cell[r].live - 1 : Holds(r, g)' \/ g \in cell[r].closed
  BY <1>3, <1>4, <1>6 DEF CellGood
<1> QED
  BY <1>1, <1>3, <1>5, <1>7, <1>8 DEF CellGood

LEMMA EndUseGood ==
    ASSUME TypeOK, ConstantsAssumption, \A r \in Replicas : CellGood(r), NEW c \in Calls, EndUse(c)
    PROVE  \A r \in Replicas : CellGood(r)'
<1> DEFINE p == Site[c]
<1>0. PICK u : u = using[c]
  OBVIOUS
<1>1. /\ p \in Replicas /\ cell \in [Replicas -> CellType] /\ using \in [Calls -> Nat \cup {None}] /\ None \notin Nat
      /\ u \notin {0, None} /\ u \in Nat /\ using' = [using EXCEPT ![c] = None]
      /\ cell[p].live \in Nat \ {0}
  BY <1>0 DEF TypeOK, ConstantsAssumption, EndUse, CellType
<1>2. cell' = IF u = cell[p].live THEN cell ELSE [cell EXCEPT ![p] = Dispose(cell[p], p, u, using')]
  BY <1>0 DEF EndUse
<1>3. using'[c] = None /\ \A d \in Calls \ {c} : using'[d] = using[d]
  BY <1>1
<1>4. ASSUME NEW r \in Replicas, NEW g \in Nat
      PROVE  (Holds(r, g)' => Holds(r, g)) /\ (Holds(r, g) => Holds(r, g)' \/ (r = p /\ g = u))
  BY <1>0, <1>1, <1>3 DEF Holds
<1>5. Unused(p, u, using') <=> ~Holds(p, u)'
  BY DEF Unused, Holds
<1>6. /\ cell'[p].live = cell[p].live
      /\ cell'[p].closed = IF u = cell[p].live \/ Holds(p, u)' THEN cell[p].closed ELSE cell[p].closed \cup {u}
  <2>1. cell[p] \in CellType
    BY <1>1
  <2>2. CASE u = cell[p].live
    BY <1>2, <2>2
  <2>3. CASE u # cell[p].live
    <3>1. cell'[p] = Dispose(cell[p], p, u, using')
      BY <1>1, <1>2, <2>3
    <3>2. CASE Holds(p, u)'
      BY <1>5, <3>1, <3>2 DEF Dispose
    <3>3. CASE ~Holds(p, u)'
      BY <1>5, <2>1, <2>3, <3>1, <3>3 DEF Dispose, CellType
    <3> QED
      BY <3>2, <3>3
  <2> QED
    BY <2>2, <2>3
<1>7. \A r \in Replicas \ {p} : cell'[r] = cell[r]
  BY <1>1, <1>2
<1>8. CellGood(p)'
  <2>1. CellGood(p) /\ Holds(p, u) /\ u \in 1 .. cell[p].live /\ \A g \in cell[p].closed : g \in Nat
    BY <1>0, <1>1 DEF CellGood, Holds
  <2>2. cell'[p].closed \subseteq 1 .. cell[p].live - 1
    BY <1>1, <1>6, <2>1 DEF CellGood
  <2>3. \A d \in Calls : Site[d] = p /\ using'[d] \notin {0, None} => using'[d] \in 1 .. cell[p].live
    BY <1>3, <2>1 DEF CellGood
  <2>4. \A g \in cell'[p].closed : ~Holds(p, g)'
    BY <1>1, <1>4, <1>6, <2>1 DEF CellGood
  <2>5. \A g \in 1 .. cell[p].live - 1 : Holds(p, g)' \/ g \in cell'[p].closed
    BY <1>1, <1>4, <1>6, <2>1 DEF CellGood
  <2> QED
    BY <1>6, <2>2, <2>3, <2>4, <2>5 DEF CellGood
<1>9. ASSUME NEW r \in Replicas \ {p} PROVE CellGood(r)'
  <2>1. CellGood(r) /\ cell'[r] = cell[r] /\ cell[r].live \in Nat
    BY <1>1, <1>7 DEF CellType
  <2>2. \A d \in Calls : Site[d] = r /\ using'[d] \notin {0, None} => using'[d] \in 1 .. cell[r].live
    BY <1>3, <2>1 DEF CellGood
  <2>3. \A g \in Nat : Holds(r, g)' <=> Holds(r, g)
    BY <1>4
  <2> QED
    BY <2>1, <2>2, <2>3 DEF CellGood
<1> QED
  BY <1>8, <1>9

LEMMA NextCells ==
    ASSUME Inv, ConstantsAssumption, CellsInv, [Next]_vars
    PROVE  CellsInv'
<1>1. TypeOK /\ \A r \in Replicas : CellGood(r)
  BY CellsInvGood DEF Inv
<1>2. CASE UNCHANGED <<cell, using>>
  BY <1>2, CellsInvGood, <1>1 DEF CellsInv, CellsAreSafe, CellSound
<1>3. ASSUME NEW s \in Writers, SaveStep(s) PROVE CellsInv'
  <2>1. CASE Tell(s)
    BY <1>1, <2>1, NotifyGood, SaveFacts, CellsInvGood DEF Tell
  <2>2. CASE Reconfigure(s)
    BY <1>1, <2>2, NotifyGood, SetCellGood, SaveFacts, CellsInvGood DEF Reconfigure
  <2>3. CASE ~(Tell(s) \/ Reconfigure(s))
    <3>1. UNCHANGED <<cell, using>>
      BY <1>3, <2>3 DEF SaveStep, Call, WriteKey, Settle, ReloadRead, ReloadSet, Return
    <3> QED
      BY <1>2, <3>1
  <2> QED
    BY <2>1, <2>2, <2>3
<1>4. ASSUME NEW m \in Topics, HandlerStep(m) PROVE CellsInv'
  <2>1. CASE HandleNotify(m)
    BY <1>1, <2>1, NotifyGood, CellsInvGood DEF HandleNotify, Topics
  <2>2. CASE HandleRead(m) \/ HandleSet(m)
    BY <1>2, <2>2 DEF HandleRead, HandleSet
  <2> QED
    BY <1>4, <2>1, <2>2 DEF HandlerStep
<1>5. ASSUME NEW c \in Calls, Use(c) \/ EndUse(c) PROVE CellsInv'
  BY <1>1, <1>5, UseGood, EndUseGood, CellsInvGood
<1> QED
  BY <1>2, <1>3, <1>4, <1>5 DEF Next, vars

LEMMA InitCells == ASSUME ConstantsAssumption, Init PROVE CellsInv
<1>1. \A r \in Replicas : cell[r].live = 1 /\ cell[r].closed = {}
  BY DEF Init
<1>2. \A c \in Calls : using[c] \in {0, None}
  BY DEF Init
<1> QED
  BY <1>1, <1>2, CellsInvGood DEF CellGood

-----------------------------------------------------------------------------
(* When nothing can go on. *)

\* A save that waits for its turn finds a save in the turn that does not wait.
LEMMA NobodyWaits ==
    ASSUME Inv, ConstantsAssumption, Still, NEW s \in Writers
    PROVE  pc[s] \in {"idle", "done", "blind"}
<1>1. \A t \in Writers : pc[t] \in {"idle", "done", "blind"} \/ Waits(t)
  BY DEF Still
<1>2. ASSUME NEW b \in Backs, pc[b] \notin {"idle", "done"}
      PROVE  b \in Writers /\ pc[b] = "write" /\ ~Turn(b) /\ pc[Of[b]] # "within"
  <2>1. BackSound(b) /\ b \in Writers
    BY Places DEF Inv
  <2>2. pc[b] = "write" /\ ~Turn(b)
    BY <1>1, <1>2, <2>1 DEF BackSound, Waits
  <2> QED
    BY <2>1, <2>2 DEF BackSound, Turn
<1>3. ASSUME NEW t \in Writers, pc[t] = "write", ~Turn(t) PROVE FALSE
  <2> DEFINE q == turns[At(t)]
  <2>1. q \in Seq(Writers) /\ At(t) \in Replicas /\ QueueSound(At(t))
    BY Places DEF Inv, TypeOK
  <2>2. PICK i \in 1 .. Len(q) : q[i] = t
    BY <1>3, SaveFacts DEF SaveSound, Queued, Turn
  <2>3. q # <<>> /\ 1 \in 1 .. Len(q) /\ Head(q) = q[1]
    <3> HIDE DEF q
    <3> QED
      BY <2>1, <2>2
  <2>4. q[1] \in Writers /\ At(q[1]) = At(t) /\ Queued(q[1])
    BY <2>1, <2>3 DEF QueueSound
  <2>5. PICK h \in Writers : h = q[1]
    BY <2>4
  <2>6. Turn(h) /\ pc[h] \in {"write", "reload", "reloaded", "inside", "within"}
    BY <2>3, <2>4, <2>5 DEF Turn, Queued
  <2>7. pc[h] = "within" /\ \E b \in Backs : Of[b] = h /\ pc[b] \notin {"idle", "done"}
    BY <1>1, <2>5, <2>6 DEF Waits
  <2> QED
    BY <1>2, <2>7
<1> QED
  BY <1>1, <1>2, <1>3 DEF Waits

LEMMA CoveredNow ==
    ASSUME Inv, ConstantsAssumption, DriversInv
    PROVE  DriversFollowMemory
<1> SUFFICES ASSUME Still, ~Blind, NEW r \in Replicas, NEW k \in Settings, \A b \in Backs : k \notin Wants[b]
             PROVE  cell[r].value[k] = mem[r][k]
  BY DEF DriversFollowMemory
<1>1. \A s \in Requests : ~Due(s)
  BY NobodyWaits, Places DEF Due
<1>2. \A m \in Topics : messages[m].at # "set"
  BY DEF Still
<1> QED
  BY <1>1, <1>2 DEF DriversInv, Covered

-----------------------------------------------------------------------------
(* A driver is configured as its replica's memory says. *)

LEMMA BlindStays ==
    ASSUME Inv, ConstantsAssumption, [Next]_vars, Blind
    PROVE  Blind'
<1>1. PICK s \in Writers : pc[s] = "blind"
  BY DEF Blind
<1>2. s \notin Backs /\ pc \in [Writers -> Labels]
  BY <1>1, SaveFacts DEF BackSound, Inv, TypeOK
<1>3. ASSUME NEW t \in Writers, SaveStep(t) PROVE pc'[s] = "blind"
  <2>1. CASE Reconfigure(t)
    BY <1>1, <1>2, <2>1 DEF Reconfigure
  <2>2. CASE ~Reconfigure(t)
    <3>1. t # s
      BY <1>1, <1>3, <2>2
         DEF SaveStep, Call, WriteKey, Settle, Tell, ReloadRead, ReloadSet, Return
    <3>2. pc' = pc \/ \E l : pc' = [pc EXCEPT ![t] = l]
      BY <1>3, <2>2
         DEF SaveStep, Call, WriteKey, Settle, Tell, ReloadRead, ReloadSet, Return, Goto
    <3> QED
      BY <1>1, <3>1, <3>2, <1>2
  <2> QED
    BY <2>1, <2>2
<1>4. ASSUME NEW m \in Topics, HandlerStep(m) PROVE pc' = pc
  BY <1>4 DEF HandlerStep, HandleRead, HandleSet, HandleNotify
<1>5. ASSUME NEW c \in Calls, Use(c) \/ EndUse(c) PROVE pc' = pc
  BY <1>5 DEF Use, EndUse
<1>6. pc'[s] = "blind"
  BY <1>1, <1>3, <1>4, <1>5 DEF Next, vars
<1> QED
  BY <1>6 DEF Blind

\* What covers a setting goes on covering it.
LEMMA CoverStays ==
    ASSUME NEW r \in Replicas, NEW k \in Settings, Covered(r, k),
           cell'[r].value[k] = cell[r].value[k], mem'[r][k] = mem[r][k],
           \A s \in Requests : At(s) = r /\ Due(s) => Due(s)',
           \A m \in Topics : m.to = r /\ messages[m].at = "set" => messages'[m].at = "set"
    PROVE  Covered(r, k)'
  BY DEF Covered

LEMMA SetCellValue ==
    ASSUME TypeOK, NEW p \in Replicas, SetCell(p)
    PROVE  cell'[p].value = mem[p] /\ \A r \in Replicas \ {p} : cell'[r] = cell[r]
<1> DEFINE x == cell[p]
           y == [x EXCEPT !.live = x.live + 1, !.value = mem[p]]
<1>1. cell \in [Replicas -> CellType] /\ x \in CellType
  BY DEF TypeOK
<1>2. cell'[p] = Dispose(y, p, x.live, using) /\ \A r \in Replicas \ {p} : cell'[r] = cell[r]
  BY <1>1 DEF SetCell
<1>3. y.value = mem[p] /\ y \in CellType
  <2>1. mem[p] \in Copy /\ x.live + 1 \in Nat \ {0}
    BY <1>1 DEF TypeOK, CellType
  <2> QED
    BY <1>1, <2>1 DEF CellType
<1>4. Dispose(y, p, x.live, using).value = y.value
  <2> HIDE DEF y
  <2> QED
    BY <1>3 DEF Dispose, CellType
<1> QED
  BY <1>2, <1>3, <1>4

LEMMA WritingMoves ==
    ASSUME TypeOK, NEW s \in Writers, Call(s) \/ \E k \in Settings : WriteKey(s, k)
    PROVE  /\ messages' = messages /\ pc[s] \in {"call", "write"} /\ pc'[s] = "write"
           /\ \A t \in Writers : loc'[t].part = loc[t].part /\ (t # s => pc'[t] = pc[t])
<1>1. pc \in [Writers -> Labels] /\ loc \in [Writers -> LocType]
  BY DEF TypeOK
<1>2. CASE Call(s)
  BY <1>1, <1>2 DEF Call, Goto, LocType
<1>3. ASSUME NEW k \in Settings, WriteKey(s, k) PROVE \A t \in Writers : loc'[t].part = loc[t].part
  <2>1. CASE loc' = [loc EXCEPT ![s].todo = @ \ {k}]
    BY <1>1, <2>1 DEF LocType
  <2>2. CASE loc' = [loc EXCEPT ![s].todo = @ \ {k}, ![s].failed = TRUE]
    BY <1>1, <2>2 DEF LocType
  <2> QED
    BY <1>3, <2>1, <2>2 DEF WriteKey
<1>4. ASSUME NEW k \in Settings, WriteKey(s, k) PROVE UNCHANGED <<messages, pc>> /\ pc[s] = "write"
  BY <1>4 DEF WriteKey
<1> QED
  BY <1>2, <1>3, <1>4

LEMMA SentKeeps ==
    ASSUME Inv, ConstantsAssumption, [Next]_vars, \A m \in Topics : SentOnce(m), NEW n \in Topics
    PROVE  SentOnce(n)'
<1>1. /\ n.of \in Writers /\ n.part \in Parts /\ TypeOK /\ SentOnce(n)
      /\ pc \in [Writers -> Labels] /\ loc \in [Writers -> LocType]
  BY DEF Topics, Inv, TypeOK
<1>2. ASSUME messages'[n].at # "none" => messages[n].at # "none", loc'[n.of].part = loc[n.of].part,
             LET P == {"outside", "inside", "after", "within", "done"}
             IN  pc[n.of] \in P => pc'[n.of] \in P
      PROVE  SentOnce(n)'
  BY <1>1, <1>2 DEF SentOnce
<1>3. ASSUME NEW s \in Writers, SaveStep(s) PROVE SentOnce(n)'
  <2>0. loc[s] \in LocType /\ SaveSound(s)
    BY SaveFacts
  <2>1. CASE Call(s) \/ \E k \in Settings : WriteKey(s, k)
    BY <1>1, <1>2, <2>1, WritingMoves
  <2>2. CASE Settle(s)
    BY <1>1, <1>2, <2>2 DEF Settle, Goto
  <2>3. CASE Tell(s)
    <3> DEFINE more == loc[s].part = "group" /\ Wants[s] \cap Keys # {}
               l == IF more THEN "call" ELSE IF s \in Backs THEN "done" ELSE "outside"
    <3>1. /\ pc[s] = "tell" /\ Publish(s) /\ Goto(s, l)
          /\ loc' = IF more THEN [loc EXCEPT ![s].part = "rest", ![s].todo = PartOf(s, "rest")] ELSE loc
      BY <2>3 DEF Tell
    <3>2. CASE n.of # s
      BY <1>1, <1>2, <3>1, <3>2 DEF Publish, Goto
    <3>3. CASE n.of = s
      <4>1. messages[n].at # "none" => n.part = "group" /\ loc[s].part = "rest"
        BY <1>1, <3>1, <3>3 DEF SentOnce
      <4>2. messages'[n].at # "none" => messages[n].at # "none" \/ n.part = loc[s].part
        BY <1>1, <3>1, <3>3 DEF Publish
      <4>3. CASE more
        <5>1. loc'[s].part = "rest"
          BY <1>1, <3>1, <4>3 DEF LocType
        <5> QED
          BY <3>3, <4>1, <4>2, <4>3, <5>1 DEF SentOnce
      <4>4. CASE ~more
        <5>1. loc' = loc /\ pc'[s] \in {"done", "outside"}
          BY <1>1, <3>1, <4>4 DEF Goto
        <5> QED
          BY <3>3, <4>1, <4>2, <5>1 DEF SentOnce
      <4> QED
        BY <4>3, <4>4
    <3> QED
      BY <3>2, <3>3
  <2>4. CASE ReloadRead(s)
    BY <1>1, <1>2, <2>0, <2>4 DEF ReloadRead, Goto, LocType
  <2>5. CASE ReloadSet(s)
    <3>1. /\ pc[s] = "reloaded" /\ Publish(s) /\ Goto(s, "inside") /\ loc' = [loc EXCEPT ![s].read = None]
      BY <2>5 DEF ReloadSet
    <3>2. CASE n.of # s
      BY <1>1, <1>2, <3>1, <3>2 DEF Publish, Goto
    <3>3. CASE n.of = s
      <4>1. messages[n].at # "none" => n.part = "group" /\ loc[s].part = "rest"
        BY <1>1, <3>1, <3>3 DEF SentOnce
      <4>2. messages'[n].at # "none" => messages[n].at # "none" \/ n.part = loc[s].part
        BY <1>1, <3>1, <3>3 DEF Publish
      <4>3. loc'[s].part = loc[s].part /\ pc'[s] = "inside"
        BY <1>1, <2>0, <3>1 DEF Goto, LocType
      <4> QED
        BY <3>3, <4>1, <4>2, <4>3 DEF SentOnce
    <3> QED
      BY <3>2, <3>3
  <2>6. CASE Reconfigure(s)
    <3>1. UNCHANGED <<messages, loc>> /\ pc[s] \in {"outside", "inside"}
      BY <2>6 DEF Reconfigure
    <3>2. PICK B \in SUBSET {b \in Backs : Of[b] = s} :
         pc' = [p \in Writers |-> IF p \in B THEN "call" ELSE IF p # s THEN pc[p]
                                  ELSE IF pc[s] = "outside" THEN "after" ELSE "within"]
      BY <2>6 DEF Reconfigure
    <3>3. \A b \in B : pc[b] = "idle"
      BY <3>1, <3>2 DEF Inv, BackSound
    <3> QED
      BY <1>1, <1>2, <3>1, <3>2, <3>3
  <2>7. CASE Return(s)
    BY <1>1, <1>2, <2>7 DEF Return, Goto
  <2> QED
    BY <1>3, <2>1, <2>2, <2>3, <2>4, <2>5, <2>6, <2>7 DEF SaveStep
<1>4. ASSUME NEW m \in Topics, HandlerStep(m) PROVE SentOnce(n)'
  <2>1. UNCHANGED <<pc, loc>> /\ messages[m].at # "none"
    BY <1>4 DEF HandlerStep, HandleRead, HandleSet, HandleNotify
  <2>2. n # m => messages'[n] = messages[n]
    BY <1>1, <1>4 DEF TypeOK, HandlerStep, HandleRead, HandleSet, HandleNotify
  <2> QED
    BY <1>2, <2>1, <2>2
<1>5. ASSUME NEW c \in Calls, Use(c) \/ EndUse(c) PROVE SentOnce(n)'
  BY <1>2, <1>5 DEF Use, EndUse
<1>6. CASE UNCHANGED vars
  BY <1>2, <1>6 DEF vars
<1> QED
  BY <1>3, <1>4, <1>5, <1>6 DEF Next

LEMMA CoverKeeps ==
    ASSUME Inv, ConstantsAssumption, [Next]_vars, DriversInv, ~Blind',
           NEW r \in Replicas, NEW k \in Settings, \A b \in Backs : k \notin Wants[b]
    PROVE  Covered(r, k)'
<1>1. Covered(r, k) /\ TypeOK
  BY BlindStays DEF DriversInv, Inv
<1>2. ASSUME NEW s \in Requests, At(s) = r, Due(s)' PROVE Covered(r, k)'
  BY <1>2 DEF Covered
<1>3. ASSUME NEW s \in Writers, SaveStep(s) PROVE Covered(r, k)'
  <2>0. /\ At(s) \in Replicas /\ loc[s] \in LocType /\ SaveSound(s) /\ StoreSound(s) /\ (s \in Backs => BackSound(s))
        /\ s \in Requests \/ s \in Backs
        /\ loc \in [Writers -> LocType] /\ pc \in [Writers -> Labels] /\ Requests \subseteq Writers
    BY SaveFacts, Places, <1>1 DEF TypeOK
  <2>1. CASE Call(s) \/ \E j \in Settings : WriteKey(s, j)
    <3>1. UNCHANGED <<cell, mem, messages>>
      BY <2>1 DEF Call, WriteKey
    <3>2. \A t \in Requests : Due(t) => Due(t)'
      BY <1>1, <2>0, <2>1, WritingMoves DEF Due
    <3> QED
      BY <1>1, <3>1, <3>2, CoverStays
  <2>2. CASE Settle(s)
    <3>1. /\ UNCHANGED <<cell, messages, loc>> /\ pc[s] = "write"
          /\ \A t \in Requests \ {s} : Due(t) => Due(t)'
      BY <2>0, <2>2 DEF Settle, Goto, Due
    <3>2. CASE loc[s].failed
      <4>1. mem' = mem
        BY <2>2, <3>2 DEF Settle
      <4>2. s \in Requests => (Due(s) => Due(s)')
        BY <2>0, <2>2, <3>1, <3>2 DEF Settle, Goto, Due
      <4> QED
        BY <1>1, <3>1, <4>1, <4>2, CoverStays
    <3>3. CASE ~loc[s].failed
      <4>1. /\ mem' = [mem EXCEPT ![At(s)] = [j \in Settings |-> IF j \in PartOf(s, loc[s].part) THEN s ELSE @[j]]]
            /\ Goto(s, "tell")
        BY <2>2, <3>3 DEF Settle
      <4>2. s \in Requests => Due(s)'
        BY <2>0, <4>1 DEF Due, Goto
      <4>3. mem'[r][k] = mem[r][k] \/ (At(s) = r /\ k \in PartOf(s, loc[s].part))
        BY <1>1, <4>1 DEF TypeOK
      <4>4. CASE s \in Requests /\ At(s) = r
        BY <1>2, <4>2, <4>4
      <4>5. CASE ~(s \in Requests /\ At(s) = r)
        <5>1. mem'[r][k] = mem[r][k]
          BY <2>0, <4>3, <4>5, Places DEF PartOf
        <5> QED
          BY <1>1, <3>1, <4>5, <5>1, CoverStays
      <4> QED
        BY <4>4, <4>5
    <3> QED
      BY <3>2, <3>3
  <2>3. CASE Tell(s)
    <3> DEFINE more == loc[s].part = "group" /\ Wants[s] \cap Keys # {}
               l == IF more THEN "call" ELSE IF s \in Backs THEN "done" ELSE "outside"
    <3>1. /\ pc[s] = "tell" /\ Publish(s) /\ Goto(s, l) /\ mem' = mem /\ cell' = cell
          /\ loc' = IF more THEN [loc EXCEPT ![s].part = "rest", ![s].todo = PartOf(s, "rest")] ELSE loc
      BY <2>3 DEF Tell, Notify, Follows
    <3>2. \A t \in Requests \ {s} : Due(t) => Due(t)'
      BY <2>0, <3>1 DEF Goto, Due
    <3>3. s \in Requests => Due(s)'
      <4> HAVE s \in Requests
      <4>1. CASE more
        <5>1. loc'[s].part = "rest" /\ pc'[s] = "call" /\ Group \in Wants[s]
          BY <2>0, <3>1, <4>1 DEF LocType, Goto, SaveSound
        <5> QED
          BY <5>1 DEF Due
      <4>2. CASE ~more
        BY <2>0, <3>1, <4>2, Places DEF Due, Goto
      <4> QED
        BY <4>1, <4>2
    <3>4. \A m \in Topics : messages[m].at = "set" => messages'[m].at = "set"
      <4> SUFFICES ASSUME NEW m \in Topics, messages[m].at = "set" PROVE messages'[m].at = "set"
        OBVIOUS
      <4>1. ~(m.of = s /\ m.part = loc[s].part)
        BY <3>1 DEF DriversInv, SentOnce
      <4> QED
        BY <3>1, <4>1 DEF Publish
    <3> QED
      BY <1>1, <3>1, <3>2, <3>3, <3>4, CoverStays
  <2>4. CASE ReloadRead(s)
    <3>1. UNCHANGED <<cell, mem, messages>> /\ pc[s] = "reload" /\ pc'[s] # "blind"
      BY <2>0, <2>4 DEF ReloadRead, Blind
    <3>2. \A t \in Requests : Due(t) => Due(t)'
      BY <2>0, <2>4, <3>1 DEF ReloadRead, Goto, Due, LocType
    <3> QED
      BY <1>1, <3>1, <3>2, CoverStays
  <2>5. CASE ReloadSet(s)
    <3>1. /\ pc[s] = "reloaded" /\ Publish(s) /\ Goto(s, "inside") /\ loc' = [loc EXCEPT ![s].read = None]
          /\ mem' = [mem EXCEPT ![At(s)] = loc[s].read] /\ cell' = cell
      BY <2>5 DEF ReloadSet
    <3>2. Due(s)' /\ s \in Requests /\ \A t \in Requests \ {s} : Due(t) => Due(t)'
      BY <2>0, <3>1 DEF Goto, Due, BackSound
    <3>3. CASE At(s) = r
      BY <1>2, <3>2, <3>3
    <3>4. CASE At(s) # r
      <4>1. \A m \in Topics : messages[m].at = "set" => messages'[m].at = "set"
        <5> SUFFICES ASSUME NEW m \in Topics, messages[m].at = "set" PROVE messages'[m].at = "set"
          OBVIOUS
        <5>1. ~(m.of = s /\ m.part = loc[s].part)
          BY <3>1 DEF DriversInv, SentOnce
        <5> QED
          BY <3>1, <5>1 DEF Publish
      <4>2. mem'[r] = mem[r]
        BY <1>1, <3>1, <3>4 DEF TypeOK
      <4> QED
        BY <1>1, <3>1, <3>2, <4>1, <4>2, CoverStays
    <3> QED
      BY <3>3, <3>4
  <2>6. CASE Reconfigure(s)
    <3>1. UNCHANGED <<messages, loc, mem>> /\ pc[s] \in {"outside", "inside"} /\ SetCell(At(s))
      BY <2>6 DEF Reconfigure, Notify, Follows
    <3>2. PICK B \in SUBSET {b \in Backs : Of[b] = s} :
         pc' = [p \in Writers |-> IF p \in B THEN "call" ELSE IF p # s THEN pc[p]
                                  ELSE IF pc[s] = "outside" THEN "after" ELSE "within"]
      BY <2>6 DEF Reconfigure
    <3>3. CASE At(s) = r
      BY <1>1, <2>0, <3>1, <3>3, SetCellValue DEF Covered
    <3>4. CASE At(s) # r
      <4>1. cell'[r] = cell[r]
        BY <1>1, <2>0, <3>1, <3>4, SetCellValue
      <4>2. \A t \in Requests : At(t) = r /\ Due(t) => Due(t)'
        BY <2>0, <3>1, <3>2, <3>4, Places DEF Due
      <4> QED
        BY <1>1, <3>1, <4>1, <4>2, CoverStays
    <3> QED
      BY <3>3, <3>4
  <2>7. CASE Return(s)
    <3>1. UNCHANGED <<cell, mem, messages, loc>> /\ \A t \in Requests : Due(t) => Due(t)'
      BY <2>0, <2>7 DEF Return, Goto, Due
    <3> QED
      BY <1>1, <3>1, CoverStays
  <2> QED
    BY <1>3, <2>1, <2>2, <2>3, <2>4, <2>5, <2>6, <2>7 DEF SaveStep
<1>4. ASSUME NEW m \in Topics, HandlerStep(m) PROVE Covered(r, k)'
  <2>0. UNCHANGED <<pc, loc>> /\ m.to \in Replicas /\ \A t \in Requests : Due(t) => Due(t)'
    BY <1>4 DEF HandlerStep, HandleRead, HandleSet, HandleNotify, Due, Topics
  <2>1. CASE HandleRead(m)
    BY <1>1, <2>0, <2>1, CoverStays DEF HandleRead
  <2>2. CASE HandleSet(m)
    <3>1. CASE m.to = r
      BY <1>1, <2>2, <3>1 DEF HandleSet, Covered, TypeOK
    <3>2. CASE m.to # r
      <4>1. mem'[r] = mem[r] /\ cell' = cell /\ \A n \in Topics : messages[n].at = "set" => messages'[n].at = "set"
        BY <1>1, <2>2, <3>2 DEF HandleSet, TypeOK
      <4> QED
        BY <1>1, <2>0, <4>1, CoverStays
    <3> QED
      BY <3>1, <3>2
  <2>3. CASE HandleNotify(m)
    <3>1. SetCell(m.to) /\ mem' = mem /\ messages' = [messages EXCEPT ![m].at = "handled"]
      BY <2>3 DEF HandleNotify, Notify, Follows
    <3>2. CASE m.to = r
      BY <1>1, <2>0, <3>1, <3>2, SetCellValue DEF Covered
    <3>3. CASE m.to # r
      <4>1. cell'[r] = cell[r]
        BY <1>1, <2>0, <3>1, <3>3, SetCellValue
      <4>2. \A n \in Topics : n.to = r /\ messages[n].at = "set" => messages'[n].at = "set"
        BY <3>1, <3>3
      <4> QED
        BY <1>1, <2>0, <3>1, <4>1, <4>2, CoverStays
    <3> QED
      BY <3>2, <3>3
  <2> QED
    BY <1>4, <2>1, <2>2, <2>3 DEF HandlerStep
<1>5. ASSUME NEW c \in Calls, Use(c) \/ EndUse(c) PROVE Covered(r, k)'
  <2>1. UNCHANGED <<mem, messages, pc, loc>> /\ \A t \in Requests : Due(t) => Due(t)'
    BY <1>5 DEF Use, EndUse, Due
  <2>2. cell'[r].value = cell[r].value
    <3>1. cell \in [Replicas -> CellType] /\ cell[r] \in CellType
      BY <1>1 DEF TypeOK
    <3>2. CASE cell' = cell
      BY <3>2
    <3>3. CASE cell' = [cell EXCEPT ![Site[c]] = Dispose(cell[Site[c]], Site[c], using[c], using')]
      BY <3>1, <3>3 DEF Dispose, CellType
    <3> QED
      BY <1>5, <3>2, <3>3 DEF Use, EndUse
  <2> QED
    BY <1>1, <2>1, <2>2, CoverStays
<1>6. CASE UNCHANGED vars
  BY <1>1, <1>6 DEF vars, Covered, Due
<1> QED
  BY <1>3, <1>4, <1>5, <1>6 DEF Next

LEMMA NextDrivers ==
    ASSUME Inv, ConstantsAssumption, [Next]_vars, DriversInv
    PROVE  DriversInv'
<1>1. \A n \in Topics : SentOnce(n)'
  BY SentKeeps DEF DriversInv
<1>2. ASSUME ~Blind', NEW r \in Replicas, NEW k \in Settings
      PROVE  (\E b \in Backs : k \in Wants[b]) \/ Covered(r, k)'
  BY <1>2, CoverKeeps
<1> QED
  BY <1>1, <1>2 DEF DriversInv

LEMMA InitDrivers == ASSUME ConstantsAssumption, Init PROVE DriversInv
<1>1. \A m \in Topics : SentOnce(m)
  BY DEF Init, SentOnce
<1>2. \A r \in Replicas, k \in Settings : cell[r].value[k] = mem[r][k]
  BY DEF Init
<1> QED
  BY <1>1, <1>2 DEF DriversInv, Covered

-----------------------------------------------------------------------------
(* What the database holds is in memory. *)

\* A replica that hears of nothing has heard of nothing.
LEMMA DeafBefore ==
    ASSUME Inv, ConstantsAssumption, [Next]_vars, NEW r \in Replicas, Deaf(r)'
    PROVE  Deaf(r)
<1>1. ~Blind
  BY BlindStays DEF Deaf
<1>2. ASSUME NEW n \in Topics, messages[n].at # "none" PROVE messages'[n].at # "none"
  <2>1. TypeOK
    BY DEF Inv
  <2>2. ASSUME NEW s \in Writers, SaveStep(s) PROVE messages'[n].at # "none"
    <3>1. messages' = messages \/ Publish(s)
      BY <2>2 DEF SaveStep, Call, WriteKey, Settle, Tell, ReloadRead, ReloadSet, Reconfigure, Return
    <3> QED
      BY <1>2, <2>1, <3>1 DEF Publish, TypeOK
  <2>3. ASSUME NEW m \in Topics, HandlerStep(m) PROVE messages'[n].at # "none"
    <3>1. n # m => messages'[n] = messages[n]
      BY <2>1, <2>3 DEF HandlerStep, HandleRead, HandleSet, HandleNotify, TypeOK
    <3>2. messages'[m].at \in {"read", "set", "handled"}
      BY <2>1, <2>3 DEF HandlerStep, HandleRead, HandleSet, HandleNotify, TypeOK
    <3> QED
      BY <1>2, <3>1, <3>2
  <2>4. ASSUME NEW c \in Calls, Use(c) \/ EndUse(c) PROVE messages'[n].at # "none"
    BY <1>2, <2>4 DEF Use, EndUse
  <2> QED
    BY <1>2, <2>2, <2>3, <2>4 DEF Next, vars
<1> QED
  BY <1>1, <1>2 DEF Deaf, Listening

\* Who publishes is heard on every other replica.
LEMMA PublishHeard ==
    ASSUME Inv, ConstantsAssumption, NEW s \in Writers, Publish(s), NEW r \in Replicas, Deaf(r)'
    PROVE  r = At(s)
<1> SUFFICES ASSUME r # At(s) PROVE FALSE
  OBVIOUS
<1> DEFINE m == [to |-> r, of |-> s, part |-> loc[s].part]
<1>1. m \in Topics /\ m.of = s /\ m.part = loc[s].part /\ m.to = r
  BY SaveFacts DEF Topics, LocType
<1>2. messages[m] \in [at : {"none", "sent", "read", "set", "handled"}, read : Copy \cup {None}]
  BY <1>1 DEF Inv, TypeOK
<1>3. messages'[m].at = "sent"
  <2> HIDE DEF m
  <2> QED
    BY <1>1, <1>2 DEF Publish
<1> QED
  BY <1>1, <1>3 DEF Deaf, Listening

\* Who has the turn while another save of the replica is about to write is writing for the same
\* request.
LEMMA OneTurn ==
    ASSUME Inv, ConstantsAssumption, NEW s \in Writers, NEW t \in Writers, s # t, At(s) = At(t),
           Turn(s), Turn(t), pc[s] = "write", pc[t] \in {"write", "reloaded"}
    PROVE  pc[t] = "write" /\ s \in Backs /\ t \in Backs /\ Of[s] = Of[t]
<1>1. ASSUME NEW u \in Writers, Turn(u), loc[u].inline, pc[u] \in {"write", "reloaded"}
      PROVE  /\ u \in Backs /\ pc[u] = "write" /\ Of[u] \in Writers /\ At(Of[u]) = At(u)
             /\ pc[Of[u]] = "within" /\ Head(turns[At(u)]) = Of[u]
  <2>1. u \in Backs /\ BackSound(u) /\ Of[u] \in Writers /\ At(Of[u]) = At(u) /\ Of[u] \in Requests
    BY <1>1, SaveFacts, Places
  <2>2. pc[u] = "write" /\ pc[Of[u]] = "within"
    BY <1>1, <2>1 DEF BackSound
  <2>3. SaveSound(Of[u]) /\ ~loc[Of[u]].inline
    BY <2>1, SaveFacts
  <2> QED
    BY <2>1, <2>2, <2>3 DEF SaveSound, Turn
<1>2. \A u \in Writers : Turn(u) /\ ~loc[u].inline => Head(turns[At(u)]) = u
  BY DEF Turn
<1> QED
  BY <1>1, <1>2

\* What is owed elsewhere stays owed.
AwayKept ==
    \A x, k : \A r \in Replicas :
        Deaf(r)' /\ k \in Settings /\ x = db[k] /\ OwesAway(x, k, r) => OwesAway(x, k, r)'

\* What a replica's memory lacks is owed to it.
MemOwed ==
    \A r \in Replicas : Deaf(r) => \A k \in Settings : mem[r][k] = db[k] \/ Owes(db[k], k, r)

LEMMA MirrorKeeps ==
    ASSUME MirrorInv, ConstantsAssumption, \A r \in Replicas : Deaf(r)' => Deaf(r), AwayKept, db' = db,
           MemOwed',
           \A t \in Writers : pc'[t] = "write" /\ ~loc'[t].failed =>
              \/ /\ pc[t] = "write" /\ ~loc[t].failed
                 /\ loc'[t].part = loc[t].part /\ loc'[t].todo = loc[t].todo
              \/ loc'[t].todo = PartOf(t, loc'[t].part),
           \A t \in Writers : pc'[t] = "reloaded" =>
              (pc[t] = "reloaded" /\ loc'[t].read = loc[t].read) \/ loc'[t].read = db
    PROVE  MirrorInv'
<1>1. \A t \in Writers : At(t) \in Replicas /\ (\A p \in Parts : PartOf(t, p) \subseteq Settings)
  BY Places
<1>2. ASSUME NEW t \in Writers, Deaf(At(t))', pc'[t] = "write", ~loc'[t].failed,
             NEW k \in PartOf(t, loc'[t].part) \ loc'[t].todo
      PROVE  db'[k] = t \/ OwesAway(db[k], k, At(t))'
  <2>1. /\ pc[t] = "write" /\ ~loc[t].failed /\ loc'[t].part = loc[t].part /\ loc'[t].todo = loc[t].todo
    BY <1>2
  <2>2. k \in Settings
    BY <1>2 DEF PartOf, Settings
  <2>3. db[k] = t \/ OwesAway(db[k], k, At(t))
    BY <1>1, <1>2, <2>1 DEF MirrorInv
  <2> QED
    BY <1>1, <1>2, <2>2, <2>3 DEF AwayKept
<1>3. ASSUME NEW t \in Writers, Deaf(At(t))', pc'[t] = "reloaded", NEW k \in Settings
      PROVE  loc'[t].read[k] = db'[k] \/ OwesAway(db[k], k, At(t))'
  BY <1>1, <1>3 DEF MirrorInv, AwayKept
<1> QED
  BY <1>2, <1>3 DEF MirrorInv, MemOwed

LEMMA SaveAlone ==
    ASSUME TypeOK, NEW s \in Writers, SaveStep(s), ~Reconfigure(s)
    PROVE  Alone(s)
<1>1. pc \in [Writers -> Labels] /\ loc \in [Writers -> LocType]
  BY DEF TypeOK
<1>2. pc' = pc \/ \E l : pc' = [pc EXCEPT ![s] = l]
  BY DEF SaveStep, Call, WriteKey, Settle, Tell, ReloadRead, ReloadSet, Return, Goto
<1>3. \A t \in Writers \ {s} : loc'[t] = loc[t]
  <2>1. CASE Call(s) \/ Settle(s) \/ ReloadRead(s) \/ ReloadSet(s) \/ Return(s)
    BY <1>1, <2>1 DEF Call, Settle, ReloadRead, ReloadSet, Return
  <2>2. ASSUME NEW k \in Settings, WriteKey(s, k) PROVE \A t \in Writers \ {s} : loc'[t] = loc[t]
    BY <1>1, <2>2 DEF WriteKey
  <2>3. CASE Tell(s)
    BY <1>1, <2>3 DEF Tell
  <2> QED
    BY <2>1, <2>2, <2>3 DEF SaveStep
<1> QED
  BY <1>1, <1>2, <1>3 DEF Alone

LEMMA OthersOwe ==
    ASSUME NEW s, Alone(s), NEW x, x # s, NEW k, NEW r
    PROVE  (Owes(x, k, r) => Owes(x, k, r)') /\ (OwesAway(x, k, r) => OwesAway(x, k, r)')
  BY DEF Alone, Owes, OwesAway

LEMMA AloneKeeps ==
    ASSUME MirrorInv, ConstantsAssumption, NEW s \in Writers, Alone(s), db' = db,
           \A r \in Replicas : Deaf(r)' => Deaf(r),
           \A r \in Replicas, k \in Settings : Deaf(r)' =>
              /\ db[k] = s /\ OwesAway(s, k, r) => OwesAway(s, k, r)'
              /\ db[k] = s /\ Owes(s, k, r) => Owes(s, k, r)' \/ mem'[r][k] = db[k]
              /\ mem'[r][k] = mem[r][k] \/ mem'[r][k] = db[k] \/ OwesAway(db[k], k, r),
           pc'[s] = "write" => loc'[s].todo = PartOf(s, loc'[s].part),
           pc'[s] = "reloaded" => loc'[s].read = db
    PROVE  MirrorInv'
<1>1. AwayKept
  <2> SUFFICES ASSUME NEW k \in Settings, NEW r \in Replicas, Deaf(r)', NEW x, x = db[k], OwesAway(x, k, r)
               PROVE  OwesAway(x, k, r)'
    BY DEF AwayKept
  <2> QED
    BY OthersOwe
<1>2. MemOwed'
  <2> SUFFICES ASSUME NEW r \in Replicas, Deaf(r)', NEW k \in Settings, mem'[r][k] # db[k], NEW x, x = db[k]
               PROVE  Owes(x, k, r)'
    BY DEF MemOwed
  <2>1. CASE OwesAway(x, k, r)
    BY <1>1, <2>1 DEF AwayKept, OwesAway
  <2>2. CASE mem'[r][k] = mem[r][k]
    <3>1. Owes(x, k, r)
      BY <2>2 DEF MirrorInv
    <3>2. CASE x = s
      BY <3>1, <3>2
    <3>3. CASE x # s
      BY <3>1, <3>3, OthersOwe
    <3> QED
      BY <3>2, <3>3
  <2> QED
    BY <2>1, <2>2
<1>3. \A t \in Writers : pc'[t] = "write" /\ ~loc'[t].failed =>
              \/ /\ pc[t] = "write" /\ ~loc[t].failed
                 /\ loc'[t].part = loc[t].part /\ loc'[t].todo = loc[t].todo
              \/ loc'[t].todo = PartOf(t, loc'[t].part)
  BY DEF Alone
<1>4. \A t \in Writers : pc'[t] = "reloaded" =>
              (pc[t] = "reloaded" /\ loc'[t].read = loc[t].read) \/ loc'[t].read = db
  BY DEF Alone
<1> QED
  BY <1>1, <1>2, <1>3, <1>4, MirrorKeeps

LEMMA SettleMirror ==
    ASSUME Inv, ConstantsAssumption, MirrorInv, NEW s \in Writers, Settle(s), Alone(s),
           \A r \in Replicas : Deaf(r)' => Deaf(r)
    PROVE  MirrorInv'
<1>1. /\ pc[s] = "write" /\ loc[s].todo = {} /\ UNCHANGED <<db, loc>>
      /\ mem \in [Replicas -> Copy] /\ At(s) \in Replicas /\ StoreSound(s) /\ loc[s] \in LocType
      /\ pc \in [Writers -> Labels]
      /\ s \in Requests \/ s \in Backs
  <2>1. pc[s] = "write" /\ loc[s].todo = {} /\ UNCHANGED <<db, loc>>
    BY DEF Settle
  <2> QED
    BY <2>1, SaveFacts DEF Inv, TypeOK
<1>2. CASE ~loc[s].failed
  <2>1. /\ mem' = [mem EXCEPT ![At(s)] = [j \in Settings |-> IF j \in PartOf(s, loc[s].part) THEN s ELSE @[j]]]
        /\ pc'[s] = "tell"
    BY <1>1, <1>2 DEF Settle, Goto
  <2>2. ASSUME NEW r \in Replicas, NEW k \in Settings, Deaf(r)'
        PROVE  /\ db[k] = s /\ OwesAway(s, k, r) => OwesAway(s, k, r)'
               /\ db[k] = s /\ Owes(s, k, r) => Owes(s, k, r)' \/ mem'[r][k] = db[k]
               /\ mem'[r][k] = mem[r][k] \/ mem'[r][k] = db[k] \/ OwesAway(db[k], k, r)
    <3>1. CASE r = At(s) /\ k \in PartOf(s, loc[s].part)
      <4>1. mem'[r][k] = s
        BY <1>1, <2>1, <3>1
      <4>2. db[k] = s \/ OwesAway(db[k], k, At(s))
        BY <1>1, <1>2, <2>2, <3>1 DEF MirrorInv
      <4> QED
        BY <3>1, <4>1, <4>2 DEF OwesAway
    <3>2. CASE ~(r = At(s) /\ k \in PartOf(s, loc[s].part))
      <4>1. mem'[r][k] = mem[r][k]
        BY <1>1, <2>1, <3>2
      <4> QED
        BY <1>1, <2>1, <3>2, <4>1 DEF Owes, OwesAway
    <3> QED
      BY <3>1, <3>2
  <2> QED
    BY <1>1, <2>1, <2>2, AloneKeeps
<1>3. CASE loc[s].failed
  <2>1. mem' = mem /\ pc'[s] = IF s \in Requests /\ loc[s].part = "rest" THEN "reload" ELSE "done"
    BY <1>1, <1>3 DEF Settle, Goto
  <2>2. ASSUME NEW r \in Replicas, NEW k \in Settings, db[k] = s, Owes(s, k, r) PROVE Owes(s, k, r)'
    <3>1. k \in PartOf(s, loc[s].part)
      BY <2>2 DEF Owes
    <3>2. s \in Requests /\ loc[s].part = "rest"
      BY <1>1, <1>3, <2>2, <3>1 DEF StoreSound, LocType, Parts
    <3> QED
      BY <1>1, <2>1, <2>2, <3>2 DEF Owes
  <2> QED
    BY <1>1, <2>1, <2>2, AloneKeeps DEF OwesAway
<1> QED
  BY <1>2, <1>3

LEMMA WriteMirror ==
    ASSUME Inv, ConstantsAssumption, OneWriteEach, MirrorInv, NEW s \in Writers, NEW k \in Settings,
           WriteKey(s, k), Alone(s), \A r \in Replicas : Deaf(r)' => Deaf(r)
    PROVE  MirrorInv'
<1>1. /\ pc[s] = "write" /\ Turn(s) /\ k \in loc[s].todo /\ UNCHANGED <<mem, pc>>
      /\ loc[s] \in LocType /\ SaveSound(s) /\ k \in PartOf(s, loc[s].part) /\ db \in Copy
  <2>1. pc[s] = "write" /\ Turn(s) /\ k \in loc[s].todo /\ UNCHANGED <<mem, pc>>
    BY DEF WriteKey
  <2> QED
    BY <2>1, SaveFacts DEF Inv, TypeOK, SaveSound
<1>2. \A t \in Writers : loc'[t].part = loc[t].part
  BY WritingMoves DEF Inv
<1>3. \A x, j, r : (Owes(x, j, r)' <=> Owes(x, j, r)) /\ (OwesAway(x, j, r)' <=> OwesAway(x, j, r))
  BY <1>1, <1>2 DEF Owes, OwesAway
<1>4. /\ loc \in [Writers -> LocType]
      /\ \/ db' = [db EXCEPT ![k] = s] /\ loc' = [loc EXCEPT ![s].todo = @ \ {k}]
         \/ db' = db /\ loc' = [loc EXCEPT ![s].todo = @ \ {k}, ![s].failed = TRUE]
  BY DEF WriteKey, Inv, TypeOK
<1>5. ASSUME NEW r \in Replicas, Deaf(r)', NEW j \in Settings, NEW x, x = db'[j]
      PROVE  mem'[r][j] = x \/ Owes(x, j, r)'
  <2>1. CASE x = db[j]
    BY <1>1, <1>3, <1>5, <2>1 DEF MirrorInv
  <2>2. CASE x # db[j]
    <3>1. j = k /\ x = s
      BY <1>1, <1>4, <1>5, <2>2 DEF Copy
    <3> QED
      BY <1>1, <1>3, <3>1 DEF Owes
  <2> QED
    BY <2>1, <2>2
<1>6. ASSUME NEW t \in Writers, Deaf(At(t))', pc'[t] = "write", ~loc'[t].failed, NEW x,
             NEW j \in PartOf(t, loc'[t].part) \ loc'[t].todo, x = db'[j]
      PROVE  x = t \/ OwesAway(x, j, At(t))'
  <2>1. At(t) \in Replicas /\ j \in Settings /\ pc[t] = "write" /\ Deaf(At(t))
    BY <1>1, <1>6, SaveFacts DEF PartOf, Settings
  <2>2. CASE t = s
    <3>1. db' = [db EXCEPT ![k] = s] /\ loc'[s].todo = loc[s].todo \ {k} /\ loc'[s].failed = loc[s].failed
      <4>1. loc' # [loc EXCEPT ![s].todo = @ \ {k}, ![s].failed = TRUE]
        BY <1>4, <1>6, <2>2 DEF LocType
      <4> QED
        BY <1>4, <4>1 DEF LocType
    <3>2. CASE j = k
      BY <1>1, <1>6, <2>2, <3>1, <3>2 DEF Copy
    <3>3. CASE j # k
      <4>1. x = db[j] /\ j \in PartOf(s, loc[s].part) \ loc[s].todo /\ ~loc[s].failed
        BY <1>1, <1>2, <1>6, <2>1, <2>2, <3>1, <3>3 DEF Copy
      <4> QED
        BY <1>1, <1>3, <2>1, <2>2, <4>1 DEF MirrorInv
    <3> QED
      BY <3>2, <3>3
  <2>3. CASE t # s
    <3>1. loc'[t] = loc[t]
      BY <2>3 DEF Alone
    <3>2. CASE x = db[j]
      BY <1>3, <1>6, <2>1, <3>1, <3>2 DEF MirrorInv
    <3>3. CASE x # db[j]
      <4>1. j = k /\ x = s
        BY <1>1, <1>4, <1>6, <2>1, <3>3 DEF Copy
      <4>2. At(s) # At(t)
        <5> SUFFICES ASSUME At(s) = At(t) PROVE FALSE
          OBVIOUS
        <5>1. Turn(t)
          <6>1. SaveSound(t)
            BY SaveFacts
          <6> QED
            BY <1>6, <2>1, <3>1, <6>1 DEF SaveSound
        <5>2. s \in Backs /\ t \in Backs /\ Of[s] = Of[t]
          BY <1>1, <2>1, <2>3, <5>1, OneTurn
        <5> QED
          BY <1>1, <1>6, <2>3, <4>1, <5>2 DEF OneWriteEach, PartOf
      <4>3. OwesAway(s, k, At(t))
        BY <1>1, <4>2 DEF OwesAway, Owes
      <4> QED
        BY <1>3, <4>1, <4>3
    <3> QED
      BY <3>2, <3>3
  <2> QED
    BY <2>2, <2>3
<1>7. ASSUME NEW t \in Writers, Deaf(At(t))', pc'[t] = "reloaded", NEW j \in Settings, NEW x, x = db'[j]
      PROVE  loc'[t].read[j] = x \/ OwesAway(x, j, At(t))'
  <2>1. At(t) \in Replicas /\ pc[t] = "reloaded" /\ t # s /\ loc'[t] = loc[t] /\ Deaf(At(t))
    BY <1>1, <1>7, SaveFacts DEF Alone
  <2>2. CASE x = db[j]
    BY <1>3, <1>7, <2>1, <2>2 DEF MirrorInv
  <2>3. CASE x # db[j]
    <3>1. j = k /\ x = s
      BY <1>1, <1>4, <1>7, <2>3 DEF Copy
    <3>2. At(s) # At(t)
      <4>1. Turn(t)
        BY <2>1, SaveFacts DEF SaveSound
      <4> QED
        BY <1>1, <2>1, <4>1, OneTurn
    <3>3. OwesAway(s, k, At(t))
      BY <1>1, <3>2 DEF OwesAway, Owes
    <3> QED
      BY <1>3, <3>1, <3>3
  <2> QED
    BY <2>2, <2>3
<1> QED
  BY <1>5, <1>6, <1>7 DEF MirrorInv

LEMMA SaveMirror ==
    ASSUME Inv, ConstantsAssumption, OneWriteEach, MirrorInv, NEW s \in Writers, SaveStep(s),
           \A r \in Replicas : Deaf(r)' => Deaf(r)
    PROVE  MirrorInv'
<1>1. /\ TypeOK /\ pc \in [Writers -> Labels] /\ loc \in [Writers -> LocType] /\ mem \in [Replicas -> Copy]
      /\ At(s) \in Replicas /\ SaveSound(s) /\ loc[s] \in LocType
  BY SaveFacts DEF Inv, TypeOK
<1>2. ~Reconfigure(s) => Alone(s)
  BY <1>1, SaveAlone
<1>3. CASE Call(s)
  <2>1. /\ pc[s] = "call" /\ pc'[s] = "write" /\ UNCHANGED <<db, mem>>
        /\ loc'[s].todo = loc[s].todo /\ loc'[s].part = loc[s].part
    BY <1>1, <1>3 DEF Call, Goto, LocType
  <2>2. loc'[s].todo = PartOf(s, loc'[s].part)
    BY <1>1, <2>1 DEF SaveSound
  <2>3. ~Reconfigure(s)
    BY <2>1 DEF Reconfigure
  <2> QED
    BY <1>2, <2>1, <2>2, <2>3, AloneKeeps DEF Owes, OwesAway
<1>4. ASSUME NEW k \in Settings, WriteKey(s, k) PROVE MirrorInv'
  BY <1>2, <1>4, WriteMirror DEF WriteKey, Reconfigure
<1>5. CASE Settle(s)
  BY <1>2, <1>5, SettleMirror DEF Settle, Reconfigure
<1>6. CASE Tell(s)
  <2>1. pc[s] = "tell" /\ UNCHANGED <<db, mem>> /\ Publish(s) /\ pc'[s] \in {"call", "done", "outside"}
    BY <1>1, <1>6 DEF Tell, Goto
  <2>2. \A r \in Replicas : Deaf(r)' => r = At(s)
    BY <2>1, PublishHeard
  <2>3. ~Reconfigure(s)
    BY <2>1 DEF Reconfigure
  <2> QED
    BY <1>2, <2>1, <2>2, <2>3, AloneKeeps DEF Owes, OwesAway
<1>7. CASE ReloadRead(s)
  <2>1. pc[s] = "reload" /\ UNCHANGED <<db, mem>> /\ ~Reconfigure(s)
    BY <1>7 DEF ReloadRead, Reconfigure
  <2>2. CASE Goto(s, "blind")
    <3>1. \A r : ~Deaf(r)'
      BY <1>1, <2>2 DEF Goto, Deaf, Blind
    <3> QED
      BY <3>1, Places DEF MirrorInv
  <2>3. CASE loc' = [loc EXCEPT ![s].read = db] /\ Goto(s, "reloaded")
    <3>1. pc'[s] = "reloaded" /\ loc'[s].read = db /\ loc'[s].part = loc[s].part
      BY <1>1, <2>3 DEF Goto, LocType
    <3> QED
      BY <1>2, <2>1, <3>1, AloneKeeps DEF Owes, OwesAway
  <2> QED
    BY <1>7, <2>2, <2>3 DEF ReloadRead
<1>8. CASE ReloadSet(s)
  <2>1. /\ pc[s] = "reloaded" /\ db' = db /\ Publish(s) /\ pc'[s] = "inside"
        /\ mem' = [mem EXCEPT ![At(s)] = loc[s].read]
    BY <1>1, <1>8 DEF ReloadSet, Goto
  <2>2. \A r \in Replicas : Deaf(r)' => r = At(s)
    BY <2>1, PublishHeard
  <2>3. ~Reconfigure(s)
    BY <2>1 DEF Reconfigure
  <2>4. ASSUME NEW r \in Replicas, NEW k \in Settings, Deaf(r)'
        PROVE  /\ db[k] = s /\ OwesAway(s, k, r) => OwesAway(s, k, r)'
               /\ db[k] = s /\ Owes(s, k, r) => Owes(s, k, r)' \/ mem'[r][k] = db[k]
               /\ mem'[r][k] = mem[r][k] \/ mem'[r][k] = db[k] \/ OwesAway(db[k], k, r)
    <3>1. r = At(s) /\ mem'[r][k] = loc[s].read[k]
      BY <1>1, <2>1, <2>2, <2>4
    <3>2. loc[s].read[k] = db[k] \/ OwesAway(db[k], k, At(s))
      BY <2>1, <2>4, <3>1 DEF MirrorInv
    <3> QED
      BY <3>1, <3>2 DEF OwesAway
  <2> QED
    BY <1>2, <2>1, <2>3, <2>4, AloneKeeps
<1>9. CASE Reconfigure(s)
  <2>1. UNCHANGED <<db, mem, loc>> /\ pc[s] \in {"outside", "inside"}
    BY <1>9 DEF Reconfigure
  <2>2. PICK B \in SUBSET {b \in Backs : Of[b] = s} :
         pc' = [p \in Writers |-> IF p \in B THEN "call" ELSE IF p # s THEN pc[p]
                                  ELSE IF pc[s] = "outside" THEN "after" ELSE "within"]
    BY <1>9 DEF Reconfigure
  <2>3. \A b \in B : pc[b] = "idle"
    BY <2>1, <2>2 DEF Inv, BackSound
  <2>4. \A x, k, r : (Owes(x, k, r) => Owes(x, k, r)') /\ (OwesAway(x, k, r) => OwesAway(x, k, r)')
    BY <2>1, <2>2, <2>3 DEF Owes, OwesAway
  <2>5. AwayKept /\ MemOwed'
    BY <2>1, <2>4 DEF AwayKept, MemOwed, MirrorInv
  <2>6. \A t \in Writers : pc'[t] \in {"write", "reloaded"} => pc[t] = pc'[t]
    BY <2>2
  <2> QED
    BY <2>1, <2>5, <2>6, MirrorKeeps
<1>10. CASE Return(s)
  <2>1. pc[s] \in {"after", "within"} /\ UNCHANGED <<db, mem>> /\ pc'[s] = "done"
    BY <1>1, <1>10 DEF Return, Goto
  <2>2. ~Reconfigure(s)
    BY <2>1 DEF Reconfigure
  <2> QED
    BY <1>2, <2>1, <2>2, AloneKeeps DEF Owes, OwesAway
<1> QED
  BY <1>3, <1>4, <1>5, <1>6, <1>7, <1>8, <1>9, <1>10 DEF SaveStep

LEMMA NextMirror ==
    ASSUME Inv, ConstantsAssumption, OneWriteEach, MirrorInv, [Next]_vars
    PROVE  MirrorInv'
<1>1. \A r \in Replicas : Deaf(r)' => Deaf(r)
  BY DeafBefore
<1>2. ASSUME UNCHANGED <<db, pc, loc>>, \A r \in Replicas : Deaf(r)' => mem'[r] = mem[r] PROVE MirrorInv'
  <2>1. \A x, k, r : (Owes(x, k, r) => Owes(x, k, r)') /\ (OwesAway(x, k, r) => OwesAway(x, k, r)')
    BY <1>2 DEF Owes, OwesAway
  <2>2. AwayKept /\ MemOwed'
    BY <1>1, <1>2, <2>1 DEF AwayKept, MemOwed, MirrorInv
  <2> QED
    BY <1>1, <1>2, <2>2, MirrorKeeps
<1>3. ASSUME NEW s \in Writers, SaveStep(s) PROVE MirrorInv'
  BY <1>1, <1>3, SaveMirror
<1>4. ASSUME NEW m \in Topics, HandlerStep(m) PROVE MirrorInv'
  <2>1. UNCHANGED <<db, pc, loc>> /\ TypeOK
    BY <1>4 DEF HandlerStep, HandleRead, HandleSet, HandleNotify, Inv
  <2>2. mem' = mem \/ (messages[m].at = "read" /\ mem' = [mem EXCEPT ![m.to] = messages[m].read])
    BY <1>4 DEF HandlerStep, HandleRead, HandleSet, HandleNotify
  <2>3. ASSUME NEW r \in Replicas, Deaf(r)' PROVE mem'[r] = mem[r]
    <3>1. ~Listening(r)
      BY <1>1, <2>3 DEF Deaf
    <3>2. messages[m].at = "read" => m.to # r
      BY <3>1 DEF Listening
    <3> QED
      BY <2>1, <2>2, <3>2 DEF TypeOK
  <2> QED
    BY <1>2, <2>1, <2>3
<1>5. ASSUME NEW c \in Calls, Use(c) \/ EndUse(c) PROVE MirrorInv'
  BY <1>2, <1>5 DEF Use, EndUse
<1>6. CASE UNCHANGED vars
  BY <1>2, <1>6 DEF vars
<1> QED
  BY <1>3, <1>4, <1>5, <1>6 DEF Next

LEMMA InitMirror == ASSUME ConstantsAssumption, Init PROVE MirrorInv
<1>1. \A r \in Replicas : mem[r] = db
  BY DEF Init
<1>2. \A s \in Writers : pc[s] \in {"idle", "call"}
  BY DEF Init
<1> QED
  BY <1>1, <1>2 DEF MirrorInv

LEMMA MirroredNow ==
    ASSUME Inv, ConstantsAssumption, MirrorInv
    PROVE  StoreIsMirrored
<1> SUFFICES ASSUME Still
             PROVE  /\ \A s \in Writers : pc[s] \in {"idle", "done", "blind"}
                    /\ \A r \in Replicas : Blind \/ Listening(r) \/ mem[r] = db
  BY DEF StoreIsMirrored
<1>1. \A s \in Writers : pc[s] \in {"idle", "done", "blind"}
  BY NobodyWaits
<1>2. ASSUME NEW r \in Replicas, ~Blind, ~Listening(r) PROVE mem[r] = db
  <2>1. \A k \in Settings : ~Owes(db[k], k, r)
    BY <1>1 DEF Owes
  <2>2. \A k \in Settings : mem[r][k] = db[k]
    BY <1>2, <2>1 DEF MirrorInv, Deaf
  <2>3. mem[r] \in Copy /\ db \in Copy
    BY DEF Inv, TypeOK
  <2> QED
    BY <2>2, <2>3 DEF Copy
<1> QED
  BY <1>1, <1>2

-----------------------------------------------------------------------------
(* The values have their types; a queue holds the saves of its replica that have a turn or wait
   for one, each once and the first in the turn, and a save is where its locals say
   (config.ts:33-40, :192-209). *)
THEOREM Invariance == ASSUME ConstantsAssumption PROVE Spec => []Inv
<1>1. Init => Inv
  BY InitInv
<1>2. Inv /\ [Next]_vars => Inv'
  BY NextInv
<1> QED
  BY <1>1, <1>2, PTL DEF Spec

(* No call holds a driver that was closed, and none that nobody holds stays open
   (plugin-state-cell.ts:26-78). *)
THEOREM CellsHold == ASSUME ConstantsAssumption PROVE Spec => []CellsAreSafe
<1>1. Init => CellsInv
  BY InitCells
<1>2. Inv /\ CellsInv /\ [Next]_vars => CellsInv'
  BY NextCells
<1>3. CellsInv => CellsAreSafe
  BY DEF CellsInv
<1>4. Spec => []Inv
  BY Invariance
<1> QED
  BY <1>1, <1>2, <1>3, <1>4, PTL DEF Spec

(* When nothing can go on, the drivers are configured as memory says (plugin-manager.ts:388-393). *)
THEOREM DriversHold == ASSUME ConstantsAssumption PROVE Spec => []DriversFollowMemory
<1>1. Init => DriversInv
  BY InitDrivers
<1>2. Inv /\ DriversInv /\ [Next]_vars => DriversInv'
  BY NextDrivers
<1>3. Inv /\ DriversInv => DriversFollowMemory
  BY CoveredNow
<1>4. Spec => []Inv
  BY Invariance
<1> QED
  BY <1>1, <1>2, <1>3, <1>4, PTL DEF Spec

(* When nothing can go on, no save is left waiting, and a replica nobody wrote to has in memory what
   the database holds (config.ts:33-40, :192-209, :273-297). *)
THEOREM MirrorHolds == ASSUME ConstantsAssumption, OneWriteEach PROVE Spec => []StoreIsMirrored
<1>1. Init => MirrorInv
  BY InitMirror
<1>2. Inv /\ MirrorInv /\ [Next]_vars => MirrorInv'
  BY NextMirror
<1>3. Inv /\ MirrorInv => StoreIsMirrored
  BY MirroredNow
<1>4. Spec => []Inv
  BY Invariance
<1> QED
  BY <1>1, <1>2, <1>3, <1>4, PTL DEF Spec

=============================================================================
