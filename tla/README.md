# A formal model of Crowi

Crowi is a wiki. Its server is a monorepo (`src/packages`): an HTTP API over
MongoDB and Redis (`api`), a collaborative editor server over Yjs (`collab`), a
web client (`web`), command-line tools, plugins. MongoDB runs **standalone**:
one document is written atomically, nothing wider is. Everything the wiki
promises about several documents at once rests on hand-made protocols, and those
are what this project models, checks with TLC and, where it can, proves with
TLAPS.

Paths below are relative to `src/packages/`; `history/` stands for
`api/src/service/page-history/`.

## 1. Inventory

| Component | State | Operations | What is hard | What makes it correct | Here |
|---|---|---|---|---|---|
| **Page history**: `history/content-sequence.ts`, `page-event-command.ts`, `materialize.ts`, `repair.ts` | on the Page: tracking state, counter, one outbox slot; `historySequence` of each Revision; one PageHistoryEvent per recorded command | allocate a place for a saved Revision; change visibility, publish; drain the slot; operator repair | two requests race for the next place; a request dies between claim, row and drain; anybody may finish anybody's entry; the repair runs beside live requests | no place is used twice, no record is lost, the slot always drains, every change of a tracked page is recorded | `HistoryOutbox`; proved |
| **History read**: `history/read.ts` | none (a cursor) | merge Revisions, events and the slot into pages | an entry moves from the slot to a row between two queries | no entry is skipped or shown twice | partly, `HistoryRead`; proved |
| **Page deletion**: `history/deletion.ts`, `purge.ts` | Page, Revisions, events | delete, then purge in steps | a materializer that still holds an entry | nothing appears for a page that is gone | partly, in `HistoryOutbox` and `PageTransition`; proved |
| **Path-moving operations**: `history/transition.ts`, `operation.ts`, `commands/rename.ts`, `trash.ts`, `restore.ts`, `api/src/hono/handlers/page.ts` | on the Page: path, status, the operation holding it; an operation record per idempotency key; redirect stubs | begin, enter, vacate, exit, record the result; resume on redelivery; sweep stranded operations | redelivery, a sweep concurrent with the request it judges, premature failure, a crash while the page is hidden | moves are atomic to readers and journalled exactly once each; success is never false; a hidden page comes back | partly, `PageTransition`; proved |
| **Subtree rename**: `history/commands/subtree-rename.ts` | a root record with the sealed list of members, one record per member | move each member, settle the root | deliveries race on one member; a member is moved or deleted meanwhile; the request dies half-way | a member moves at most once, a root is finished only with its members, no answer is false | partly, `SubtreeRename`; proved |
| **Collaborative editing**: `collab/src/save-flow.ts`, `compaction.ts`, `persist-yjs-state.ts`, `invalidation.ts`, `hooks/*` | live document, update rows, snapshot, lifecycle epoch, base Revision, tombstones | load, type, save, compact, store, outside edit, invalidate, unload | a save or compaction of an older generation of the document; the maps keyed by page name outlive a document | a reported save is stored, saves chain, a stale snapshot is never written, compaction keeps the text | partly, `CollabDocument`; proved |
| **Presence**: `api/src/service/presence.ts` | TTL entries in Redis | join, heartbeat, leave | a missed leave, two tabs | eventually only who is there | not modelled |
| **OAuth tokens**: `api/src/hono/handlers/oauth.ts`, `password-reset.ts`, `api/src/models/oauth-*.ts` | codes, refresh-token rows, family revocations | exchange, rotate, reuse within grace, revoke, reset | two refreshes at once; revocation against issue | a rotation leaves an unrevoked token, nothing outlives revocation, a live token is not taken for a stolen one | partly, `TokenRotation`; proved |
| **Command-line client's refresh**: `cli/src/lib/refresh.ts` | the stored profile | refresh, store, re-read | two commands share one profile | the profile ends with a token that lives | partly, `CliRefresh`; proved |
| **Render cache and admission**: `api/src/renderer/cache`, `core/render-admission.ts` | stored embeds, renders in flight, a pool with a queue | get, join, refresh, store; take, wait for, release a slot; abort | slots freed while callers abort; per-user and global caps together | no slot idles beside a render that could take it, one render per key | partly, `RenderAdmission`; proved |
| **Federated registration**: `api/src/services/auth-registration.ts`, `api/src/models/pending-auth-registration.ts`, `user-activation.ts` | the journal row, the account, its activation marker | sign in, submit, log out, approve, expire | two submissions under a lease, a logout in the middle, any of them dying | a logout holds, nobody is refused for their own account, who signs in has a page | partly, `AuthRegistration`; proved |
| **Plugin settings and state cells**: `api/src/service/config.ts`, `plugin/plugin-manager.ts`, `plugin-state-cell.ts` | Config documents, a copy in every replica, messages, the generations of a driver | save, reload after a failure, tell the others, reconfigure, use a driver | a write queue entered again by its own turn; a driver replaced under a call | memory ends as the database, drivers follow memory, no driver is closed in use | partly, `ConfigSync`; proved |
| **Migrations**: `api/src/migration/runner.ts` | application records | inspect, run the stages, record | two processes at once, an interrupt between stages | every stage ends effective, the log is true | not modelled |
| Editor cap, rate limits, sockets, boot and shutdown | process-local state, Redis counters | | limits, orderings at boot and shutdown | | not modelled |
| Web UI, rendering, sanitizing, artifacts, plugins over services, API contract, CLIs | no protocol of their own | | | | not modelled |

How they meet: HTTP handlers run commands; a content save (`Page.pushRevision`,
the collaborative save, `replace-url.ts`) calls the allocator; commands and moves
run `runPageEventCommand`, which claims the same counter and slot; any of them,
and the operator's repair, drains the slot. Moves add a claim of their own on the
Page (`historyTransition`). The collaborative server shares the Page document
with all of these.

`PROJECT.json` lists each component with its sources, and under `hazards` each
place in the code where the interesting thing can go wrong, with the properties
that would catch it; a hazard with none says why. "Proved" above is of the safety
properties the runs check: section 4 says which and from what.

The collaborative editing, the subtree rename's records, the registration, the
tokens, the render pool and the plugin settings share no document with each other;
the page's own documents are shared by the first six rows. Where a part needs what
another does to the Page, its module has the one action it can observe
(`MovePath` in `CollabDocument`, `Enter` and `Exit` in `SubtreeRename`).

## 2. Modules

| Module | What it is |
|---|---|
| `PageTimeline` | abstract: what the history of one page promises |
| `HistoryOutbox` | the allocator, event commands, outbox, repair and deletion, one database call per action |
| `HistoryOutboxProofs` | theorems about `HistoryOutbox` and `HistoryRead` |
| `HistoryRead` | extends `HistoryOutbox` with a client that walks through the history |
| `MCHistoryOutbox`, `MCHistoryRead` | instances for TLC |
| `PageMoves` | abstract: what the path-moving operations promise about one page |
| `PageTransition` | rename, trash, restore, their records, redelivery and the sweep |
| `PageTransitionProofs` | theorems about `PageTransition` |
| `MCPageTransition` | instances for TLC |
| `SubtreeRename`, `SubtreeRenameProofs` | a page renamed with its descendants |
| `CollabDocument` | the collaborative editing of one page |
| `CollabDocumentProofs` | theorems about `CollabDocument` |
| `MCCollabDocument` | instances for TLC |
| `AuthRegistration`, `AuthRegistrationProofs` | registration through a provider |
| `TokenRotation`, `CliRefresh` | the token endpoint, and (extending it) the client's commands |
| `TokenRotationProofs` | theorems about both |
| `RenderAdmission` | the render pool with the cache and previews that use it |
| `ConfigSync`, `ConfigSyncProofs` | a plugin's settings from the database to its driver |
| `Services` | one instance of each of the last seven, of which one is awake |
| `ServicesProofs` | theorems about `Services`: those of its parts, and the proofs about `RenderAdmission` |
| `MCServices` | an instance of `Services` for TLC |

### 2.1 HistoryOutbox

`page` holds the fields of the Page document that the protocol touches, `row` the
sequence of a stored Revision or event (0 for none), `detail` the payload of an
event, `born` the `createdAt` of a stored Revision. A Revision gets that date when it is
prepared and is saved later, so dates are ordered otherwise than saves; tracking, the
repair and the reader compare dates. A process is one call: a Revision's
save, a command's request, a repair, a deletion; `pc` says where it is and `loc`
holds its locals, so what it read stays old while others write.

| Actions | Code |
|---|---|
| `PrepareRevision` | `Revision.prepareRevision`, up to the date; what it awaits follows |
| `SaveRevision`, `MovePointer` | `Page.pushRevision` |
| `AllocCheckFirst` .. `AllocClaim`, `AllocHeal`, `HealDrain` | `allocateContentSequence` |
| `CmdRead`, `CmdRecord`, `CmdSilent` | `runPageEventCommand` with the plans of `visibility.ts` and `publish-draft.ts` |
| `MRead`, `MWrite`, `MDrain` | `materializePendingEntry`, by whoever calls it |
| `RepairOutbox`, `ScanStart` .. `ScanClaim`, `DemotedHistory` .. `DemotedRestore` | `repairPendingEntries`, `scanUnsequencedRevisions` |
| `DeletePage`, `RemoveRevisions`, `PurgeEvents` | `deletePageWithMode`, `purgePageHistoryEvents` |
| `Crash`, `CallFails`, `StrayWrite` | a process dies; a database call throws; a Revision is stamped outside the protocol |

Abstractions:

- Calls are merged only where the second reads something that never changes once
  true, or where the pair decides nothing together: the write and verification of
  a materialization, the two existence reads of `hasSequencedHistory`, the two
  reads of `collectSequenceOwners`, the page read of `scanOneReadyPage` with its
  list of missing Revisions.
- `entryId` is a fresh identifier per claim; the sequence plays its part, since
  every claim raises the counter.
- A save whose pointer write does not match ends like a crash. A database error
  elsewhere in the allocator is `Crash` (the outer catch gives up the same way).
- The three attempts of the self-heal's drain (`selfHealDrainOwnEntry`) are one or a
  crash.
- A page starts untracked, or tracked with a Revision, or demoted: the shapes a
  whole-document save of a stale copy can leave (`content-sequence.ts:39-71`).
- Left out: malformed slots and Revisions of another page, which
  `materialize.ts:50-140` refuses and no code path writes; the
  PageDeletionRecord and the best-effort cleanup of other collections.

### 2.2 PageTransition

`page` is the Page (path, status, the operation that holds it, whether it is
tracked, whether its last event is still in the slot), `record` the
PageHistoryOperation of each key, `log` the operations whose event the page has, in
sequence order, `stubs` the redirects, `done` how often an operation committed a
move (a history variable). A delivery carries a key; several may carry the same.

| Actions | Code |
|---|---|
| `Read`, `Resolve`, `Prepare`, `Create` | the handlers `renamePage`, `deletePage` (soft), `revertDeletedPage`; `createPageHistoryOperation` |
| `Reread`, `Missing` | `resumeRename` and its likes, the outcomes of a missing page |
| `Promote` | the promotion gate of the commands |
| `Enter`, `ClassifyEntry`, `Reload`, `Vacate` | `enterTransition`, the loop of `runPageTransition`, the redirect stub |
| `ExitRead`, `Exit`, `Store` | `exitTransition` through `runPageEventCommand` |
| `Evidence`, `Assist`, `Row` | `hasOperationCompletionEvidence` |
| `Complete`, `Moot`, `Fail`, `Correct` | `completeOperation`, `correctStaleFailedOperation` |
| `Visit`, `Judge` | `resumeStrandedTransitions` |
| `DeleteLook`, `DeletePage`, `PurgeEvents` | the outright deletion |

Abstractions:

- Storing and draining an event are one step: `HistoryOutbox` shows that staging
  is the moment that counts. One event cannot be stored: the second of an operation that
  moved the page twice. Events are unique by page, operation and kind
  (`api/src/models/page-history-event.ts:178`), an operation has one kind of event, and the
  slot that holds the second stays occupied for everybody (`Jammed`): an assist leaves it
  (`Drained`), and an exit beside it uses up its assists and ends with the page hidden.
- The sequence of the page is the length of `log`, so unrelated saves and commands do not
  race here.
- The two evidence checks around a sweep's resume are one; the outcome of a
  promotion is nondeterministic; both allow more behaviour than the code.
- Looking for an occupant and creating the redirect is one step (the unique index
  on `path` makes it exact); looking up and removing a redirect at the destination
  is one step.
- Left out: other pages at the destination, the twin and revision checks, drafts,
  `Page.rename` at user activation, fingerprints (one key is one request), group
  records of the subtree rename. A page already in the trash is not trashed
  again: `TrashOf` is defined on the ordinary paths only.

### 2.3 HistoryRead

`walk` is a client that asks for page after page, each with the cursor of the answer
before; what it was shown is kept to compare with what it should have seen.

| Actions | Code |
|---|---|
| `WalkPage` | the read of the Page and the bounds taken from it, `readPageHistory` |
| `FindEvents`, `FindRevisions` | the two queries for entries with a place, in either order |
| `FindRest` | the Revisions without a place, the merge (`mergeTimeline`) and the answer |

Every action of `HistoryOutbox` may fall between them. What a query found is a set; how it
is sorted is said by `Rank`, the number of entries before one, and a limit keeps the
entries of low rank. A query answers with finitely many documents (`ReadAssumption`).
Left out: the lookup of a staged
event's own row (it chooses between two copies of one entry), actors and payloads, the
encoding of the cursor, ties between equal dates, the handler's visibility check.

### 2.4 SubtreeRename

`page` is each member's folder, holder and staged event, `stored` the events that have a
row, `root` and `record` the operation records, `base` what each delivery has read. A
delivery carries the one key of the request; `Width` is `RENAME_TREE_CONCURRENCY`.

| Actions | Code |
|---|---|
| `Start`, `Look`, `Relook` | the subtree branch of `renamePage`: key first, then root and members |
| `Seal`, `Canonical` | `createRoot`, and the path of the root as it was sealed |
| `Peek`, `ReadRecord`, `Claim` | what a member's move is derived from; its record (`executeMember`) |
| `Enter`, `Classify`, `Exit`, `Store`, `Judge`, `Row` | its transition and the evidence of completion |
| `Current`, `Complete`, `Moot` | its outcome (`outcomeFromCurrentMember`, `completeOperation`) |
| `Answer`, `Throw` | the root settled and answered; a member's exception |
| `Visit`, `Verdict`, `Fail`, `Hook`, `Inspect` | the sweep, and how it settles roots (`util/page-history-repair.ts`) |
| `MovedElsewhere`, `Deleted`, `Crash` | another request moves or deletes a member; a process dies |

A move by another request is one step here; `PageTransition` shows it atomic to readers.
A second event of the group on one page, which takes such a move back, jams the page's slot
as in `PageTransition` (`Jammed`).
Left out: redirects, promotion and the retries of a contended slot (`PageTransition` has
them), pages without history. The evidence is looked up once where the code looks twice,
and the grace window may end at any time; both allow more behaviour than the code.

### 2.5 CollabDocument

One page in one process. `page` has its pointer, epoch and snapshot, `revs` the Revisions,
`rows` the update rows, `doc` every document the process has loaded, and the four maps that
the process keys by page name. A text is the set of marks it shows: keystrokes, and one
mark for a whole body.

| Actions | Code |
|---|---|
| `Authenticate`, `Attach`, `Leave`, `Unload` | the epoch gate, connections, `hooks/on-disconnect.ts` |
| `LoadRead`, `LoadReplay` | `hooks/on-load-document.ts`: snapshot or body, then the rows |
| `Type`, `AppendRow` | `hooks/on-change.ts` |
| `StartSave`, `ReadPage`, `CheckBase`, `MovePointer`, `Probe`, `AdvanceBase`, `SealSave`, `WriteSave`, `DropRows` | `save-flow.ts` call by call, with `tryCoalesce` and `persist-yjs-state.ts` |
| `Enter`, `CompactPage`, `CollectRows`, `MergeBase`, `SealMerge`, `WriteMerge`, `DropFolded` | `compaction.ts`, with the anti-shrink check |
| `Store` | `hooks/on-store-document.ts` |
| `Begin`, `ReplaceBody`, `ClearRows` | a body written outside the editor (`updatePage`, `pushRevision`) |
| `MovePath` | a path move, which advances the epoch |
| `InvalidatePages`, `Drain` | `invalidation.ts` |
| `Crash` | the process and its maps are gone |

Yjs and Hocuspocus are external: a document is registered only when it has loaded; its
unload removes its own entry; a row shows in a document of its own base. Left out:
deletions of text, contributors, artifacts, read-only sessions, the editor cap.

### 2.6 AuthRegistration

One identity of one provider: its journal row (`row`), the accounts (`status`), the link
(`identity`), the activation marker and the user pages (`homes`).

| Actions | Code |
|---|---|
| `Identify`, `AuthMarker`, `LookRow`, `Gate`, `IssueFresh`, `IssueAgain`, `IssueRevived` | a sign-in: `resolve`, `issueRegistrationGrant` |
| `Begin`, `Resume`, `SubmitMarker`, `Reserve`, `Create`, `Link`, `Remove`, `Mark`, `Approve`, `Finalize`, `Activate`, `After`, `Revert`, `Reload`, `Final`, `Release` | a submission: `provisionPendingRegistration`, `beginProvisioning`, `provisionClaimedRow` |
| `ClaimMarker`, `MakeHome`, `MarkDone`, `Drained`, `Failed` | `drainUserActivation` |
| `AdminApproves`, `LegacyHome` | the `activated` listener of `events/user.ts` |
| `Logout` | the handler `logout` |
| `Expires`, `Sweep`, `LeaseLapses`, `MarkerLapses` | the TTL index and the leases |

The renewal of a row that waits for approval is one action with its reissue; reads which a
unique index confirms are one step with their insert. Left out: the closed mode, refused
e-mail addresses, mails.

### 2.7 TokenRotation and CliRefresh

Each request makes at most one token, so tokens and families bear the names of requests.

| Actions | Code |
|---|---|
| `VerifyRead`, `VerifySave`, `Poll`, `Consume` | device codes decided and consumed, authorization codes |
| `Insert`, `Recheck`, `Undo` | `issueTokens`: the row, the second look at the family's revocation |
| `Present`, `LookUp`, `Rotate`, `Respond` | the refresh grant, reuse detection, rotation |
| `Revoke`, `Reset`, `Record`, `Bulk` | `revoke`, `passwordReset`, the marker and the rows of a family |
| `Age`, `Expire` | the reuse grace passes, the life of a token ends |
| `Load`, `Refresh`, `Answer`, `Store`, `Reread` | a command of the client (`CliRefresh`) |

An expired token is not active (`findActiveByHash`), and whoever presents it sets off the
reuse detection as with a stale one. Left out: the TTL index, which removes expired rows at
some later time, expiry of codes and access tokens, rows older than families, scopes,
inactive users, `slow_down`, the read that confirms the deletion of a session, the reset
link itself. In `CliRefresh` the profile is read, changed and written in one step, a
command neither dies nor outlives the grace or its token, and every answer of the endpoint
arrives (see *Observations*).

### 2.8 RenderAdmission

`pool` is the slots and the queue, `flight` the renders in flight by embed, `entry` the
stored embeds. `Preview`, `Get`, `Decide`, `Join`, `Launch`, `Refresh`, `Finish`, `Over`,
`Store` follow a call through `renderCodeBlockForPreview` and `cachedRenderOrPending`;
`Admitted`, `Drained` are `acquireRenderSlot` and the release, `Granted` one iteration of
its loop; `Abort` is the caller's signal; `Age` the end of an entry's freshness. Left out: the quota of a page, stale
answers after an error, eviction.

### 2.9 ConfigSync

`db` and `mem` are the stored settings and each replica's copy, `turns` the write queues,
`messages` the Redis messages and where their handlers are, `cell` the state cell.

| Actions | Code |
|---|---|
| `Call`, `WriteKey`, `Settle`, `ReloadRead`, `ReloadSet`, `Return` | `saveConfig*`, `serializeWrite` and the reload of a failed turn |
| `Tell`, `Reconfigure` | the plugin settings handler: publish, then `reconfigureAffected` |
| `HandleRead`, `HandleSet`, `HandleNotify` | the subscriber (`setupPubSub`) |
| `Use`, `EndUse` | `withValue` of the state cell |

One plugin, which reads its settings and sets its cell in one step, as every plugin of the
repository does, and may then write one setting back. Left out: dependent plugins, the
mailer, verification, `deleteConfig` (nothing calls it), encryption, lost messages, a
failing read in a subscriber, write-backs of the handlers.

### 2.10 Services

These seven modules share no state. `awake` picks one of them and the others sleep with no
state at all, so that one run covers them without multiplying their states; variables of
one name (`at`, `locals`, `lost`, `row`) serve all. Parts with theorems are instanced with
their proof modules, so that their lemmas are at hand in `ServicesProofs`. `MCServices`
gives the constants their values.

## 3. Runs

| Run | Instance | Shows |
|---|---|---|
| `outbox_safety` | two saves (one older than tracking), two visibility commands, two repairs, a deletion, three at a time as `MCCasts` lists; one fault; a client reading with pages of 1 or 2 beside the casts of `MCWatched`, two saves on a page without history among them | no shared place, the slot can settle, healthy pages are never blocked, visibility changes chain, refinement of `PageTimeline`, a walk shows every entry once and in order |
| `outbox_liveness` | two saves on a page without history, or one on any page, demoted ones included; one repair, one fault, fair | the slot drains, every Revision is placed |
| `outbox_corrupt` | 2 saves, 1 visibility command, 1 publication, 1 foreign stamp, fair | jams are healed, requests end |
| `transition_moves` | a tracked page under a rename, a trash delivered twice and the restore that undoes it; under one rename delivered twice, its sweep and a deletion; under two renames to one path and a sweep; an untracked one under the last and under three at a time of the one before; 1 crash | types, true successes, refinement of `PageMoves`, past a slot jammed by the second event of the trash |
| `transition_recovery` | 2 renames (there and back), 1 sweep, 1 crash, fair | late successes corrected, held transitions settle (but for a jammed slot, which this instance does not reach) |
| `services` | `Services`, see below; 1 fault each | the safety of seven modules |
| `outbox_orphan_event` | 1 save, 1 command, 1 deletion | *violated*: no event after the deletion |
| `outbox_below_boundary` | 2 saves | *violated*: nothing below the tracking boundary is placed |
| `transition_reentry` | 2 keys, one redelivered, 1 crash | *violated*: an operation moves its page once |
| `transition_abandoned` | 1 rename, 1 sweep, 1 crash, fair | *violated*: a hidden page always comes back |
| `collab_stale_save` | 2 tabs, 1 save, 1 outside edit | *violated*: a save of a document loaded before an outside edit does not replace it |
| `registration_split` | 2 sign-ins, 2 submissions, 1 logout | *violated*: journal and account settle together |

Its `services` instances and what they show:

| Module | Instance | Properties |
|---|---|---|
| `CollabDocument` | 2 tabs, 2 keystrokes, 2 saves, 2 compactions, 1 outside edit, 1 path move, as `MCCasts` combines them; 2 loads | `ReportedTextIsStored`, `SavesChain`, `FenceHolds`, `CompactionKeeps` |
| `SubtreeRename` | a root and one descendant, two deliveries or one with a sweep, a move or deletion by others | `RootIsHonest`, `DeliveriesAgree`, `MembersMoveOnce`, `FailureIsHonest` |
| `AuthRegistration` | 2 sign-ins, 2 submissions, a logout, an approval, open or restricted | `LogoutPrevents`, `CutOff`, `NoSelfConflict`, `SignedInHasHome` |
| `TokenRotation` | 4 requests in the five `Plans`, 2 codes | `ClosedFamilyIsDead`, `FamilyKeepsToken`, `ResetCoversFamilies`, `LiveTokenIsSpared` |
| `CliRefresh` | 2 commands, 2 re-reads, 5 requests | `StoredTokenLives` |
| `RenderAdmission` | 4 calls for 3 embeds by 2 users and guests; 2 slots, 1 per user, a queue of 2 | `WorkConserving`, `OneRenderPerKey` |
| `ConfigSync` | 2 replicas, 2 saves of a group and a setting, a write-back, 2 calls of the driver | `StoreIsMirrored`, `DriversFollowMemory`, `CellsAreSafe` |

`PartsTypeOK` is the type invariant of whichever is awake. The properties and what would
break them are commented in the modules; for each of them `PROJECT.json` names a plausible
bug (`mutants`) under which TLC refutes it.

**Bounds.** Two saves are enough for a claim to be overtaken, and for an entry of one to be
drained by the other; with one legacy Revision the untracked, tracked and demoted pages all
occur. `Casts`, `Starts` and `Watched` list who takes part together: the set of all would
not end, and every pair of kinds that touch the same documents is in one of them. In
`outbox_safety` the page's grant and status are fixed in the casts where nothing reads
them. The retry budgets are 1 or 2 where the code has 3 or more (`MaxClaim`, `MaxAssist`,
`MaxEnter`, `MaxIssue`, `Rereads`): what matters is that a retry happens after a lost race
and that the budget runs out, and both do. One fault is a crash at any point, a failing
call, a lost answer, an expired lease or a foreign stamp, as the module's `MaxFaults` says;
no theorem depends on its bound. Two paths and their trash are enough for a page to come
back to where an operation's snapshot was taken. A subtree of two members has one that is
the root and one that is not, and `Width` 1 makes the second wait. Two loads are a document
before and after an edit. Symmetry is used only in runs without liveness, on actors the
instance does not tell apart. Deadlock checking is off because every request ends and the
system may then rest.

**Fairness.** A request that has not crashed goes on (weak fairness of each process's
steps: Node runs every resolved promise). The grace window passes (`Age`). Nothing in the
code calls the repair or the sweep by itself: an operator does, so the two liveness runs
that need them assume that the operator keeps doing so (strong fairness of starting a scan
and of visiting each operation, since a scan may be started only when the previous one has
ended, and a visit finds its operation only while it is unresolved). Without an operator
those properties are false, by design of the code. `RequestsEnd` and `JamIsHealed` assume
only that requests go on. `services` states no fairness and checks no liveness; that no
save of a setting waits for ever and no slot idles are stated of the states in which
nothing can go on (`StoreIsMirrored`) and of all states (`WorkConserving`).

**What the violations say** (`findings` in `PROJECT.json`):

1. `outbox_orphan_event`: `purge.ts:42-45` takes the deletion of the Page as a point
   after which no event can be created; a materializer that read the slot before
   inserts its event after the purge.
2. `outbox_below_boundary`: `repair.ts:849-853` refuses to place a Revision older than
   the one that promoted its page, as this would reverse history; the live
   allocator does place it (`content-sequence.ts:202`).
3. `transition_abandoned`: a sweep that read the page before a slow request entered
   records a failure; if the request then dies, the page stays hidden, since later
   sweeps skip failed operations (`operation.ts:463`), against `transition.ts:204-205`.
4. `transition_reentry`: a redelivered rename whose move is already in the history
   enters again if another operation moved the page back meanwhile, against
   `api/src/hono/handlers/page.ts:2062-2067`. The event of its second exit is one too many
   for the unique index of the events and never leaves the slot; whatever is moved next
   cannot stage its event and stays hidden. `HeldTransitionSettles` therefore excepts a
   jammed page, and `transition_moves` goes on past the jam.
5. `collab_stale_save`: a comment (`api/src/models/page.ts:795-797`) rests a save's safety
   on the epoch of its document. The save compares the Page with the epoch kept under the
   page's name (`save-flow.ts:454`), which the next load overwrites
   (`on-load-document.ts:322`, `:351`): a save still running when its tab leaves, the page
   is edited outside and another tab loads it, passes with the old body.
6. `registration_split`: `auth-registration.ts:516-517` says every interleaving settles on
   two agreeing records. A submission activates the user, a logout cancels the row, the
   submission reads that; a new sign-in revives the row and a second submission finishes
   it; then the first reverts the user. The row is ACTIVE, its user REGISTERED, and a
   further submission is answered `not_found` until the row expires.

**Observations.** Met while reading, and checked by no run, since no line of the repository
promises otherwise or the models leave the part out:

- *Registration.* A crash between the activation and the check after it leaves a CANCELLED
  row with an active user. Once the TTL has swept a cancelled row or one that waited for
  approval, the identity conflicts with its own account for good. A submission whose reload
  meets a user reverted meanwhile answers `active`.
- *Collaborative editing.* Loading reads the snapshot and the rows in two calls
  (`on-load-document.ts:307`, `:507`). A compaction that read its rows before a save may
  overwrite the save's snapshot (`compaction.ts:298`). A save deletes rows appended after
  it encoded the document (`save-flow.ts:640`); if its snapshot failed to be written, the
  next crash falls back on an old one (`:592`). A page seeded from its body leaves older
  rows pending. An outside edit sets the epoch to what it read plus one
  (`api/src/models/page.ts:2125`). A checkpoint takes the epoch by page name
  (`compaction.ts:147`). A document loaded during a drain keeps the sentinel base, and its
  saves conflict until it is unloaded (`invalidation.ts:281`).
- *Tokens.* A token that expired without being rotated is taken for a stolen one when it is
  presented (`oauth.ts:325-337`), and its family is revoked with a living sibling, if two
  refreshes at once made one. A code exchange in flight during a password reset escapes `revokeAllByUser`
  (`password-reset.ts:157`). Of an approval and a denial of one device code the last write
  wins (`oauth.ts:555-569`). A client's command that outlives the grace presents the token
  it loaded and loses the family (`refresh.ts:48`); one that dies between the rotation and
  its store loses the session.
- *Settings.* A subscriber's load is outside the write queue (`config.ts:437`): two
  overlapping handlers may leave a replica's memory older than the database. If the second
  of two atomic groups of one request fails, the driver keeps the old values of the first
  (`admin/plugins.ts:338-355`; no plugin of the repository has two groups). A write-back
  runs inside the turn of the save that set it off; two of them of one setting, inside one
  failed save, would run at once and unordered, and memory may end as neither: the proof of
  `StoreIsMirrored` assumes that a save sets off one at most of each setting
  (`OneWriteEach`), as every plugin here does.
- *History.* A Revision that promotes its page may be missing from a walk that runs while
  it is stamped. A Revision is dated before its body is rendered and it is saved
  (`api/src/models/revision.ts:455`): one dated before its page's promotion and saved after
  it is below the tracking boundary, so if its request dies the repair never lists it
  (`repair.ts:871-876`) and it stays without a place; one saved while a client walks may be
  dated behind the cursor, and that walk does not show it. `EveryRevisionPlaced` and
  `WalkIsComplete` are about the others. A redirect at the destination is removed before the operation has a record
  (`hono/handlers/page.ts:2148`).
- *Elsewhere.* A render that fails may restore the entry it read before a newer one was
  stored (`renderer/cache/index.ts`); an embed quota is checked, then used; the editor cap
  tolerates overshoot by its own account; a migration interrupted in its last stage is
  recorded as complete (`migration/runner.ts:322-354`).

## 4. Proofs

Every theorem holds for any values of the constants: any number of processes, requests and
faults, any retry budgets. `PROJECT.json` (`theorems`) names them with the property each
states. They assume what `ConstantsAssumption` and `NoneAssumption` of their module say (the
sets of actors are disjoint, bounds are naturals, `None` is not a value), which TLC evaluates
in every run, and those about a walk what `ReadAssumption` and `NoCursorAssumption` say
(finitely many documents; `None` is not a cursor). Where a theorem assumes more, its
paragraph below says so.

The way is the same throughout. A property is seldom inductive, because a process may be
about to write something it read long ago; so the invariant says of each process what its
locals still mean at each label, and of the documents what any process may rely on. Each
action owes one lemma. Where the documents change in a few ways only, one lemma shows
once that each way leaves the other processes' part alone (rely and guarantee).

| Module | Theorems | The inductive invariant |
|---|---|---|
| `HistoryOutboxProofs` | `TypeCorrect`, `SlotNeverJams`, `SequencesDistinct`, `HealthyPagesScanned`, `RecordedMovesChain`, `ImplementsTimeline`; `WalksInOrder`, `WalksComplete` | `Inv`, `ChainInv`; `WalkInv`, `OwesInv` |
| `PageTransitionProofs` | `TypeCorrect`, `SuccessIsTrue`, `MovesAreAtomic` | `Inv` |
| `SubtreeRenameProofs` | `RootsAreHonest`, `RepliesAgree`, `MovesHappenOnce`, `FailuresAreHonest` | `Inv` |
| `CollabDocumentProofs` | `ReportedTextAlwaysStored`, `SavesAlwaysChain`, `TypesHold`, `FenceAlwaysHolds`, `CompactionAlwaysKeeps` | `IInv`, `TInv`, `KInv` |
| `AuthRegistrationProofs` | `CutOffStaysCut`, `LogoutIsMadeGood`, `NeverOwnConflict`, `SignInsFindHome` | `Inv` |
| `TokenRotationProofs` | `ClosedFamiliesAreDead`, `FamiliesKeepToken`, `ResetsCoverFamilies`, `LiveTokensAreSpared`; `ProfileStaysLive`, `SessionSurvives` | `Inv`; `CliInv` |
| `ConfigSyncProofs` | `CellsHold`, `DriversHold`, `MirrorHolds` | `Inv`, `CellsInv`, `DriversInv`, `MirrorInv` |
| `ServicesProofs` | all of the last five's again, as `services` checks them; `SlotsNeverIdle`, `RendersAreShared`, `CapsHold`; `PartsTyped` | `RenderInv` |

*HistoryOutbox.* `TypeCorrect` holds with or without foreign stamps; the others assume
`Stray = {}`, that nothing outside the protocol stamps a Revision, without which they are
false (that is what the self-heal is for). `Inv` has three parts: types; `Shared`, about
documents alone (rows are distinct, the counter covers them, the slot's item is unstored or
stored at the slot's sequence); and `Guarantee(p)` for each process (for example: if the
counter it read has not moved, the slot is empty; the entry it holds is in the slot or has
been stored). The documents change in six ways (`Changes`: quietly, by a claim, a store, a
drain, a restore, a deletion), and `OthersKept` shows that each keeps `Guarantee(q)` of
every other process. The refinement maps each of the six to a step or a stutter of
`PageTimeline`. `ChainInv` adds that the places of recorded changes and the grants they name
form one chain that ends at the page's grant, or at the staged entry's.

*HistoryRead.* A walk keeps copies of entries for several requests, while the outbox stores
them, drains the slot, deletes the page. `WalkInv` says that they stay true: wherever a copy
of an item with a place may be (its row, the slot, a process about to store it, the answer
of a query, what was shown), all copies of one item name one place and those of two items
two, on a deleted page as well (`Agree`); while the page is there, what the walk has seen is
its timeline (`Current`); a Revision is dated once, by the clock, before it is saved (`Times`),
and one seen with a place is not listed again among those without (`SeenOnce`). What has
been shown lies before the cursor (`ShownOK`), so the next window only goes on, and
`WalkInOrder` follows; a healthy page is never taken for a corrupt one, because `Agree`
holds of the rows a request merges. `OwesInv` says where an entry is that the walk owes: it
has been shown, or lies beyond the cursor, and in the middle of a request has been found, or
is in a query still to come, or there are more entries before it than the request can show
(`Beyond`). An event must be sought in the order of the code for this: in the slot first, in
the rows after it. What was given a place beyond the walk's bound
meanwhile is no longer owed (`StillOwed`), and what is saved during the walk never was.
`WalkIsComplete` follows when a request has no more than it can show. The
facts on sorting are about ranks: `Before` orders an answer, so `Rank` is one-to-one on a
finite set (`RankStrict`), takes every value below its size (`RankOnto`), and `InOrder` is
a sequence of all its entries (`InOrderFacts`). Both theorems assume `Stray = {}`: a
Revision stamped outside the protocol may bear the place of another entry.

*PageTransition.* A record, once made, never changes where its operation leads, and what
happened to the page never becomes untrue. So what a process has seen as evidence of a move
stays evidence, however long it is interrupted: `Inv` says for each label what the process
has seen, and of the documents that the history lists committed moves only (`Journalled`),
that a held page is where its holder takes it, and that a free one is where some committed
move brought it or has never been asked to move (`Positioned`). `MovesAreAtomic` maps each
step to one of `PageMoves`: `Enter` to `Depart`, `Exit` to `Arrive` (readers see a move
there only), a promotion to `Track`, a deletion to `Remove`, a purge to `Erase`, and every
other step to a stutter.

*SubtreeRename.* `Local` says what a worker relies on, `Traced` that a move leaves traces
and no move leaves none, `OneWay` that a member nobody else touches goes from the old place
to the new one once, `Grounded` that a delivery at work derives its moves from where the
root was at first. `FailureIsHonest` speaks of a step; it follows from `Inv` at that step.

*CollabDocument.* `IInv` adds to `ReportedTextIsStored` the shapes of the locals; that the
Revision of a save between its base check and its compare-and-set has the parent and the
body the save holds (`Derived`), from which `SavesChain` follows; and that what the Page
points at, and what a save reported, is stored for good (`Settled`). `TInv` has all the
types, that a served connection has a document, that there is one compaction run at most
(`OneRun`), and which generation each document and map entry belongs to; a snapshot is
written against a document of the Page's epoch, or against an epoch that the process has
loaded since, which is `FenceHolds`. `KInv` adds, for as long as no body has been saved or
replaced (`Fresh`), that the rows a compaction has collected show in whatever it goes on
with: the document, the text it has sealed, the snapshot it has written (`Gathered`); that
no row is of a later epoch than the Page (`Dated`), and that a page with a body has no empty
snapshot (`Whole`), so that a load drops rows of older epochs only. `CompactionKeeps`
follows at each step that shortens the log. The anti-shrink check is what keeps `Whole`.

*AuthRegistration.* The row is leased to one submission, which works for the account the
row names (`LeaseSound`, `UserSound`); a submission that was cut off never holds a lease
again (`CutSound`); an account activated behind a logout has somebody at work who will take
it back, or a death or an administrator to explain it (`LogoutSound`); before its row
expires an identity has one account (`OneAccount`). What a step does to the row, the account
and the logouts is stated once per kind of step, and each process's part is shown stable
under it.

*TokenRotation.* `Minted` relates a row to its request; `Presented` says a presented token
is one that a client has; `Sweeping` that families a call has to revoke are revoked or still
to do; `Seen` that what was read of a family and of a token (revoked, replaced, expired)
stays true. No clock is needed: `Expire` may come at any step.
`ClosedFamilyIsDead` is kept because every request looks at the family again after it has
stored its token. *CliRefresh* goes on from the endpoint's steps rather than its invariant:
a request in flight is one command's alone (`Owned`), and whoever has replaced the
profile's token is the only one with its successor, which nobody else has seen (`Unseen`)
and which it is yet to store (`Replaces`, `GoesOn`). Hence the profile ends with a live
token, and reuse detection never fires (`SessionSurvives`). `CliAssumption` adds that the
sign-in's token is a request's.

*ConfigSync.* `Inv` says that the queue of a replica holds the saves that have a turn or
wait for one, each once (`QueueSound`, `SaveSound`), what a save has stored (`StoreSound`)
and that what is written back lasts no longer than its request (`BackSound`). `CellsInv`: a
cell closes what it replaced, and never what a call holds. `DriversInv`: the driver has each
setting of memory, or its replica is still to reconfigure it (`Covered`). `MirrorInv`: where
memory differs from the database, the save that wrote last owes the replica a message or
its own turn (`Owes`). `MirrorHolds` assumes `OneWriteEach` (no setting is written back
twice by one save) and is false without it, as TLC shows on two write-backs: see
*Settings* above.

*RenderAdmission.* The pool is sound (`PoolInv`: a render waits or runs, and once only; the
caps hold) and full (`Full`: nobody waits who fits), and a view's render is the one its
embed's map names from its admission to the end of its store (`Placed`, `Shared`). What
`drainQueue` computes is a recursive function over the length of the queue. `DrainedPool` is
an induction over it, with the set of the iterations at which the pool is sound, and either
full or shorter by as many places: `AllNat` draws induction for sets of naturals from the
library's theorem on well-founded relations. A release frees a slot for several at once and
an abort frees a place for nobody, so `Full` has to be shown of each.

*Services.* A step of `Services` is a step of the part that is awake, on its own variables,
so each part's initial lemma and step lemma carry over from its proof module
(`TokensStep`, `TokensInv` and the like). `PartsAssumption` is the conjunction of the parts'
assumptions. `PartsTyped` collects the parts' invariants.

Only model-checked: the liveness properties (`SlotDrains`, `EveryRevisionPlaced`,
`JamIsHealed`, `RequestsEnd`, `LateSuccessCorrected`, `HeldTransitionSettles`), as fairness
is out of the prover's reach. Every other property that a passing run checks is stated by a
theorem. No module with a theorem reaches a recursive operator: what loops is a recursive
function.

## 5. Not modelled, and the plan

Not modelled: *Presence* (TTL sets in Redis whose only promise is to become right after a
while); *Migrations* (a run trusts its own inspection
of the data, and the log of past runs only names the next entry; each stage is made to be
run again); the *editor cap* and *rate
limits* (counters that the code lets overshoot); *sockets* (transport); *boot and shutdown*;
the *web client*, *rendering*, *sanitizing* and *artifacts* (functions of one text, or
screens, without shared state); *search*, *mail*, *storage* and *notification* plugins
(adapters of outside services); the *API contract*, *CLIs* and runner (schemas, generated
code, argument parsing). They make up most of the repository's lines.

Next, in this order: interrupted and overlapping runs of the migrations; presence with
missed leaves; the render cache's quota and its stale answers after errors; the editor cap.
