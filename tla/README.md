# A TLA+ model of Crownstone cloud v2

Cloud v2 is the REST server the Crownstone app and hubs talk to: a LoopBack 4 / Express process in front of
MongoDB. This directory holds TLA+ modules that model the parts of it with state, order and failure in them, TLC
configurations that check them on small instances, and proofs TLAPS checks for instances of every size.

Paths below are relative to `src/src/modules/` unless they start with `src/`.

- [The system](#the-system): inventory of the components
- [Modules](#modules): which module models what, and how it corresponds to the code
- [Runs](#runs): what each TLC run checks, its bounds, what it shows
- [Where the code does something else than it says](#where-the-code-does-something-else-than-it-says)
- [Proofs](#proofs)
- [Abstractions and assumptions](#abstractions-and-assumptions)
- [Not modelled](#not-modelled)

## The system

One process serves many requests. JavaScript runs one callback at a time, but every `await` lets other requests
run, so the unit of atomicity is the code between two awaits, and in practice one database query. There is no
transaction and no lock anywhere. A second service, cloud v1, writes to the same database
(`src/ARCHITECTURE_EXPLANATION.md`), so every row can change between any two queries.

| Component | State | Operations | What is hard |
|---|---|---|---|
| Sync (`sync/`) | items with `updatedAt` in the database, copies in every app; nothing of a call survives in the server | REQUEST (compare, create, offer), REPLY (overwrite what the cloud asked for), FULL (download all) | dozens of queries per call; other clients and cloud v1 in between; lost answers and creates that are sent again; role changes between the two calls |
| Nested sync (`sync/syncers/Sync_Stones.ts`, `Sync_Messages.ts`) | abilities, properties and behaviours of a stone, read and deleted marks of a message | a parent's callback handles its children | children of a parent that failed or was refused; local to cloud id mapping |
| Repositories (`src/src/repositories`) | rows and timestamps | create with uniqueness check, `updateById` with `acceptTimes`, cascading deletes | check-then-insert over two queries, cascades that stop in the middle |
| Uid allocation (`stone.repository.ts`, `location.repository.ts`) | uid of every stone of a sphere | highest + 1, search for a gap, refuse | limits; two queries that see different stones |
| Energy upload (`energy.controller.ts`, `energy/EnergyProcessor.ts`) | raw rows with `checked`, `processed`, `correctedEnergyUsage`; samples | store points, page through unchecked rows, interpolate at five-minute points, store samples, delete rows, keep the last | uploads that overlap, repeat, or stop between queries; counter resets; paging |
| Energy aggregation (`EnergyProcessor.ts`, `IntervalData.ts`) | samples per interval, time of the last aggregation, `AGGREGATING` | hour, day and month from the interval below | metadata read at the start and stored at the end; pages; the garbage collection |
| Transform sessions (`fingerprintTransform/`) | sessions in memory with three timers, datasets of two phones | create, join, start collection, upload, finalise, kill | timers against calls, uploads in any order |
| Data download (`dataManagement/DataDownloader.ts`) | sessions and a queue per user, in memory | start, wait, time out, end | promises resolved in one request and continued in another; per user against per call |
| Sanitizer, garbage collection, importer (`dataManagement/`) | – | read ids, delete everything else | rows that are created between the two queries |
| SSE (`sse/`) | sockets of the SSE servers; five-second caches of rows | handshake, token checks, events | handshake against its timeout, cache fill against cache merge |
| Messages, notifications (`message.controller.ts`, `notifications/`) | messages with recipients, read and deleted marks | send, mark, delete, list | several queries per operation |
| Users, hubs, authorization, server | tokens, roles | login, access checks | none of its own; roles are read by the others |

The components meet in the database: the sync creates stones through the repositories, which allocate uids and
keys; energy uploads refer to stones; sanitizer and garbage collection delete what the others wrote. The data change
and transform handlers of `sse/` turn their results into events.

What makes each component correct:

- Sync: two calls bring both sides together; nothing deleted returns; nothing newer is overwritten by something older
  unless the comparison was stale; what a user made once exists once; every copy agrees with the cloud in the end.
- Uids: a stone gets a free uid in range, and is refused only in a full sphere.
- Events: the event about an update shows it, and what the cache keeps is what is stored.
- Energy upload: each sample point between two measurements gets its sample, also when uploads overlap, repeat or break off, as
  long as they are stored in order of time; in uploads that follow one another it gets one, energy does not decrease, and the cutting
  into uploads makes no difference.
- Transform sessions: every session ends, once, and says so; joined sessions stay; transforms come from pairs.
- Energy aggregation: every sample on a point of an interval is aggregated once, by the first run that lists its stone while it is
  stored, whatever pages, interruptions and garbage collections come between, and energy does not fall.
- Nested sync: a child is stored under the parent it was made for, and nothing goes around a parent's permission.
- Sanitizer: only orphans go, and what it leaves is reachable.
- Messages: who is notified may read, each recipient has one mark of each kind, a hidden message stays hidden.
- Data download: everybody gets an answer, in turn, and nobody waits for an empty place.

`PROJECT.json` lists every component with its status and the hazards at their lines.

## Modules

| Module | Models | Kind |
|---|---|---|
| `SyncRules` | permission tables, uniqueness, reply status | operators |
| `SyncCollection` | REQUEST and REPLY of one collection, clients, cloud v1, faults | state machine over `SyncRules` |
| `SyncCollectionProofs` | theorems about `SyncCollection`: types, what happens to the cloud's rows, and what one call does to the client's copies and drafts | proofs |
| `StoneTree` | the nested collections: rooms, stones, behaviours, abilities, properties | state machine |
| `StoneTreeProofs` | theorems about `StoneTree` | proofs |
| `UidAllocation` | `injectUID`, `injectUIDinGap` | state machine |
| `EventCache` | `ShortLivedCache` of the sphere, `EventConstructor.getData` | state machine |
| `StoneEvents` | stones that are created and announced | composition of `UidAllocation` and `EventCache` |
| `DataDownload` | `UserDataDownloadThrottle` and the calls that go through it | state machine |
| `DownloadTurns` | one queue of calls, what the throttle promises | abstract specification, implemented by `DataDownload` |
| `DataDownloadProofs` | theorems about `DataDownload`, with the refinement | proofs |
| `TransformSession` | `TransformSession`, `TransformSessionManager` and the transform endpoints | state machine |
| `EventProofs` | theorems about `StoneEvents` and `TransformSession` | proofs |
| `EnergyRules` | `processPair` and what it calls | operators and one recursive function |
| `EnergySampling` | `collectEnergyUsage`, `processMeasurements` | state machine over `EnergyRules` |
| `EnergySamplingProofs` | theorems about `EnergySampling`, and lemmas about `EnergyRules` | proofs |
| `EnergyAggregation` | `AggegateAllSpheres`, the metadata an upload writes, `DataGarbageCollection` | state machine |
| `EnergyAggregationProofs` | theorems about `EnergyAggregation` | proofs |
| `Sanitizer` | `DataSanitizer.sanitize`, against whoever inserts and deletes | the queries as data, and a state machine that makes them |
| `SanitizerProofs` | theorems about `Sanitizer` | proofs |
| `Messages` | the endpoints of `message.controller.ts` | state machine |
| `MessagesProofs` | theorems about `Messages` | proofs |
| `MC…` | instances of the module of that name | constants for TLC |

How they fit together: `StoneEvents` joins the creation of a stone with the event that announces it. `StoneTree` nests what `SyncCollection` shows for one collection, and looks at ids and parents where the
other looks at versions. `EnergySampling` makes of measurements what `EnergyAggregation` takes as samples. `Sanitizer`
cleans up what the others leave behind.

Definitions keep the names of the code where there is one name for what they do. Definitions that start with
`\* Mutant:` are mutated forms of the definition that follows them; no specification uses them, `PROJECT.json` says
which property each of them breaks.

### SyncRules and SyncCollection

An item is its `updatedAt`, a number; zero (`Gone`) is "no such item". The clock gives every edit a timestamp of its
own. `category` is the collection, chosen at the start, so that one run covers collections whose rules differ.

| Definition | Code |
|---|---|
| `StartRequest`, `ListCollection` | `handleRequestSync`: access roles, then the ids and times of the collection (`snap`) |
| `AnswerKnown` | first loop of `processSyncCollection` for an item with a cloud id: status from `snap`, data from a `findById` made now; a row that is gone aborts the whole request |
| `DenyCreate`, `CreateFails`, `FindExisting`, `Insert`, `InsertFails` | the same loop for an item marked `new`: permission, failure, the lookup of the repository's `create`, and its insert, which are two queries |
| `OfferUnknown`, `SendAnswer` | second loop, and the end of the request |
| `ReceiveAnswer` | the app: applies the statuses as `SYNCING.md` lists them; with `REQUEST_DATA` it starts the REPLY, which reads the role again |
| `Push`, `FinishReply` | `processSyncReply` item by item; a collection `handleReplySync` has no syncer for is dropped (`TakenInReply`) |
| `LocalEdit`, `LocalCreate`, `CloudEdit`, `CloudDelete`, `Demote` | the app's user and cloud v1 |
| `LoseAnswer`, `Crash` | the network and a restart |

`taken` is what the code deletes from `cloud_items_in_sphere`. `touched` and `unanswered` are history variables: they
record which items others wrote during a call and whether an answer was ever lost, and no guard reads them. The
items of a request are handled in any order (object keys), but one after the other (`Handling`).

### UidAllocation

A create is `FindHighest`, perhaps `FindGap`, and `Insert`; `CreateGiven` is a create that brings a uid. The map from
stored stones to uids is the only shared state. `InjectedUid` and `FindGap` leave the entity *without* uid, because the
code assigns it to a local variable that hides the entity (see the findings). `stale` records creates whose stones
changed between the two queries.

### EventCache and StoneEvents

An event in the making is a call with a stage: `Update` writes the sphere, `Merge` changes the cache and asks for the name in the
same turn, or the item is looked up first (`AnnounceUpdated`, `AskSphere`); then the name comes from the cache or by
`FindSphere` and `Load`, and `Send` caches it once more. `Expire` may come at any time, since the timer runs anew with each use. `outrun`
is a history variable: a write met a call with an older name in hand, or cloud v1 wrote beside the cache. `StoneEvents` joins the
insert of a stone with the announcement that follows it, and leaves the announcement out when the create fails at the keys.

### DataDownload

`sessions` and `waitingSessions` are keyed by user as in the code, `state` follows the calls. A waiting call whose
promise was resolved is `admitted` until its microtask runs (`Continue`): that is where another call can slip in.
`WaitTimeout` rejects the promise that is *registered* for the user, as `cleanup` does.

`DownloadTurns` states what this bookkeeping amounts to without it: a set of calls inside, a queue with at most one call of
each user, and whoever leaves lets the first one in. `DataDownload!Turns` is the refinement mapping: `inside` is the
calls that run or are admitted, the queue is `waitingSessionsQueue` with each user replaced by his registered call.

### TransformSession

`timers[s]` is the set of running timers, `emitted` the events of the last step. `createNewSession` is split at the
await in `init` (`initDone`, `initFails`). `cleanup` drops the session first and sends its event last, and when `init` has
failed the event cannot be sent, because there is no sphere yet. A phone is a user and a device; joining compares
only the user, uploading both.

### EnergyRules and EnergySampling

Time is in ticks with a sample point at every multiple of `Slot`. `processPair` is translated branch by branch: reset,
small decrease, gap beyond the threshold with and without a point on time, rounding of the interpolation.
`EnergySampling` follows the points of one stone: `collectEnergyUsage` stores them, then each query of
`processMeasurements` is an action: `ReadUnchecked`, `FindLastChecked` (with the computation that follows it),
`CreateSamples`, `DeleteUsed`, `UpdateLast`. A call may bring nothing for this stone and still processes its rows. `trace`
is what the stone measures in a behaviour. A call brings any run of these measurements: the next ones, some of them again (a retry), later ones
while earlier ones are still on their way, or those earlier ones, late: the three reads before `createAll` do not touch what is modelled, so a call begins
when it stores, and any two may store in either order. It may stop at any query (`Interrupt`). `inOrder` is a history variable: up to this
measurement everything was stored in order of time and, if again, then with everything after it (`StillInOrder`).

### EnergyAggregation

An upload brings the next samples of some stones (`StoreSamples`; how they come about is `EnergySampling`), or makes the samples of points an interrupted
upload has left (`ProcessLeftRows`), for which it writes no metadata unless it has points of its own. Then it writes the metadata rows
by which the aggregation knows its stones: `UpdateMetaData` with the count comparison, `FindMissing`, `CreateMissing`. A run
of `AggegateAllSpheres` lists the stones with rows that are later than the last aggregation, and for each level (hour, day,
…) and each row makes `FindLastPoint` and as many `ReadPage` as there are pages; then `CreateAggregates` and `DeleteFragments` for the
level, and in the end `StoreTime`. `CollectGarbage` deletes old samples of one interval. Times are multiples of a tick, and sample
points multiples of `every`; `Interpolated` has the rounding of the code. `newer` stands for the comparison of `updatedAt` with the
stored time. `missed` records the stones whose samples no metadata row stands up for.

### StoneTree

A request is a sequence of items in the order in which the nested handlers reach them, each with the place of its
parent; a REQUEST handles them one by one and the REPLY goes through the same sequence with what was asked for, after it has read the roles
again (`ReadRole`): a user may have another role by then or, like a hub, have been removed (`MayBecome`).
`Validate` and `Create` are the two queries of a repository's `create`; `cloudId` is the id the handlers of the children get,
which is the client's own id when the create failed. `processCreationMap` replaces a reference to a room that was made in the
same call. `failed` and `gone` record the ids that lead nowhere for a known reason.

### Sanitizer

`Queries` is the run as a sequence of records, one per query, in the order of the code: a find that fills lists of ids, a `deleteAll` with
`nin`, the search for duplicates, a `deleteAll` with `inq`. `Query` makes the one at `pc`, and `Return` ends the call. Between them rows are
announced (their parents have been looked up) and inserted, users delete their accounts, cloud v1 deletes rows, and a run may stop.
`Steps` leaves out the queries on tables the instance has no rows for. `Belonging` says which fields hold the id of another row, as the comment at
the end of the class lists them. `fresh`, `gone` and `quiet` are history variables: what others inserted and deleted during the run, and how many
runs in a row nobody disturbed.

### Messages

Every query on the four tables is an action: the message and then each recipient with a lookup and an insert, the
two finds and the insert of a mark (the caller looks and so does the `create` of the repository), the message and its relations when they are read, and the four deletions in the two orders
the code has. `Begin` is the authorization. `Stop` ends a call between two queries. `told`, `overlap` and `hidden` are history variables:
who was notified, which calls ran at the same time, what the caller had marked as deleted before he asked.

## Runs

All passing runs are exhaustive. Symmetry is only used where no liveness property is checked.

| Run | Instance | Shows |
|---|---|---|
| `MCSyncSafety` | hubs, abilities (second create throws) or readBy (returns the existing one); two clients, two ids, one draft each, three timestamps; with hubs a client can be demoted, with the others an answer lost or the server restarted | `NoResurrection`, `RollbackOnlyWhenStale`, `LocalRollbackOnlyWhenTouched`, `TwoCallsConverge`, `StoredOnce`, `ReturnedIsNotOffered`, `TypeOK` |
| `MCSyncFair` | locations or abilities; two clients, one id, four timestamps, one fault; fair | `EventuallyConsistent` |
| `MCStoneTree` | two calls of admins, members or hubs, whose roles may change between REQUEST and REPLY; a new room with a new stone and three children, changes under a known stone, or a stone that is gone; two faults | `NothingDangles`, `AnsweredTree`, `AskedIsAccepted` |
| `MCStoneEvents` | two creates, four stones, uids 1..3; two events in the making, three names of the sphere | `RefusedOnlyWhenFull`, `UpdateShown`, `CacheAgrees` |
| `MCDataDownload` | six calls of three users, limit one; fair | `QueueMatchesWaiting`, `TimersMatchWaiting`, `NoIdlePlace`, `TypeOK`, the refinement `TakesTurns` |
| `MCTransformSession` | two sessions (two users; two phones of one user), two collections, two measurements; fair | `StoppedIsLast`, `JoinedSessionStays`, `DeliveredStays`, `TransformFromPairs`, `SessionsEnd` |
| `MCEnergySampling` | two calls at a time, three traces of three or four points, pages of three rows, one upload that repeats or is late, one interruption | `NoSampleLost`, `BatchesDontMatter`, `SamplesInOrder` |
| `MCEnergyAggregation` | two stones, two uploads, two runs, hour and day, pages of two rows, three moments, one interruption or one upload that left its points to others | `OnTimeAggregated`, `UsageNeverFalls`, `OneAggregatePerPoint`, `OneRunAtATime` |
| `MCSanitizer` | twenty rows of thirteen tables, five of them inserted later; four steps of others | `OnlyOrphansGo`, `TwoRunsClean`, `OneRunUnique` |
| `MCMessages` | three calls of an admin, a member and an outsider; an old message; one call stops | `NotifiedCanRead`, `HiddenStaysHidden`, `RowsHaveMessage`, `OneMarkEach`, `SphereEmptied`, `TypeOK` |
| `MCSyncFingerprints`, `MCEnergyLoop` | as small as shows it | each violates the one property it checks, see below |

The bounds are chosen by what has to meet:

- **Sync.** A rollback needs two clients on one item; a resurrection a delete between the two calls of a client; a
  duplicate two drafts and two free ids. A third client would repeat the part of the second one or of cloud v1, which
  already writes at any time. Three timestamps are an old, a newer and a newest version; the fair run has four, so that
  both clients and the cloud can have versions of their own.
- **Uids.** With uids 1..3 and four stones a sphere can be empty, have gaps below and above, be full, and hold a stone
  without uid or two with the same given uid. The numbers 255 and 64 only occur as this limit.
- **Events.** Three names are two writes that overlap; one other event in the making is enough to bring an older name
  back. A third event would wait as the second one does.
- **Download.** With a limit of one, two sessions run (the code compares with `>`), so six calls leave four to wait,
  among them two of one user, which is what the replacement in the queue needs.
- **Stones.** Two calls are enough to make the same ability at the same time; the three requests have every depth of
  the tree, new and known parents, a reference to a new room, and what each of the roles may and may not do; a guest may do less than a member
  everywhere.
- **Aggregation.** An hour of two slots and a day of two hours make all steps of a level and the step from one level to the
  next; the traces have fragments, points on and off the sample points and a gap within the threshold; the moments are one in
  the first hour, one on the first day's sample point and one after its five-minute samples may be collected.
- **Sanitizer.** Every kind of query occurs; each list of ids but those of pictures of scenes and locations has a table above and one below. Four
  steps are a deletion, a row that is looked up and inserted, and an interruption.
- **Messages.** Three calls are a send, a mark or a get, and a deletion; a list of recipients has a member, the outsider, or
  nobody.
- **Transform.** Sessions do not interact, except through the ids of collections; the second one is there for the case
  that both phones belong to one user.
- **Energy.** The traces have a reset, a decrease below a tenth, gaps below, at and beyond the threshold, and points on
  and off the sample points. Pages of three rows with up to eight rows make the loop go round. Two calls overlap in every pair of queries, and
  the one that ends may be followed by another; what three at a time do to each other is left to the proof of `NoPointIsLost`, which is for any number. One
  repeated or late upload is enough to put any measurement after, or next to, any other.

**Fairness.** In every fair specification only the server's own steps, its timers, and, in `MCSyncFair`, clients that go
on syncing are fair; users, cloud v1 and faults never have to act. Promises are settled and timers fire in Node; that a
database query ends is assumed. Of `DownloadTurns`, the abstract queue, it is fair that whoever is inside leaves and that patience
ends, and `TakesTurns` checks that the code's own fairness implies that. `EventuallyConsistent` needs clients that keep syncing, as the app does whenever it comes to
the foreground; edits end because timestamps are bounded. Clients that may edit are assumed there: for a guest, the
cloud does not ask for newer data and says `IN_SYNC`.

**Histories in the properties.** `TwoCallsConverge` leaves out items others wrote during the call and roles that may not
edit; `LocalRollbackOnlyWhenTouched` leaves out ids that a create has returned: such an id is off the list, and a newer copy of it is
answered with `NOT_AVAILABLE`; `StoredOnce` leaves out collections without a uniqueness rule for a client that lost an answer (they do store the
item twice); `RefusedOnlyWhenFull` leaves out creates whose stones changed between the two queries (they may be
refused in a sphere with room); `BatchesDontMatter` and `SamplesInOrder` speak about undisturbed uploads only
(overlapping or repeated ones store samples twice), `NoSampleLost` about all uploads, but only about the measurements up to the first that was stored late, left out, or brought
again without those that had followed it (`inOrder`): from there on samples do get lost. `UsageNeverFalls` and `OnTimeAggregated` are about the levels that are made of
samples (`OfSamples`: the hours, and whatever else has five-minute samples as its base), since the levels above promise less, see below. `OnTimeAggregated` leaves out stones whose upload
was interrupted, ended during a run, or got no metadata row (`missed`); `OneAggregatePerPoint` and `UsageNeverFalls` a stone with two metadata rows,
where the comment in `AggegateAllSpheres` says there is one. `NothingDangles` leaves out what is under an item whose create failed or that
somebody deleted. `AskedIsAccepted` leaves nobody out: it says who is refused. `CacheAgrees` leaves out overlapping calls and writes of cloud v1 (`outrun`). `OnlyOrphansGo` leaves out rows inserted while the run was going on, and what refers
to them, and abilities and properties whose last copy somebody else deletes between the search for copies and the deletion of the others (then none is left). `NotifiedCanRead` and `HiddenStaysHidden` leave out a message from the moment its deletion begins, `NotifiedCanRead` also one sent while the sphere's
messages are deleted and one with no recipients that is not for everyone; `OneMarkEach`, `RowsHaveMessage` and `SphereEmptied` what overlapping calls do.

## Where the code does something else than it says

Each is a run that violates one property; `PROJECT.json` quotes the sentence that is contradicted.

1. `MCSyncFingerprints`: the REPLY of a fingerprint the cloud has asked for is dropped; `handleReplySync` has no
   syncer for fingerprints and messages.
2. `MCEnergyLoop`: a full page of points that gives no sample is read for ever and the upload is never answered.

Seen while modelling, and in the models as guards, steps or histories of the properties:

- Two overlapping requests store two abilities of one type on a stone (`stone-ability.repository.ts:44`, a find and an
  insert); an ability that is already in the cloud is answered with `ALREADY_IN_CLOUD` and offered once more under its cloud id; a guest with a
  newer copy is told `IN_SYNC`.
- A stone or location created where there are others gets no uid: `let stone = stones[0]` hides the parameter
  (`stone.repository.ts:143`, `location.repository.ts:61`). A create can be refused in a race with a deletion.
- When the create of a stone fails, its children are stored under the id the client gave it. A hub that was asked for a
  newer behaviour cannot deliver it: the REPLY stops at the stone, which a hub may not edit.
- The download limit lets one more session in than `SESSION_LIMIT`, and counts users, not calls.
- Measurements that are stored after later ones of their stone have been processed lose samples: with the one at 1 kept and the one at 6
  processed before the one at 3 is stored, the sample at 2 is never made (sample points at every second tick). Two uploads that overlap are enough, since three queries precede
  `createAll` (`energy.controller.ts:119`–`:126`), or a retry that brings only old points.
- An interruption between `deleteAll` and `update` (`energy/EnergyProcessor.ts:132`) forgets the sum before a counter reset, and later
  samples are lower.
- An upload that ends while an aggregation is running is not aggregated before the stone's next upload, since the aggregation
  stores the time of its end. The number of metadata rows of the whole sphere is compared with the number of stones in the
  upload (`energy.controller.ts:150`), so that a stone may stay without a row; overlapping first uploads make two. A sample point
  right after a gap does not fill the sample points in the gap. The parameter `force` has no effect.
- A day that is interpolated between two hours knows nothing of the five-minute samples between them, and its energy may be above
  that of a later one. A day that was interpolated to a fragment which an upload brought between the two levels of
  a run is there before the hour on its own time is, and is not made again of that hour.
- After one undisturbed run of the sanitizer the rows below a deleted sphere can still be there, if an access row has kept
  its id in the list; the next run takes them. `stone.create` stores keys without the id of their stone unless ids are
  generated by the cloud, and the sanitizer deletes those.
- A message without recipients that is not for everyone is announced to the whole sphere and shown to its owner only. The REQUEST of
  the sync does not select `ownerId`, so that senders do not see their own messages there, unlike in `getMessages`. Deleting a
  message removes the marks first: interrupted, it brings a hidden message back. A message sent while the messages of
  the sphere are deleted stays, without its recipients.
- `Sync_Stones.ts:39` and `Sync_Locations.ts:19` merge the updated item with its `data` wrapper: the event about an update that
  follows another event within five seconds still has the old name (`UpdateShown` holds of the sphere only; its mutant
  is what happens to items). After the event, the cache has the stone as the event shows it, without `address`, so that the next ability
  event has no MAC address. A lookup that is outrun by a merge puts the old name back, and it stays for as long as events come.
- An upload by a phone that takes no part in a transform session is accepted without an effect, and repeats the Finished event once both sets are there.

## Proofs

`SyncCollectionProofs` proves about `SyncCollection`, from `SyncAssumption` alone (any number of clients, ids, drafts, any
set of collections, any bounds):

- `TypeCorrect`: `Spec => []TypeOK`. One lemma per action; the answers need that `StatusFor` yields a known status
  (`StatusTyped`) and that the time of every answer is a stored or listed time.
- `DeletedStaysDeleted`: `Spec => NoResurrection`. The cloud changes in `CloudEdit`, `CloudDelete`, `Insert` and `Push` only; an
  edit and a push need a row that is there, and an insert takes an id that was never used.
- `RollbackNeedsStaleReply`: `Spec => RollbackOnlyWhenStale`. A `Push` compares nothing any more; what the property needs is a
  fact about the past, which `TypeOK` does not hold. The inductive invariant `IInv` is `TypeOK` with two parts.
  `AskedForNewer`: an item that was answered with `REQUEST_DATA` belongs to a call that is still going on, and its listed version in
  `snap` is older than the local one, which is still true when the client sends it. So a `Push` that lowers a
  version finds a row newer than the listed one: the comparison was stale. `TimesPast`: every version in the cloud, in a local
  copy or in an answer has a time up to `clock`; an insert and an edit therefore get a newer one, and none of
  those steps lowers a version.

`DataDownloadProofs` proves about `DataDownload`, from `DownloadAssumption` (any finite set of calls, any users, any limit):

- `TypeCorrect`, `QueueAgrees`, `TimersAgree`: `Spec` implies always `TypeOK`, `QueueMatchesWaiting`, `TimersMatchWaiting`.
- `NoPlaceIdle`: `Spec => []NoIdlePlace`. The test in `startSession` counts users in a record, the property counts calls. What
  connects them, `SessionsOfRunning`, says that every user in `sessions` has a call that runs: so a call that waits has found more than
  `SESSION_LIMIT` active calls, and each one that leaves is replaced by one from the queue.
- `Refinement`: `Spec => Turns!Spec`. Each step of the records per user is a step of the queue of calls or, like `Continue`, a stutter.

All five rest on the inductive invariant `Inv`, which is `TypeOK`, `QueueMatchesWaiting`, `TimersMatchWaiting` and `SessionsOfRunning`. The lemmas about the
queue (a sequence without repetitions, with one user taken out, appended or shifted) come first, then one lemma per
action, then the refinement step by step.

The second half of `SyncCollectionProofs`, again from `SyncAssumption` alone, is about one client and its call, where the invariant above is about
the cloud:

- `SyncConverges`: `Spec => TwoCallsConverge`, and `CopyGoesBackForOthers`: `Spec => LocalRollbackOnlyWhenTouched`. `CallInv(c)` says what the
  answers so far are worth: `Compared` (a status says how the copy and the listed version compare), `ListHolds` (what is not in `touched` is stored
  as it was listed, or was made by this call), `Created` (what a create has returned is stored), `LoopsInOrder` (an unknown item is offered after all items of the
  request) and `OnlyRequestedDiffers` (what the REPLY still has to send is what keeps the copy and the cloud apart).
- `MadeOnceStoredOnce`: `Spec => []StoredOnce`. Between the lookup and the insert of a unique item none of its kind may come up,
  which is `CheckedIsFree`; where create just inserts, a draft whose id the client does not know has not been made as long as no answer was lost (`DraftsKept`).
- `ReturnedOffTheList`: `Spec => []ReturnedIsNotOffered`, from `Created` and `LoopsInOrder`.

A step of another client or of cloud v1 is shown once to keep `CallInv(c)`, from `Bystander(c)`: it leaves everything of the call as it is, and
what it writes is in `touched[c]` afterwards. The steps of `c` itself are then split by the part of `CallInv` they can disturb.

`StoneTreeProofs` proves about `StoneTree`, for requests of any length and depth:

- `NoRowDangles`, `AnswersMakeTheTree`, `AskedIsTaken`: `Spec` implies always `NothingDangles`, `AnsweredTree`, `AskedIsAccepted`.

`Inv` follows one call through its request: `UnderExplained` (the handlers of the children get an id that leads somewhere),
`LocationsFirst` (who may make stones has made the new rooms before, or that has failed: what `processCreationMap` needs), `TakenSoFar` (the REPLY of an
admin or a member gets past every parent of what was asked for) and `NothingTaken` (that of anybody else, a hub or a user whose role has changed since the REQUEST,
takes nothing: it does not get past a stone, and whatever was asked for is one, is under one, or is refused like one). The assumptions
say what the requests look like: `TreeAssumption` (a parent comes before its children, as the nested handlers reach them),
`NestingAssumption` (which category is nested in which, the constructors of `Sync_Stones` and its modules) and `ReferenceAssumption`: only stones refer to anything, to a location of the cloud or to a new one
of the same request, which `handleRequestSync` handles before the stones (`SyncHandler.ts:438`, `:439`) and whose ids it maps (`SyncHelpers.ts:73`).

`EventProofs` proves about `StoneEvents`, for any number of stones, uids, events and names:

- `UpdatesAreShown`, `CacheIsCurrent`: `StoneSpec` implies always `UpdateShown`, `CacheAgrees`. `EventInv` has two parts besides types and
  `CacheAgrees`: a name that is in hand is not older than what its call wrote (`SeenIsNewer`), and unless a write has met an older name in hand,
  every name in hand is the latest (`HeldIsLatest`).
- `RefusalMeansFull`: `StoneSpec => RefusedOnlyWhenFull`. The search stops where the i-th stone in ascending order
  does not have uid i; that it stops nowhere and the last uid is taken means that as many stones as there are uids have them all, by counting
  the stones below each uid.

The same module proves about `TransformSession`, which shares no variable with `StoneEvents`, for any sessions, phones, collections and maps: `TransformsFromPairs`, `StoppedIsTheLastWord`, `JoiningIsInTime`, `DeliveredSetsStay`, which state
`TransformFromPairs`, `StoppedIsLast`, `JoinedSessionStays`, `DeliveredStays`. The invariant is `TimersOfActive`: a session that is over has no timer left that could speak, and
one that `init` has not finished only that of the half hour.

`MessagesProofs` proves about `Messages`, for any users, roles, lists of recipients, calls and interruptions:

- `MessagesTyped`, `MarksAreSingle`, `RowsBelong`, `NotifiedMayRead`, `HiddenIsNotShown`, `SphereIsEmptied`: `Spec` implies `TypeOK`, `OneMarkEach`,
  `RowsHaveMessage`, `NotifiedCanRead`, `HiddenStaysHidden`, `SphereEmptied`.

Most of `Inv` says that only overlapping calls interfere: `MarksRaced` (a mark that has come up since a call looked for it
is the work of a call that runs too), `MessageKept` and `RecipientsKept` (a message that goes away under a call goes by a deletion that
overlaps), `DeletesProgress` (a table that a deletion has been through holds only what was added since), `ToldKept` and `HiddenKept` (what was announced, or
hidden before the call began, still is, or has met a deletion). `MessagesAssumption` says that old messages, calls and `Nobody` are
different things and that a recipient or owner is a user: ids are made by the database, and the lists are typed by the endpoint.

`EnergyAggregationProofs` proves about `EnergyAggregation`, for any stones, samples, levels, page sizes, moments and interruptions, in four steps, each with the invariant of the one before:

- `RunsAlone`: `Spec => []OneRunAtATime`, from `OneRunInv`: the stages of the calls with the property itself, which is inductive, since only `AggegateAllSpheres` starts a run and the flag is down then.
- `AggregatedOnce`: `Spec => []OneAggregatePerPoint`. `AggregateInv` follows a run: what it has in memory for a level is later than what is stored
  (`Pending`), the next page begins no earlier than what it has made (`Read`), and a metadata row is read once in each level (`RunControl`). So a new page adds
  later points only.
- `EnergyDoesNotFall`: `Spec => []UsageNeverFalls`. `UsageInv` compares with the samples instead of the rows: an aggregate fits between the samples that are stored or still to
  come (`LevelInOrder`), which stays true when the garbage collection takes samples away. The arithmetic (`Quotient`, `BetweenThem` and the lemmas by them) shows
  that rounded interpolation stays between its ends and does not fall.
- `SamplesAreAggregated`: `Spec => []OnTimeAggregated`. `OnTimeInv` says of each stored sample on a point of the level that it has been
  aggregated or collected as old, or is in the memory of a run, or lies ahead of one, or its stone will be listed by the next one, or an upload is still going to see to that (`NotForgotten`); that a level has left nothing out before
  the time it has got to (`TakenBefore`); and that it has not got to the samples that are still to come (`BeforeWhatComes`). The last one uses that a point is
  interpolated only between two samples that are there, and that samples come in order.

Its assumptions: `AggregationAssumption` (times and limits are numbers, sets are finite), `IntervalsAssumption` (`EnergyIntervalDataSet` is a record, so that each target occurs once, and
`5m` and `fragment` are none) and `TracesAssumption`: a stone's samples come in order of time, after time zero (`EnergyProcessor.ts:194` starts at
`new Date(0)`), with energy that does not fall, and a fragment does not lie on a sample point. The last three are what `SamplesInOrder` says of the samples
`EnergySampling` makes of measurements that come once and in order, and `SamplesComeInOrder` below proves it.

`EnergySamplingProofs`, from `EnergyRulesAssumption` (a slot has a length, the threshold is a number) and `SamplingAssumption` (times are numbers and grow
along a trace, counters are integers, a page has room for a row):

- `NoPointIsLost`: `Spec => []NoSampleLost`, for any traces, number of overlapping calls, late uploads, repeats, interruptions and page size. It promises nothing
  from the first measurement on that was stored out of order (`inOrder`, see above), and the proof shows that such a measurement takes nothing from those before it. `NoSampleLost` itself is not
  inductive: a call may have read a page that others have since worked on. `Inv` adds that measurements are checked in order of time (`CheckedInOrder`: after an
  unchecked row there is an unchecked row of every later measurement, stored later), that the page of a call has no gaps and leaves out nothing older
  (`Page`), that what it has read has not gone without the sample being made or a newer copy being there (`Finding`), and that of the rows a call is
  going to delete or check, none is the last one of a measurement that is still needed (`Working`). `Needed` and `Open` say what is still needed,
  `Makes` what a call has computed and not yet stored. `Keeps` is what any step does to the rows that other calls rely on.
  The lemmas before it show what `ProcessRows` computes. It is a recursive function, and they go without a rule of induction: `LeastOf` gives the least
  row at which the recursion would not be defined (`UpToIsDefined`), or would have left a pair of neighbours unsampled (`RowsInTurn`), and there is none.
  `Ranks` shows that the first rows in order are a page without gaps.
- `BatchesAreOne`: `Spec => []BatchesDontMatter`, and `SamplesComeInOrder`: `Spec => []SamplesInOrder`, for any traces, numbers of calls and page size. Both rest on `QuietInv`,
  which compares an undisturbed behaviour with one go through the whole trace: `InOneGo(d)` is the row that is kept and the samples there are after the
  measurement `d`. Between two calls, and when a call reads, everything up to some `d` has been processed and the rest is stored as it was measured (`DoneTo`); a page
  holds the measurements after `d`, without the others (`OnPage`, from `MeasuredPage`); storing, deleting and marking lead from `d` to the end `e` of the page one query at a
  time (`Phase`, `Doing`); and what is left when a call ends gives no sample yet (`Settled`). `GoesOn` is the step from a page to the whole: to go on from the
  row that was kept is to go on from all the rows before it, so that `ProcessRows` of two pieces is `ProcessRows` of both. `Sorted` is what `processPair` preserves: no
  sample lies after the kept row or above its corrected energy, and a kept row that gave no sample is off the sample points, which is
  what makes a fragment at its time neither a second sample of that time nor one on a sample point (`SortedGoesOn`). `ShareGrows` shows that a rounded
  interpolation stays between the two energies and does not fall.

`SanitizerProofs` proves about `Sanitizer`, from `SanitizerAssumption` alone (any rows, no two of one table with one id; any rows that others delete; any number of their
steps):

- `OrphansGo`: `Spec => OnlyOrphansGo`. The 52 queries are taken apart part by part: `Placed` (what a query uses was made by an earlier one, of the field `Source`
  names), `Grounded` (a row is deleted for want of its name or of a parent). `RunInv` says what the queries that were made are worth, whatever others
  have done since: a list has the values of every row that is not newer than the run (`ReadsHold`), a deletion would find nothing more that is not
  (`NothingLeft`), every row is in the list to keep or the one to delete (`CopiesListed`), and one of the copies stays until the others are deleted (`CopyStays`). `NothingLeft` is what lets
  the code use a list of ids for something else: `spheresWithOwnerIds` has the ids of the spheres there are only because query 15 has deleted the others, `abilitiesToKeep`
  those of the abilities because query 31 has. A list is made once and not after its first use (`MadeOnce`); a query that is passed over because there are no rows
  is not one that a later one relies on (`MakerIsStep`, `DeletionIsStep`).
- `RunTwiceClean`, `RunOnceUnique`: `Spec` implies always `TwoRunsClean`, `OneRunUnique`. `QuietInv` is the other direction: in a run that nobody disturbs, what is in a list is
  also still there (`ListsHold`, `KeptStay`, `OwnersStay`), because no query after the one that makes a list deletes from its table (`Settled`). The exception is the
  access to spheres: the access to a sphere that is gone is read by query 14 and deleted by query 21. So one run leaves no such access (`AccessKnown`) and no copies (`OnceUnique`), the second one
  finds the spheres there are (`SpheresKnown`), and `Checked` says that for each field of a row and each table that has to be named one of the queries looks for it. In a further
  quiet run `QueryTakesOrphans` leaves nothing to delete.

Four properties were stated too strongly before they were proved, although their runs passed: the proofs stopped at a step that the code does not
bear out, and a slightly larger instance then showed the counterexample. These are `LocalRollbackOnlyWhenTouched` for what create returns, `UsageNeverFalls` and `OnTimeAggregated` for
the levels above the first, and `OnlyOrphansGo` for a copy whose original somebody else deletes; they say now what the code does promise, and the exceptions are listed above.

Only model-checked:

- liveness: `SessionsEnd`, `EventuallyConsistent` and the fairness part of `TakesTurns`; the prover has no means for fairness.

## Abstractions and assumptions

- A query is atomic and reads a single state of the database; queries of one call follow one another in program order.
- Data is reduced to what the properties tell apart: versions instead of contents, `(client, draft)` instead of the type
  of an ability, numbers instead of energy in joules. Wording, logging and HTTP codes are left out.
- The app is not part of the repository. It is modelled after `src/doc/SYNCING.md` and marked external, as are cloud v1,
  the network and restarts. An app does not edit while its own sync is running.
- Timestamps of different writes differ. The code compares milliseconds of several clocks; equal times count as equal
  versions there.
- Bounds on counters (`MaxTime`, `MaxFaults`, `MaxRepeats`, `MaxOther`, `Moments`, `Stones`, `Sessions`, `Collections` of a transform) are constants of
  the modules and stand in the guards they bound.
- Energy: one stone. Several stones share a page of `Limit` rows; how pages are cut is covered by `Limit` itself.
  An upload brings a run of consecutive measurements of one trace; uploads may come in any order, leave runs out and repeat them.
- Transform: `init` takes less than half an hour.
- Aggregation: the sphere's own clock without daylight saving, so that sample points are equally far apart; months are like days.
  Copies of a row that a second metadata row has made are counted once in a page.
- Sanitizer: tokens do not expire; `Order` is the order in which finds return rows.
- Messages: a user's role does not change; what he has read is passed on and decides nothing.

## Not modelled

- FULL sync, the sync of the user and the sphere's own data, keys, features and sphere users: answers put together from finds, without a change
  of state. Which key goes to which role is one lookup.
- The sync of messages nests like that of stones, one level deep, with the same code.
- SSE packets, which are formatting, and the caches of stones, locations and users, which work as that of the sphere except for their
  merge (see above).
- SSE sockets: the order of handshake, timeout and disconnect is decided inside socket.io. The token checks are two finds and a
  comparison; as written (`SSEManager.ts:123`, `:152`) they answer `EXPIRED_TOKEN` before the expiry, the other way round than
  `token-strategy.ts:39`.
- The cascades of `stone.repository.ts` and `sphere.repository.ts`, `processAggregations` and `processStoneAggregations`: nothing calls them.
- Transform mathematics (floating point), keys and numbers (random), the zip of the download, notifications, password
  check and tokens, importer, server set-up, helpers, the front-end and the vendored library under `src/doc`.
