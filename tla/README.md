# inkbunny-app in TLA+

A verification development for `inkbunny-app`, the Go server that audits AI generated submissions of
Inkbunny: TLA+ models of its concurrent and stateful parts, TLC runs over small instances of them, and
proofs that TLAPS checks for every instance.  All paths below are relative to `src/`.

1. [The system](#1-the-system) - components, state, operations, what is hard about them
2. [The modules](#2-the-modules) - how each follows the code
3. [The runs](#3-the-runs) - what TLC checks, bounds and fairness
4. [The proofs](#4-the-proofs) - what TLAPS shows, from what, and how
5. [Findings](#5-findings) - where the code does not do what it says
6. [What is not modelled](#6-what-is-not-modelled)
7. [Plan](#7-plan)

Run a model with `tlc -config LocalCache.cfg MCLocalCache.tla`, check a proof with `tlapm LocalCacheProofs.tla`.
`PROJECT.json` lists the runs, the source lines every definition stands for, the hazards, and the mutants: for
every property, a change of the model such as a plausible bug would make, under which TLC refutes the property.

## 1. The system

An echo server (`cmd/server`, `cmd/extension`) runs every request in a goroutine of its own.  Handlers
(`pkg/api`) call services (`pkg/api/service`), which fetch submissions, files and captions from Inkbunny and other
hosts through a cache (`pkg/api/cache`), and keep audits, tickets, reports and sessions in a SQLite database
(`pkg/db`).  There is no queue and no background job: what is concurrent is requests with each other, and the
goroutines a request starts, some of which outlive it.

| Component | State | Operations | Hard because | Correct when |
|---|---|---|---|---|
| **Local cache** `cache/local.go` | `items`, `currentSize`; each `*Item` has `hitCount` and `lastAccess` | `Get`, `MGet`, `Set` with `Evict` | the `*Item` handed out is the one held, and `heuristics.go` rewrites its `Blob` without `l.mu`; two eviction loops; limits tested with `>=` here and `>` there | bounds on count and size; accounting; eviction order; first write wins; `Set` returns |
| **Shared downloads** `cache/cache.go` | `queue.ongoing`: a channel for each key being downloaded | `Retrieve`: look up, join or lead, download, store, close | the cache is read outside `queue.mu`; waiters read the cache, not the channel; the queue is shared by caches; `http.Get` has no timeout | one download per key; every waiter returns; answers are not stale |
| **Redis cache** `cache/redis.go` | keys with JSON or blobs in Redis | `Get`, `MGet`, `Set` | several commands make one operation; errors that look like misses | as the local cache, but overwriting |
| **Worker pools** `service/inkbunny.go`, `service/search.go` | channels `jobs`, `responses`, `errors` | `BatchRetrieveSubmission`, the pages of `RetrieveReviewSearch` | workers stop at an error; the caller returns at the first; nobody reads the channels after that | all answers or an error; the call returns; no goroutine is leaked |
| **Reviews** `get.go`, `service/review.go`, `service/detail.go` | cached reviews and details | `GetReviewHandler`, `GetReportHandler`, `RetrieveReview`, `StoreReview`, `ProcessResponse`, `setCache` | goroutines that outlive the request write the cache; a list with one id has the key of a detail; reviews are put together from cached and fetched parts | a review has the submissions asked for, all of them, in the documented form |
| **Audits** `db/insert.go`, `db/select.go` (an API no route calls yet) | tables `auditors`, `audits`, `submissions` (whose column `audit_id` repeats what `audits` says) | `InsertAudit`, `InsertSubmission`, `GetSubmissionByID`, `FixAuditsInSubmissions`, ... | several statements without a transaction; reads that write; foreign keys enforced on one connection only | a submission has its own audit or none, does not lose it, and is never read without it |
| **Ticket reports** `service/report.go`, `get.go`, `patch.go` | table `reports`, cached reports, the report a client holds | `CreateReport`, `RecreateReport`, `StoreReport`, `GetReportHandler`, `GetReportKeyHandler`, `PatchReport` | cached without end, by other steps than those that write the table; edited by clients and counted again | what is served is what was stored, or is known to be older; the counts agree with the list |
| **Sessions and authorization** `post.go`, `middleware.go`, `db` | table `sids` (hashes), table `auditors`, cookies, sessions at Inkbunny | `login`, `guest`, `logout`, `validate`, the middlewares, the routes of auditors | two parties hold the session; each step may fail; a request is let in by several reads | the parties agree; a request that passes has a session and, for staff, a role |
| **Tickets** `put.go`, `patch.go`, `delete.go` | table `tickets`, the copies clients hold | insert, update, delete, list | whole rows are sent back by clients; upserts that return a stale id | an id is of one ticket; a row reads back as it was sent |
| **Models, artists** `db`, `get.go`, `patch.go`, `put.go` | tables `models`, `artists` | `UpsertModel`, `InsertModel`, `UpsertArtist`, the handlers, `QueryHost` | read, append, write without a transaction | no name is lost but where requests cross or a read fails |
| **Audit counts** `db/insert.go` | column `audit_count` | `SyncAuditCount`, `IncreaseAuditCount` | counted in one statement and written in another | the count is the number of audits |
| **Details** `service/heuristics.go`, `service/loras.go`, `service/detail.go` | the submission under work, its metadata, cached parameters | `SetSubmissionMeta`, `RetrieveParams`, `processObjectMetadata`, `TicketLabels` | a goroutine for each text file and each image, one metadata | every text file is accounted for; labels agree with metadata |
| **Captions** `service/caption.go`, `service/inference.go` | cached captions | `RetrieveCaptions` | writes the same metadata, without a lock | a human is detected where there is one |
| **Search** `service/search.go`, `get.go` | cached search reviews | `RetrieveReviewSearch`, `StoreSearchReview` | stored after the answer, from parts other requests cached; two keys for one review | the submissions the search found |
| **Start** `db/sqlite.go`, `cmd/extension/main.go` | `user_version`, the tables | `New`, `migrate`, `execMigration`, inserting the artists and auditors the program carries | it may be killed anywhere, on a file of any version | what serves has every table, the version counts them |
| **Chunked writer** `service/writer.go` | a buffer, a builder, `lastSplit` | `WriteString`, `Split`, `String` | passed by value by one of its users, which copies `lastSplit` | split at the marked points, never out of range |
| **CivitAI** `civitai`, `service/civitai.go` | none but the cache | look-ups by hash | another service | decoding |
| **Proxy, client library** `proxy.go`, `library` | none | requests to another host | - | - |
| **Types, roles, labels** `db/entities.go`, `app`, `crashy` | none | conversions | - | roles and labels survive a round trip |
| **Routes, flags, pages** `cmd`, `server.go`, `head.go` | none | wiring | - | - |

How they interact: every handler that serves a file, and `processParams` for text files, calls `Retrieve`
(`cache.go:93`), which uses `SwitchCache` to pick Redis, `FileCache` or `TextCache`.  A review
(`get.go:469`) reads the cache, fetches what it missed with `BatchRetrieveSubmission` (the pool) and hands the
submissions to `ProcessResponse`, whose goroutines run the heuristics and write details to the cache.  They do not use
the database: the calls that did are commented out (`detail.go:112`).  The middlewares in front of the handlers read
`sids` and `auditors`.  Of the methods about audits and submissions handlers call only `GetAuditorByID` and
`GetAuditsByAuditor`; `InsertAudit`, `InsertSubmission`, `GetSubmissionByID` and `FixAuditsInSubmissions` are called by
tests, by `db/dev` and by each other.  They are exported methods of a handle that may be shared, and are modelled as
such; no route of the server makes them meet.

The hazards, each at its line, are in `PROJECT.json`; those not covered by a property yet have a note.

## 2. The modules

| Module | Models | Extends |
|---|---|---|
| `CacheMap` | what a cache promises: a lossy map in which the first write wins | - |
| `LocalCache` | `cache/local.go`, `Item.Accessed`, the rewrites of `heuristics.go` | implements `CacheMap` |
| `Retrieve` | `cache.Retrieve`, `SwitchCache`, the queue | caches are maps as in `CacheMap` |
| `Gather` | what a caller of a pool may rely on | - |
| `WorkerPool` | `BatchRetrieveSubmission`, `RetrieveReviewSearch` | implements `Gather` |
| `ReviewCache` | the review and report handlers over their cache | - |
| `AuditDB` | `Sqlite` methods about auditors, audits and submissions | - |
| `Reports` | reports on an artist: made, edited, stored, cached and read | - |
| `ChunkedWriter` | `service.ChunkedWriter` and its copy in `groupSubmissions` | - |
| `Details` | what makes the `Detail` of a submission: metadata, parameters, captions, labels | - |
| `Accounts` | sessions, the middlewares, the table of auditors | - |
| `Catalog` | the tables of models and of artists, and their handlers | - |
| `Tickets` | the table of tickets, its routes, the copies of clients | - |
| `Startup` | migrations, and what is inserted before the server serves | - |
| `MCReports` | one of `Reports`, `ChunkedWriter`, `Details` | those three |
| `MCDatabase` | one of `Accounts`, `Catalog` (models or artists), `Tickets`, `Startup` | those four |
| other `MC*` | constants and symmetry for TLC | the module |
| `*Proofs` | theorems | the module, `TLAPS` |

**LocalCache.** The state is `items` and `currentSize`, as in the code. `Get` and `MGet` hold `l.mu` throughout and are
one action (`Touch`); they are disabled while a `Set` is under way. `Set` is split at its loops (`stage`): `BeginSet` is
everything before `Evict`, `Sweep` one turn of the first loop of `Evict` in any order (Go's map order is unspecified),
`Shrink` one turn of the second, `Insert` the rest. It is split because the code that rewrites a shared `Blob`
(`Rewrite`: RTF to plain text, `NaN` to `null`) does not take `l.mu`, and may therefore come between any two of these.
`Backoff` is `2^(hits-1)` truncated to an integer, as `math.Pow` and the conversion do: 0 for the first hit. Hit counts
stop at `HitCap` because the backoff is capped at a day. Two history variables: `expires` in an item is when the
duration the caller gave ends (the code does not keep it), `lost` the bytes that rewrites took out.

**Retrieve.**  One process per goroutine.  `Arrive` is the call, `Lookup` the first `cache.Get`, `Join` the critical
section on `queue.mu`, `Download` and `DownloadFails` the two outcomes of the HTTP request, `Store` and `StoreFails`
`cache.Set`, `Close` the deferred function that closes the channel and deletes the entry, `Wake` the waiter's second
`cache.Get`. A file is the version the origin had when it was downloaded, so that staleness can be said; `Publish`
replaces it, `Lose` evicts.  A process either has Redis or the two local caches (`deployed`).  Redis overwrites and may
fail at any call; a local cache keeps what it has, as `LocalCache` shows.  `spoiled` is history: the named reasons for
which a waiter may find nothing.

**WorkerPool.**  The two functions are the same pool; `JobCount` is the number of batches or of pages after the first.
Channels are buffered; `jobs` is read in order and is two counters, the others are sets because `select` and
the order of arrival make no difference to what is appended.  `Send`, `CloseJobs`, `Receive`, `ReceiveError`, `Return`
are the caller, `Take` to `Fail` the worker.  Sends wait for room, as in Go.

**ReviewCache.** Keys are lists of ids, because the key of a review is `review:<output>:<ids>?<query>`; the key of a
detail is that of a list with one id. A value has a shape (one detail, an array of details, one ticket, an array of
tickets) and the submissions it is about. A request looks up the whole review (`LookupWhole`), then each id
(`LookupOne`), fetches what it missed (`Fetch`, with any part of it, whatever the order: the goroutines of
`ProcessResponse` finish in any, and no property tells them apart; `FetchFails`), answers, and stores when the handler
returns (`Store`, the deferred `StoreReview`). The id `search` reviews what a search finds: a request that names the RID
of an earlier one may find its review in `searches` (`LookupSearch`); any other is looked up and fetched like a list, is
not stored under the list, and goes to `searches` (`StoreSearch`). An RID and a page are pinned at Inkbunny and stand
for the ids they have. `StoreSearchReview` makes its key with the `output` of the query, which may be empty where the
look-up has the default: such a review is never found. Both caches are in `Put` and `Get`: a write may be ignored (Redis
fails, a `LocalCache` has the key), a read may miss (Redis fails, the item is lost). `SetCache` is the goroutine that
stores one detail, which may run at any later time. `GetReportHandler` shares the lookups and differs in what it accepts
(`Decodes`) and in not storing. That a ticket read as a detail has no `Ticket`, and that the code then follows a nil
pointer, is in `Decode` and `Review`.

**AuditDB.**  The exported methods, called by anyone at any time.  One action per SQL statement; `pc` says which
statement a call executes next, `found` is what it has read. There are no transactions in these methods, and the model
has none.  `InsertAudit` is `UpsertAudit`, `SelectAudit`, `SelectAuditor`, `LinkAudit`; `InsertSubmission` is
`SelectAudit`, `SelectAuditor`, `UpsertRow`; `GetSubmissionByID` is `SelectRow` and, when the column is NULL, the heal
that ends in an `InsertSubmission`; `FixAuditsInSubmissions` reads all audits and then updates rows one by one.  The
upsert keeps the id of a row that is there.  `PRAGMA foreign_keys` is set on one connection of the pool
(`sqlite.go:190`), so each statement may or may not enforce foreign keys (`enforced`). `StatementFails` may end any
call at any statement.  History: `acknowledged` (submissions for which `InsertAudit` has returned an id) and `excused`
(the three named ways a link may be missing).

**Reports.**  A report is in the cache, under an artist and a day, and in the table, under its user and its day;
`cache` and `rows` are those two, `draft` is the `TicketReport` a client was last answered with.  A request is
`Review` (output `report`), `PatchReport` or `GetReport`, then `StoreReview` (the cache) and `UpsertTicketReport` (the
table), which are steps of their own; a reader is `GetLatest`, `GetCached`, or `Miss` and `SelectTicketReport`, whose
row a goroutine then caches.  `CreateReport`, `CreateTicketReport` and `RecreateReport` count as the code does, from
details of which the model keeps whether they are AI and tagged and which labels they have.  `Edited` is what a client
may do to a report before it sends it back: `PATCH /report` takes any list of submissions, so it is any member of
`Lists`, whoever made the submissions and whatever their flags.  User, day and marker are those it was answered with.
A list is kept as a set of entries, which may have the same submission twice; `SubmissionIDs`, which `RecreateReport`
leaves as sent, is not kept.  Reports cached under the id of a list or of a search are under `Other` and are not kept:
nothing reads them as reports on an artist.

**ChunkedWriter.**  Text is its length.  `groupSubmissions` takes the writer by value, so there are two `lastSplit` and
one buffer: `BeginGroup`, `GroupWriteString`, `EndGroup` are that copy.  `marks` and `chunks` are history: where `Split`
was called, and what was cut.

**Details.**  `sub.files` says for each file what is found in it (a kind); `Has` what its object has.
`ProcessSubmission` is `SetSubmissionMeta`, `RetrieveParams` the cache or a goroutine for each text file.  A goroutine
is `FetchText` and then `JSONHeuristics` and `SetGenerator` (the latter outside of the lock), `SophHeuristics`, or
`ParameterHeuristics`. `Converted` is `paramsToObject`: parameters that hold objects (`objtxt`) go first, and only if
no file has such are plain ones converted.  The goroutines for those objects insert into the map that the loop which
starts them ranges over, and delete from another, under another lock; the Go runtime may see this and end the server
(`MapRace`).  That of an image is `ReadConfidence`, `WriteConfidence`, `DetectHuman`, unlocked, so what `DetectHuman`
compares is what it wrote or what another one did (`sure`, a history, has the images of humans to which the latter did
not happen). `DescriptionHeuristics` and `ProcessObjectMetadata` come after all text files, `MakeDetail` after all
files.  `Edit` is the artist, `Evict` the cache.

**Accounts.**  `owner` and `alive` are the sessions at Inkbunny, `sids` the table, `at` the next step of each request.
`Login` is what Inkbunny answers, `InsertSIDHash` the row and the cookie; `EndSession` and `RemoveSIDHash` are the
halves of `logout`, the first with an answer that may be lost.  `ValidSID` and `GetUserIDFromSID` are the two reads of
`LoggedInMiddleware`; `RequireAuditor`, `RequireSID` and `TryAuditor` follow; `AllAuditors`, `InsertAuditor`,
`EditAuditorRole`, `DeleteAuditor` change who may do what; `AllAuditors` may read only a part of the table, since its
errors look like an end.  `Restart` ends all requests of the server.  `InsertConfigured` is not the server: it is
`cmd/extension`, which inserts the auditors of its configuration when it starts, and may share the file.  `Observe`
keeps, for each request, whether its session was in the table, and its user an auditor, at any time since it came in.

**Catalog.**  `ModelNamesFromHash` and `UpsertModel` are the read and the write of the method of that name; `Recache`
is `QueryHost` with `recache=true`, over every lora it finds, after which CivitAI may be asked (`Upserted`);
`AllModels` and `InsertModel` are `PATCH /models`, which writes back every row.  `AllArtists`, `NewArtist`,
`EndArtists` are `newArtist`, `SetArtist` the other routes.  Each of the reads may fail: `ModelNamesFromHash` answers
any error with nil, as if there were no row, `AllArtists` and `AllModels` end with the rows they got (the set `read`).
What was there and was not seen is `Unread`.  History: `written`, the names ever stored, `contended`, the hashes at
which one request wrote between the read and the write of another, `unread`, those written by a request that had not
seen their row; `moved`, `unlisted` and `taken` likewise of artists.

**Tickets.**  `tickets` has the columns (`AssertArgs`), `copies` the ticket each client holds (`Scan` of a row, or what
it sent), `sequence` is SQLite's AUTOINCREMENT.  Two fields stand for all: a pointer and a slice.

**Startup.**  `Migrate` reads the version once; `ExecQuery`, `SetVersion`, `Commit` are one `execMigration` with its
transaction; `InsertCarried` one row; `Stop` a kill or a `log.Fatal` between any two.  The file may be of an earlier or
of a `Later` version.

**Composition.**  `Reports`, `ChunkedWriter` and `Details` share no variable and no step, and neither do the four parts
of `MCDatabase`.  One run holds them: the variable `focus` is chosen at the start and only that part moves.  The parts
being independent, what holds of each alone holds of all together, and the product of their states need not be explored.

## 3. The runs

| Run | Shows |
|---|---|
| `LocalCache` | `CountBound`: never more than `MaxItems + 1` items.  `SizeBound`: the accounted size passes `MaxSize` by at most one blob, or one item is left.  `Conservation`: `currentSize` is the bytes held plus those lost to rewrites - the accounting drifts by exactly those.  `HotLast`: a hot item is taken only when nothing else is left.  `CacheMapSpec`: refinement.  `SetReturns`: neither loop spins |
| `LocalCacheExpiry` | `EvictsOnlyExpired` is false |
| `Retrieve` | `SingleFlight`, `WaitsForLeader`, `WaiterServed`, `OwnDownloadFresh`, `NeverGoesBack`, and `WaitersReturn` |
| `RetrieveNoCache` | `NoCacheFresh` is false |
| `WorkerPool` | `Accounting`, `CallerNotAbandoned`, `SendsNeverBlock`, refinement of `Gather`, `CallReturns`, `PoolDrains` |
| `ReviewCache` | `OnlyAsked`, `NothingDropped`, `ListsAsDocumented` |
| `ReviewOutput` | `OutputAsDocumented` is false |
| `AuditDB` | `LinkSound`, `StaysLinked`, `AcknowledgedSeen` |
| `AuditHeal` | `ReadsOnlyLink` is false |
| `Reports` | `CacheAgrees`: what is cached or answered for an artist and a day is a report on that artist of that day, and the one of the table, but for two named reasons.  `CountsAgree`: violations, ratio, labels and list of a report agree, whatever list a client sends.  `WriterSafe`: `flush` slices inside the buffer, and chunks end at marked points.  `ObjectsKept`: no object of a file is lost, whatever the order, nor those that parameters hold.  `LabelsAgree`: labels and metadata, also cached metadata, agree, and a human is missed only where another image wrote in between |
| `Database` | `SessionsAgree`: Inkbunny and `sids` agree but for what was cut off half way or expired.  `StaffOnly`: who is served as staff had a session and the role during the request.  `CatalogKept`: names and artists are lost only where two requests cross, or where a request writes after its read failed.  `TicketIdentity`: no copy overwrites another ticket, rows read back.  `DatabaseTypesOK` has `ServesMigrated`: wherever the start is killed, the version counts the tables, and what serves has them all |
| `TicketAnswer` | `AnsweredIdStored` is false |

Each module also has its type invariant checked (`ReportPartsTypesOK`, `DatabaseTypesOK` where a run has several).
Deadlock is checked in the runs of the first six modules; `WorkerPool` has an explicit `Over` step, since a pool ends.
`Reports`, `Database` and `TicketAnswer` have `CHECK_DEADLOCK FALSE`: what they bound (days, reports, bytes, runs,
sessions, ids) is used up.

*Bounds.* `LocalCache`: three keys against `MaxItems = 1` and blobs of one and two bytes against `MaxSize = 2`, so the
cache can be below, at and above each limit, and above both; durations 0 and 2, a clock up to 2, hits up to 2, and
rewrites that shorten and lengthen a blob, with at most 3 bytes lost (`MaxLost`), which is more than `MaxSize`, the case
in which eviction empties the cache, and 1 gained (`MaxGained`). `Retrieve`: three requests - an owner and two waiters,
or two owners one after the other and a waiter between them - one key, since keys share nothing but the caches' room
(which `Lose` stands for), all three caches, one replacement of the file, and one request that may say no-cache
(`RetrieveNoCache` has two requests, both may). `WorkerPool`: four jobs, three workers: more jobs than workers, and one
left over when all workers fail. `ReviewCache`: two requests, a list of one id and a list of two that shares it, over
every output and both kinds of cache, where a search finds the list of two; a third request could only leave in the
cache what these leave there. `AuditDB`: two calls at a time on two submissions and two auditors, so that ids can be
confused and a call on one submission can meet each call on the same and on the other. `AuditDB` has no bound on ids:
`lastId` grows with the audits inserted, of which there is one per submission.

`Reports`: two requests, two artists with a submission each, so that a report can be cached or stored under the wrong
one; two days, so that "latest" may be another day than today; two reports made, the second of which may replace or
edit the first; clients send lists of at most two entries (`MCLists`); a writer with `SplitSize = 4` and 7 bytes, so
that a chunk is full, over-full, and followed by another; a submission of three files, in six mixes that have the
kinds that meet (two objects, object and parameters, parameters twice, parameters that hold objects with plain ones or
an object of Soph's, two images, none), requested twice, the second time from the cache.  `Database`: two users,
requests and sessions, one user an auditor by configuration; two hashes with two names, where the pairs stored and the
hashes that may have lost one are at most three together (`MaxCatalog`); two usernames with two ids; two clients and
two tickets (`TicketAnswer` three); the eight migrations of the code, and a file one version ahead.  In `Accounts` a
guest is one of the users, in `Catalog` the artists are explored apart from the models, because no step of one reads
what the other writes.

*Symmetry* is used in `ReviewCache`, `AuditDB`, `Reports` (requests; artists swapped with their submissions) and
`Database` (requests, names, hashes), whose runs check no liveness.

*Fairness.*  `LocalCache`: weak fairness of the steps of a `Set` (`SetStep`), which nothing blocks; none for callers or
the clock. `Retrieve`: weak fairness of each request's own steps, and none for `Download` and `DownloadFails`:
`http.Get` at `cache.go:167` has no timeout, so the code does not justify that a download ends.  `WaitersReturn`
therefore speaks of the waiters of a leader that has its answer.  `WorkerPool`: weak fairness of the caller and of each
worker, `Answered` or `Failed` included, that is, the request to Inkbunny is assumed to end one way or the other;
without that `CallReturns` is plainly false, as there is no timeout here either.  The seven newer modules state no
fairness: their properties are safety, and the code promises no client that its request ends.

## 4. The proofs

Eight modules, all checked by TLAPS to the last leaf, for any sets of keys, requests, workers, submissions and so on,
under the assumptions named in each module (limits are naturals, sentinels are not values, sets of workers, keys and
submissions are finite, so are the lists that clients send, a list has an id).  Together they state every invariant
and every action property of the passing runs, and both refinements.

- **`LocalCacheProofs`** - `Typing`, `CountIsBounded`, `SizeIsBounded`, `SizeIsConserved`, `ExactWithoutRewrites`,
  `HotItemsGoLast`, `ImplementsMap`.  `CountBound` is not inductive: a `Set` on its way must be known to insert into a
  cache that is not full.  The strengthening says, for each stage, what `Evict` has established by then: at `insert` the
  count is at most `MaxItems`, and the size is at most `MaxSize` or the cache is empty. A `Rewrite` between `EndShrink`
  and `Insert` keeps it, because it changes neither the keys nor `currentSize`.  `Conservation` is about a sum over the
  items.  `MapThenFoldSet` chooses an element at each step, so its value is first shown not to depend on the choice
  (`TotalRemove`), by induction over the subsets of a finite set (`SubsetInduction`, from the well-foundedness of strict
  inclusion); what an insertion, a removal or a rewrite adds to the sum follows.  `ExactWithoutRewrites`: were the
  items copied, `currentSize` would be what it claims to be.
- **`RetrieveProofs`** - `Typing`, `SingleFlightHolds`, `NobodyLeftBehind`, `NoCacheGoesBack`, `OwnDownloadsAreFresh`,
  `WaitersAreServed`.  `SingleFlight` and `WaitsForLeader` carry each other: `Close` may drop the entry because it wakes
  everyone in the same step.  `NeverGoesBack` needs that what is cached, and what the only leader of a key holds, is no
  newer than the origin, and that what it holds is no older than the cache: nobody else can have stored in between.
  `WaiterServed` needs that a leader past `Store` finds its item unless `spoiled`.
- **`WorkerPoolProofs`** - `Typing`, `AccountingHolds`, `CallerIsNotAbandoned`, `SendsAreNotBlocked`,
  `ImplementsGather`.  `Accounting` is the inductive invariant; the others follow from it by counting: messages in a
  channel and jobs in hands are disjoint sets of jobs, so a worker with a job finds the channel with less than
  `JobCount` messages, and when all workers are done, all jobs are received, in a channel, failed, or never taken.
- **`ReviewCacheProofs`** - `ReviewTypes`, `ReviewsOnlyAsked`, `ReviewsDropNothing`, `ReviewsAsDocumented`, for any
  lists, outputs and number of requests.  Requests meet in the cache and nowhere else, so `CachesRight` says of each
  value there what its next reader relies on: it is about the ids of its key, complete but for what was `withheld`, and
  of a shape that some request for that key makes.  It has to allow what `setCache` leaves under a list of one id, which
  is where `OutputAsDocumented` fails.  Through a lookup, each id of the list is still to be looked up, found, or
  missed (`Split`), and only one of these if the list has it once; the remote end answers parts of what was missed.
  Lemmas say what `Append`, `Tail` and `\o` do to the elements of a sequence and to its being free of repetitions.
  The first attempt failed for a reason: `Review` was a `CASE` whose guards overlapped, so what it chose was not
  determined; it is now a condition on the output and a table of shapes.
- **`AuditDBProofs`** - `Typing`, `LinksAreSound`, `SubmissionsStayLinked`, `AcknowledgedIsSeen`.  The invariant says
  that whatever a call has read (`found`, `todo`) still names the audit of its submission, because audits are never
  deleted and keep their ids; that ids are not above `lastId` and are unique; and, for `StaysLinked`, that a call about
  to write NULL either races with nothing or its submission is `excused`.
- **`ReportsProofs`** - three parts, and `ReportTypes`, that the types of all of them hold whichever a behaviour is
  about.
  - *Reports*: `CachedReportsAgree`, `ReportCountsAgree`, for any number of artists, submissions, requests and days.
    `CacheAgrees` is about the cache and the table, between which a request carries a report: `WorkRight` says that
    what it is about to cache agrees with the row already, or is one of the two exceptions, and that what it is about
    to upsert counts what it lists.  `UpsertTicketReport` breaks that agreement for every other request on the same
    key; the two reasons that `Agrees` names are exactly what is then needed.  `CountsAgree` compares cardinalities:
    `CreatedCounted` shows by a bijection that as many submissions are listed as are flagged, `RecreatedDraft` that
    the same holds of any finite list a client sends.
  - *Writer*: `WriterTyping`, `WriterIsSafe`, for every `SplitSize`.  `WriterSafe` is not inductive: a flush may only
    slice at `lastSplit` because no marked point comes after it (`MarksPassed`), because the buffer has not outgrown
    `SplitSize` while there is a point to split at (`SplitInTime`), and because what was flushed ends where a chunk ends
    (`ChunkBefore`).  All three are said of the `lastSplit` of whoever writes next, the writer or its copy; `EndGroup`
    hands over from one to the other, and the `Split` that follows is what makes the stale `lastSplit` harmless.
  - *Details*: `DetailObjectsKept`, `DetailLabelsAgree`, for any number of files of any kinds.  `AtRight` says where the
    goroutine of each kind of file can be; `ObjectsRight`, that an object that came is in the metadata or in the hands
    of its goroutine, in any order; `MetaRight`, that cached metadata differs from that of the request that stored it
    only in what images show, and that the prompt is missing where no object has one; `HumansRight`, that a human is
    only found where an image shows one; `SureRight`, that what an image of a human wrote stands until its goroutine has
    compared it, unless another image writes.
- **`AccountsProofs`** - `AccountsTyping`, `SessionsAlwaysAgree`, `OnlyStaffIsServed`, for any number of users, sessions
  and requests.  The invariant has a part for each request (`Presents`, `ActsFor`) and one for each session (`Known`,
  `Agrees`): a session is presented only after it was told to a client, and only its own login tells it (`StoreAlone`),
  so no logout can meet the login of the same session; a session in the middle of `RemoveSIDHash` is no longer alive, so
  removing its row leaves no orphan. `OthersStay` says once what a step must leave alone for the requests that do not
  move.
- **`DatabaseProofs`** - `CatalogTyping`, `CatalogIsKept`, `TicketsKeepIdentity`, `StartMigrates`, and
  `DatabaseTypes` for all parts.  What `PATCH /models` has left to write contains what it read (`InsertCovers`); an
  artist that `newArtist` believes new, and is not, has moved or was not listed (`NewOrMoved`).  `PutKeeps` is the
  argument of both upserts: they add to what was read, or the row has changed and its hash is contended, or it was not
  seen and its hash is `unread`.  The id of a row and of every copy of a ticket is the number of the ticket it belongs
  to, since AUTOINCREMENT does not use an id twice.  `ServesMigrated` holds for any number of migrations and any
  version of the file: what a transaction holds is determined by where the start is (`InTransaction`), so `Commit`
  adds the next table with its number, or nothing.

The refinements (`ImplementsMap`, `ImplementsGather`) are proved as initial states mapping to initial states and each
step to a step or a stutter.

Only model-checked: the liveness properties (`SetReturns`, `WaitersReturn`, `CallReturns`, `PoolDrains`), since TLAPS
does not reason about fairness and `ENABLED`; and of course the five properties that are false.

## 5. Findings

Each is a run in which TLC refutes what the repository says.

1. `LocalCacheExpiry`: `Set` stores `lastAccess = now - duration` (`local.go:70`), and `Evict` drops what has
   `lastAccess` before now, so an item that was never hit goes with the first eviction, the earlier the longer its
   duration.  `local.go:105`: "Check if an item is past its expiration time".
2. `RetrieveNoCache`: a no-cache request that meets a download in progress waits for it and is answered from the cache,
   possibly with what the file was before the request came.  `README.md:99`: "You can always override this behavior for
   most request by setting the `Cache-Control` header to `no-cache`".
3. `ReviewOutput`: `setCache` (`detail.go:207`) stores one detail under the key of a whole review of a list with one id,
   and the next such review is answered with it.  `get.go:448` and `:452` document a ticket, and an array.
4. `AuditHeal`: `GetSubmissionByID` writes back the row it has read, without its files, when it "Store[s] the audit id
   in the submission now" (`select.go:350`).
5. `TicketAnswer`: `UpsertTicket` (`insert.go:403`) returns the id of the ticket it was given, which is 0 when the row
   is new, and looks at `LastInsertId` only when that fails.  `PUT /ticket` answers a ticket with id 0; sent back by
   `PATCH`, it is inserted a second time. `insert.go:399` treats "last insert id %v does not match ticket id" as an
   error.

Seen while reading, without a run:

- `insert.go:205` promises that an auditor not in the database will be inserted; `InsertAudit` never does that.
- A read that fails looks like a row that is not there.  `ModelNamesFromHash` (`select.go:735`) answers nil for any
  error, and `UpsertModel` (`insert.go:620`) then writes the new names over those stored; `AllArtists`
  (`select.go:773`) makes `newArtist` write over artists it knows; `AllModels` never asks `rows.Err`.  The loss needs
  no second request. `CatalogKept` excuses it by name (`unread`, `unlisted`), and nothing in the repository says
  otherwise, so it is no run.
- `paramsToObject` (`heuristics.go:471`) ranges over maps its own goroutines write to: `MapRace`.
- `get.go:450` documents tickets for `multiple_tickets`; when every id is found in the cache the answer is of details.
  `ListsAsDocumented` names this as its exception.
- `PATCH /report` (`patch.go:163`) counts the list it is sent again, but leaves `SubmissionIDs` as they were sent.

## 6. What is not modelled

- The text of descriptions, file parsers, regular expressions: functions of text, which unit tests serve better.
  `Details` knows what they find in a file, not how.
- Copying a downloaded file to disk in `Retrieve`: nothing reads the copy.
- Streaming of responses: it sends the details earlier, and changes no state.
- Wording, thumbnails and colours of tickets and reports; `Reset` of the writer and `LogoutAll`, which nothing calls.
- The routes of `post.go` that run the heuristics, or a language model (`inference.go`), on an uploaded text, and the
  proxy and the client library: one request to another host each, and no state here.
- CivitAI and Inkbunny themselves: external, a choice between an answer and a failure.
- Routes, flags, embedded pages, development scripts.
- What section 7 lists, until it is done.

## 7. Plan

1. `RedisCache`: the commands of `Get`, `MGet`, `Set`, and `JSONSet` followed by `ExpireAt`, against `CacheMap`.
2. Audit counts (`IncreaseAuditCount`, `SyncAuditCount`), `GetAuditsByAuditor` and `UpdateDescription` in `AuditDB`.
3. Composition: `Retrieve` over two `LocalCache`s in place of the lossy maps; `Accounts` in front of `AuditDB`.
4. Proofs about what 1 to 3 add.

Runs stay of the size of those above: two or three actors, one or two keys, every failure once.
