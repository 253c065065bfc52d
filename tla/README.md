# Verification of img-preview

TLA+ models of the image-preview server and its browser front end, checked with
TLC on small instances and, for the core, proved with TLAPS for every instance.
Every definition is a translation of the TypeScript source; `PROJECT.json` names the
lines of each. Paths below are relative to the repository (`src/…` is its server code,
`public/…` its front end).

## 1. Inventory

The server takes a URL, downloads the image from its origin once, stores the source
and (for PNG) a converted copy in a storage backend, and serves it; while a fill runs
the client is told to poll. Origin requests leave over several *egress routes*.

| Component | Source | State it keeps | Operations | Talks to |
|---|---|---|---|---|
| Egress pool | `src/egress-pool.ts` | route objects with settings, health, failure counts and slots per host; queues of waiting downloads; the running check | `loadConfig`, `check`, `updateSettings`, `acquire`, lease `release` | download manager (leases), settings page (HTTP), `proxy.json`, `proxy-settings.json` |
| Download manager | `src/download-manager.ts` | none between calls; the retry loop of one fill | `downloadAndProcess`, `fetchFromOrigin` | egress pool, storage, cache manager (progress callback) |
| Cache manager | `src/cache-manager.ts` | in-memory entry per URL, shared promises of index loads | `get`, `claimProcessing`, `setProcessing`, `updateProgress`, `setReady`, `setError` | storage index |
| HTTP server | `src/server.ts` | none of its own | `/cached`, `/refresh`, `/api/cache-status`, `/api/proxies…` | all of the above |
| Storage backends | `src/storage/fs-storage.ts`, `s3-storage.ts`, `factory.ts`, `types.ts` | objects and index entries by key | `read`, `write`, `exists`, `list`, `getRedirectUrl` | disk, S3 |
| Encrypted storage | `src/storage/encrypted-storage.ts`, `crypto-format.ts`, `eme.ts` | the master key, one initialisation promise; the envelope (the wrapped key) in the store | `initialize`, `ensureReady`, encrypting `read`/`write`, `list` by decryption, path encryption | a backend |
| Migration tool | `src/migrate.ts` | set of known keys, counters | copy between backends in batches with retries; dry run, overwrite, encryption of the destination | two backends, beside running servers |
| Passphrase tool | `src/change-passphrase.ts` | none | read the envelope, wrap its key anew, write it back | a backend, beside running servers |
| Front end | `public/script.js` | load queue with concurrency limit, polling timers, unlocked key; the download page's loop and retries per view | preview grid, polling, download page, unlock/forget | server, S3 |
| Settings page | `public/proxies.js` | table of routes | poll, patch, check | server |

### What is hard here

The server is one Node.js process: handlers interleave only at `await`, but they
interleave there with everything. Hard to test are: checks of overlapping batches
against acquires, releases and reloads of `proxy.json`; a queue of promises that
nobody may forget; limits that change under load; fills of one URL started by several
requests and a refresh; results of an old fill arriving after a new one began; an index
load that lands after memory has moved on; a crash between writing an object and its
index entry; a storage that fails or loses an object; retries that must stop; processes
that find or create the one key of a store while others do, or while a tool replaces its
envelope; a copy that is interrupted and run again; page views that are left with their loop
and retry under way.

### What makes each component correct

* **Egress pool**: slots are neither leaked nor freed twice whatever happens to the
  route object; limits hold when a slot is granted; nobody is stranded in a queue; the
  routes in use follow settings and health; every `acquire()` and `check()` returns.
* **Cache manager, server, download manager**: a `processing` entry always has a fill
  behind it; a `ready` entry names an object that was written; no answer of the server
  is a lie about the fill; after a crash the index names only whole objects; fills end
  and requests are answered.
* **Storage and encryption**: whoever has opened the store works with the key the envelope
  holds, and every stored object is sealed with it; changing the passphrase keeps the key.
* **Migration**: what a run without failures reports is at the destination, whole and
  found by who opens it next; without `--overwrite` nothing stored is replaced.
* **Front end**: at most the configured number of loads run, each released slot starts
  the next load; stale lists start nothing; polling of an image stops; whoever waits for the
  passphrase is opened when it is entered. An unfinished image of the download page has a loop
  that will ask for it, one per view; a retried image does not fall back to its old error; a
  view that was left asks no more.

## 2. Modules

| Module | What it is |
|---|---|
| `EgressPool` | the egress pool, every handler of it |
| `EgressPoolProofs` | all its safety properties (but the violated one), proved |
| `MCEgressPool` + `MCEgressPool_*.cfg` | small instances |
| `CacheFill` | the cache manager, the handlers of the HTTP server that use it, the download manager's fill, and what the storage does to objects |
| `CacheFillProofs` | all its safety properties, under the switches each needs, proved |
| `MCCacheFill` + `MCCacheFill_*.cfg` | small instances |
| `SlotLine` | what `createLimiter()` of the browser page promises: slots and a line |
| `LineLemmas`, `SlotLineProofs` | what joining a line and leaving a slot keep, as facts about values; that the limit is kept, proved |
| `ImageLoads` | the image lists of the page: slots, polling, retries, replaced lists, the master key; implements `SlotLine` |
| `ImageLoadsProofs` | all its safety properties, that it implements `SlotLine`, and what is left of the violated one, proved |
| `MCImageLoads` + `MCImageLoads_*.cfg` | small instances |
| `KeyEnvelope` | an encrypted store: the envelope with the wrapped key, the processes that open the store, the passphrase tool; also the abstract specification that `Migrate` implements |
| `KeyEnvelopeProofs` | that everybody works with the key in the envelope, proved |
| `Migrate` | the migration tool, composed with `KeyEnvelope`: its destination is that store |
| `MigrateProofs` | that it implements `KeyEnvelope`, that a clean run is a complete copy, what it may replace, proved |
| `MCMigrate` + `MCMigrate_store.cfg` | a small instance of both |
| `DownloadView` | the download page: a loop and a retry button per view, against the server's fills |
| `DownloadViewProofs` | its safety properties, proved |
| `MCDownloadView` + `MCDownloadView_views.cfg` | a small instance |

Mutants of a definition stand right before it (`\* Mutant of …`); each is a plausible bug, and the
property named for it in `PROJECT.json` must then be violated in its run.

### Actions and the event loop

Node.js runs one callback at a time, so a stretch of code between two `await`s is one
action. A promise that is already settled resumes its waiters in the microtask queue,
before any timer, request or I/O event: both modules name such waiters (`woken`,
`resumed`, `refused`) and every action that is an event of its own has `NoContinuation` as a guard.
Microtasks among themselves run in any order in the models: a download that `acquire()` refuses
at once has failed before or after a visit that is resumed in the same turn of the loop. What a storage does to an
object between the call and its answer is not bound by the guard.

### EgressPool

A member of `Routes` is a route *object*. `loadConfig()` keeps the object of an unchanged
entry and builds a new one for a changed entry, so two objects can carry one id, and a
download may hold a slot of an object that is no longer in `this.routes`; `made` remembers
which objects exist.

| Code | Model |
|---|---|
| `acquire()` up to its first `await`, after the awaited check | `Acquire`, `ResumeAcquire` (both `PickOrQueue`) |
| the promise of a waiter settled; `throttle()` over; rejection thrown | `Drain` sets `granted`/`rejected`; `ThrottlePass`; `Fail` |
| `release()` / `finish()` | `Release`, with its `recompute()` or `drain()` inside |
| `check()` before and after its wait, `.then()` of the batch | `Check`, `ResumeCheck` (both `StartBatch`), `BatchDone` |
| the two ends of `checkRoute()` | `CheckOk`, `CheckFail` |
| `POST /api/proxies/check` | `Reload` (`loadConfig()` and the first part of `check()`), `Check` |
| `updateSettings()` before and after `writeFile` | `Patch`, `SaveOk`, `SaveFail` |
| `recompute()`, `pickRoute()`, `drain()` | `Recompute`, `Pick`, `Grants`/`Drain` |

`stale` is a history variable: a setting changed and `recompute()` has not run since.
`pickRoute()`'s round-robin counter is a choice among the equally loaded.

### CacheFill

A *visit* is the passage of a `/cached` request, or of one worker of a status batch with one
of its URLs, through the handler; a *fill* is one `startDownload()`.

| Code | Model |
|---|---|
| `cacheManager.get()` | `Looking`, `Asked` at the start, `LoadReads`, `LoadLands` for `loadPersisted()` |
| what a handler does with the entry | `Found` (`get() ?? getCached()`), `ServeReady`, `ReportReady`, `ReportRunning`, `ReportError`, `StartFill` |
| `getRedirectUrl()`, `read()` | `OfferRedirect`, `NoRedirect`, `Stream`, `ReadFails` |
| workers of a batch | `Batch` starts them, `Finish` gives a worker its next URL |
| `acquire()` rejects at once (no active route) up to `setError()` | `Launch` into `refused`, `Refused` |
| `fetchFromOrigin()` | `GetSlot`, `Respond`, `BodyEnds`, `Retry`, `BackoffEnds` |
| `write()` of source, processed, index | `WriteBegins`, `WriteLands`, then `SourceWritten`, `ProcessedWritten`, `IndexWritten` when its promise settles |
| `.catch()` of `startDownload()` | `FillFails`, from any other stage |
| time, losses, crash | `AgeError`, `Lose`, `LateLands`, `Crash` |

An object is absent, `Torn`, `Whole`, or (an index) the kind it names. With
`AtomicWrites` (S3) a write takes effect at once; without (file system) it truncates first,
and of writes that overlap (`Rivals`) any may leave a mixture. A write that was given up (timeout,
crash) may take effect later (`LateWrites`). `said` is the answer of the last step.

The phase `encrypting` is not in the model: `EncryptedStorage.write()` reports it and the
wrapped storage reports `uploading` in the same callback, so that no request can see it.

### ImageLoads and SlotLine

Cards are numbered in the order they are rendered over all lists, so that a card is stale
(`generation !== downloadSession`) when it is older than the first of the current list. The
record of a card holds the locals of its `setImagePolling()`.

| Code | Model |
|---|---|
| `clearList()` and the `makeCard()` calls of a list | `Render` |
| `encryptionConfig()` settled | `ConfigArrives`, `ConfigFails` |
| `createLimiter()`: `acquire()`, the function it returns | `Acquire`, `Release`; `SlotLine`'s `Enter` and `Leave` |
| a granted card goes on | `Resume` |
| the ways `fetchImageAttempt()` ends | `StillPending`, `StorageBreaks`, `Ends`, `ArrivesOpen`, `ArrivesLocked` |
| the timer between attempts | `SleepEnds` |
| `decryptImagePayload()` after its awaits | `Decrypted` |
| `obtainMasterKey()` | started by `ArrivesLocked`; `AskSucceeds`, `AskFails` |
| unlock form, forget button | `Submit` and `Unlock`; `Forget` |

How a card ends (image, error, thrown) is not told apart, and a wrong passphrase in the form
changes nothing and is left out. `key` is `masterKeyPromise`; `waiting for ask a` is awaiting
the promise that the call `a` of `obtainMasterKey()` returned, also when `key` has moved on.

### KeyEnvelope

| Code | Model |
|---|---|
| `createStorage()`: with a passphrase, or without | `Start`, `StartPlain` |
| `EncryptedStorage.initialize()`: `exists()`, the key it reads or draws, the envelope it writes | `EnvelopeFound`, `Unlock`, `UnlockFails`; `DrawKey`, `CreateOpens`, `CreateStored`, `Created`, `CreateFails` |
| `unwrapMasterKey()`, `wrapMasterKey()` | `Opens`, `Wrapped` |
| `EncryptedStorage.write()` of an object (or the backend's, without encryption) | `Put` |
| `change-passphrase.ts` | `Rewrap`, `RewrapUnlocks`, `RewrapOpens`, `RewrapStored`, `RewrapEnds` |
| the process dies | `Crash` |

Paths are encrypted with the key, so an object lies at one place per key and at one, `Plain`,
for who does not encrypt; `objects[o][l]` is what lies there. What nothing in the code
prevents is a step of the model and is remembered in `mishaps`: an envelope cut short by a
crash on a file system (`cut`), an `exists()` that answers false for an envelope that is
there (`missed`; `s3-storage.ts:135`), two first starts at once (`rival`). `ReadyHasKey` and
`StoredOpens` say what holds as long as none of the three has happened (`KeySafe`).

### Migrate

| Code | Model |
|---|---|
| `main()`: options, destination, listings, loop, exit | `Launch`, `Opened`, `ListSource`, `ListDestination`, `BatchSettled`/`NextBatch`, `Exit` |
| `migrateKey()`: the decision, the read, the writes with pauses | `Looked`/`Decided`, `SourceRead`, `SourceFails`, `WriteOpens`, `WriteStored`, `WriteOk`, `WriteFails`, `PauseEnds` |
| `EncryptedStorage.list()` of the destination | `Listed` |
| servers that write to the destination, fail at it or die | `FillOpens`, `FillStored`, `FillFails`, `ServerCrash` |
| `writeFile()` of the tool or a server: truncates, fills, is given up | `Truncates`, `Stores`, `GivesUp` |
| two writes of one file under way | `Blends` |

The tool is one of the processes of `KeyEnvelope`: `Launch` and `Exit` are `Start` and
`Crash` of it, its writes and the servers' are `Put`s, so that `Spec` implements `EnvelopeSpec`
(theorem `ToolIsAProcess`). The contents of an object are the number of the run that wrote it, 0
for a server, `Torn` while (or after) a file is half written. On a file system a write is two
steps, whoever makes it; `open` says who has truncated which file and not filled it yet. Between
the two the writer may fail or die, and another may write the same file. `spoilt` is a history
variable: the files of which a write was given up or overlapped another, and that no write
has replaced since. `upsets` remembers what else may spoil the current run: an `exists()` that was wrong
(`missed`), a server that wrote meanwhile (`filled`).

**What a clean run does not promise.** `exists()` and the listing tell that a file is there, not
that it is whole, and the tool reads nothing back. `CleanRunMeansCopied` therefore says that
every object a clean run answers for is there, under a key that opens it, and whole, except for
* an object that a server is writing at the moment (torn until it is done),
* an object the run *skipped* that was given up half-way, or written by two at once, before (`spoilt`):
  it stays torn, and later runs without `--overwrite` skip it again,
* an object the run *copied* while a server wrote too (`filled`), and the two writes mixed.

All three need a file system; TLC violates the property when any of the exemptions is dropped.

### DownloadView

Each `renderDownloadView()` is a view with its own `polling` flag, loop and retry button. That
a view runs one loop is not built in: it has several to run (`Loops`).

| Code | Model |
|---|---|
| `renderDownloadView()`, `clearList()` by another list | `Show`, `Leave` |
| `poll()` | `Poll`, `MayPoll` |
| `pollLoop()`: top of a pass, a batch answered or failed, the pause | `Pass`, `Lands`/`Fails` (both `AfterBatch`), `Wakes` |
| the retry handler: click, a `/refresh` settled, the last one | `Retry`, `RefreshEnds` |
| server: `/api/cache-status` for an image, `/refresh`, end of a fill | `Reports`, `Starts`, `RefreshReaches`, `FillEnds` |

The end of `pollLoop()` and the `finally` of `poll()` are one step: only microtasks of that
loop lie between them. A status request is answered image by image, and the answer is what the
server knew then; `outdated` marks an error told before the view's own retry reached the server.

## 3. What the runs check

Bounds are `CONSTANTS` of the modules; a run takes the smallest instance that still has the
situation it is about, with symmetry where no liveness is checked.

| Run | Instance | Properties |
|---|---|---|
| `pool_settings` | 2 downloads, direct and a proxy, a user who changes switches and limits (1 or 2), saves that fail, a check | `TypeOK`, `NoIdleSlot`, `WaiterHasWaker`, `QueueHoldsWaiting`, `DirectStaysInUse`, `GrantWithinLimit` |
| `pool_reload` | 1 download, an entry that leaves and returns as another object, a user changing settings, a check that measures one of 2 external IPs; two failures take a route out of use | `SlotAccounting`, `SettingsSurviveReload`, `ActiveIsCurrent`, `OneRoutePerIp` |
| `pool_returns` | 3 downloads and 2 checkers (overlapping batches) on direct, perhaps off | `AcquireReturns`, `CheckReturns`, `WaitsForRunningBatch`, `NoOvertaking` |
| `pool_ip_load` | see *Findings* | violated |
| `fill_answers` | S3-like: a client, 2 workers, batches naming their URL twice or three times, downloads refused at once, refreshes, aging errors, failing reads, crashes, late writes, up to three fills | `TypeOK`, `ProcessingHasFill`, `PollNotInVain`, `PointersWhole`, `ReadyIsIndexed` |
| `fill_files` | file system: 2 URLs, 2 clients, batches longer than their workers, redirects, crashes; no refreshes or failing reads | `PointersWhole`, `ServesWhole`, `OneFill`, `ReadyMatchesIndex` |
| `fill_progress` | 2 clients and a worker, retries, refreshes, losses | `VisitsAnswered`, `FillsEnd` |
| `fill_lost_redirect` | see *Findings* | violated |
| `loads` | 3 encrypted cards, 1 slot, one retry, a remembered passphrase that is right or wrong, forgets, up to 2 asks for the key | `TypeOK`, `FrontToBack`, `LockedIsAsked`, `StaleStartNothing`, `SlotsImplemented`, `CardsEnd` |
| `loads_unlock` | see *Findings* | violated |
| `store` | the migration tool (up to 2 runs, 2 attempts a write; options: all objects encrypted, a dry run two at a time, one object plain, one encrypted and overwritten) and a server on one destination with 2 objects, 2 keys, either backend; crashes, writes given up half-way or overlapping, a server that writes meanwhile, a cut envelope, the passphrase tool | `TypeOK`, `ReadyHasKey`, `StoredOpens`, `CleanRunMeansCopied`, `WritesOnlyMissing` |
| `views` | 2 images in batches of 1, 2 renderings, 2 loops a view could run, one failing status request, one error that expires | `PendingHasLoop`, `FreshAfterRetry`, `LeftViewsStop`, `ItemEnds` |

Why these are enough: a queue has an order only from two waiters on and a third download
must hold the slot (3); a batch outlives its caller only with two callers; an object is
replaced only with two objects of one id; two fills of one URL are the least that overlap,
the third is the one started while both run. One host suffices for the pool, since all of
its state is per host except the active set, which is the same for all of them; one URL for
the fills, except where workers move from URL to URL. A store has two keys because a second
first start needs one to draw; a second run of the tool is the least that meets leftovers
of a first; two images in batches of one give a pass that has a rest. What `store` cannot afford
together with these (`missed`, `rival`, several servers and passphrases, two objects copied at once
other than in a dry run) is in the proofs, which hold for all of it. `views` does not look for deadlocks: a page whose images have all ended rests.

Where a property stops short of a hazard, the hazard's note says so. `ReadyMatchesIndex` is checked where
fills do not overlap, since overlapping fills may leave index and memory with different kinds.
`LockedIsAsked` holds in the states of `loads_unlock` too: the promise a stranded card waits on is
unsettled; that nobody will settle it is what the violated property shows. `WritesOnlyMissing` exempts
runs during which a server writes, whose objects the code does replace. `ReadyHasKey` and `StoredOpens` promise
nothing after `missed` or `rival`, which the code does not prevent. `loads` allows retries of polls and
none of storage failures; the proofs cover any two limits. That a fill holds no egress slot
while it sleeps is the shape of `fetchFromOrigin()` and no property.

What holds only under a switch is not an accident of the instance. `OneFill`,
`ServesWhole`, `ReadyMatchesIndex` and, on a file system, `PointersWhole` need `Refreshes =
FALSE` (and no failing reads, no aging): `/refresh` starts a fill beside another one and
truncates files that are being served. The README of the repository offers `/refresh` as a
forced download and promises nothing for that moment.

**Fairness.** `FairSpec` and `LiveSpec` assume that the event loop comes to every event that
stays ready; since continuations run first again and again, events need strong fairness.
Checks end because `checkRoute()` has a timeout; origins and storages are assumed to
answer or fail (the HTTP client's own timeouts), so an origin that sends its body one byte at a
time for ever is excluded. Users, time and losses are not fair. `ImageLoads` needs only
weak fairness of "some card can go on", since what one card does is bounded. `DownloadView` has
weak fairness of each answer, timer, settled `/refresh` and fill; nothing there is switched
off again and again, since every view has its own loop. Failing status requests and expiring
errors are finitely many (an error that expires at every pass would keep an image busy for ever).

## 4. What is proved

The proofs hold for every value of the constants that the `ASSUME`s of the modules allow; TLC
evaluates those on every run.

* `EgressPoolProofs`: `TypeCorrect` and `QueuesAndRoutes`, that is, nobody is queued without
  a slot in use on an active route, nobody is queued while one is free unless a settings
  change awaits its save, and outside checks the active routes are the ones settings and
  health allow. The three need each other: `drain()` rejects everybody when no route is
  active, and otherwise stops only where no active route is free; since limits are at least
  one, "not free" means "in use". `ActiveIsCurrent` needs `PendingRuns` (a batch that awaits
  answers is running) to know that health changes only while a check runs.
  `NothingIsLost` (`QueueHoldsWaiting`, `SlotAccounting`): `QueueOK` and `Counted` are stated of
  values, not variables, so that what `drain()` leaves (whatever it grants) is a
  lemma about sequences and counts; every handler is a change of one download followed by such
  a drain. `GrantsAreWithinLimit`: a drain may grant several slots of a route at once, each
  below the limit; the proof counts the grants before a place in the queue. It needs that broken
  entries are never active (`BrokenUnused`). `WaitersAreWoken` needs that a check in
  progress belongs to a running batch (`CheckingRuns`), `OneRouteOfAnIp` that a proxy counted as
  healthy is below the failure limit (`HealthyBelow`), `SettingsAreKept` that two routes
  in the pool have different ids (`IdsDistinct`). `QueueIsNotOvertaken` and `DirectIsKept` follow
  from the same invariants. `SupersededOnlyDrains` says what does hold of the load on one external
  IP, which `IpLoadBound` denies: with no check running, a route that lost the lead of its group
  is granted nothing, so the excess is what it still holds and goes as it is released.
* `CacheFillProofs`: `FillTypeCorrect` and `PollersHaveFills`: an entry shown as processing
  has a running fill, and who is answered "processing" has one or finds an error at the next poll.
  Neither is inductive: a handler answers on the entry its lookup returned. `VisitsKnow` closes the
  gap: of the URL of a resumed visit that found a processing entry, a fill is running or the entry is an
  error by now (`Settling`). No other end of a fill, an event, can come before the resumed visit, a microtask; a
  refusal can, and an error stays one until an event replaces it or a new fill starts (`ErrorsStay`).
  `PointersAreWhole`, for atomic writes and a
  storage that loses nothing: `PointersWhole`, `ReadyIsIndexed`, `ServesWhole`. The strengthening
  `WholeInv` says it of everything that may still become such a name: entries held by visits, fills
  past their write, and index writes that were given up and may land after a crash. Objects
  only grow (`Grows`), so what was safe stays safe; on a file system "whole" becomes "there".
  The rest of `WholeInv` does not depend on how writes land, which gives `RedirectsAreThere`:
  where nothing is lost, `/cached` redirects only to what is there (any other fault allowed).
  `VisitsShareAFill` (`OneFill`) holds while nobody refreshes, errors do not age and the storage
  neither loses an object nor fails to read one (`Undisturbed`). `OneInv` adds that a running fill
  has claimed its entry (`Claimed`) and that no entry is an aged error (`Fresh`); since then only who
  finds an absent entry starts a fill, and claims it in the same step, the fill is `Alone`. `MemoryMatchesIndex` adds that nothing given up lands later: memory and index agree
  and name whole objects on a file system too, where one write truncates what another may have
  finished. `FileInv` says of each fill, by its stage, which of its objects are whole and that the
  index is absent or torn until it writes it (`FillSole`), and of an entry under `loadPersisted()` that
  a miss it has found stays a miss until somebody claims the entry. `NoHandlerIsStranded`
  is the half of `VisitsAnswered` that is safety: who waits for a load has one under way, and
  who has to start a fill finds one free. Each guard that bounds the fills keeps one for every busy
  visitor and every URL still to do (`RoomLeft`), so the bound never holds a handler up; counting
  what a batch hands out needs that `Fills` is a finite set.
* `SlotLineProofs`: `LimitKept`, for a finite set of users: never more users than slots, nobody
  in line beside a free slot. It needs that nobody stands twice in the line, or in it and at a
  slot (`Sound`), else the head of the line would inherit a slot and fill none. The steps are
  lemmas about values in `LineLemmas`, used for the page's counter too.
* `ImageLoadsProofs`: `LoadTypeCorrect`, `LimiterImplementsLine`, `NoStaleRequest`,
  `LockedCardsAreAsked`. The refinement needs that `active` counts the cards at a slot and that the
  queue names exactly the queued cards, each once (`LineInv`), and that cards not rendered, or not
  yet configured, are in neither (`ListInv`), since they are what a new list sends to the limiter.
  One lemma says what a card that asks does to all this (`AcquireKeeps`), one what a card that
  gives its slot back does (`ReleaseKeeps`), one what steps beside the limiter do (`IdleKeeps`);
  every action is one of them with its own cards. `LockedIsAsked` needs `KeyInv`: the promise kept
  in `masterKeyPromise` is that of an ask under way, or settled with the key. `LoadsLimited`
  carries the limit of `SlotLine` over to the page. `ListsLoadInOrder` (`FrontToBack`): the cards
  in the queue that never had a slot stand there in the order of the list, whatever retries stand
  between them (`OrderInv`). `UnlockOpensWhatWaits`: if
  nobody presses *forget*, only one ask is ever made and the one resolver is its own (`AskedOnce`), so
  that an accepted passphrase leaves nobody waiting for the user.
* `KeyEnvelopeProofs`: `KeyIsOne`, for any processes, passphrases, keys and faults. `KeyInv`
  adds to the two properties what those under way hold: who is creating the envelope is
  alone, there is no envelope but its own, nothing is stored under a key yet; the passphrase tool's
  key is the envelope's.
* `MigrateProofs`: `ToolIsAProcess` (every step of the tool is a step of `KeyEnvelope` or leaves
  it alone; two properties carry over: `ToolKeepsKey`, `ToolStoresOpen`), `CleanRunIsComplete`,
  `OnlyMissingWritten`. The invariant relates the stage of `main()` to the process's key
  (`StageInv`: from the listing on, it has one), and the state of each `migrateKey()` to the
  object (`ObjectInv`): what is copied or skipped is there, what is being written is
  absent, torn, or of this run, what is known to exist still does. `FilesInv` says of the file system
  that whatever is torn is being filled or is `spoilt`; `ToolOpens` that the tool fills only what it is at
  work on; `Whole` that what it has copied is whole while no server has written. The lemmas
  `FileWritten`, `FilesGivenUp` and `FilesQuiet` say once what a write, its end and anything else do to files.
* `DownloadViewProofs`: `ViewTypeCorrect`, `NoImageForgotten`, `RetriesAreFresh`,
  `LeftViewsAreQuiet`, for any images, batch size and sessions. The invariant: a view's running
  loops are at most one and exactly one when it polls; loops ask only for images that were unfinished
  when their pass began, so that no image in a request is being retried.

The hypotheses are the switches of the model, and there to say what a promise depends on.
`fill_files` runs `CacheFill` under all of `MemoryMatchesIndex`'s, `fill_answers` under those of
`PointersAreWhole`. `RedirectsAreThere` and `UnlockOpensWhatWaits` are the other side of two
findings: each names the one event without which the documented promise holds, all else allowed.

Only model-checked: the liveness properties (`AcquireReturns`, `CheckReturns`, `VisitsAnswered`,
`FillsEnd`, `CardsEnd`, `ItemEnds`), which are out of the proof system's reach. Every invariant
and action property of a passing run is the statement of a theorem.

Still to prove: an abstract cache (absent, being fetched, ready) that `CacheFill` implements, and
the safety halves of the other liveness properties, as `NoHandlerIsStranded` is of `VisitsAnswered`.

## 5. Findings

Each is a run that must be violated.

* `pool_ip_load`: when the measured IP of a route changes, or the lead of an IP group moves,
  slots still held on the former lead and new ones on the other add up on one IP
  (`egress-pool.ts:12-16`).
* `fill_lost_redirect`: with redirects, an object that vanished is never noticed by `/cached`
  (README:142-143).
* `loads_unlock`: `pendingUnlockResolve` holds one resolver. After *forget*, with images still
  waiting for the key, the next encrypted image asks anew and overwrites it; the passphrase then
  opens the later images and the earlier ones stay at "decrypting" (`script.js:185`, 1036-1039).

Met while modelling, and part of the models without a run of their own: a settings save
that fails leaves the new settings in memory without `recompute()` (`stale` stays set);
overlapping batches clear each other's `checking` flag; two visits that both found an aged
error both start a fill, since only absent entries are claimed; `/cached` fetches again after
*any* read error; overlapping fills may leave index and memory naming different objects; a proxy whose check
has just failed is handed out until the slowest route of the batch has answered, though
README:96-97 says only proxies that passed are used; for a PNG `uploading` comes before
`transforming`, unlike the order README:75-76 gives; the derivation of a key from a wrong
remembered passphrase, when it ends late, deletes the right one the user has entered
meanwhile; a failed `/api/encryption/config` is never asked for again. `migrate --dry-run
--encrypt-destination` on an empty destination writes an envelope (opening the store creates the
key) although README:277 says nothing is written; on a file system, an object a killed run or a server
has left torn is "skipped" as existing by later runs without `--overwrite`, which end without a failure; an `exists()` that fails
lets a server replace the envelope of a store in use, and what was sealed before cannot be opened;
`throttle()` never removes the entry of a host (`egress-pool.ts:510` compares with
another promise).

## 6. What is not modelled

* `throttle()`: when a request may leave. Its passing is an action; the spacing is about time.
* The contents of `proxy-settings.json` and `proxy.json` as text, statistics for display, byte counts
  and messages, logging.
* Image bytes and their conversion, storage keys made of URLs (every URL has objects of its own),
  URL normalisation, argument checks, handlers without state.
* Byte formats and ciphers (`crypto-format.ts`, `eme.ts`): an object opens with the key it was
  sealed with, and with no other. What a recursive codec computes for all inputs is beyond the
  proof system, and its strength beyond TLA+.
* In `Migrate` and `KeyEnvelope`, an S3 request that takes effect after its caller has given it up or
  died (`CacheFill` has such writes for the server's fills); a `/refresh` of a left view that reaches
  the server late.
* The settings page (a table redrawn from each answer; its requests are in `EgressPool`), rendering,
  forms, the ZIP of a download, `check_cache_suffixes.py`, static files.
