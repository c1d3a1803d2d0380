# TLA+ models of TryIt

TryIt turns a shopper's photo and a product into a try-on image. This directory
holds TLA+ specifications of its core, the configurations that check them with
TLC, and theorems about them proved with TLAPS. Every definition is translated
from the code; `PROJECT.json` names the lines each one stands for.

## The system

| Component | State | Operations | Hard part |
|---|---|---|---|
| Pipeline (`apps/api/app/_lib/pipeline*.ts`, `v1/tryons/route.ts`) | none of its own; works on the runtime | one POST: authenticate, replay, kill switch, images, rate, budget, cache, route, record | it awaits the providers in the middle, so what it read before may be stale when it writes |
| Runtime (`runtime.ts`) | tenants, rate limiter, cache, audit trail, jobs, idempotency index | built once per process | shared by all requests, lost on restart |
| Engine router (`packages/engine/src/router*.ts`) | one call's position in the candidate list | order candidates, try each under a deadline, fall through | answer, timer and caller abort race; losers answer late |
| Provider adapters (`engine/src/providers`) | none | one HTTP call each, and what they make of the reply | may fail, hang, or answer nonsense |
| Rate limiter (`security/src/rate-limit.ts`) | timestamps per shopper and per tenant | `check` | two kinds of bucket pruned at different moments |
| Result cache (`cache/src`) | entries in recency order | `get`, `put`, `has`, `delete`, `getOrCompute` | capacity and lazy expiry; concurrent misses |
| API keys and job access (`security/src/api-key-auth.ts`, `job-access.ts`, `v1/tryons/[id]/route.ts`) | key records per tenant | create, verify; may this key read this job | expiry boundary, tenant and scope, and telling a stranger nothing |
| Audit log (`security/src/audit-log.ts`) | an append-only list | append, list | the spend is read from it |
| Image validation (`security/src/image-*.ts`) | none | validate bytes | lengths read from the file |
| Node SDK (`packages/sdk-node`) | one call's deadline | create, get, wait for a job | polling against a deadline |
| Widget (`packages/widget`) | the screen, consent, photo, job; a run guard | give consent, choose a photo, submit, retry, close | user actions against late network answers |
| Demo shop (`apps/demo-shop`) | run guard, bag | mount a widget, run a try-on, fill the bag | runs that outlive the page they were started on |
| Catalog connectors (`packages/catalog-connectors`) | the list of skipped products | list, get | pagination, limits; overlapping listings |
| Inference service (`services/inference-py`) | none | `POST /infer` | its contract with the self-hosted adapter |

They interact by calls: the route handler calls the pipeline, which calls the
limiter, the cache and the router, which calls a provider. The widget, the SDK
and the demo shop reach the pipeline over HTTP. The server is a single Node.js
process, so whatever runs between two `await`s is atomic; all concurrency is
between requests at their `await`s, and between timers and answers. The same holds
of a page: its handlers are atomic, and a run of the widget interleaves with the
shopper at every `await`.

Correct means, per component: a request is refused or served as the gates say,
each decision audited once, each computation billed once, nothing crosses
tenants (pipeline); a route ends and nothing late counts (router); no window
exceeds a cap and `Retry-After` is exact (limiter); nothing stale is served and
eviction follows use (cache); a key gets the jobs of its tenant and learns nothing
of others (keys, SDK); a wait ends and keeps its pace (SDK); no photo without
consent, one run at a time, no result but the job's own, nothing stuck (widget and
shop); every valid product once and every dropped one reported (connectors); the
verdict on a file is the one its contents call for (images). What could go wrong,
line by line, is `"hazards"` in `PROJECT.json`.

## Modules

| Module | Models | Relation |
|---|---|---|
| `TryOnPipeline` | POST and the pipeline over the runtime | instantiates `SlotLimiter` and `BoundedCache` |
| `SlotLimiter` | what the rate limiter promises | abstract |
| `RateLimiter` | `rate-limit.ts` | implements `SlotLimiter` |
| `BoundedCache` | what the cache store promises | abstract |
| `CacheStore` | `cache-store.ts` | implements `BoundedCache` |
| `FallThrough` | what `route` promises | abstract |
| `RouterOrdering` | `router_ordering.ts`, `provider-registry.ts` | operators only |
| `ProviderAdapters` | `engine/src/providers/*.ts` | operators only |
| `EngineRouter` | `router.ts`, `router_timeout.ts` | extends `RouterOrdering` and `ProviderAdapters`, implements `FallThrough`, which each request of `TryOnPipeline` also follows (`RoutesFallThrough`) |
| `WireErrors` | the error contract: codes and statuses | operators only, shared by the clients |
| `KeyAccess` | `api-key-auth.ts`, `job-access.ts`, the read route | operators on key records; extends `WireErrors` |
| `SdkClient` | `sdk-node/src/client.ts` against the read route and a store of jobs | extends `KeyAccess` |
| `WidgetState` | `widget/src/state.ts`, the controls of `render.ts`, `validate-file.ts` | operators on one widget |
| `ShopBag` | `CartProvider.tsx` | operators on the bag |
| `TryOnWidget` | `embed.ts`, or `TryOnLauncher.tsx` with `tryOnOrchestrator.ts` | composes `WidgetState`, `ShopBag` and the runs |
| `CatalogListing` | `shopify.ts`, `generic-rest.ts` | |
| `ImageHeader` | `image-validation.ts`, `image-dimensions.ts` | |
| `ImageFiles` | the formats those parsers read, from the writer's side | a reference description, extends `ImageHeader` |
| `FoldLemmas` | facts about sums over sets, folds over sequences and concatenations | lemmas only, used by the `...Proofs` |
| `...Proofs` | the theorems about the module they are named for | |
| `ClientProofs` | the theorems about `SdkClient` and `CatalogListing` | extends both |
| `MC...` | constants for the runs | |

### TryOnPipeline

The variables are the runtime's collections (`jobs`, `index`, `cache`, `taken`,
`audit`), the kill switches (`killed`), each request's progress (`pc`, `req`,
`attempt`, `result`, `verdict`, `reply`), the running sum `spent`, and two
history variables (`before`, `peak`) that only properties read.

A request is taken up in one step: everything up to the first `await` happens at
once, and the nine disjuncts of `TakeUp` are the nine ways out of it, in the order
of the code's gates. Then `ProviderAnswers` and `AttemptFails` are the turns of the
router's loop, `RouteFails` its end with no result, and `Record` the tail of
`executeAndRecord`. Reading the body before the pipeline starts is an `await` too,
but nothing shared has been read by then. An operator may flip a kill switch, and
a slot may leave the rate window, at any time.

Abstractions. A person image, product and params together are one `Content`
value: the key derivation hashes each with its length, so the key is taken to
separate them (SHA-256 is assumed to). Requests of different tenants or shoppers
are taken to have different limiter buckets. Money is in whole cents. `spent` is
what `sumTenantSpendUsd` returns, and `EachComputationIsBilledOnce` checks that it
is. The kinds of image refusal, which differ only in the status code, are one. A
provider whose answer cannot fail (the deterministic one) is outside `Fallible`.

### RateLimiter, CacheStore, RouterOrdering, EngineRouter

`RateLimiter` prunes the buckets only when a check looks at them, as the code does. A
bucket is a set of hits, numbered per shopper so that two in one unit of time stay apart:
the code counts a bucket's timestamps, filters them by age and takes the earliest, and
never uses their place in the array. The mapping to `SlotLimiter` counts the hits still in the window of
each shopper's bucket; that the tenant's separate bucket always agrees is
`RefusalsAreExact`. The clock does not step back; the code asks for a
"monotonic-enough" one.

`CacheStore` keeps the `Map` in insertion order. `get` and `put` move a key to the
end, `has` does not. What the `Map` holds implements `BoundedCache`: an entry that
expires without being read simply stays until something removes it, and removing an
expired entry is a removal like any other. The runtime wires the store without a ttl.

`RouterOrdering` has no state: it folds the allow-list as the loop does (`Eligible`),
then sorts (`Sorted`, which gives each candidate the place after all that
`compareCandidates` puts before it: with a total order there is no other sorted
sequence, and `OrderIsTotal` proves that the order is total).
`EngineRouter` is one call of `route` for any allow-list and any registry; its local
`candidates` is computed once, on entry. A step is
one callback: a provider's promise settling, a timer, the caller's abort, or the
continuation of the loop. What a networked provider's promise settles with is what
its adapter (`ProviderAdapters`) makes of some reply of its service. A provider that
lost its race stays `running` and may end later. Continuations may be delayed past
other callbacks, which only allows more interleavings than Node does, with one
exception that matters: no timer runs while an answer that needs no waiting is ready
(`InstantReady`).

### KeyAccess and SdkClient

A key is its secret, a header without one is `Blank`, and the store files records
under tenants, perhaps under the wrong one. Each caller of `SdkClient` has a
key. `CreateTryOn`, `ServeCreate` and `CreateReturns` are the two ends of a create
and the service between them; `WaitForJob`, `ServeRead`, `PollReturns` and `Wake` one
turn of `waitForJob`'s loop. `TransportFails` is a lost request, a lost or unreadable
reply. `JobAdvances` and `Tick` let jobs and the clock go on at any moment, so a
timer may fire late and a key expire between two polls.

The client takes any job status of the contract, and the service it is composed with
may hold jobs in any of them, although `apps/api` at present stores only jobs that
have ended.

### WidgetState, ShopBag and TryOnWidget

`Transition` is the reducer of `state.ts`, `Offered` the events a screen's controls
can send. `TryOnWidget` adds the host. A *run* is one submitted try-on of either
host: read the photo (shop), create the job, poll it, feed the widget. Nothing
cancels a run. When the sheet is closed it goes on driving the widget, in whatever
session that is by then; when the shopper opens another product its widget and its
launcher are gone (`here` turns false) and it drives nothing. A job has the number of
its run. The shopper is `Press`, `PressNothing`, `ChooseFile`, `OpenProduct`, and the
actions on the bag; `Mount` is the launcher's credential arriving or not.

The answer of a job read after the widget was removed goes nowhere; that launcher's
guard is gone with it. Lines 52-55 of the launcher answer a submit that has no
credential, and cannot be reached, since a widget is mounted only with one.

### CatalogListing

A connector of either kind, its server's catalog, and listings on it that may
overlap: `listProducts`, or `getProduct`, which is a listing with a product to find.
The Shopify generator judges records one by one between a caller's pulls and fetches
the next page when it gets there; the feed is judged within one step. Both note the
records they drop in the one list `skipped`, which each listing empties when it
starts. A listing that breaks off remembers how (`broken`): its page was lost, which
raises an exception and notes nothing; or was refused, which notes the page's url; or its
caller left. A record is what validation tells apart in it; the currency, one more
optional field whose length is checked (`product.ts:45`), is left out. What is kept or
dropped of a sequence of records is written as a concatenation over it. Cursors lead
forward. The state formulas of the specification bear the prefix `Listing` (`ListingSpec`), since
`ClientProofs` extends this module together with `SdkClient`.

### ImageHeader

The parsers byte for byte. Everything but the walk over a JPEG's segments is one
step, and the walk takes one segment a step. A file is given together with what was
put into it, so that the verdict on any prefix of it is known without parsing. When
such a description fits the bytes is said in `ImageFiles`, by how an encoder lays out
each format: which bytes hold a size, which stand in their way, and how one segment of
a JPEG leads to the next. It does not look at the parsers' order of tests, nor at a
prefix. `MCImageHeader` builds its files independently, and TLC checks that each of them
is described (`MCFilesAreDescribed`).

## Runs

| Run | Instance | Shows |
|---|---|---|
| `requests` | 3 requests, 2 tenants, 1 key or none, 2 contents, 1 cache entry, budget 9, estimate 5 | billing once, replay, late retries, bounded overshoot, isolation, the fallback, the fall-through |
| `gates` | 2 requests of every kind, budget 5, caps of 2 and 1, switches flipping, fair | types, audit, kill switch, every request settles |
| `window` | 2 tenants, one with a cap of zero, 2 shoppers, window 3, clock to 5 | the limiter against `SlotLimiter`, caps over all windows, exact retry, agreement of the buckets |
| `store` | 3 keys, room for 2, ttls 0, 1 and none, clock to 3 | the store against `BoundedCache`, freshness, LRU |
| `route` | 2 networked providers and the fallback, lists of up to 3, every registry, a caller who may abort, fair | candidates and their order, settle once, no leaks, no call after an abort, the end of a route, `FallThrough` |
| `widget` | either host, 2 runs, 2 polls a run, 1 product in 2 sizes, 2 pieces a line, fair | types, consent, one run at a time, the result is the job's, the bag, processing ends |
| `client` | 1 caller with any of 6 keys, 2 jobs, 2 tenants, intervals 0 to 2, timeouts 0 and 3, clock to 5, fair | a foreign job looks absent, returned jobs are the caller's, polls fit the timeout, a wait ends |
| `catalog` | either connector, 2 listings, 3 catalogs of up to 3 pages, limits 0 to 2 or none | the products yielded, the products reported |
| `images` | every prefix of about 900 files: JPEGs of up to 3 segments, PNGs and the 3 kinds of WebP at, above and below the limits; any declared type | the verdict on each, and that there is one |

Three requests are enough for two of them to overlap while a third arrives after
one has finished; with two contents, two tenants and a cache of one entry, every
put evicts somebody else's. In `requests` the requests are interchangeable and
symmetry is used; so are shoppers in `window` and keys and values in `store`.
The runs that check liveness use none. `Window` 3 with a clock to 5 lets hits leave
while others stay. Three listed providers are enough for a repetition, a listed
provider that is not wired and every order of those that are.

Two runs are what it takes for a run of one session to meet the next session, or the
guard of a page since left; two polls let one be in vain. In `client` a key expires
at 2, within a wait of 3, and a wait of 3 at an interval of 1 has four polls; the properties speak of one
caller at a time, and callers share only the jobs. The
catalogs have a bad record first, last and alone on a page, an empty page, and
records the two connectors judge differently. Of the JPEG files, those whose frame
declares a length shorter than the fields read from it are left out: the code reads
past the segment there, as decoders do, and there is no dimension such a file "has".

The bounds that are not part of the system sit in guards or domains that name them:
`MaxTime`, `MaxListed`, `MaxRuns` (try-ons started), `MaxQuantity`, `Horizon` (the
clock of `client`; a wait is begun only if it can time out before it) and the
`MaxPolls` of `SdkClient` (never reached). Deadlock checking is off where the system
stops by itself: all requests answered, the one route call returned, the last
listing, wait or validation over.

`requests` and `gates` use the repository's costs, in cents, and lists in the order
these costs give: a tenant on two paid providers and one on the deterministic
provider. `route` prices the fallback behind the others, as the engine's own tests
do, because at the repository's costs nothing is ever tried after it, which is what
`fallback_claim` shows.

Fairness: Node runs every ready continuation and every due timer, so `TryOnPipeline`
assumes weak fairness of a request's own steps and `EngineRouter` of timers and
continuations. Nothing is assumed of networked providers: in `route` they may hang
for ever, and that each attempt nevertheless ends is what lets `TryOnPipeline` assume
that its attempts do. `TryOnWidget` assumes that a run's own steps are taken (a fetch
settles, a timer fires) and nothing of the shopper or of the service, which may leave
a job pending for ever. `SdkClient` assumes that time passes and that a caller's
requests are answered or lost, not that a job ever ends. Neither client sets a
timeout on a single request: a fetch that never settles would hang both, and that
fetches settle is left to the platform. `ImageHeader` is a
sequential function, and takes its next step.

### Where the code and its documentation disagree

Each of these runs states a sentence of the documentation and TLC finds a
behaviour of the code that contradicts it.

| Run | Claim | What happens |
|---|---|---|
| `idempotency_claim` | a retry with the same key makes no second provider call and no second charge | two requests with one key overlap: both miss the index, both miss the cache because neither provider has answered, both call a provider, and both jobs are charged and stored |
| `fallback_claim` | deterministic is the last resort | it is free, hence first |
| `stuck_claim` | the orchestrator never leaves the widget in `uploading` | a submit made while an earlier session's run still holds the guard is never taken up, unless the shopper acts again |

More disagreements are plain from the code and need no model checker:

- The budget is a cap on spend (`docs/security/threat-model.md:158`), but calls in
  flight are not counted (`pipeline.ts:170`); `BudgetOvershootBound` gives the true bound.
- The kill switch halts all external calls (`threat-model.md:162`), but it is read once,
  on arrival (`pipeline.ts:143`): a route already begun goes on to its next provider
  (`router.ts:123`). `KillSwitchAdmitsNone` is what does hold.
- A failed job is stored (the comment at `pipeline-execute.ts:91`): no job is stored on
  that path.
- A cached repeat is not refused for budget (`integration-guide.md:255`): the budget gate
  comes before the cache (`pipeline.ts:170-176`).
- Expired entries do not occupy capacity, and capacity counts live entries
  (`cache-store.ts:36`, `:54`): one nobody has read takes up room and a live one is
  evicted for it (`:138`).
- `waitForJob` gives up when the next poll would fall "at/after the deadline"
  (`client.ts:191`): it gives up only after it (`:192`).
- No code reads `retentionSeconds`, and a provider call that failed before another one
  answered is logged but leaves no audit event.
- The read route's 404 has the body `{error: 'not_found'}`, not the error contract's, so the
  SDK and the widget report an absent job as `PROVIDER_ERROR`.
- The self-hosted adapter sends no garment image and reads `image_url`; the inference
  service requires the one and answers `result_image`, so every call to it fails over.

Three more behaviours follow from the models and contradict no sentence of the
documentation. A result that arrives in a later session is shown there, although that
session holds another photo: `ResultIsOfTheJob` holds, and says no more than that. A
Shopify listing whose limit is reached by the last record of a page still fetches the
next one (`connector.ts:15`). Overlapping listings spoil each other's report of skipped
products (hence `alone` in `SkipsAreReported`). A page the server refuses is named in the
report, but a page lost on the way, or that is no JSON, is not: that listing ends by an
exception and notes no page.

## Proofs

The theorems hold for every value of the constants that satisfies the modules'
assumptions, and are checked by TLAPS. Each rests on an inductive invariant, because
what the runs check is seldom inductive as it stands.

`TryOnPipelineProofs`, about `TryOnPipeline!Spec`:

- `TypeCorrect`: `TypeOK`. The inductive invariant adds that a request waiting for a
  provider has been parsed and has an attempt number, and that one waiting to be
  recorded has a result.
- `ReplaysMatch` and `LateRetriesAreFree`: `ReplayMatchesRequest` and
  `LateRetryIsFree`. The argument is about the index: an entry for a tenant and key
  always holds a stored job of that tenant and key, and once there is one there
  always is one (`IndexInv`); what a request remembers of its arrival is a subset of
  the jobs (`BeforeInv`).
- `BudgetOvershootIsBounded`: `BudgetOvershootBound`. What is spent plus the most the
  calls in flight can still cost stays within the budget, less the estimate, plus
  `MaxCost` times the peak (`Covered`), and a result never costs more than
  `MaxCost` (`Costed`).
- `ResultsAreIsolated`: `ResultMatchesRequest`. A cache entry under a key matches that
  key's tenant and content (`IsolationInv`), which survives eviction because eviction
  only removes entries.
- `FallbackAnswers`: `FallbackAlwaysAnswers`. The candidates a request has left behind
  can fail (`LeftBehind`), so one that runs out had only candidates that can.
- `AuditIsComplete`: `VerdictsAreAudited`, which with the types is inductive: a step
  appends an event for a request exactly when it gives that request its verdict.
- `KillSwitchIsHonoured`: `KillSwitchAdmitsNone`, an action property that needs only
  the types.
- `ComputationsAreBilledOnce`: `EachComputationIsBilledOnce`. The running `spent` is both
  the sum over the tenant's allow events and the cost of the results its stored jobs
  computed. The invariant adds that a computed result is its request's own and
  costs what its provider charges while a hit is another request's and costs nothing
  (`Priced`), and that a stored job's request is done (`Delivered`); the steps follow
  from what one more summand does to a sum (`SumGrows`).
- `EveryRouteFallsThrough`: `RoutesFallThrough`, that the route of each request takes
  only `FallThrough`'s steps. A request never gets further than one past its last
  candidate (`InReach`).

`EngineRouterProofs`, about `EngineRouter!Spec`:

- `SettledAttemptsAreClean`, `AbandonedProvidersAreTold`, `SettlementIsFinal` and
  `AbortStopsNewCalls`: `NothingIsLeftBehind`, `AbandonedCallsAreTold`,
  `FirstSettlementWins` and `NoCallAfterCallerAborts`. All rest on `RaceInv`, which
  adds that nothing has happened to the attempts ahead of the router (`Ahead`):
  without it a launch could reuse a place whose attempt had already settled.
- `OrderIsTotal`: `compareCandidates` is a strict total order on providers whose ids
  differ.
- `CandidatesAreRight`: `CandidatesAreCanonical`. The fold over the allow-list keeps each
  listed and registered provider once (`EligibleOnce`, by induction on the list), and
  ranking such a sequence by a total order gives the same result whatever order it was
  in (`Ranking`, `SortedOfMembers`).
- `RouterFallsThrough`: `ImplementsFallThrough`, for any allow-list and registry: that the
  candidates are a sequence of providers is part of the invariant (`CandidatesInv`).

`CacheStoreProofs`, about `CacheStore!Spec`. The invariant `IInv` says that the `Map`
has one entry of a key at most (`OnePerKey`), no more than `MaxEntries`, and that each is
as its key was last written (`AsWritten`); freshness alone would not survive a `get` that
moves an entry. The lemmas before it say what taking out, appending and evicting do to
the *set* of entries a sequence holds, so that the order plays no part afterwards.

- `AnswersAreTheLastPut`: `AnswersAreFresh`.
- `NeverOverCapacity`: the capacity, and one entry of a key.
- `LeastRecentlyUsedGoes`: `EvictsLeastRecentlyUsed`. The entries lie in the order in which
  their keys were last used (`RecencyInv`), which taking one out, moving one to the end and
  dropping the first each preserve; the first entry, the one evicted, is then older than
  all others. The order of a sequence is looked at as the relation `Ordered`.
- `StoreImplementsBoundedCache`: `ImplementsBoundedCache`. That as many keys show a value
  as there are entries (`CountShown`) turns the code's test of the `Map`'s size into
  `BoundedCache`'s.

`RateLimiterProofs`, about `RateLimiter!Spec`, for any window and caps. The invariant
`IInv` says that what was admitted and is still in the window is in both of its buckets,
which hold nothing else that was not admitted to them (`Buckets`): pruned, they agree with
the history, however differently they were pruned before (`PrunedBuckets`).

- `TypeCorrect` and `CapsHold`: `TypeOK`, with the bound on what is stored (`Bounded`), and
  `NoWindowExceedsCaps`. Only the window that ends now can gain an admission.
- `HitsAreDistinct`: a new hit is not one of those admitted before (`Numbered`), so sets
  count what the code's arrays count.
- `ChecksAreExact`: `RefusalsAreExact`.
- `RetryIsExact`: `RetryAfterIsExact`. Until the time it was told a refused shopper meets a
  full bucket none of whose hits leaves before (`Binding`), and by that time every full
  bucket has lost one (`Loosens`). Both survive the clock and the shedding of hits, which
  `RetryAfterIsExact` alone does not say.
- `LimiterCountsSlots`: `ImplementsSlotLimiter`, the limiter that `TryOnPipeline` relies on.
  The tenant's count is the sum of its shoppers' counts, and a hit that enters or leaves
  the window changes one summand (`SumUpdate`). Shoppers are assumed to be finitely many.

`TryOnWidgetProofs`, about `TryOnWidget!Spec`, for any number of runs, polls, photos and
products:

- `TypeCorrect` and `PhotosNeedConsent`: `TypeOK` and `NoPhotoBeforeConsent`. That every
  event of the reducer keeps a widget private is a lemma about `Transition`.
- `RunsDoNotOverlap`: `OneRunAtATime`. The guard is up exactly while a run drives the
  widget on the page (`GuardInv`).
- `ResultsAreOfTheJob`: `ResultIsOfTheJob`. In processing, the job shown is polled by the
  run that drives the widget (`ProcessingInv`), and a run that has not created its job has
  none (`JobsInv`): so the only success the widget can hear in processing is its own job's.

- `BagStaysSound`: `BagIsSound`, for any number of lines: what the filter of a removal keeps
  is shown line by line (`RemoveLineFacts`), which also says that the removed line is gone.
  It rests on every product having a size, which `products.test.ts:28` asserts.

`ClientProofs`, about `SdkClient!Spec`, for any keys, callers, intervals and clocks:

- `ForeignJobsLookAbsent`: `AbsentAndForeignLookAlike`.
- `CallersGetTheirOwnJobs`: `ReturnedJobsAreOwn`. What a caller has been told remains true
  of the job, which no longer changes once it has ended (`ToldInv`).
- `WaitsKeepTheirPace`: `PollsFitTheTimeout`. The polls so far took their intervals since
  the start, and the next is due within the timeout (`PaceInv`).

and about `ListingSpec` of `CatalogListing`, for any records, catalogs of any number and
size of pages, limits, and number of overlapping listings:

- `ListingsYieldTheValidProducts`: `YieldsAreTheValidProducts`. What a listing has yielded
  is what validation keeps of the records before its place in the catalog (`Faithful`);
  while it waits for a page it has counted every product it yielded, and while its caller
  holds a product one less. The property alone does not say where in the catalog a
  listing stands, nor that its count is right, so it is not inductive.
- `SkipsAreAllReported`: `SkipsAreReported`, with the refused page named exactly when there
  was one. Unless the latest listing began beside another, it is the only one under way
  (`SkipInv`), so that nobody else touches the list; while it is under way it has not broken
  off, and its report is what it dropped (`ActiveIsReady`).
- The steps of the two generators are lemmas about any place to go on from
  (`ScanGoesOn`, `CollectGoesOn`). They rest on `Before`, the records before a place:
  how it grows along a page (`BeforeLater`), that the end of a page is the beginning of the
  next (`BeforeNext`), and that it is always a prefix of the catalog (`BeforeIsPrefix`).
  `ListingAssumption` asks only that a catalog is a nonempty sequence of pages and a limit
  a natural number; a limit below zero yields nothing, like zero.

`ImageHeaderProofs`, about `ImageHeader!Spec`, for files of any length and content:

- `AcceptedImagesFit`: an image is accepted only with a width and a height of at least one
  pixel and within the limits.
- `TheWalkGoesForward`: a turn of the JPEG walk that is followed by another begins at least
  two bytes before the end of the file and moves on by two bytes or more, which bounds the
  turns by the file's length.
- `VerdictsAreRight`: `VerdictFitsTheFile`, for every set of files that are described
  (`AllDescribed`) and every prefix of them. The invariant (`VInv`) says that a walk still
  going on stands where the file has a segment begin, and that the bytes are a prefix; the
  rest is that a number reads back as it was written, in each of the five ways the formats
  write one, and that no signature or chunk is taken for another.

`FoldLemmas` is what these proofs need of the sums and folds the models are written with.
The community modules define them as the solution of a recursion on sets, chosen by
`CHOOSE`. `FoldExists` shows that the recursion has a solution on a finite set and
`FoldsAgree` that it has only one, so the chosen one obeys its equations; from there, that
a sum does not depend on the order it is taken in (`SumRemove`), what changing or adding a
summand does to it, and that `FoldLeft` goes through a sequence from the first element to
the last (`LeftFoldClimbs`). In the same way `FlattenSeq`, chosen as the solution of a
recursion on places, is shown to have one (`FlattenExists`), to take in a sequence at the
end (`FlattenAppend`) and to turn concatenations into concatenations (`FlattenConcat`,
`FlatMapConcat`). The two induction principles at its head take the set of
numbers, or of sets, for which a fact holds, and come from the library's theorem that the
order of the natural numbers is well-founded.

Model-checked only: liveness (`EveryRequestSettles`, `RouteEnds`, `ProcessingEnds`,
`WaitEnds`, `ValidationEnds`), which is beyond TLAPS. Every other property of a passing
run is the statement of a theorem.

## Not modelled

- Canonical JSON and SHA-256: a pure encoder over unbounded trees; that the key it derives
  separates contents is an assumption of `TryOnPipeline`.
- Schema parsing, CORS and response formatting, rendering and styles, the providers'
  request payloads, the deterministic provider's picture, redaction of log messages.
- Base64 decoding, which is the identity on bytes here, and the image sanitizer, which
  passes bytes through.
- The shop's search, filters, drawer and prices: presentation without an actor besides the
  shopper.
- The inference service, which keeps nothing between requests.
- The development route that hands out the demo key, and the scheme of the authorization
  header; the code has no revocation of keys.
- A restart of the process is a fresh `Init`: there is no recovery code. Floating-point
  rounding of the spend and a clock that steps back are among the hazards without a
  property.
- Tests, deployment and the generated evidence.

## Plan

What could still be added:

1. An abstract `TryOnService` (each request answered once; jobs only grow) that
   `TryOnPipeline` implements, and that `SdkClient` and `TryOnWidget` are composed with in
   place of the jobs they keep themselves.
2. A catalog server that repeats a cursor, if the connectors come to guard against one.
