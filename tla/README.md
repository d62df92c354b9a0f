# Verification of amazon-crawler

TLA+ models of amazon-crawler v2 (`src/src/amazon_crawler` and the evidence scripts of
`src/scripts`), TLC configurations that check them on small instances, and theorems about
them that TLAPS proves for every value of the constants. Paths below are relative to
`src/src/amazon_crawler` unless they start with `src/`.

The crawler takes jobs (a task type, a list of inputs, a set of result sinks), runs their
items with plugins that fetch and parse Amazon pages, stores the results in SQLite, and
delivers them to secondary sinks. Everything that must survive a crash is in one SQLite
database; everything shared by the fetches of a process is in memory, guarded by asyncio
locks or by nothing but the absence of an `await`. Beside it, a chain of scripts turns
controlled runs into the evidence that V2 equals its predecessor.

## The system and its parts

    clients (HTTP API, MCP server, CLI, scoped runner)
        | create, pause, resume, cancel, list
        v
    SQLiteStore  <---- claim, heartbeat, complete, fail ----  Worker slots
    jobs, items, results, outbox, events, audit, approvals        | execute
        ^                                                         v
        | claim, heartbeat, complete, fail                     plugins ---> HttpFetcher
    DeliveryWorker slots ---> sinks (JSONL, Redis, MySQL)         |  circuit, limiter
                                                                  v
                                                   cookies and proxies (providers)

    plans -> collectors -> batches -> merge -> report -> comparisons, receipts -> manifest

| Component | State it keeps | Operations | What is hard | What makes it correct |
|---|---|---|---|---|
| Crawl job store (`infra/sqlite_store.py`) | `jobs`, `job_items`, `results`, `result_outbox`, `job_events`, audit and approval rows | create_job, claim_next, heartbeat, complete_item, fail_item, recover_expired_leases, request_pause, resume, request_cancel, list_* | several processes on one database; leases that run out under a live worker; control requests at any time | rows, counters, results, outbox and events agree after every transaction; what is settled stays |
| Worker (`application/worker.py`) | the claim each slot works on, its heartbeat task | process_one, run_forever | crash between claim and report, report after a lost lease, a failing report | only the holder of the lease reports; every job ends |
| Outbox and delivery worker (`application/delivery_worker.py`, store) | outbox rows, slots | claim_delivery, heartbeat_delivery, complete_delivery, fail_delivery, recovery | the sink changes before the database hears of it | nothing is published twice, delivered before it is published, or stuck |
| Result sinks (`infra/result_sinks.py`, `infra/legacy_compat.py`) | a JSONL file with receipts, Redis lists with markers, MySQL tables | publish | torn writes, lost replies, a failure between two tables, two writers | idempotence of publish |
| HTTP fetcher (`infra/http.py`) | circuits per host, last request per host, one lock | fetch | tasks interleaved at every `await`, outcomes that come late, cancellation | one probe at a time, requests apart, no task waits for ever |
| Request resources (`infra/resources.py`) | cookie cache, proxy queue, quarantines, locks | acquire, report, refresh, health | single-flight loading, refresh racing a direct lookup, quarantine | a bad lease rests, a load serves all who wait |
| Cookie harvesting (`infra/cookie_harvester.py`, `application/cookie_maintenance.py`) | none but the pool it fills | ensure_capacity, run loop | concurrent fills, a failing harvest | the pool is filled to its capacity and not beyond |
| Plugins (`plugins/`) | per call only; the chunks of a rank list run concurrently | execute: fetch, classify, parse, report, keep evidence, derive follow-ups | the order of tests on a page, chunks that fail or are left behind, evidence that cannot be written | a lease is told the truth about its page; an item is given up only for what its page shows; rows are complete and in order |
| Scoped runner (`application/scoped_runner.py`) | the jobs it knows and their last status | run one job tree to its end | every read is a hop to a thread while other workers act | it returns, and what it says of the tree is so |
| MCP policy (`interfaces/mcp_policy.py`) | token buckets, run slots, audit and approval rows | tool call, approval | limits and gates around awaits, single-use approvals, pruning at a restart | limits hold, slots are released, an approval is used once |
| MCP server and job service (`interfaces/mcp_server.py`, `application/service.py`) | the instance lock | create and cancel with approvals, paged listings | retries of a creation, tenants, pages cut short while rows are written | one job per key, no job of another tenant, no row lost between pages |
| MCP observability (`interfaces/mcp_observability.py`) | in-flight count, samples, alert states | begin, finish, report | reports that overlap | the count is that of the calls under way |
| Parity evidence (`src/scripts`) | plans, batches, bundle, report, comparisons, receipts, manifest: files | export, collect, merge, build, compile, promote | commands started at any time, killed between two files, source edited in between | a manifest marked complete rests on passing observations of the whole matrix |
| HTTP API and console, command line, composition | (delegate) | argument checks, wiring | | |
| Audits and one-off scripts (`src/scripts`) | none | read once, print a report | | |

`PROJECT.json` lists every component with its status, and every hazard with its line and
the properties that would notice it.

## Modules

| Module | Models | Extends or instantiates |
|---|---|---|
| `JobDb` | the crawl tables and the SQL of the store's methods, as functions from a database to the next | |
| `CrawlJobs` | worker slots, clients, clocks and crashes acting on one `JobDb` | `JobDb`; `JobContract` under a refinement mapping |
| `JobContract` | what a client of the store may rely on: the abstract specification | |
| `CrawlJobsProofs` | theorems about leases and results, statuses, counters, events, derived jobs, the contract and the order of claims | `CrawlJobs` |
| `Delivery` | outbox rows, delivery slots, and the three kinds of sink step by step | |
| `DeliveryProofs` | theorems about `Delivery` | `Delivery` |
| `Fetch` | concurrent calls of `HttpFetcher.fetch` with circuits, limiter and quarantine | |
| `FetchProofs` | theorems about `Fetch` | `Fetch` |
| `ProxyPool` | `RotatingProxyProvider`: the queue of proxies, its single lock, loads, quarantines | |
| `ProxyPoolProofs` | theorems about `ProxyPool` | `ProxyPool` |
| `CookiePool` | `LegacyRedisCookieProvider`: cache, direct lookups, misses and quarantines over a Redis that changes | |
| `CookieHarvest` | `ensure_capacity`, which fills the Redis that `CookiePool` reads, composed with it | `CookiePool` |
| `CookieHarvestProofs` | theorems about `CookieHarvest` and, with it, `CookiePool` | `CookieHarvest` |
| `PageTasks` | `execute` of every plugin over the pages a site may answer with, and the tree of items that follow from a root | |
| `ScopedRunner` | `run_scoped_job` over that tree, beside other slots and an operator | `PageTasks` |
| `ScopedRunnerProofs` | theorems about `PageTasks` and `ScopedRunner` | `ScopedRunner` |
| `McpCalls` | `MCPExecutionPolicy` around a governed call: audit row, in-flight count, scope, token bucket, run gate | |
| `McpApprovals` | approval receipts, the tools that need them, and idempotent creation, over crashes and restarts of the server | |
| `McpListings` | the paged listings, read while slots write rows | |
| `McpToolsProofs` | theorems about the three, one after another | `McpCalls`, `McpApprovals`, `McpListings` |
| `ParityEvidence` | the commands from plans to a promoted manifest | |
| `ParityEvidenceProofs` | theorems about `ParityEvidence` | `ParityEvidence` |
| `MC...` | instances for TLC | the module of that name; `MCMcpTools` all three MCP modules; `MCWorkEnds` extends `ProxyPool` and instantiates `CrawlJobs` and `Delivery` |

Definitions whose comment starts with `Bug:` are faulty variants of the definition that
follows. No specification uses them; each shows a property being violated by the fault it
describes (`PROJECT.json`, "mutants").

### JobDb and CrawlJobs

Every method of the store runs in one `BEGIN IMMEDIATE` transaction, and SQLite runs those
one after the other, so a method is one action. `JobDb` writes it as a function: `Complete`,
`Fail`, `RequestPause`, ... take a database and return the one that is committed, with the
statements in the order of the code (`Complete` stores the result, queues the outbox rows,
inserts the follow-up jobs, releases the item, refreshes the job, reconciles the controls).
A statement that only a Python condition guards is guarded here by the same condition.

What happens between transactions is what `CrawlJobs` interleaves. A slot claims
(`ClaimItem`, `ClaimNothing`), executes, and reports (`CompleteItem`, `FailItem`, or
`Raise` and `FailInternal` for the `except` branch); its heartbeat renews the lease; a
report that finds the lease gone ends with `LeaseLost`. `Crash` takes a slot down between
any two of these, `Restart` is `run_forever`, which starts with `recover_expired_leases`.
Clients create, pause, resume and cancel jobs at any time.

Abstractions:
- Time is kept as the two comparisons the code makes with it: an item row is `expired` or
  not and `ready` or not, and `LeaseTimesOut`, `BackoffElapses` change that.
- A lease token is the ordinal of the claim, which is fresh for the item, as a uuid is.
  Which follow-ups a result derives is any subset of the item's `Followups`.
- Event rows are kept for the four that end a job (`announced`); payloads and messages are
  left out, listings are in `McpListings`. `EndAnnounced` says which ends are announced: a job
  whose cancellation is settled by the report of its last running item is not, since
  `_refresh_job` sets `cancelled` without an event (`infra/sqlite_store.py:938`, `984`) and
  `_reconcile_controls` (`532`-`550`) finds no request any more.
- `MaxClaims` bounds how often a lease may be lost, so that attempts are finite.

### Delivery

A publish is not one step: the sink changes something outside the database. Each step
between the claim of an outbox row and its receipt is an action (`Lock`, `Deduplicate`,
`WriteRecord`, `WriteReceipt`, `Unlock` for JSONL; `RunScript` for Redis; `InsertRows` once
per table for MySQL). `Raise` may come at each of them, as may `Crash`, which also releases
the file lock as the operating system does, and `LeaseTimesOut`. The file is a sequence of
pieces of records, a piece being whole, torn after its delivery id, or cut before it: what
the search for a delivery id can tell apart. A Redis script is atomic and its reply may be
lost. A sink that is no longer configured (`"removed"`) can only raise.

`Holds` says which groups of rows `project_legacy_result` makes of a result: result rows,
dimensions, child tasks, product tasks. The sinks do not take the same: the MySQL writer inserts
every group, the Redis script pushes dimensions and result rows, child tasks only when there are
no result rows, and product tasks never (`Pushable`, `infra/legacy_compat.py:423`). And the JSONL
sink takes a torn piece that still shows the delivery id for the record it looks for.
`DeliveredIsPublished` is therefore stated per sink and says no more than that a delivered row
has there what the sink takes; what becomes of torn pieces is the question of `torn_record`.

### Fetch

A task is suspended only at an `await`, so a step goes from one to the next: waiting for
the leases (`Acquire`), passing the circuit (`Refuse`, `Admit`), the limiter's lock
(`TakeTurn`), its sleep (`Wake`), the request (`Redirect`, `Respond`, `Rejected`,
`Unusable`, ...), and, in the plugin, the parsing of the page (`Parsed`). The circuit learns an
outcome before `fetch` waits for the providers to be told theirs, so that the report is a phase
of its own (`Reporting`, then `Report` and `Return`) in which a task may be cancelled. `Cancel` is
a cancellation inside the `try` statement of `fetch`, which reports a failure, for a fetch that
was reporting a redirect it does not follow the second outcome of one request; `Abandon` is one
outside of it, of which nobody is told.

Abstractions:
- A response is reduced to the outcome the code derives from it; headers, bodies and
  evidence are left out.
- Failures are counted up to the threshold, since the code only compares them with it.
- The interval of the limiter is positive (with 0 or less the code skips the limiter).
- `spaced` holds the hosts whose last request is the interval ago: a sleeping task is
  `rested` when the delay it computed is over, and it computed it from the last request
  of its host.
- A lease the provider does not know (any more) is not part of this module.
- `probe` in a task is a history variable: it says whether a fetch was admitted through an
  open circuit and whether its host has reported an outcome since.

### ProxyPool

`acquire` first looks for a free proxy without the lock (`AcquireFree`) and takes the lock
when there is none (`AcquireWaits`); under the lock it looks again (`FindFree`,
`FindCooling`) and only then asks the extraction service (`Lock`, then `Load` or
`LoadFails`). A task is suspended while it waits for the lock and while the service answers,
and nowhere else. `HandOut` is `_take_available_locked`: the first free proxy goes, with the
quarantined ones before it, to the end of the queue. `Report` is the provider's `report`, and
`Cancel` a cancellation at either await or of the fetch itself.

Abstractions: the three clocks (`_quarantined_until`, `_load_retry_after`) are kept as
whether they are still to come; the proxies a load returns are any set, in any order; a load
that returns no valid proxy is `LoadFails`, as in the code. `owed` is a history variable: it
holds `<<p, q>>` while `q` has been free ever since `p` was last handed out.

### CookiePool and CookieHarvest

Redis is read by `asyncio.to_thread`, so the cache that a load replaces is not the one it
started from. A load is therefore three actions: `EnterRefresh` or `EnterLookup` takes the
lock, `Read` is the thread, `ApplyRefresh` or `ApplyLookup` runs on the loop afterwards. `SCAN`
promises only the keys that are present from its begin to its end, and `MGET` returns no key
that has expired, so `Read` returns any set of stored cookies that holds those. `Search` is the
common end of `acquire`. A miss is remembered for a period (`missed`, `MissElapses`); a
cancelled load leaves the lock to the next and its result to nobody.

`CookieHarvest` composes it with `ensure_capacity`: count (`BeginFill`), attempts in rounds
(`Save`, `Reject`, `NextRound`), a second count (`Counted`, `CountFails`), and, if anything was
created, the `refresh` of the provider of the fetches, which is the same code that the fetches
run (`Refreshes`). A failing store leaves `asyncio.gather` at once while the other attempts go
on: they become `strays`, whose cookies are stored after the call has raised. Other processes
store cookies as well (`StoreElsewhere`), and stored ones expire.

Abstractions: all cookies are of one marketplace (the cache has one entry per marketplace and
the entries do not meet); the key of a cookie is new each time, as the harvester makes it; an
attempt's dialogue with the site and its semaphore are reduced to how the attempt ends; the
counters of `health` are left out. `blocked` and `dropped` are history variables: the cookies a
fetch has reported blocked less than `quarantine_seconds` ago, reports that are ignored included,
and those a refresh has removed from the cache. `MaxStrays` bounds how many attempts may be astray when a
fill begins.

### PageTasks and ScopedRunner

`PageTasks` is what happens between a claim and its report. A page is what the classifier and
the parser find in it: the signs (`blocked`, `missing`, `temporary`) that the markers of
`plugins/response_policy.py` stand for, its shape (whole, partial, ...), and its rows.
`PageIssue` and `ShapeIssue` are the classifier, in its order, which differs between the kinds
of tasks; `Judged` is what `execute` does with the answer; `Report` tells the cookie and the
proxy, writes the evidence and returns. Evidence that cannot be written raises, and where it
raises decides what becomes of the item (`EvidenceRaises`).

A rank list continues: `FirstPage` announces chunks of products, each of which is a task of its
own (`EnterStream` past the semaphore, `StreamFails` or `StreamPage`, `StreamReport`), gathered
by `Gathered`, or by `GatherRaises` when one raised, which leaves the others running with nobody
to wait for them. A merchant's pages and the products on them become follow-up items, so that
a root grows into a tree whose items are named by their paths.

`ScopedRunner` follows such a tree: `Discover` (one `list_events`), `Read` (one `get_job`),
`Decide`, `Process` and `PassBy` (one `process_one`), and at the end a second reading and
`Collect`. Each is one hop to a thread; between two of them other slots claim and complete, and
an operator pauses and resumes jobs.

Abstractions: leases, lost claims and backoffs are in `CrawlJobs`, and an item to be tried
again is simply pending. Products are numbers, and a row of a rank list one
number for its product and its rank, by which the code tells equal rows (`Unique`). The first page
of a rank list and its chunks are answered with any of the rows of `RankRows`, in any order,
repeated or not, whether asked for or not, since neither `load_chunk` nor the parser compares
them with what was asked for. The pages of an earlier attempt are forgotten when the
next one is claimed, unless a chunk of it is still under way. A job of the tree has fewer
events than `list_events` returns at once (500). Deliveries at the end of `run_scoped_job` are
those of `Delivery`. `others` is a history variable: the items that other slots completed since
the runner last listed the events of their job. Those are the ones whose follow-up jobs it may
not know; `LineageFollowed` says that it misses no more than these, and `missed_followup` shows
that it does miss them.

### McpCalls

`MCPExecutionPolicy.__call__` for the calls of one actor. `Receive` starts the insertion of the
audit row and suspends; `NotAudited` is its failure. `Deny` and `Admit` run from the end of that
await to the next one: `begin`, `require_scope`, `consume` and the first look at the semaphore,
all without suspending, since the locks in them are never held across an `await`. `Proceed` and
`TimeOut` end a wait for a slot; `Handle` is the end of the tool, with the `finally` of the gate
and the beginning of that of the call; `Finish` is the end of the latter. Cancellations are
`CancelStart` before `begin`, `Cancel` in the `try` statement and `CancelFinish` in the
`finally`. `Write` is the thread that writes an audit row: it may fail, and it goes on after its
caller was cancelled, so that it may write long after the call has ended.

Abstractions: the bucket holds whole tokens, since `consume` only asks whether there is one;
`TimePasses` adds one. Tools are reduced to how they end. Samples and latencies are left out.
The semaphore is asyncio's, which hands a freed slot to the first waiter; a slot handed over
and not yet taken (`granted`) is given back when the waiter times out or is cancelled.

### McpApprovals and McpListings

`McpApprovals` is production mode, where the instance lock lets one server process run at a
time. An operator issues receipts (`Issue`); a tool call verifies and consumes one in a single
step of the event loop (`CallApproved`) or needs none (`CallFree`), and its operation runs in a
thread later (`Operate`), or never (`GiveUp`, `Crash`). `Start` prunes the consumed receipts,
as the server does when it starts. `CreateJob` looks for a job under the storage key, which is
made of the tenant and either the caller's key or a digest of the request.

`McpListings` reads one listing by cursors. `Stamp` and `Commit` are two steps of
`complete_item`: it reads the clock before its transaction begins, so that rows are not
written in the order in which they are listed. `Loaded`, `Emitted` and `NextCursor` are the
query, `_bounded_page` and the next offset.

Abstractions: an operation carries its digest, which is stable (a `product_time` creation without
a key, which draws a new one each time, is a creation under a key of its own); sinks are
"local" (no approval) or "external";
sizes of rows are small numbers, one of them larger than a page.

### ParityEvidence

Each command of the chain is started by an operator at any time: a collector executes the plans
of `Work` in the order in which they are listed, `Merge` takes any set of batches, `BuildReport`,
`StartCompiling`, `CompileCookie` and `StartPromotion` take the files as they are. What a command
does in several writes is several steps: the compiler empties each file before it fills it
(`OpenArtifact`, `WriteArtifact`), the promoter reads each pair of files twice, and then all of
them a third time from the candidate manifest (`ReadReceipt`, `ReadComparison`, `ReadCookie`,
`GateComparison`, `ReplaceManifest`). `EditSource` changes the source tree whose fingerprint binds
the files, and `Killed` ends any command.

Abstractions: payloads are reduced to what the gates decide on, how the V2 plugin ended and
whether the legacy rows agree; a hash stands for the content it is of. Checks of schemas, of
paths and for secrets are left out, since every file is one that the commands wrote where the
code expects it, and so are the time stamps (`validated_at`). Of a campaign, the check that a
target file does not exist yet is left out: a command runs once, and no other command is given
the file of a campaign's plan (`ParityConstants`). Only the exporter of batch plans marks a join
historical, when its fallback is allowed, so that no other plan is historical.

## Runs

Each run asks one question. `tlc -config X.cfg M` repeats it.

| Run | Configuration | Asks | Instance |
|---|---|---|---|
| `jobs` | `MCCrawlJobs.cfg` | are jobs, items, counters, results, outbox and events consistent after every transaction, and does the store keep its contract? | a job of two items whose first may derive a job of one item; two slots under one owner name; three claims, two attempts; one sink |
| `deliveries` | `MCDelivery.cfg` | is a result published once to each sink, and never called delivered before the sink has what it takes of it? | one result with result and product rows for a file, Redis and two MySQL tables; two slots under one owner name; two attempts |
| `work_ends` | `MCWorkEnds.cfg` | are control requests settled, and do jobs and deliveries end, whatever the sinks do? is the extraction service asked only when it must be, is the load shared evenly, and does `acquire` end? | one job of two items with three claims and two attempts, or one delivery to a file with three attempts, each with two slots; or two fetches and three proxies |
| `torn_record` | `MCDeliveryTorn.cfg` | can every delivered record be read back? (no) | two results for one file |
| `fetches` | `MCFetch.cfg` | are circuits sound and requests apart, and does every fetch end? | two tasks, one site under two names, one proxy, a threshold of two, one redirect |
| `two_probes` | `MCFetchProbe.cfg` | does an open circuit let out one probe at a time? (no) | two tasks, a cookie and a proxy, a threshold of one |
| `cookies` | `MCCookieHarvest.cfg` | do fetches see what a fill created, do blocked cookies rest unless they were dropped, does a fill try only for what is missing, do callers read Redis one at a time? | two fetches, one fill of two rounds, two cookies, one postal code |
| `quarantine_cut` | `MCCookieHarvestBlocked.cfg` | does every blocked cookie rest before it is handed out again? (no) | the same |
| `parity` | `MCParityEvidence.cfg` | does a complete manifest rest on passing observations of every kind and case? | three kinds, one of each family; a run in batches with a campaign, a run in one piece, and a join that must not be merged; one mishap |
| `pages` | `MCScopedRunner.cfg` | are leases told the truth, items given up rightly, rank lists complete, and does the runner return with the truth about its tree? | eight roots, one of each shape; two slots, two attempts, a rank list of three products in chunks of two, merchants of one and two pages; one pause, one lost evidence file |
| `missed_followup` | `MCScopedRunnerMissed.cfg` | does a runner that says terminal know every job that follows from its root? (no) | the same |
| `mcp_tools` | `MCMcpTools.cfg` | are the in-flight count, the run slots and the audit table right however calls end; do receipts and keys hold; do listings lose rows? | three calls, one run slot, a burst of two; three tool calls, two receipts, two tenants, one key; three rows in pages of two, as many as one call returns of events |

The type invariants are not repeated in the runs: they are theorems, as far as a module has them.

Why the bounds are enough:
- Two slots are what it takes to race for one row; that they share an owner name is the
  worst case, since then only the token tells them apart. The slots are interchangeable in
  these runs, which is why they may be declared symmetric (no liveness property is checked
  under symmetry).
- Two items are what it takes for a job to be neither untouched nor over, and for
  `checkpoint_seq` to differ from the number of settled items. The derived job is itself a
  job, so one level of derivation meets all the code; a second level would meet it again.
- Two attempts allow one retry and then the last attempt; a third claim, which only a lost
  lease brings about, is one more than the retries allow. The delivery of `work_ends` has three
  attempts, so that one in between is neither the first nor the last.
- Two tables allow a failure between two commits; two deliveries for one file allow a record
  to follow another's torn one.
- In `fetches` a threshold of two lets failures of both tasks meet below it, at it and above
  it; two names of one site make the redirect go through the limiter under another host.
  The run that looks for one trace uses a threshold of one and gets there sooner.
- In `work_ends` the three models share no state; a behaviour is about one of them (`about`), and the
  fairness of the two others asks nothing of it, since they stay as they began with all their
  fair actions disabled.
- Three proxies are needed for one to be overtaken by another while a third is handed out;
  two tasks for one to wait while the other loads.
- In `cookies` two fetches and a fill are three callers for each lock: one holds it, one
  waits, one changes the cache. Two rounds are the first and one more; two cookies allow a
  deficit of which one attempt succeeds and one does not. Fetches are interchangeable and so
  are cookies. No fill begins while attempts are astray here (`MaxStrays = 0`), but they go on
  through its predecessor's refreshes and the fetches.
- In `parity` three kinds are one of each family of collectors, and the fewest for which a
  matrix of kinds and cases can be covered by batches of different tools. `MaxTrouble = 1`
  counts together the scenarios that end otherwise than planned, the edits of the source and the
  kills: one at any place is what each gate is there to stop. The commands run once and in the
  order in which they are listed; one promotion succeeds. Nothing forces the operator to go on,
  so the run stops rightly when the list is done (no deadlock check).
- In `pages` three products in chunks of two make a full chunk and a short one under a
  concurrency of two (`RANK_STREAM_CONCURRENCY`). The mishaps (`MaxTrouble`, fetches that fail and
  pages that are not usable) are three where the tree is one item, enough to use up the attempts
  of two, and fewer where it branches. The tree of a rank list meets no other slots and no
  operator (`shared`), since its interleavings are those of its chunks. The runner returns and
  everything stops (no deadlock check).
- In `mcp_tools` three calls are one that holds the slot and two that wait, of which the first may
  leave just when it is given the slot; a burst of two lets the bucket be empty, full or between.
  Two receipts, a `Ttl` of one and a clock of two let a receipt be valid, consumed, expired and
  pruned while another is in use; two tenants share one key. Rows of sizes 2, 3 and 5 under
  a budget of 3 let a page be cut by the number of rows, by their bytes, or by a row that is larger
  than a page. The three modules share no state, so a behaviour follows one of them (`about`);
  once every call is answered or the last page is read, it stops (no deadlock check).
- `McpListings` assumes of the page size what the configuration admits (1 to 500,
  `interfaces/mcp_policy.py:343`): fewer rows than `list_results` and `list_deliveries` return at
  most (1000), and at most as many as `list_events` does (500). A page of 500 events is therefore
  part of the model and of the theorems. It ends the listing without the `next_cursor` that
  `src/README.md:648` speaks of, and `PagesComplete` says exactly what is lost by it: events that
  are older than all that were shown, in that one case. In the run pages of two events are as
  long as a call returns, those of the other listings half as long.

Findings, that is places where a document and the code disagree and that a run shows
(`PROJECT.json`, "findings", has the lines and the quotations):
- `torn_record`: a record cut short swallows the record that is appended to it.
- `two_probes`: a late failure of a fetch admitted earlier clears `probe_in_flight`, and a
  second probe goes out beside the first.
- `quarantine_cut`: a refresh that applies an older read drops a cookie from the cache, and its
  quarantine, or the report that it is blocked, is lost with it.
- `missed_followup`: the runner lists a job's events before it reads its status, so that a job
  which another slot creates in between is not in the lineage it calls terminal.

Four more were met while modelling, and have no run of their own: an item whose lease keeps running out is
claimed again without end (`infra/sqlite_store.py:563`, where `src/docs/OPERATIONS.md:13` has a
retry limit), which is why `MaxClaims` has to bound it; and a fetch that was refused and sent
nothing reports a success for its leases, which ends a quarantine another fetch has just put
them into (`infra/http.py:404`); a job whose cancellation is settled by the report of its last
running item gets no `job.cancelled` event, which no document promises (`EndAnnounced` says so);
and a page of 500 events has no `next_cursor` though there are more (`PagesComplete` says so).

## Fairness

Safety is checked without any. The liveness properties assume:
- `CrawlJobs`: slots keep claiming, and end what they claimed (`Worker` bounds no execution
  itself, but every request a plugin sends has a timeout and every page loop a limit); a
  supervisor restarts a process that died; a backoff ends; a lease that nobody holds runs
  out. A lease somebody does hold may or may not run out, and a slot may or may not crash.
- `Delivery`: the same of its slots and clocks. Nothing is assumed of the sinks: a publish
  may raise every time.
- `Fetch`: weak fairness of a task that can go on (its report included), since the event loop runs every ready
  task and every send has a timeout; strong fairness of `TakeTurn`, since an `asyncio.Lock`
  wakes its waiters in the order in which they came, so that no waiter is passed over again
  and again; weak fairness of the limiter's interval, since time passes.
- `ProxyPool`: strong fairness of entering the lock, for the same reason; weak fairness of a
  load's end, since the extraction client has a timeout. Nothing is assumed of quarantines,
  cooldowns or reports.
- `ScopedRunner`: weak fairness of the runner's own steps, of executions and of chunks, for the
  reasons given for `CrawlJobs`; strong fairness of `Process`, since the runner comes back to
  every open job in each round and the others cannot be first every time. Nothing is assumed of
  the operator, and the runner's time need not run out.

## Proofs

Checked by `tlapm`, for every value of the constants that meets the modules' assumptions.

`CrawlJobsProofs` (assumptions of `JobDb` on its constants):
- `TypeCorrect`, `Spec => []TypeOK`. `TypeOK` alone is not inductive, since a token is an
  attempt number of the item it belongs to.
- `LeaseExclusive`, `Spec => []OneLeaseHolder`, and `ResultsWithLastClaim`,
  `Spec => []ResultsAtomic`. The invariant is
  `LeaseInv == TypeInv /\ RowsSound(db) /\ TokensDistinct`. `TokensDistinct` says that two
  slots never work under the same token of the same item, even long after one of them lost
  its lease, and that a token is at most the item's number of attempts, so that the next
  claim's is fresh. `RowsSound` says of every item's row how its status goes with its
  result, its outbox rows and its token; it is a predicate of the database, so each method
  of the store is shown to keep it by a lemma of its own, whoever calls it.

In the same module, about what a job says of its items:
- `StatusMatches`, `CountersMatch`, `FollowupsSound` and `AnnouncedSound`, from
  `StatusInv == LeaseInv /\ JobsSound(db) /\ FollowSound(db)`. `JobSound` puts the properties of
  one job together and adds what makes them inductive: a job that does not exist has neither
  items nor events, and one that is not over has announced nothing.
- A transaction that settles an item leaves its job for a moment with stale counters and,
  maybe, without an open item: `Unrefreshed`. `RefreshSound` takes such a job to a sound one and
  `ReconcileSound` keeps all jobs sound, so that `Complete` and `Fail` are the same argument
  (`WrapUpSound`) after different beginnings. `CheckpointSound` is what `checkpoint_seq` means,
  for jobs of any size.
- Derived jobs need that what has succeeded stays so (`Preserves`, `FollowKept`) and that only
  an insertion makes a job (`SameCreated`).
- `ContractKept`, the refinement of `JobContract`. `PhaseIn` and `OutcomeIn` are the contract's view
  of a database, and `Moves` says what a transaction may do to one job in that view. What ends a
  transaction (`WindsUp`: a refresh, a reconciliation) extends a move to a move
  (`WindUpAdvances`), so that each method needs a lemma for its beginning alone. `Moves` leaves open
  whether a job is over after the step; `JobSound` of the database it leads to settles that
  (`VerdictView`), and with it every move is one of the contract's (`MovesLawful`).
- `StartsInOrder`, an action property. Only `ClaimItem` counts an attempt (`NoStart`); the job it
  takes from was startable before leases were recovered and requests settled
  (`StartableBefore`), and the item it takes is the first of its job (`FirstOfJob`).

`DeliveryProofs` (assumptions of `Delivery` on its constants):
- `DeliveryTypeCorrect`, `RowsMoveOn`, `OneReports`, `NothingPublishedTwice` and
  `DeliveredWasPublished`, from `Inv == TypeOK /\ OutboxSound /\ FileSound /\ PhasesSound`.
  `OutboxSound` says of tokens what `TokensDistinct` does of those of items. `FileSound` ties the
  file lock to the phases between `Lock` and `Unlock`: the search for a delivery id and the write
  that follows it are then one holder's, so that two slots that both believe to own a row, which
  leases allow, cannot both append it: no two pieces show one delivery id. `ScriptSound` says
  that the marker of a delivery stands for what the script pushes of it. `PhasesSound` says what a slot that has come so far has
  brought its sink to hold, which must be known when it reports, however long ago it was.

`FetchProofs` (the named assumptions of `Fetch`, all on its constants):
- `TypeCorrect`, `BreakerAlwaysSound` and `RequestsPaced`, from
  `Inv == TypeOK /\ Placed /\ BreakerSound /\ LimiterSound`. `Placed` says that a task that
  does something has a host. `LimiterSound` says that the sleeper is the holder of the lock,
  and that one who has slept long enough sleeps for a host whose interval is over: nobody
  else can have sent a request to it meanwhile, because the lock is held. Without that,
  `RequestsPaced` could not be proved of `Wake`, which does not look at the clock again.

`ProxyPoolProofs` (finitely many proxies):
- `TypeCorrect`, `LoadsOnlyNeeded` and `TurnsShared`, from
  `Inv == TypeOK /\ LockSound /\ OwedSound`. `LockSound` says that exactly the task that loads
  holds the lock. `OwedSound` says that a proxy which is owed a turn is free and stands in the
  queue before the one it is owed to; the first free proxy is then never one that owes. It is
  kept because a rotation moves only the proxy handed out and quarantined ones behind the
  others, and because a load appends: `RotatedQueue` and `AppendedQueue` say so of queues.

`CookieHarvestProofs` (finitely many cookies; fetches and fills are different callers):
- `TypeCorrect`, `QuarantinesSound`, `FillsBounded`, `HarvestStaysVisible` and
  `LoadsOnlyNeeded`, from an invariant of eight parts. `RestsUnlessDropped` needs that a cookie in quarantine is in the
  cache, and one in use there or dropped from it (`Rested`), so that a report which is ignored is of
  a dropped one. `HarvestVisible` alone is not inductive:
  a refresh that is under way will replace the cache. `Visible` adds that every refresh under
  way also covers what a finished fill has made, which holds because a fill finishes with a
  refresh of its own, under the same lock, so that none under way began before it
  (`LockSound`); and `MadeOld` that what a fill has made was stored and is not stored again.
- The steps of the pool, by whichever caller, are summed up in one predicate, `Effect`, from
  which `CallKeeps` derives the invariant once.

`ScopedRunnerProofs` (the named assumptions of `PageTasks` and `ScopedRunner`: the ranges of the
constants, that no code of a failure is `NoCode`, and that the root's job is named by no path):
- `ReportsAreFair`, `ItemsAreGivenUpRightly`, `RankRowsAreSound` and `LineageIsFollowed`, from
  `TreeInvariant`, `ScopedSpec => []TreeInv` with `TreeInv == PagesInv /\ RankInv /\ RunnerInv`. None of the
  four is inductive. `PagesInv` follows a page from its reading to the end of its item: what an
  execution holds agrees with the page it read (`HeldInv`), what was reported of a page is one
  verdict and a true one, unless its attempt still runs (`ReadInv`), a chunk has the rows of its page or a failure, and belongs to the attempt that waits for it or to one that left it
  behind (`StreamInv`), and an item that is over deserved its end by its last page (`EndInv`).
  Since page ids hold the number of the attempt, a chunk left behind meets no later attempt
  (`NotNow`).
- `RankInv` follows the rows of a rank list: what an execution has merged so far is what the pages
  of its attempt showed, in the order of the list. Which of equal rows is kept is explicit
  (`Firsts`, `Picked`, `Ascending`: `CHOOSE` by counting), so that what is returned is proved from
  the theorems about finite sets (`Least`, `AscendingSound`, `UniqueSound`). `FlattenPlaces` says
  where each row of a concatenation comes from, by the least length for which it would not hold
  (`FlattenUnfolds` shows in the same way that the recursive function of `FlattenSeq` exists), and
  `MergedSound` puts the two together: nothing is assumed of the rows themselves.
- `RunnerInv` says that a reading which found a job over stays true (`StatusTrue`), and that what follows from a job is known, or was completed by others since its events were
  listed (`Explored`), from the moment the runner has discovered beyond it. `OthersStep` shows that steps of other slots keep both.

`McpToolsProofs`, about `McpCalls` (finitely many calls; at least one slot and one token):
- `TypeCorrect`, `CountExact`, `GateExact`, `AuditedFirst` and `AuditedCompletely`, from
  `Inv == CallsSound /\ CountSound /\ GateSound /\ tokens \in 0 .. Burst`. `CallsSound` says of
  every call what its phase and its thread leave possible for its audit row and its answer, in
  particular that a thread which still runs after a call has ended belongs to a cancelled one.
  `GateSound` adds to `SlotsSound` that each waiter is in the queue once; without it the removal
  of one that times out could leave it there. `MoveKeeps` reduces every step to what it does
  with one call, a slot handed over included.

About `McpApprovals` (any number of calls, receipts, tenants and keys, and a clock without
bound if `MaxTime` is any number):
- `ApprovalsTypeCorrect`, `ApprovalsHold` and `KeysSound`. `ReceiptsHold` is not inductive, since a
  restart forgets consumed receipts; `Spent` adds that the row of a receipt that let a call through
  is there until the receipt has expired for good, which is what pruning by `expires >= now`
  amounts to. `KeysNameJobs` needs that no two jobs have one storage key, and that a call which
  was told a job was told one stored under its own key (`Told`); the key names the tenant
  (`KeyTenant`), so that no creation can meet another tenant's job.

About `McpListings` (any page size the configuration admits, sizes and budget positive):
- `PagesAreComplete`, from `ListingInvariant`. The cursor is a place in the listing, so the
  invariant speaks of the place of a row (`Place`, the number of rows before it, which is shown
  to number the rows without gap) and of those behind the cursor: a row of the first listing is
  shown or behind, and of the results a row that is neither has been overtaken (`ReadingSound`).
  A row that is written pushes others back and never forward, except in the order of stamps,
  where it may come before the cursor; that is when it counts as late. `PageFacts` says what a
  page is, also one cut short by its bytes: a stretch of the listing from the cursor on that is not
  empty while rows are left, and that reaches the end of the listing if it says so, unless it is a
  page of events as long as one call returns. `Rear` then says what such a page loses: all that is
  left of the first listing comes after all that was shown.

`ParityEvidenceProofs` (the named assumption of `ParityEvidence`: plans are finite, only exported
batches are historical, and no other command writes the files of a campaign):
- `BundlesAreSound`, `ManifestsAreObserved` and `CampaignsAreOfOneSource`, from
  `EvidenceInvariant`. `EvidenceInv` follows the files along the chain: a batch names the source
  of its scenarios (`BatchesSound`); a bundle holds each identity once (`BundleWhole`), which
  for a merged one follows from each batch having as many identities as scenarios and any two
  having none in common (`UniqueDistinct`, `DistinctUnique`); a report says truly which
  scenarios passed, and the compiler's copy that all did (`ReportsSound`); a file of the
  evidence is missing, torn, or a comparison in which each case has one scenario that ended as
  it must (`EvidenceSound`), whichever run it is from and whoever rewrites it; the promoter has
  seen such a comparison of every kind it is done with (`PromotionSound`).
- That a passed scenario ended as planned is not what the gates compare: they compare the legacy
  state and two conditions on the case, from which `PassedEnd` derives it.
- A campaign remembers the fingerprints of what it executed. `CommandsSound` ties them to its
  files: each file of a plan it is done with bears one that it remembers, and the files of the plans
  ahead, its own and those of later commands, do not exist yet.

Only model-checked: liveness (`ControlsSettle`, `JobsEnd`, `DeliveriesEnd`, `FetchesEnd`,
`AcquireEnds`, `RunnerReturns`), which depends on fairness and is out of the prover's reach. Every
other property of a passing run is a theorem. Of the four runs that expect a violation there is
nothing to prove. The installed provers have no induction over data. Where a theorem depends on
what a recursive function computes (`FlattenSeq`), the proof argues by a least counterexample;
elsewhere no more is needed of a fold than its type (`Used` of `McpListings`, whose value only
decides where a page is cut).

## Not modelled, and why

- The alerts of `interfaces/mcp_observability.py`: an operator reads them, nothing in the program
  does, and a wrong order of two reports is corrected by the third (a hazard is listed).
- `interfaces/api.py`, `interfaces/cli.py`, `bootstrap.py`, `config.py` and the remaining tools of
  `interfaces/mcp_server.py`: they check arguments and call the components that are modelled. The
  verification of tokens is a function of the token and the configured keys.
- The extraction of fields by the parsers (`plugins/*_parser.py`) and `normalize`: functions of one
  page, without state; `PageTasks` takes every outcome that a plugin tells apart.
- Metrics, health counters and the listing of jobs: they change nothing that another operation
  reads.
- The projection of results onto legacy rows: column by column, without a decision that another
  part depends on. The importer of legacy tasks creates jobs as any client does.
- The static and routed providers of `infra/resources.py`: constants, and a choice among the
  providers above by marketplace.
- The audits and one-off scripts of `src/scripts` read files or tables once and print a report;
  none keeps state that another part reads.

## What could follow

- A fetch that is cancelled as the probe leaves its circuit shut, and one that sent nothing ends a
  quarantine: both steps are in `Fetch`. No document says what should be, so there is nothing yet to
  state; the same holds for a promotion that takes its receipts from several runs.
- The importer of legacy tasks and the alerts would each be a small module of their own.
