# VulnScan in TLA+

VulnScan checks files that users upload: a gateway accepts a file, a worker runs
it through detectors and rebuilds it without active content, a notifier tells
the client, a writer keeps the history. The services share nothing but Redis and
an object store. This directory models the parts of that system whose
correctness depends on the order in which things happen, checks the models with
TLC, and proves the most important facts about them with TLAPS.

Source paths below are relative to the repository.

## 1. Inventory

| Part | Source | State it keeps | Operations |
|---|---|---|---|
| Job queue | `packages/vscommon/queue.py` `JobQueue` | Redis stream, consumer group, pending list with delivery counts | publish, consume, ack, pending, claim |
| Heartbeat | `queue.py` `Heartbeat` | key `inflight:<entry>` with a TTL, one refresher task per handler | keep (beat, refresh, clear), alive |
| Attempt journal | `packages/vscommon/journal.py` | key `attempt:<scan>`: attempt number and stage | load, begin, mark, finish |
| Result channel | `queue.py` `ResultChannel` | key `status:<scan>`, pub/sub channel | publish, wait, store_status, load_status |
| Dead letters | `queue.py` `DeadLetterQueue` | capped stream | publish, recent (paged), size |
| Worker | `services/worker/worker_app/main.py`, `reclaim.py`, `failure.py` | semaphore, handler tasks, sweep in progress | consume loop, sweep loop, reload loop, `_handle`, `_abandon`, `_deliver` |
| Pipeline | `worker_app/pipeline.py`, `stages/`, `archive.py` | scan context, archive budget | stages with time limits, early exit, expansion of archives, CDR |
| Rules of our own | `worker_app/stages/yara_rules.py`, `packages/vscommon/rules_control.py` | compiled set, candidate, marks of the files, switched-off rules, a lock | run, reload, candidate, apply switches |
| Risk engine | `packages/vscommon/scoring.py`, `weights.py` | weight table | verdict and score from findings, failures, policy |
| Verdict cache | `packages/vscommon/cache.py`, `gateway_app/ingest.py` `_lookup_cache`, `main.py` `_store_cache` | structural entries, antivirus entries, published engine and rule versions | get, put, assemble |
| Gateway | `gateway_app/ingest.py`, `routes/scan.py` | registry of scans in progress, owners, per-tenant slots, rate buckets | ingest, claim, acquire, publish, wait, poll |
| Limits | `packages/vscommon/ratelimit.py`, `quota.py`, `tickets.py` | sorted set of slots, window counters, day counters, one-time tickets | acquire, release, check, spend, redeem |
| Notifier | `services/notifier/notifierapp/main.py`, `sender.py`, `dropoff.py`, `queue.py` `TaskStream` | callback stream, delivery stream, two sorted sets of retries | consume loops, retry loop, send, put |
| History writer | `services/writer/writerapp/main.py`, `db.py`, `usage.py` | batch in memory, PostgreSQL table | consume, flush, timer, stop, purge |
| Browser upload | `gateway_app/widget/`, `routes/widget.py`, `tickets.py`, `quota.py` | the frame's page, one-time tickets, tickets to watch a scan | choose, issue, redeem, poll |
| Operations | `routes/ops.py`, `routes/admin.py`, `allowlist.py`, `keys.py`, `policy.py`, `provisioning.py`, `rules_control.py`, `canary.py`, `shadow.py` | allowlist entries, key and policy registries and their reloads, switched-off rules, canary and shadow ledgers | put, remove, reload, record |
| Deep role | `worker_app/deep.py`, `main.py` `_deliver_deep` | second job stream | deep_reason, enqueue, deliver a second verdict |
| Rebuilding files | `worker_app/cdr/`, `ooxml.py`, `stages/*_structure.py`, `yara_views.py`, `sandbox.py` | none outside a scan | parsers and writers of PDF, Word, images, ZIP |
| Clients, mirror, deployment | `packages/vulnscan_client`, `services/cvdmirror`, `deploy/`, `examples/` | retry counters, metrics | HTTP clients, exporters, manifests |

### How the parts interact

The gateway answers from the cache, or claims the file's hash (one scan per file
in progress), takes a slot of the tenant, adds a job to the stream, records the
owner and waits on the result channel for at most `wait_ms`. A worker reads the
job, keeps a heartbeat while it works, writes a mark into the journal before each
stage that runs C code, and publishes: history record, status, signal, cache
entries, release of the slot, callback task, delivery task, and only then the
acknowledgement of the entry. Every worker also sweeps the pending list: an entry
that was idle for `min_idle` and has no heartbeat is claimed and handled again,
or, over the delivery limit, given up as a dead letter. The notifier and the
writer read their own streams.

### What is hard here

* **Interleaving.** Two workers may hold the same scan, several gateways the same
  file, two notifiers the same retry. Everything between two Redis commands is a
  place where others run.
* **Crashes.** C parsers kill the process that runs them. What a process held in
  memory (a job read and not started, a claimed job, a retry taken from the set)
  is gone; what it wrote before is still there.
* **Time.** A heartbeat expires, an entry becomes idle, a slot goes stale, a
  client stops waiting, a retry becomes due; each races with the event it stands
  in for.
* **Partial failure.** One outcome is eight writes to Redis, some of which swallow
  their exceptions.
* **Stale reads.** The sweep, the journal, the cache versions and the clock are
  read before an `await` and used after it.

### What makes each part correct

| Part | Properties |
|---|---|
| Job loop | acknowledged means answered, recorded and notified; a manual status has its dead letter; `PARSER_CRASH` is true; one parser per file; kills by one file are bounded; every job is closed; slots come back |
| Gateway | one job per claimed file; whoever is told to come back has a job and may read its scan; what runs holds a slot; a refusal leaves nothing behind; no wakeup is lost |
| Notifier | a manifest never precedes its file; a task is attempted a bounded number of times; it is lost only with the memory of a loop that ended; every task is closed; what is given up reaches a human |
| Writer | acknowledged means in the database; what is read is accounted for, and held once; a row shows the latest record; a scan is billed once; what was taken is stored |
| Pipeline | clean means checked to the last entry; an archive that was left half-way is blocked; what is published follows from the facts published with it; the copy fits the verdict; one budget for the tree |
| Rules | a scan is the work of one set; a set is the one its version names, or the next tick finds out; edits and switches come to be in use |
| Cache | a verdict from the cache is the verdict a full scan of the same file would give this tenant; a failure is not forgotten; versions that are not renewed fade |
| Rebuilding | what is handed out is quiet for the stages that read the upload, but for a PDF they could not walk; what is ordinary is handed out, but for what a sanitizer stumbles over unannounced; archives are complete, documents whole; both passes over fields agree |
| Keys and trust | the file of keys counts whatever happens to the store; no administrator comes out of the interface; trust is one's own; replicas converge |
| Browser upload | a ticket opens one upload; the quota holds; the field names a scan that bears it out; every visitor is told an outcome |
| Rate of requests | no double burst where two windows meet, but for calls under way; a refusal has its reason; who has a counter to himself and waits as told is served |

## 2. Plan

| Step | Modules | State |
|---|---|---|
| 1 | `AtLeastOnce` (abstract queue), `Worker`, `MCWorker`, `WorkerProofs` | done |
| 2 | `Notifier`, `MCNotifier`: two streams, two sets of retries, two processes, crashes | done |
| 3 | `Gateway`, `MCGateway`, `GatewayProofs`: claim, slots and their clock, job, owner, wait | done |
| 4 | `HistoryWriter`, `MCConsumers`: batch, two flushers, acknowledgement after the commit, stop, kill, pruning | done |
| 5 | `Scoring`, `Pipeline`, `MCStages`: risk engine, stages and the threads that outlive them, tree of archives | done |
| 6 | `RuleSet`: compilation, reload, candidate and switches under a lock that not everything takes | done |
| 7 | `VerdictCache`, `MCAnswers`: two halves, their versions, antivirus-only pass, trusted files | done |
| 8 | `FileTypes`, `PdfDocument`, `WordFields`, `WordStory`, `WordPackage`, `Sanitizers`, `Rebuild`: detection, analysis, rebuilding, check | done |
| 9 | `AccessKeys`, `MCAccess`: registries, policies, administrators, list of trusted files, several gateways | done |
| 10 | `BrowserUpload`, `RateWindow`, `MCBrowser`: widget, tickets, quota, rate | done |
| 11 | `AccessProofs`, `BrowserProofs`, `ConsumerProofs` (notifier and writer), the second half of `WorkerProofs` | done |
| 12 | `EngineProofs` (rules), `PipelineProofs` | done |
| 13 | proofs for `VerdictCache` (in `EngineProofs`), `RateWindow` (in `BrowserProofs`) and the scores of `Pipeline` | done |
| 14 | `DocumentProofs`: fields, files by themselves, the names in an archive | done |
| 15 | deep role (a variant of `Worker`), paging of dead letters | later |

Every safety property that a run checks is a theorem now, but for the three about
trees of archives (section 5, "Only model-checked"). What would come next is an abstract
"one verdict per file" that `Gateway` and `VerdictCache` implement together, the
natural counterpart of `AtLeastOnce`; it needs `Worker` behind the gateway.

Runs are few, and two models of one topic share one where both ask for the same
kind of answer: the `MC` module then starts in one model or the other, and pins
the other one to a single state. A property of a run may be a conjunction of named
parts where the parts are broken by different mistakes in the same code.

## 3. Modules

### `Worker` (and `AtLeastOnce`, `MCWorker`)

One step is one Redis command, or a few that no property can tell apart. The
Redis side is `stream`, `delivered`, `aged` (idle for at least `min_idle`),
`beat`, `journal`, `status`, `history`, `dlq`, `notified` and `slot`. The process
side is `up`, `fetched` (the entry that `consume` yielded and `_spawn` holds until
the semaphore has a slot), `sweep` (what `StuckJobReclaimer.sweep` has collected)
and `task`, one record for each slot of the semaphore: its place in
`_handle`/`_abandon`, the job, how the attempt ended, the attempt number, and
whether the refresher still runs. A death empties all of them.

The places of a handler follow the awaits of the code in program order: `beat`,
`check`, `load`, `begin`, `fetch`, `parse`, `finish`, `dlq`, `record`, `publish`,
`settle`, `release`, `notify`, `clear`, `ack`. A finished scan leaves
`Heartbeat.keep` first and acknowledges afterwards, every other path acknowledges
inside; `AcksInsideKeep` is that difference.

Redis commands that raise are `CommandFails`: history, callback and delivery swallow
the exception, elsewhere it leaves the handler through the `finally` of `keep`.
A mark that cannot be written ends
the pipeline as an infrastructure failure, whose `journal.finish` still runs.
`RefresherDies` is the same for the refresher task. `Crash` is a kill from outside,
`ParserDies` the file's own doing.

Time is abstract: `Age` and `BeatExpires` may happen whenever the code's settings
allow it. Two assumptions stand for the settings (`min_idle` 30 s, refresh every
10 s, TTL 30 s): a refreshed key does not expire, and `Prompt`: an entry does not
become idle while it only waits for steps that take milliseconds. Waiting for a
full semaphore is not one of them.

`AtLeastOnce` is the promise of the queue without workers: a scan that was
accepted stays open until it is closed, and is closed only when there is an
outcome to read. `Worker` implements it; `Promise` is the refinement mapping.

### `Notifier` (and `MCNotifier`)

Each process runs three loops (`start`): callbacks, uploads, and one for the
retries of both. A loop is a record: its place, the sorted set it is at (`turn`),
what it has read and not attempted (`left`), and the task in hand (`item`). The
Redis side is `entry` (the stream entry of a task), `retry` with the members that
are `due`, and `letters`; the clients' side is `received`, `files`, `manifests`.
`tries`, `closed` and `dropped` are history: attempts, tasks that were counted as
delivered or given up, and tasks that were only in the memory of a loop that
ended.

One step is one Redis command or one attempt: `ReadStream`, `ReadDue` (ZRANGEBYSCORE)
and `Take` (ZREM) are apart because other processes come between; `Send`,
`PutFile`, `PutManifest` end in success, failure, or a failure that the other side
took for a success. `Reschedule` is the ZADD, `GiveUp` the letter, `Ack` the XACK
after either. A callback or upload that is taken from the retries has nothing to
acknowledge (`Back`). A letter is written only if the fields that the code fills in
include the ones the model `DeadLetter` requires.

`Crash` restarts a process. `CommandRaises` does what the exception does where it is
raised: it ends the callback loop and with it the process, ends the delivery loop
for good while the process stays up, and ends one turn of the retry loop.

### `Gateway` (and `MCGateway`, `GatewayProofs`)

A request walks through the places of `ingest_upload` and `_dispatch`: `lookup`,
`claim`, `get`, `claim_again`, `get_again` (the four commands of
`ScanRegistry.claim`), `clock`, `acquire`, `shed` (`ConcurrencyLimiter.acquire`),
`unclaim` (the refusal), `publish`, `own`, `subscribe`, `load`, `wait`. It ends
`answered`, `accepted` (202), `refused` (429) or `failed`. The scan id that a
request would create has the request's name, so `scan[r] # r` is a duplicate.

`claim`, `slots`, `owner`, `status`, `verdicts` are the Redis keys; `listening` and
`mail` are the subscription and the signal. A slot is a pair of the scan and its
score; the score is a reading of the clock that `Clock` takes one step before
`Acquire` sends the pipeline, which is atomic and computes the rank as the code
does. `SlotAges` stands for `stale_after_s`: the oldest slot first. `ClaimExpires` is
the TTL of a claim, `Rescan` the allowlist path that deletes it; both use up
`LapseBudget`.

Workers appear by their four effects on these keys, in the order of `_deliver`:
`Scanned`, `Store`, `Signal`, `ReleaseSlot`. How they come about is `Worker`'s subject.
A handler may stop at any place for ever, which is also how a gateway dies.

### `HistoryWriter` (in `MCConsumers`)

The reader and the timer are two flushers with a place and a batch in hand;
`fetched` is what XREADGROUP returned and the generator has not yielded, `batch` is
`self._batch`, and `rows` and `parts` are the tables. A flush takes the batch and
leaves none (`TakeEntry`, `Tick`), connects, commits or fails, and acknowledges
entry by entry; a transaction may also be committed and reported as failed
(`StoreUnseen`). `Stop` begins what SIGTERM does, `PoolCloses` and `LastFlush` may
come in either order as in the code; `Kill` empties the memory. Nobody reads the
pending list, so `lost` is what a process had in memory when it ended.

`MCConsumers` runs it, or one notifier under fairness (`topic`).

### `Scoring` and `Pipeline` (in `MCStages`)

`Scoring` holds the whole table of weights, the families, the score, the verdict,
the failure modes, the early exit and the overrides, as operators; it has no state. A score is the sum over the families of their
strongest finding, at most 100, and so depends on codes and scores alone.
`Pipeline` is one job: the `path` of files from the upload down to the member being
checked, a context for each, and one `budget` for the tree. A stage ends
(`StageSucceeds`), raises (`StageRaises`) or exceeds its limit; then it is an orphan
whose thread may write into the context (`LateWrite`) or spend from the budget
(`LateSpend`) at any later step, also after the verdict. `ListArchive` and `Inspect` are
the inventory with its limits; what it takes of an archive is the one set of entries
of which each finds room after the earlier ones (`Takes`, `Fits`), which is what the loop
of the code comes to. `todo` holds the entries to unpack as a set, and `Entry` is the
first. How deep a file lies is a constant (`Depth`) because the tree is. `Expand`, `Extract`, `Overflow`, `Unreadable`, `Adopt`,
`StopMembers`, `OutOfTime` the loop over the members, `Decide`, `Allowlist`, `Rebuild`,
`RebuildFails`, `Publish` the end. `ghost` notes what was left out, for the
properties.

### `RuleSet` (in `MCStages`)

A content of the directory stands for the set it compiles to, `stamp` for the names,
sizes and times of its files. What the code reads without the lock is a step of its
own, so a scan's first compilation (`Claim`, `FirstCompile`, `FirstStamp`, `FirstPrint`),
a reload (`Look`, `NewContent`, `Compile`, `Swap`), the candidate and the switches
interleave with edits at every await. `born` says whether an edit crossed the first
compilation, and is what the properties except. A turn of the loop ends with the
publication of the versions, which is outside its `try`: `PublishVersionFails` ends the
loop for good (`loopPc = "dead"`), and the scans go on.

`MCStages` runs it, or `Pipeline`.

### `VerdictCache` (in `MCAnswers`)

One file that is asked for again and again. A configuration is the rules and common
weights on disk, by number; a version is what the worker publishes: the
configuration it has loaded and whether the one switchable rule is off. Halves of
the cache are functions of their keys (version and weights for the structural half,
the antivirus database for the other). `Ask`, `LookStructural`, `AvHalfMissing`,
`AnswerFromCache`, `LiftFromCache`, `LiftByFullPass` are the gateway's lookup; `StartScan`
to `StoreAv` the worker's scan and what it stores; `Reload`, `Control`, `Publish` its
loop, which `PublishFails` ends for good. Each half remembers whether its scan was
complete (`whole`) and undisturbed (`steady`), for the properties.

### `FileTypes`, `PdfDocument`, `WordFields`, `WordStory`, `WordPackage`, `Sanitizers`, `Rebuild` (in `MCAnswers`)

A file is a record of what shows its type and a body: a PDF by the entries of its
graph, a Word package by its parts, types, relationships and the elements that
either pass looks at, an image by its frames and metadata, an archive by its
entries, which hold files again. Each module gives what the stages report of a body
(`PdfCodes`, `StageCodes`, `ImageCodes`, `ArchiveProblems`) beside what the sanitizer
writes (`RebuiltPdf`, `Rebuilt`, `RebuiltImage`, `Packed`) and what its own check
refuses: three lists that the code keeps by hand in different files. `Sanitizers` does
this for a file by itself (`CodesAlone`, `SanitizedAlone`, `ProblemsAlone`) and gives the
names under which an archive is written; `Rebuild` puts the archives around, by
recursion over their tree, and takes a file through detection, analysis, rebuilding
and check. `WordFields` is the automaton of the fields of a part, in both passes;
`WordStory` writes a part element by element (`Write`), in every order. Both passes
are recursive functions over the places of a sequence.

The three lists do not only name different things, they also break off at different
places. `odd` says what in a PDF is of another kind than its format has it: a number that
is none ends the walk of the stage (`WalkBreaks`), which then reports what it had found,
`PDF_MALFORMED` and what the bytes show; an annotation that is none makes the sanitizer
raise. Of an image the stage reads the header (`Opens`) and the sanitizer the pixels
(`Loads`). The name of an entry has where its path `leads`, since cleaning a name and
checking one take different things for a drive; and an archive is listed by what an
entry is, but rebuilt by the names of its members (`IsMember`). What a sanitizer
stumbles over although the stages say nothing of it is named in `StumblesAlone`.

`MCAnswers` lists the files, and runs `VerdictCache`, `Rebuild` or `WordStory`.

### `AccessKeys` (and `MCAccess`)

Each gateway has a registry of keys and the policies of the tenants. A reload is
three steps in a task of its own: `ReadFile`, `FetchKeys`, `AssignKeys`, and the same
for the policies; loops and handlers of one gateway have them at the same time. A
call is signed by a holder of a secret that was once in the file or issued
(`secrets`), is checked against the registry of its gateway, and goes through the
steps of its route: issue, revoke, change a policy, trust a file, withdraw it, list
what is trusted. `CommandFails` is a Redis command that raises, at each of them.

### `BrowserUpload` and `RateWindow` (in `MCBrowser`)

A choice is a file put into the frame; each starts a handler of its own, and a
direct upload is one by a script, with a ticket of its server or one it got hold of.
The handler asks for a ticket, uploads with it, gets a ticket to watch the scan, and
polls; `field` and `state` are what the form would send. `Lost`, `PollThrows`,
`CountFails`, `TicketExpires`, `ScanExpires`, `Revoke` are what may go wrong.

`RateWindow` counts time in ticks, several to a second: two counters for each
subject, the earlier one weighted by how much of it the last minute still holds. Who
counts where is `Subject`, by the key id in the header as the middleware and the route for
tickets take it. A call is two steps, since the clock is read (`Call`) before the commands
are sent and awaited: `Answer` counts it, in the window of the reading, whatever was counted
meanwhile. Each client sends one call at a time and has a wait of its own (`notBefore`), in
whole seconds, rounded down (`WholeSeconds`); some wait as long as they were told, the others
come when they like. `asked` and `letIn` count the calls of each window for good, `recent`
has those let in within the last window and whether they were counted late.

## 4. Runs

| Run | Instance | What it shows |
|---|---|---|
| `worker_crash` | 2 workers, 1 scan, 2 kills, 1 dead refresher, `max_deliveries` 1 | `Inv`, the invariant behind the refinement (acknowledged implies outcome, manual implies dead letter); `OutcomeIsComplete`; `LiveIsLeftAlone`; `TakenFromTheDead`; the refinement `KeepsPromise` |
| `worker_faults` | 2 workers, 1 scan that kills its parser, 1 kill, 2 raising commands | `PoisonIsContained`; `TerminalIsStable`; under fairness `EveryJobIsClosed` |
| `notifier` | 2 processes, 1 callback, 1 upload with a file, 2 attempts, 1 crash, 1 raising command | `NotifierInv`; `NothingIsForgotten` |
| `notifier_v_letters` | 1 process, no failure of its own | Violated: a callback that is given up has no letter |
| `consumers` | Writer: 4 entries, one unreadable, two of one scan, batches of 2, 1 kill, 1 SIGTERM, 1 raise. Notifier: 1 process, 1 crash, 1 raising command | `WriterInv`; `RowShowsTheLatest`; under fairness `TakenIsStored` and `EveryTaskIsClosed` |
| `gateway` | 3 requests for one file, a fourth whose scan holds the tenant's only slot, 1 lapse | `Inv`, the inductive invariant of the proofs; `FileIsScannedOnce`; `WakeupIsNotLost`; `RunningIsCounted`; `AcceptedHasJob` |
| `gateway_v_owner` | 3 requests of two tenants for one file | Violated: a client with a 202 is not the owner of its scan |
| `stages` | Pipeline: 6 jobs, a tree three deep where one level is unpacked, 2 entries, room for 3, 1 failing stage. Rules: 1 scanner, 3 contents of which one does not compile, 3 edits or switches | `PipelineInv`; `CleanMeansChecked`; `StoppedMeansBlocked`; `PublishedIsExplained`. `RuleSetInv`; `StaleSetIsNoticed`; under fairness `ChangesAreApplied` |
| `answers` | Cache: 2 requests of 3 tenants, 2 changes, 1 fault. Rebuilding: every type with one or two of the things the stages name, archives in archives, all sequences of 5 elements of fields | `CacheInv`; `CachedAnswerIsFullVerdict`; under fairness `StaleVersionsFade`. `DeliveredIsQuiet`; `OrdinaryIsDelivered`; `RebuiltIsWhole`; `FieldsAreStripped` |
| `access` | 2 gateways and 1 call, or 1 gateway and 2 calls, 2 tenants, 1 change, 1 failing command | `AccessInv`; under fairness `EveryReplicaConverges` |
| `browser` | Upload: 2 choices and 1 script, 1 ticket a day, 2 days, 1 trouble. Rate: windows of 4 ticks (2 seconds of 2); over one seam, a backend and its site's public key at one counter (limit 2), and tickets and an unknown key at one each (limit 1); one client that obeys (limit 3), by itself over two windows and the begin of a third | `TicketInv`; `FieldIsVouched`; under fairness `VisitorIsTold`. `RateInv`; `ObedientIsServed` |
| `browser_v_field` | 2 choices, no trouble | Violated: the field holds the scan of an earlier file |

Some properties are conjunctions of named parts, each with its own comment in its
module:

| Conjunction | Parts |
|---|---|
| `OutcomeIsComplete` | `AckedIsNotified`, `VisibleIsRecorded` |
| `LiveIsLeftAlone` | `HeartbeatIsKept`, `OneParser`, `ParserCrashIsReal` |
| `PoisonIsContained` | `KillsAreBounded`, `PoisonSlotIsFreed` |
| `NotifierInv` | `TypeOK`, `ManifestHasFile`, `TriesAreBounded` |
| `WriterInv` | `WriterTypeOK`, `AckedIsStored`, `ReadIsAccountedFor`, `HeldOnce`, `BilledOnce` |
| `PipelineInv` | `PipelineTypeOK`, `TreeFitsBudget`, `ArtifactFitsVerdict` |
| `RuleSetInv` | `RuleSetTypeOK`, `ScanUsesOneSet` |
| `ChangesAreApplied` | `EditIsApplied`, `SwitchIsApplied` |
| `CacheInv` | `CacheTypeOK`, `CachedFailureIsNotClean`, `BlockedHasNoCopy`, `TrustedGetsACopy` |
| `RebuiltIsWhole` | `RebuildTypeOK`, `DocumentIsWhole`, `ArchiveIsComplete`, `StrictIsBare` |
| `FieldsAreStripped` | `StripLeavesOnlySafe`, `BothPassesAgree`, `TextIsWhatWasSeen` |
| `AccessInv` | `AccessTypeOK`, `OutageKeepsTheFile`, `AdminsAreInTheFile`, `TrustIsOwn` |
| `TicketInv` | `BrowserTypeOK`, `TicketOpensOnce`, `QuotaHolds` |
| `RateInv` | `RateTypeOK`, `NoDoubleBurst`, `WindowKeepsLimit`, `RefusalsAreEarned` |

### Bounds

Two workers are enough for every race between an owner and a sweep; a third would
only repeat the second. One scan is enough for crash handling, because scans
interact only through the semaphore and the death of a shared process.
`DeliveryCap` stops XCLAIM of an entry that was delivered that often; it lies above
`max_deliveries` + 2, so the give-up path is explored beyond its limit. The other
budgets bound how much goes wrong. Properties of `Worker` that are about a `Calm` run
assume that no refresher died and that there are no more scans than slots on a worker,
so that none waits for the semaphore; without either a scan may be handled twice at
once (section 6), and `Inv`, `OutcomeIsComplete` and the refinement hold then as well.
`KillsAreBounded` is about the default `max_parser_crashes` of 1: above it, an attempt
that ends in Python (a mark that cannot be written) deletes the journal and the count
starts again. It and `PoisonSlotIsFreed` leave out a file whose process was taken down
by another file (`OthersAreHarmless`), because that death reads as one of its own.

Two notifiers are what a race for a retry takes, and two attempts are one retry
and one giving up; `consumers` has one process, because the loops of another only
help. Four entries in batches of two are a full batch, one that the timer takes, an
entry that is skipped and a record that is stored twice. `gateway` starts where the
first request has gone by itself: its scan is queued and holds the slot (`BusyInit`, a
state of `Spec`); the three others are interchangeable and enough for a refusal, a
duplicate, and a request that finds the claim gone twice.

`stages` has a tree that is deeper than is unpacked, has more entries than fit, an
entry that is too large and more declared than there is room for, so that every limit
is met; the jobs are an ordinary one, a deep one, one in the shadow, one that fails
open, and two with a cached structural half. Three contents of the rules and three
edits are enough for there and back again (A, B, A). `answers` has three tenants
because a cached verdict depends on thresholds, weights and claims, and two requests
because the second one reads what the first one left; two things in a document are
enough for the one to hide the other. `access` needs two gateways for a stale replica
or two calls for a race, not both at once. `LastTick` ends the clock of `RateWindow`;
two ticks to a second are what it takes for a client to be told to wait less than is left,
and a stretch of six ticks is what two clients need to have calls under way across a seam
and be refused and let in on either side. `MaxCalls` ends the calls of a window above its
limit, where all further ones are refused.

### Fairness

`FairSpec` of `Worker`: every coroutine that can run does (the event loop is fair
and Redis answers), a dead process is restarted (the deployments restart on
failure), the sweep runs on its timer, heartbeats expire, idle time passes. No
fairness is assumed for new scans, crashes, faults or the refresher. `FairSpec` of
`Notifier`: every loop that can go on does (httpx and boto3 have timeouts, so an
attempt ends) and delays pass. `WriterFairness`: both coroutines run, asyncpg and Redis
answer or raise, and the writer is restarted. `RuleSetFairness`: the loop goes on as long as it
lives (nothing is asked of one that a Redis error ended, and `ChangesAreApplied` excepts
it), a thread inside the lock goes on (compilation ends), and reading the switches succeeds
at last if it is tried for ever (strong fairness, because the failing read leaves and
comes back). `FairCacheSpec`: the loop goes on, and a publication that is tried for ever
succeeds, unless the loop died. `AccessSpec`: the loop of each gateway and each reload
that has begun. `BrowserSpec`: each handler that has begun; the scan itself need not
end, which is what the bound on the polls is for.

All runs set `CHECK_DEADLOCK FALSE`: when every scan is acknowledged, every task
closed or every request answered, nothing is left to do.

## 5. What is proved

Every theorem holds for all values of the constants that satisfy the assumptions of
the module (`ASSUME`), which say no more than what the settings and the types of the
program do: limits are numbers, sets of processes are finite where processes are
counted, a name that stands for "none" is not one of the others, what a request or
a file names has the form the code demands of it. The budgets for crashes and
faults are arbitrary numbers. TLC checks each property that a theorem states on a small
instance as well (section 4).

All theorems about properties follow the same argument: an inductive invariant (`Inv`
or `...IInv`) says of every place a process may be at what its next step relies on;
lemmas reduce the actions to the few ways in which they change a piece of state; one
lemma for each conjunct shows that a step keeps it.

### `WorkerProofs`

* `TypeCorrect`: `TypeOK` is invariant.
* `Invariance`: `Inv` is inductive. `AckedHasOutcome` alone is not: XACK is the last
  of a chain of steps, so the invariant says for each place of a handler what its
  next step relies on (`TaskFits`): at `publish` a dead letter exists if the
  outcome is one, past `publish` a status exists, and whatever a loop or a sweep
  holds was delivered (`HeldBy`).
* `NothingIsLost` and `ManualIsInTheLetters`: the two safety properties.
* `PromiseIsKept`: `Spec => Promise!Spec`. Publishing is `Accept`, `PublishStatus`
  is `Answer`, the first XACK is `Close`, everything else stutters.
* `OutcomesAreComplete`: what is about to be published is in the history, what is about
  to be acknowledged is queued (`OutcomeFits`), as long as no command raised.

The rest is about runs that are `Calm`, and rests on one fact: a scan has one owner
(`OneOwner`). A handler owns its scan (`Owns`) unless it has only to acknowledge it,
and it is either `Guarded`, inside `Heartbeat.keep`, and then the key is there
(`GuardIsSeen`), or `Bare`: before its first heartbeat, or giving the scan up. A sweep
may take what is bare for dead; what prevents it is the idle time. So the invariant
says that an entry old enough to be claimed waits nowhere and has no bare handler
(`AgedIsTaken`), that a scan waits in one place and has no owner meanwhile
(`WaitsAlone`), and that an orphan which is still old enough when it is claimed is dead
(`OrphanIsDead`). A scan that waits finds a handler that is free or about to be free
(`NobodyIsCrowdedOut`): otherwise each slot of the worker would hold another scan, and
with the one that waits they would be more than there are. With one owner, the
status a handler has looked at stays as it is until the handler replaces it
(`StatusIsFresh`), and the mark of a risky stage is that of its handler or of a process
that died (`MarkIsExplained`).

* `TheLivingAreLeftAlone`, `OnlyTheDeadAreRobbed` and `TerminalStays` follow.
* `PoisonIsStopped`: as long as a file may kill again, each process it has killed is
  paid for by a kill or a fault (`KillsArePaid`); otherwise it is `Contained`: its
  status is terminal, its mark says that it crashed and nobody has begun an attempt, or
  its outcome is on the way. Between the status and the release of the slot
  there is always a handler (`SlotIsFollowed`).

### `GatewayProofs`

* `Invariance`: `Inv` is inductive. It joins the places of the handlers with the keys:
  `SignalsFit` (who listens, and that a status precedes its signal), `ScansFit` (whose
  scan a request has where), `SlotsFit` (let in means entered, shed means removed),
  `ClaimsFit` (a claim or an answer names a scan that is `Served`), `ClaimIsKept` and
  `GoneOnce` (the claim belongs to the only request of its content that has
  started, as long as no key lapsed and at most one request was refused).
* `OneJobForAFile`: `FileIsScannedOnce` follows from `ClaimIsKept`. The hard step is
  `Unclaim`: the DELETE drops the key whoever holds it, and is the refused
  request's own only because nobody else of that content can have started;
  `GoneOnce` then shows that a request which finds the key gone twice has seen
  two refusals.
* `NoWakeupIsLost`, `SlotsAreKept`, `AcceptedIsServed`, `TypeCorrect`.

### `AccessProofs`

`AccessInvariance`, and from it `RightsAreKept`. A registry is `Sound` if it has what
every readable state of the file grants and no administrator that no file names. That
needs to know what a reload carries across its awaits: at `assign` a file and keys
of the store, and a key that was issued never has the right of an administrator
(`Issued`, `Fits`). `TrustIsOwn` is inductive with the scope a call has at `add`: its
own tenant, or everything for an administrator.

### `BrowserProofs`

`BrowserInvariance`, `TicketsAreScarce`, `FieldIsAlwaysVouched`. A ticket is unknown until
it is minted, and then in the store, or with one process, or it opened an upload, or it
is gone: one of them (`TicketIsOne`); GETDEL is what keeps it from being two. The
counter of a day is at most the number of choices that have been there and at least
the number of those it let pass without an excuse (`CounterIsTrue`), which is the quota.
That the field is vouched for needs no more of a handler than that a scan exists
where it speaks of one, with a verdict where it was answered at once (`ScanIsThere`).

The rate: `RateIsKept`, `ObedientIsHeard`, from `RateInvariant`, for any clients, keys,
tenants and limits above zero, and whatever lies between reading the clock and being
counted. A counter holds what was asked until two windows after its own began
(`CallsAreCounted`), so a call that is counted in time has a number of its own in its
window (`RecentAreNumbered`), and that number, with what it saw of the window before,
satisfied the weighted sum (`RecentWithinLimit`). `SeamIsSafe` adds up the two windows that a
stretch shorter than one can touch; a call that was under way as its window ended is seen
by nobody who was counted in the new one before it, and the bound grows by each of these.
What was let in of a window is within the limit also with them (`LetInWithinLimit`). A
refusal has its reason in the calls that were counted for the same subject (`RefusedForOwn`).
Whoever has a counter to himself, obeys and is refused comes back at most a second before the
window ends, and with a limit above two is refused at most four times in a row
(`WaitIsEnough`): by then the earlier window has nothing but one or two refused calls. With
limits of one or two this is false, and so it is for clients who share a counter, at any
limit (section 6).

### `ConsumerProofs`

Of the writer: `WriterInvariance`, `BooksBalance`, `RowsShowTheLatest`. What the process has in
memory (fetched, batch, the hands of both flushers) is apart, without repetition
(`HeldApart`), and was delivered; what a transaction that was reported as failed has
stored is stored again. As long as one flusher at a time had a batch, the memory
is in the order of the stream and what is new in it is newer than all that is stored
(`HeldInOrder`); a failed batch goes back in front, and that is why a row shows the
latest. A scan is billed once because it has one row (`RowsAreKeyed`). The steps are
reduced to shapes (a batch is taken, committed, put back, acknowledged, dropped)
over a few facts about sequences.

Of the notifier: `NotifierInvariance`, `AttemptsAreBounded`, `TasksAreKept`. The invariant says what a
loop holds at each place (`LoopFits`), which attempt numbers occur (`AttemptsFit`), that
the file precedes the manifest (`FileIsFirst`), and that what a loop or the retries
know was read from its stream (`KnownIsRead`). The bound on the attempts is counted
with tokens: each attempt that may still follow, from a retry that any loop of
retries may take, from what a loop has read, or after an attempt not yet decided.
No step makes the attempts done and the tokens together more (`TriesAreCounted`). The
bound `MostTries` is defined by recursion over the numbers; that such a function
exists is itself proved, by a least counterexample.

### `EngineProofs`

The rules: `RuleSetInvariance`, `StaleSetsAreNoticed`. A scan reads the set once, so its place tells
what it has used (`ScanIsOneWork`). That a stale set is noticed rests on the order of
three reads: the loop takes the marks before the content and the content before the
set, so an edit that comes between leaves a mark older than the files
(`LoopReadsInOrder`). The first thread reads them the other way round, under a lock that
the edits do not take; `LockIsHeld` says which of its steps are inside, and
`BirthIsWatched` that no edit crossed them as long as `born` says so. Both meet in
`StaleHasOldMark`.

The cache: `CacheInvariant`, and from it `CacheIsKept`. A half says by the stage of a finding and
by its code what came from the antivirus and what from the file, and the two never
disagree (`HalvesAreApart`, `ScanIsSplit`); so a half can be put together with any other
and each part is found again. What a scan has decided on fits what it then
stores and answers (`DecisionFits`): a failed antivirus is marked in the facts and the
cached half keeps the mark, a blocked file has no copy.

`CachedVerdictIsFull`: an answer put together from the halves of two complete
scans, for other tenants, thresholds and claims, has the verdict and score of a full
scan under the versions of the keys. `SoundScan` says what a scan has found at each
of its steps, as pairs of a code and a score; `SoundHalves` says that a complete half
has exactly the pairs that its versions and weights give. Scores being sums
over families, equal pairs are equal scores. The hypothesis `WeightsAreApart` is what
the keys do not guarantee and the code leaves to its operators: no tenant with scores
of its own is named "default" (`DEFAULT_WEIGHTS_KEY`), and the score of an antivirus
signature is the same for all, since that half is kept by the database alone. The run
has tenants and overrides that satisfy it (section 6 has what happens otherwise).

### `PipelineProofs`

`PipelineInvariance`, `CleanIsChecked`, `StoppedIsBlocked`, `AnswerIsExplained`, for
every tree of files, every listing of an archive, whatever the stages find, and for
threads that write at any time after their limit.

* What is left out leaves a mark on a file of the path (`MissLeavesAMark`): every write to
  a context keeps the marks it had (`KeepsMarks`) and marks what it leaves out
  (`MissesMarked`), and when a member is left the archive adopts its marks. At the
  verdict only the upload is left, and a marked upload is not clean however the weights
  are set (`MarkedIsNotClean`). A thread that writes after the verdict cannot make it
  wrong: an essential stage that outlived its limit has marked the upload long before
  (`LateIsMarked`), and the rules of our own never mark one (`DecidedOnMarks`).
* A member is never a file above it, because the depth of the files on the path is
  their place in it (`PathIsNested`); without this, a new context could wipe out a mark.
* The limits hold because the budget is booked before anything is unpacked: the
  passes made and the entries that wait, of all archives on the path together, are
  never more than the entries booked (`EntriesAreCounted`). `TakenFits` is the lemma
  about the inventory: the last entry that was taken still found room. What is written
  was counted before (`BytesAreCounted`), and only an archive that is not too deep gets
  as far as its members (`MembersAreNotDeep`).

* More findings never weigh less (`ScoreGrows`), by induction over the set of families. What
  stops the check of an archive blocks that archive, its findings are adopted by the
  one around it with their scores (`WeightStays`), and the archive above stops in its
  turn; at the upload the verdict is `malicious` (`StopIsBlocked`).
* The published verdict and score are those of the facts that are published with them,
  changed only for a trusted file or by a rebuilding that failed (`ResultIsExplained`).
  A thread that wrote after the decision is the exception, and the findings tell of it: a
  stage that outlived its limit has left `STAGE_TIMEOUT` with the upload (`LateIsTold`).

Assumed of the constants (`PipelineAssumption`): the files are a tree, sizes and limits
are numbers, stages report codes of the table, and the stage of our own rules says
neither that a file is encrypted nor that its type is not supported
(`stages/yara_rules.py` sets neither).

### `DocumentProofs`

For every file that is put together as its format says (`WellFormed`, below), every profile
and every order of elements, with no bound on sizes.

* `PassesAgree`, `FieldsAreGone`. The pass over the events (which reports) and the pass over
  the tree (which removes) hold the same open fields, but for the region (`PassesAreAlike`), and so
  find the same. That what goes is what was found needs the regions in both
  directions: forwards, how those of the open fields lie in each other (`Stacked`); backwards
  from the end, which of them go (`Judged`). A field goes as a whole or stays as a whole
  (`GoneAsAWhole`), so a pass over what is left repeats the steps that the pass over all did
  for the fields that stay. The hypothesis `OneRunEach` is in the property: an editor gives
  each element of a field a run of its own, and the code removes whole runs.
* `RebuiltIsQuiet` and `OrdinaryPasses` are the two directions in which three lists kept by
  hand must fit. What the stages name in a file that a sanitizer wrote and its check
  accepted is not among what is never handed out, with one exception: a PDF whose walk broke
  off is rebuilt with the number that broke it and is called malformed again, which it was as
  an upload already. And a file of which the stages report nothing but notices comes out
  of the sanitizer, under every profile, and its check accepts it, unless it has one of
  the four things that a sanitizer or its check stumbles over and no stage names
  (`StumblesAlone`, section 6). `StrictSaysNothing`: under the strict profile a rebuilt
  PDF or Word document reports nothing at all. `RebuiltOpens`: the relationships of a
  rebuilt document lead to parts that are there, its elements name relationships that
  are there, and an object that lost one piece has lost all. All four use that what
  a sanitizer wrote is detected as what it was written as (`WrittenSniff`).
* What they assume of a file (`WellFormed`) is that it is put together as its format says.
  `KeysFit`: keys of a PDF that start something stand where the format knows them, and what
  opens can be drawn. `RelationsFit`: a relationship of an active kind does not lead to a
  part that stays, without which the first is false (section 6), and an element that
  names a relationship names one of its own part. A package that somebody has put together
  so that the two disagree is not covered. `OrdinaryPasses` also asks that the main
  part of a document is there and its fields stand in runs of their own.
* `ArchiveIsComplete`: of an archive whose members were each rebuilt and whose copy the
  check accepted, the copy has a member for every file of the old one and an empty entry
  for every empty one, under names that differ on any file system, lead nowhere and have
  an extension of what is inside. Both hypotheses are needed: a name on a drive survives
  the cleaning and is refused by the check alone, and an empty entry of a member's name
  is rebuilt as a member. The loop is followed entry by entry (`WellPacked`, `PuttingEntry`);
  a link of a member's name adds an entry, so the counts are compared one way; that the
  search for a free number ends is a pigeonhole argument (`UniqueIs`).

### Only model-checked

`RebuiltIsWhole`, `DeliveredIsQuiet` and `OrdinaryIsDelivered` are about trees of archives. What
`Rebuild` does with a tree is recursive in the files, and an induction over such data is
what the installed provers cannot instantiate. What the three say of a file by itself,
and of one level of an archive, is proved in `DocumentProofs` without a bound.

Liveness (`EveryJobIsClosed`, `EveryTaskIsClosed`, `TakenIsStored`, `ChangesAreApplied`,
`StaleVersionsFade`, `EveryReplicaConverges`, `VisitorIsTold`) is out of the prover's reach
together with ENABLED, and stays with TLC.

## 6. Where the code does not do what is said of it

### Runs that are violated

* `notifier_v_letters`: `_give_up` builds a `DeadLetter` without its required fields
  `verdict` and `source`; pydantic refuses it and the exception is logged.
* `gateway_v_owner`: the claim of a file is shared by all tenants; the duplicate
  writes itself over the owner, and the first client, who has its 202, is refused
  its scan.
* `browser_v_field`: nothing stops the handler of an earlier file when another one is
  chosen; its last word fills the hidden field while the new file is being checked.

### Properties that are stated and do not hold, without a run

The modules state these in the words of the code or its docs. TLC refutes each one
when it is put into the cfg of the run that is named (for `LimitHolds` with three
requests of one tenant for three files, and `Spec`; for `CrashesAreTolerated` with
`MaxCrashes = 2`, `MaxDeliveries = 3` and no lapse).

| Property | Module, run | What happens |
|---|---|---|
| `CrashesAreTolerated` | `Worker`, `worker_crash` | `crashed_on_content` compares the number of the attempt with `max_parser_crashes` ("so many breaks inside the parsing are tolerated", `failure.py:28`); the journal counts every attempt, also one that died while it fetched the file, so with 2 one death inside the parsing closes the scan |
| `LimitHolds` | `Gateway`, `gateway` | `acquire` reads the clock and then awaits the pipeline; the request with the older reading arrives second, ranks first and is let in too |
| `StorageNeverDelaysCallbacks` | `Notifier`, under `SlowStorageSpec` | uploads have a stream loop of their own, but their retries share one loop with the retries of callbacks |
| `StopEmptiesTheBatch` | `HistoryWriter`, `consumers` | `stop` closes the pool while `start` still has the last batch to store |
| `FixIsPickedUp` | `RuleSet`, `stages` | a first compilation that failed, corrected by taking the edit back, is latched as no change |
| `CachedAnswerIsOwn` | `VerdictCache`, `answers` | a scan that stopped early stores what it has found so far, for tenants who would not have stopped |
| `LiftedGetsACopy` | `VerdictCache`, `answers` | the antivirus-only pass over a blocked half gives a trusted file back without a copy |
| `RevokedIsRefused` | `AccessKeys`, `access` | a reload that had read the store before the revocation assigns the key once more |

`LiveIsLeftAlone` assumes `Calm`. With two jobs and one slot for each worker,
`ParserCrashIsReal` without that assumption fails, and so do `HeartbeatIsKept` and
what rests on it: the first heartbeat is written after the semaphore, and the
journal names an attempt but not its owner. A job that waits longer than `min_idle`
for a slot is claimed by a second worker; when the first gets its slot, it finds the
mark of the second and closes the scan as `PARSER_CRASH`, although nothing crashed.
The second worker may also end first, and then its `Heartbeat.clear` removes the
mark of the first, since the key names no owner.

### Further divergences met while modelling

Worker and gateway: the replay of a terminal status does not release the slot
(`Check` in `Worker`), replaces the long TTL of a `manual_review` by the short one, and
`_abandon` overwrites a verdict that was already published; ZREM's result is not
looked at, so two notifiers attempt one retry; a duplicate's own `callback_url` is
never enqueued, since only the claimant publishes; duplicates of a claimant that is
refused or fails are answered 202 for a scan without a job, which `AcceptedHasJob`
allows for by name.

Verdict and cache: the findings of a scan are stored under the version that is loaded
when it ends; antivirus findings carry the weights of the tenant whose scan stored
them; the antivirus-only pass scores with the common weights; a result whose antivirus
failed is cached although the comment in `_deliver` says that failures are not; a scan
in mode `detect` stores a half without a copy, and the mode is not in the key;
`EXT_DANGEROUS` comes from the name in the request and is not among
`REQUEST_DERIVED_CODES`; the `except` of `_reload_weights` is never reached, since
`WeightTable.load` swallows its own exception and returns the built-in table; one Redis
error in `_publish_engine_version` ends the reload loop (`main.py:273` is outside its
`try`): the versions expire after an hour, and edits of the rules and switched-off rules no
longer reach this worker, which scans on with what it has; a result shares the list of
findings with its context, so a thread that outlives its limit may still add to it.

Rules: two first scans at once, and the second goes through with `no_rules`; an edit
between the first compilation and its marks is never seen; nor is one that is taken
back after a compilation crossed it. A worker publishes its version before the
switches are applied.

Two limits of the keys of the cache, which `CachedVerdictIsFull` needs as its hypothesis: a
tenant named "default" with scores of its own would share its entries with everybody
who has none (`cache.py:37`, `models.py:119`), and the half of the antivirus is kept by its
database alone although `cache.py:42` says that overrides must keep entries apart.

Rebuilding: a relationship of an active kind (a control, a macro, an OLE object) that leads
to a part which stays is left in a rebuilt document, because `cdr/docx.py:299` asks for the
target only and its check at `:179` for external ones only, and the stage
(`docx_structure.py:130`) names it again; a picture in a vector format or one that is not encoded anew is copied as
it is, although `docs/policies.md` says that no byte of the source is; an empty entry
with the name of a program makes a rebuilt archive fail its own check; the stage names
more actions of an annotation than the light and standard profiles remove; an element
without the relationship it needs is left in and then refused; entries of a nested
archive are counted twice against the budget of a rebuilding.

Where one of the three lists breaks off and another does not: the flags of an annotation or the
size of a font that are no number (`pdf_structure.py:394`) end the walk of the stage
(`stages/structure.py:73`) with what it had found, `PDF_MALFORMED` and the names in the bytes;
neither the sanitizer nor its check asks for these numbers, so the file is rebuilt, accepted
and handed out, and as an upload it is malformed again. An annotation that is no dictionary
makes the sanitizer raise, and no stage says anything; so does an image whose data end early,
since the stage reads the header (`stages/structure.py:93`) and the sanitizer the pixels
(`cdr/image.py:58`), and a picture in a Word document above the limit of a part
(`cdr/docx.py:266`), which the stage never reads. An additional action of a form field,
which a widget leads to, is kept by the sanitizer, is named by no stage where the objects are
packed, and is refused by the check.
A name like `C:x.pdf` goes through `safe_name` (`archive.py:353`), which drops a part that is a
drive and no more, and is refused in the copy by `escapes_root` (`:200`); one like `./C:x.pdf`
even where the listing of the upload had no objection. An empty entry with the name of a
full one is taken for that member (`cdr/archive.py:108` goes by the name), is extracted as an
empty file and refuses the archive; a link of a member's name comes out as one more file.

Keys and browser: a key that is issued again under the name of one in the file takes
its place, and revoking it brings the other back; of two concurrent issues under one
name both are answered 201, and one secret is dead; a gateway serves the policies of
the file alone until its loop first ran; an answer 500 may follow a policy that is
stored; a second partial policy forgets the first; removing or listing a trusted file
while it is added may leave it in effect and unlisted; uploads with a ticket share one
counter with everybody without a known key; at `rate_limit_per_min` 1 or 2 a client that
waits as told may be refused for ever, since a refused call counts as well and the wait
is rounded down (`docs/api.md:48` says that `Retry-After` is when to repeat); a poll that is lost leaves the visitor at "busy"; a
ticket is used up before the body is looked at.

Rate: several clients that share a counter and wait as told, as the calls of a tenant do, can keep
each other out for ever at any limit, since each of them tries again and each refused call
counts; `ObedientIsServed` is therefore about a counter of one's own. The middleware takes any key id
it knows, a site's public one as well, and before it looks at a signature
(`throttle.py:56`), so calls of the upload under a public id use up the counter of the tenant;
`routes/scan.py:171` and `docs/policies.md:359` say that a flood through the form on the site
cannot crowd out the calls of its backend, which is so for the tickets alone. The clock is
read before the commands are awaited (`ratelimit.py:55`, `:63`): calls that are under way as a
window ends are counted in it afterwards, and those of the new one did not see them, so
that at the seam the limit is exceeded by as many of them as there are.

## 7. Not modelled

**Left out of the modelled parts.** Unparsable jobs (acknowledged and skipped), a Redis
that lost its streams or groups, the caps of the streams, the graceful stop of worker
and notifier, the TTLs of status and journal keys, the reload of the notifier's keys, a
confirmation of a subscription that takes longer than a second, reading and hashing of
uploads, polling and download routes (reads). In the pipeline: warm-up, workspaces, the
pixels of an image. In the cache: the profile of the job, and the expiry of an entry.
In the rate: a limit of zero, which counts nothing, clocks that differ between gateways, an
error of Redis (the request fails), and a tenant that is called like one of the other
counters. In the documents: the length of a stream that is no number (qpdf repairs it),
the twelve levels of `docx.py:401` beyond which an element goes without the object around it,
links without a content, XML itself, elements outside of runs, two relationships with one
identifier, limits on the steps of a walk and on sizes, and the compression of streams.
In the rules: which strings match. In the keys: the fields of a policy other than two
that stand for them, listings, deployments without signatures. In the browser: several
forms on a page, and the delay of a message between frame and page; a route of three
reads (the status by ticket) is one step.

**Components without a module.** The deep role is the handler of `Worker` on a second
stream, with a condition on fields that the models leave out. The object store and the
drop-off clients are input and output; what they fail at is part of `Notifier` and
`VerdictCache`. Metrics, tracing, logging and configuration have no effect on anything
else. Clients, mirror and deployment are programs and manifests of their own. The
ledgers of rules in shadow or canary are counters for people.
