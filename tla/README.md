# Agro Tracking: a TLA+ model

The system watches stations with cameras and keeps a record of which tractor
was where, and for how long.  Recorded videos reach it as files that an
ingestion process takes over, live detections as batches that an edge box
publishes over MQTT; both end as *events*, and a state machine turns the events
of a station's videos into *visits*.  What makes this hard is not the state machine but that it runs
in concurrent database sessions whose snapshots, flushes and commits overlap,
next to a periodic task that writes the same rows, that videos are retried by a
scheduler which cannot know whether the first attempt is still alive, and that
both ways to the database repeat what they cannot know to have succeeded.

Paths below are relative to the repository (`src/` in PROJECT.json names its
root, so `src/services/…` here is `src/src/services/…` there).

## 1. Inventory

| component | state it keeps | operations | interacts with |
|---|---|---|---|
| visit service (`services/visit_service.py`, migration 0005) | table `visits`; per batch the dicts `active_visits`, `last_seen` | apply a batch of events, create or adopt a visit, stale check, startup recovery, the queries of the status endpoints | session of the task that calls it; SSE broker |
| recognition task (`services/video_handler.py`) | one `AsyncSession`, one video | recognise, store events, aggregate, COMPLETED / FAILED | process pool, visit service, video service |
| video files (`services/video_service.py`, `router/v1/video.py`) | table `video_files`, the files | registration and upload with duplicate check, status, retry count, move to `failed_videos/`, edge sentinel | recognition task, scheduler, ingest endpoint |
| retry scheduler (`services/scheduler.py`) | semaphore, loop task | mark stale rows, dispatch retries, give up | video files, recognition task; loop and admin endpoint |
| API lifespan (`main.py`) | the stale-check task | recover, start, stop | visit service, scheduler |
| process pool (`services/video_executor.py`) | pool, semaphore | run one video; break; be replaced at a restart | recognition task |
| events ingest (`router/v1/events.py`) | sentinel row of a station | check, find or create the sentinel, store a batch | MQTT consumer, table `events` |
| edge pipeline (`edge/main.py`) | buffer, flush timer, connection | collect, flush, publish or drop, stop, start again | broker |
| MQTT client (`services/mqtt_client.py`) | connection, queue of received messages | connect, publish, subscribe, reconnect, stop | edge pipeline, consumer, broker |
| MQTT consumer (`mqtt_consumer/main.py`) | the message in hand, attempts | receive, replace timestamps, POST with retries, stop, start again | broker, events ingest |
| ingestion watcher (`ingestion/`) | producers per directory, semaphore | hash, copy, POST, unlink, sleep after an error | registration of videos, cold storage |
| SSE broker (`sse/`) | queues of the subscribers | subscribe, publish | visit service |
| detector and video processor | – | from frames to detections | process pool |
| REST resources, configuration | – | CRUD of single rows | – |

**What is hard.**  Two tasks that open a visit for the same tractor; a lost
race that rolls back more than the lost INSERT; snapshots that are written back
after somebody else moved the row; a clock (`created_at`) that starts before
the detection; lock cycles; a video retried while its first attempt runs;
overlapping scheduler passes; files moved twice; a POST that timed out and may
have succeeded, or may succeed later beside its repetition; two requests that
update the same sentinel; a flush cut short by the final flush; a file hashed
and copied while the camera still writes it; announcements made before a commit
that may fail; everything that lives only in memory when a process dies.
PROJECT.json lists each at its line.

**What makes each component correct.**  At most one open visit per tractor and
station, no resurrection of closed visits, departures that are not announced
early, confirmation only after enough in-ROI time, no visit that stays open for
ever, every committed state announced; every batch ends; no PROCESSING row
without a task; the retry budget; the file is where the row says; no uploaded
video is forgotten; every pass ends.  On both ways to the database: nothing is
entered twice unless a call went unanswered, nothing comes back that was given
up, no detection vanishes between two processes, detections keep their
order, a file is removed only when all of it is stored.

## 2. Modules

| module | models |
|---|---|
| `VisitMachine` | one row of `visits`: what a detection, the exit timer and the recovery do to it, and the CHECK constraints. Pure operators. |
| `VisitSessions` | the table and the sessions that work on it: one per video being processed, one for the stale check. EXTENDS `VisitMachine`. |
| `VisitStream` | what every step of `VisitSessions` announces on the status stream, and what a client hears of it |
| `VisitStatus` | the queries of the status endpoints over the committed table |
| `Ordered` | the elements of a set in order: ORDER BY, and the order of a loop |
| `VideoLifecycle` | rows of `video_files`, the sentinels of edge stations among them, their files, the tasks processing them, the passes of the scheduler |
| `VideoBudget` | what the retries of a video cost, on top of `VideoLifecycle` |
| `Delivery` | what both ways to the database promise: the abstract specification |
| `EdgeWire` | batches, the broker and the consumer's queue |
| `EdgePipeline` | the edge process of a station |
| `EventsIngest` | the requests at the ingest endpoint, the sentinel and the table `events` |
| `MqttConsumer` | the consumer process |
| `EdgeDelivery` | these four composed, shown to implement `Delivery` |
| `VideoProcessing` | from the frames of a clip to its events. Pure operators. |
| `Recordings` | the camera's files and cold storage |
| `VideoIntake` | the requests that register a video |
| `Ingestion` | the ingestion process: watcher and producers |
| `VideoExecutor` | the recognition of registered videos in the process pool |
| `FileDelivery` | these four composed, shown to implement `Delivery` |
| `MC…` | symmetry sets and clips for TLC |
| `…_proofs` | theorems about the module of that name; `VisitTimes_proofs` about the instants in `VisitSessions`, `VisitStatus_proofs` about `VisitStream` too, `VideoLifecycle_proofs` about `VideoBudget` |

A definition whose comment says "Mutant of …" is not part of the model: it is a
plausible bug in the definition it names, kept to show that a property
notices it.

### VisitSessions

* `visits` is the committed table.  `uow[s]` is the unit of work of session
  `s`: `objs` is the identity map (each instance with its attributes and what
  the database held when it was loaded or flushed), `staged` the rows it has
  flushed but not committed, `deleted` the rows it will delete.  `job[w]` holds
  the locals of the task: remaining events, `active_visits`, `last_seen`.
* An action is what happens between two points where another session can get
  in.  `Begin` is the commit of PROCESSING that opens the transaction;
  `MapEvent` one detection turned into an event stamped with the current time;
  `LoadOpen` the SELECT of the open visits; `SkipEvent`, `TouchVisit`,
  `CreateVisit` one turn of the event loop; `LoseRace` and `Adopt` the two
  halves of the `except IntegrityError` branch, since the rollback releases the
  locks before the second SELECT; `CommitBatch` the closing loop with its
  commit; `FailBatch` an exception out of the aggregator; `CheckStale` and
  `CommitStale` the two halves of `check_stale_visits`; `Crash` a restart with
  `recover_open_visits`.
* PostgreSQL and SQLAlchemy are modelled as far as the code depends on them:
  READ COMMITTED; a flushed row stays locked to the end of the transaction; an
  INSERT waits for whoever holds an uncommitted open row of the same tractor
  (`Holders`); an UPDATE sends only the changed columns (`Merge`), matching no
  row raises StaleDataError (`UpdatesVanished`); a rollback expires the loaded
  instances and makes created ones transient (`RolledBack`), and reading an
  expired attribute under asyncio raises (`Expired`, `Broken`); an UPDATE
  expires the generated column duration_seconds, which the log line of a
  closing visit then fails to read (`Unreadable`); a wait cycle is broken by
  failing one transaction (`DeadlockVictim`).
* `created` is the server default `CURRENT_TIMESTAMP`, which PostgreSQL fixes
  at the start of the transaction, and the transaction of a batch begins before
  the recognition.  That is why `Begin` remembers the time.
* One station.  Videos without a station never reach the aggregator.  Nobody
  updates `tractors` or `stations`, so the foreign keys that matter are those to
  the batch's own events: after a rollback they are gone, and a write that
  refers to one of them fails (`lost`, `doomed`).

### VideoLifecycle

* `row[v]` is status, retry count and path of a row; `task[r][v]` the task by
  which `r` (the background task of the upload, or a ticker) processes video
  `v`, with what it has read; `ticker[k]` and `picked[k]` a scheduler pass.
  `file[v]` counts the moves of the file, `row[v].path` those that storage_uri
  reflects.
* Again an action is what lies between two commits or reads, so what a task has
  read may be old when it writes: `FailRetry`/`CountRetry` are the read and the
  write of `increment_retry_count`, `HandleFailure`/`MoveFile`/`MarkInvalid`
  those of giving up, `SelectStale`/`MarkStale` those of the stale marking.
* How long anything takes is open.  `Age` lets any CREATED or PROCESSING row
  look stale, since nothing touches `updated_at` while a video waits or is
  recognised.  README 428 speaks of PROCESSING rows only; the code, and the
  model, mark CREATED rows too.
* `Crash` is a crash or a shutdown: `stop` cancels the tasks, and
  CancelledError is not an `Exception`, so no handler runs.  `TaskError` is a
  commit that fails or a move that is refused, `PassError` the same inside a
  scheduler pass.
* A `Sentinel` is the row of an edge station, created as PROCESSING by its first
  batch (`CreateSentinel`).  It names no file, so its recognition can only fail and
  giving it up moves nothing; a later batch that widens its window touches
  `updated_at` and never the status (`ExtendSentinel`).  To the scheduler it is a
  row like any other.
* `VideoBudget` adds the history `spent`: the retries of a video that were
  dispatched and have not succeeded.  The budget is compared with `retry_count`,
  which is increased when a retry has failed; `spent` counts the retries themselves,
  so that one which a crash loses, or which is counted twice from the same value,
  still counts.  `collided` has the videos of which two tickers had a retry in flight
  at once, from its dispatch until it is counted.
* `VideoProcessError` is raised nowhere, so the retries without limit cannot
  happen and their branches are left out.

### VisitStream and VisitStatus

* `VisitStream` adds two variables, `announced` and `heard`, and one conjunct to
  every step of `VisitSessions`: for what `_publish_status_change` is called in that
  step, which is before the commit, and what of it reaches a client.  The broker's
  queue is unbounded and `publish` does not wait, so publishing and hearing are one
  step for a client that is connected.
* The payload reads duration_seconds.  If an UPDATE has expired it, the read
  raises and `_publish_status_change` drops the message (`Silent`).
* `VisitStatus` translates the queries behind `/v1/status` as operators on the
  committed table, and two properties are stated about what they return.  A query
  lists a set of rows `InOrder`; where ORDER BY leaves the order of two rows open,
  so does `InOrder`.  It is used in place of `SetToSortSeq` of the community
  modules because that rests on `SortSeq`, of which nothing can be proved.

### EdgeDelivery

* Detections are numbers in the order they are made; a batch is a set of them
  with its station.  `edge[s]` is the process of a station: `buffer`, the batch
  `out` inside a publish, where `run` is and where its timer is.  `inbox` is the
  consumer's queue, `online` its subscription, `consumer` the process with the
  message in hand, `request[r]` an open request at the API.
* The broker is external: a batch reaches the queue when the consumer is
  subscribed at that moment, and is gone otherwise, since sessions are clean.
* `LeaveLoop` is the end of `run`: it cancels the timer, possibly in the middle
  of its publish, and starts the final flush, which publishes even an empty
  batch.  `LoseLink` breaks the connection for good: the publisher has nothing
  that reconnects.  The buffer has no limit: no step looks at publish_max_events.
* Processes that have stopped are started again, as after a deployment:
  `ConsumerStarts` (`compose.yaml` 91, `restart: unless-stopped`) and
  `EdgeStarts`, so that the heartbeat with which an edge ends is not the last
  message of its station.  A start of the edge is bounded like a fault.
* A request is four steps: it arrives, `ReadSentinel` with the checks,
  `WriteBatch` (flush of the sentinel, which waits for whoever has written the
  same row or the same new key), `CommitBatch`.  It does not notice that its
  caller is gone: `PostTimesOut` and `ConsumerCrash` leave it running beside the
  next attempt.  An update sends only the columns that changed, each computed
  from what was read (`Committed`).
* `clock` is the consumer's wall clock, read twice per message; equal readings
  make the API refuse the batch.
* `doubted` and `lost` are history: detections in a POST that ended without an
  answer, and those given up.  Each step that drops detections adds to `lost` what
  it drops: a publish without a connection or without a subscriber (`ToBroker`),
  the queue of a consumer that reconnects or ends (`DropQueue`), a message that
  is no valid batch, a batch that is refused or out of attempts, a crash.

### FileDelivery

* A file is as long as the frames written to it so far, its hash is its content,
  so files of different recordings differ unless they are empty.  `source[f]` is
  the file in the station's directory, `cold[name]` the file of that name in cold
  storage, named after the hash it had when it was looked at.
* The ingestion process is one event loop, and hashing and copying block it
  (`LoopFree`); a copy is two steps for everybody else, who may read the
  truncated file in between (`Torn`, `Readings`).
* A registration is `HashFile` with the look-up, `InsertRow`, which waits for an
  equal hash that is not committed yet, and `CommitRow`.  `Upload` is the same
  endpoint for a user's file.
* The pool is created once: `WorkerDies` fails every submitted job and every
  later one until `ApiRestarts`.
* `doubted`, `clipped`, `recopied` are history: a POST without an answer, a file
  taken before the camera had finished it, a file copied over an earlier copy.

### Delivery

Items are accepted, are pending, and are entered into a log in batches.  `Enter`
takes pending items only, and again only items in `doubted`; any step may give up
pending items, which then never come back.  Both compositions instantiate it: for
detections `log` is the table `events` and `pending` everything in a buffer, the
queue, the consumer's hand or an open request; for files `log` is `video_files`
and a file is pending while it is in its directory or a request about it is open.

## 3. What is checked

| run | bounds | states | shows |
|---|---|---|---|
| `visits_race` | 2 workers, 2 tractors, 2 batches of up to 2 events, time 0..3, 1 crash or broken connection; symmetric | 544,873 | `TypeOK`, `OneOpenVisit`, `DepartureBackdated`, `CommittedIsAnnounced`, `ClosedNeverReopens` |
| `visits_single` | 1 worker, exit window 2, time 0..6, 2 batches of up to 2 events, a client of the status endpoints, fair | 81,792 | `ConfirmedBeforePresent`, `MinimalStay`, `StaysOrdered`, `SeenNeverGoesBack`, `StaleVisitsSettle`, `DwellGrows` |
| `visits_locks` | 2 workers, 2 tractors, 2 batches of up to 2 events, no time, 1 crash or broken connection, fair | 5,222 | `BatchesSettle` |
| `video_overlap` | 1 video, loop and admin endpoint, budget 2, 2 permits, 1 fault; symmetric | 79,998 | `TypeOK`, `NoOrphanedProcessing`, `FileWhereRecorded`, `BudgetRespected` |
| `video_retries` | 1 video and 1 sentinel, loop, budget 2, 1 permit, 2 faults, fair | 19,675 | `NoVideoForgotten`, `PassesEnd` |
| `edge_delivery` | 1 station, 2 detections, 2 requests at a time, 2 attempts, batches of at most 1 event accepted, 1 fault or restart of the edge, fair | 1,324,917 | `TypeOK`, `StoredInOrder`, `NothingVanishes`, `KeepsPromise`, `DetectionsSettle`, `ConsumerMovesOn` |
| `file_delivery` | 1 station, 1 recording and 1 upload, 2 requests at a time, 1 permit, 2 faults, fair | 630,558 | `TypeOK`, `RemovedOnlyWhenStored`, `RecognisedWhole`, `KeepsPromise`, `FilesTakenOver` |

Why these bounds are enough: two sessions are what a race needs, and two events
per batch are enough to open and confirm a visit in one batch, or to open, lose,
adopt and go on.  With thresholds of 1 second, 4 instants let a visit be opened,
confirmed, left, closed and followed by another; the single-worker run has an
exit window of 2 so that LEAVING and CLOSED are apart and lie off the entry
threshold.  The race has two tractors, since it is the INSERT of one's visit that
flushes, and expires, the other's, and since a lost race about one takes the other
along.  Lock cycles need them too, but no time.  One video is enough for tasks that collide, since videos share nothing
but permits; two rows and one permit are enough for the waiting, and with a
sentinel as one of them a pass retries what can never succeed.

On the way of a detection, two detections make two batches in order or one that
is larger than the API accepts; two requests at a time are an abandoned one and
its repetition; two attempts are one that is repeated and one that is the last.
Timeouts are not counted as faults and so are bounded only by the attempts, each
fault happens once with everything else around it; a restart of the edge puts new
detections behind the heartbeat of its stop and beside abandoned requests.  Stations share nothing but
the consumer, which handles one message at a time, and the order is per station;
the theorems of section 4 hold for any number of stations, starts and faults.  On the way of
a file, the upload competes with the recording for the requests and for cold
storage, the file of a camera can be taken empty, unfinished or whole, and two
faults let the second hit what recovers from the first.  One recording has nothing
before it in its directory and no other producer to wait for: that the producers
of several stations serve each other in turn on one semaphore and one event loop
is not checked, while the theorems of section 4 about files hold for any number
of stations and recordings.

`ConfirmedBeforePresent`, `MinimalStay`, `SeenNeverGoesBack`,
`StaleVisitsSettle`, `StaysOrdered` and `DwellGrows` are properties of one worker
plus the stale check.  `CommittedIsAnnounced` is about the call of
`_publish_status_change`, whose message may still be dropped; what a client hears is
`CommittedIsHeard`, which does not hold.  `BudgetRespected` counts the retries
themselves, by the loop and the admin endpoint, and allows one more for every crash or
failing commit, since that may be a retry nobody has counted.  It says nothing of a
video of which two retries were in flight at once: there the budget breaks, as the end
of this section describes.  `NoOrphanedProcessing` and `FileWhereRecorded` hold until
the first fault; a crash between the move and its commit breaks the second.
`NothingVanishes` and `DetectionsSettle` hold with every fault: a detection that is not
stored was dropped by a step that says so, and where that is, `lost` has it.  Much of
what the code drops it may well drop (a broken connection, an outage, a consumer that
is away); how much is not bounded by them.  `KeepsPromise`, `StoredInOrder` and
`RemovedOnlyWhenStored` hold with every fault too, and except only the items their
history variables name.

That something happens in the end is stated as *again and again*: `NoVideoForgotten`,
`PassesEnd`, `DetectionsSettle` and `ConsumerMovesOn` say []<>P: whenever P is
not so, it will be.

**Fairness.**  Weak fairness of each worker's next step (the event loop runs
every task it was given, the process pool returns, PostgreSQL detects every lock
cycle), of the stale check and its commit (an endless loop around a sleep), and,
in `VideoLifecycle`, of every task, of every ticker's pass and of `Age` (the
threshold passes).  In `EdgeDelivery` and `FileDelivery`, of each process: an
edge's timer, connect and publish, the consumer's and each producer's next step,
every request, and the jobs of the pool.  No fairness for uploads, events, the
camera, crashes, timeouts, stops, registrations, or time: a run may stop receiving
videos at any point.

Five runs check what a document, a comment or a test of the repository says and the code
does not do:

| run | statement | what happens |
|---|---|---|
| `visits_detection` | README 283: the first in-ROI detection leads to ENTERING | a recognition that lasts 3 × entry_confirm makes the new visit look timed out at the end of its own batch, and it is deleted |
| `visits_loser` | README 313, `video_handler.py` 59: the loser adopts the winner; events are persisted | the rollback takes the batch's events with it; the video is COMPLETED with nothing stored |
| `visits_silent` | README 320-322: one SSE frame per state transition | with two tractors in a batch, the flush that inserts the visit of one expires duration_seconds of the other's instance; reading it for the next frame raises and is swallowed, and the transition is committed (`visit_service.py` 414-422) |
| `video_exhausted` | README 432: after the budget is exhausted the row becomes INVALID | a background task that outlives its retry writes FAILED over INVALID, and no pass picks the row up again |
| `edge_window` | `video_service.py` 191: never move it back; `test_edge_sentinel.py` 9: neither column ever moves backwards | an abandoned request and its repetition, or the next batch, overlap; the later commit writes what it computed from the row it had read |

Two transitions that `visits_silent` does not show are never announced at all,
because no call is there: PRESENT to LEAVING within a batch (`visit_service.py`
101), which the batch undoes or closes before it commits, and the deletion of an
ENTERING visit (181).  The property is about what is committed, so it sees neither;
the sentence of the README is contradicted by both as well.

### Other sentences the code contradicts

These follow from the models too, and have no run of their own.

* *The stale check* "force-closes any open visit whose `last_seen_at` has gone stale"
  (README 309-311).  It decides on the rows it has read: a batch that refreshes a visit
  between that read and the commit does not keep it from being closed
  (`CheckStale`, `CommitStale`; `visit_service.py` 365).
* *The budget*: "After this many retries the video becomes INVALID"
  (`config/scheduler.py` 43).  Passes of the loop and of the admin endpoint may overlap
  and run two retries of one video from the same `retry_count`; both fail, one of them
  is never counted, and the video is retried once more than the budget allows, without
  any crash (`FailRetry`, `CountRetry`; `video_service.py` 141).  These are the videos
  in `collided`.
* *Giving up* is said to be idempotent: a file that is in `failed_videos/` already is
  not moved again (`video_service.py` 228).  Two retries that exhaust the budget
  together move it twice, and the id is appended twice (`HandleFailure`, `MoveFile`;
  `video_service.py` 151).
* *The sentinel* of an edge station: "`status` is held at `PROCESSING` until a cleanup
  job decides otherwise" (`video_service.py` 171-172), "a forever-open container"
  (`schemas/edge_ingest.py` 9-12).  When no batch widens its window for the stale
  threshold the scheduler marks it FAILED and retries it as if it were a file
  (`SelectStale`, `MarkStale`; `scheduler.py` 129).
* *The buffer of the edge* is to be published when EDGE_PUBLISH_MAX_EVENTS events have
  piled up (`edge/main.py` 8-10, README 379-382).  The setting is stored and never used:
  only the timer and the end of the process flush, and a batch that has grown beyond
  what the API accepts is refused as a whole (`ProcessFrame`, `Answer`;
  `edge/main.py` 84).  In `edge_delivery` two detections in one batch are such a batch,
  and end in `lost`.
* *Stopping the consumer*: every message is dispatched "until `stop_event` is set"
  (`mqtt_client.py` 260-261).  The event is looked at when a message has arrived, so on
  a quiet topic the consumer goes on listening (`StopListening`; `mqtt_client.py` 278).

### What does not hold, and is promised nowhere

Found while looking for the widest bounds under which a property holds.  The
repository does not promise the opposite of any of these in words that we know of.

* *Two workers and time.*  Batches are applied in commit order, so last_seen_at
  can go back and departed_at can end up not after arrived_at; every later stale
  check then fails as a whole on `chk_visit_times` (`visit_service.py` 144).
* *A visit that vanishes.*  The stale check deletes an ENTERING visit by id; if a
  batch has confirmed it since the check read it, a PRESENT visit disappears
  (`visit_service.py` 182).  The deletion of a visit is announced to nobody.
* *Stays that overlap.*  departed_at is last_seen_at plus one window, and a batch
  can be recognised late: a stay may end after the next one has arrived
  (`visit_service.py` 196).  `StaysOrdered` bounds the last sighting instead.
* *Lost sums.*  Two batches that add to entry_seen_seconds of the same visit lose
  one of the sums; that only delays its confirmation (`visit_service.py` 140).
* *The pool.*  A worker that dies breaks the pool for every later video until the
  API restarts (`video_executor.py` 72).
* *The edge's connection.*  After one broken connection every later batch of the
  process is dropped (`mqtt_client.py` 242).  Only the final flush
  publishes an empty batch, so the sentinel is not kept alive while nothing is
  detected.
* *A refused batch.*  The consumer reads the clock twice for the two timestamps of
  a message; when the readings are equal the API refuses the batch for good
  (`mqtt_consumer/main.py` 149).
* *Files.*  One that is taken while the camera writes it keeps the name of what it
  held then, and loses its end when it is removed; two that are empty share a
  name; one copied again after it was registered can be read while truncated; one
  the API refuses is tried again before all others, one that cannot be read stops
  the directory (`cursor.py` 28, 60, 93, `ingestion/main.py` 87).

## 4. What is proved

`VideoLifecycle_proofs` proves, for any sets of videos, sentinels and tickers and any
settings that satisfy `LifecycleAssumption`:

| theorem | statement | argument |
|---|---|---|
| `TypeCorrect` | `Spec => []TypeOK` | `TypeOK` is inductive |
| `NotOrphaned` | `Spec => []NoOrphanedProcessing` | inductive together with `TypeOK`: a status becomes PROCESSING only in `Start`, which makes that task live, and a task stops being live only by writing another status, or in a fault |
| `FileRecorded` | `Spec => []FileWhereRecorded` | not inductive. `MoveInv`: the storage_uri a task has read is never beyond the file (`UriKnown`), at most one task has moved the file and not yet recorded it (`OneMove`), and the path lags behind the file by exactly that move (`Pending`) |
| `RetriesBounded` | for any tickers, `BudgetSpec => []BudgetRespected` | not inductive. `AccountInv`: the retries of a video outside `collided` that were dispatched and did not succeed are at most the row's count, the faults, and the one in flight. `BudgetInv`: there is at most one (`OneInFlight`), it was dispatched below the budget, and the count it has read is the row's (`WithinBudget`); `IdleInv`: a ticker that is not waiting has no task |

`VisitSessions_proofs` proves, for any sets of tractors and workers, any
thresholds that satisfy `ThresholdAssumption` and any bounds (`BoundAssumption`:
the bound on visits is a natural number; the other assumptions only say that Null is
no value of another kind and that the stale check is not a worker):

| theorem | statement |
|---|---|
| `TypeCorrect` | `Spec => []TypeOK` |
| `AtMostOneOpen` | `Spec => []OneOpenVisit` |
| `NeverReopened` | `Spec => ClosedNeverReopens` |

All three follow from one inductive invariant, `OpenInv`.  `OneOpenVisit` is not
inductive, because a commit moves rows into the table that were checked against
the table of an earlier moment.  What makes the check still valid at the commit
is in three groups of conjuncts:

* `RowsInv` speaks of the database.  `Exclusive`: two sessions never hold the
  lock of the same row.  `RowsChecked`: what is flushed or committed passed the
  CHECK constraints.  `StagedFollows`: a flushed row keeps the tractor of the
  committed one and is closed if that is.  `Uniqueness`: open rows of one tractor
  are unique in the table, among the flushed rows of all sessions, and between
  the flushed rows of a session and the committed rows it leaves alone.  A flush
  of a loaded row cannot disturb another session, since it never opens what was
  closed (`MergeOK`); an INSERT can, and waits for the sessions it could disturb
  (`Holders`, used in `Creating`).
* `WorkUsable` speaks of the instances: closed exactly when departed, and a
  departure that was loaded is never taken away (`Sound`); every flushed row has
  an instance.  With `chk_visit_departure` this is why a stale copy cannot reopen
  a visit: it can only write an open state next to a departure, which the CHECK
  refuses.
* `ActiveHeld`, `NothingHeld` and `EventPending` say that the dicts of a task
  refer to instances it holds.

Committing, creating a visit, and the steps that only delete rows or end
transactions are a lemma each (`Committing`, `Creating`, `Shrinking`); every
action is one of these for `RowsInv` and has a lemma of its own for the rest.

`VisitTimes_proofs` proves what the instants of a visit satisfy:

| theorem | statement | argument |
|---|---|---|
| `DepartedInThePast` | `Spec => []DepartureBackdated` | `TimesInv`, `BackdatedInv` |
| `ConfirmedInTime` | for one worker, `Spec => []ConfirmedBeforePresent` | `SoloInv` |
| `LastsAWindow` | for one worker, `Spec => []MinimalStay` | `SoloInv` |
| `NeverSetBack` | for one worker, `Spec => SeenNeverGoesBack` | `SoloInv` |

`TimesInv` says that the events of a batch come in the order of their times, none
before the batch began or after now.  `BackdatedInv` extends `DepartureBackdated`
to the flushed rows and the private copies of every session, from where it gets
into the table; `Quieted` says once what `_maybe_close_visit` may do to a row, and
`Ahead` what a session has changed before it flushes.

The other three are for one worker beside the stale check, and the hypothesis is
needed: two batches that add to the same visit lose one's `entry_seen_seconds`,
and set `last_seen_at` in the order they commit.  With one worker the difficulty is
the stale check, which writes from copies that may be old.  `SoloInv` has

* `TableGenuine`, the properties themselves and what they rest on: the instants of
  a stored visit fit together (`Genuine`) and none is in the future;
* `TableBehind`: what the worker finds is not later than the start of its batch, so
  that every event moves a visit on;
* `WorkerFits`: the worker's copies are ahead of what it loaded (`Advances`), and
  the columns it has loaded are still those of the table (`Agrees`), because
  nobody else writes `last_seen_at`, `entry_seen_seconds` or `arrived_at`; its
  flushed rows are ahead of the table, and the stale check does not know the ones
  it inserted;
* `StaleInstances`: the stale check's copies differ from what it read only as
  `Quieted` allows, so that its UPDATE leaves out those columns, and an arrival it
  has read is still the one in the table, so that the departure it writes fits.

`VisitStatus_proofs` proves what the clients of the API see:

| theorem | statement | argument |
|---|---|---|
| `CommittedAnnounced` | `StreamSpec => []CommittedIsAnnounced` | `HeardInv` with `OpenInv` |
| `StaysInTurn` | for one worker and Entry > 0, `Spec => []StaysOrdered` | `TurnInv` with `OpenInv`, `TimesInv`, `SoloInv` |
| `DwellNeverBack` | for one worker, `Spec => DwellGrows` | the same invariants, step by step (`StepKeepsDwell`) |

The first is for any tractors and workers.  A commit writes states that were set long
before, so `HeardInv` follows them back: the state of every committed row, of every
flushed row of a session (`RowsAnnounced`) and of every instance that changed since it
was loaded or flushed (`ObjsAnnounced`) was announced, whatever was rolled back,
adopted or closed in between.  `FreshIds` and `StillHeard` deal with ids: the model
gives the id of a deleted visit to a new one and forgets what was said of it, and nobody
knows that id then.  That a client hears what is announced is not a theorem, as
`visits_silent` shows.

`StaysOrdered` speaks of the lists two endpoints answer.  What makes it true is that
the visits of a tractor follow one another, and that has to be said of more than the
table, since a session decides on what it has flushed and on copies it has not.
`TurnInv` says it of the rows a session would see (`RowsOf`) with the instants it
would leave behind (`Latest`): of two visits of a tractor one is closed, and was last
seen before the first detection that the other counts (`OverBefore`; for an ENTERING
visit that is entry_seen_seconds before it was last seen, `Precedes`).  A task changes
only the last visit of a tractor (`ActiveLast`), so that moving it on disturbs nothing:
it finds that one by the SELECT of the open visits, or creates it when none is open.
While a lost race is being resolved nothing in the session counts (`adopting`), and the
stale check writes no instant the order depends on, so all its steps keep it
(`StillInTurn`).  From there to the answers: the rows of a tractor's history are totally
ordered by `arrived_at` (`PastInTurn`), so that `InOrder` sorts them (`HistorySorted`,
from `InOrderSorts` below), and the open visit comes after them all.  This is where
Entry > 0 is used.  The setting has no lower bound in the code (its default is 1); with
0, two stays can be confirmed at the same instant, and `ORDER BY arrived_at DESC` leaves
open which is listed first: in `visits_single` with Entry = 0, Exit = 1 and batches of
three events, TLC finds `StaysOrdered` violated.

A dwell time that is shown belongs to an open, confirmed visit (`DwellOfOpen`), so for
`DwellGrows` it has to be shown that a step has the same visit on both sides, with the
same arrival.  A step that does not commit a batch opens no visit (`Settles`), and
`Uniqueness` leaves only one.  A batch deletes only a visit that it and the table hold
ENTERING, since the single worker's copies agree with the table (`CommitBatchKeeps`):
if another visit of the tractor is open after its commit, the one before was closed by
it, and the history, which lists every closed visit (`AllListed`), is longer.

`Ordered_proofs` proves `InOrderSorts`: for every finite set and every strict total
order on it, the sequence `InOrder` chooses exists, has every element once and is
sorted.  The witness is the inverse of the number of elements that come before.

The steps of the `VideoLifecycle` proofs follow the actions; the lemmas `RowUpdate`,
`TaskUpdate`, `GotoUpdate`, `TaskAt`, `GotoAt`, `StatusAt` say what the nested
EXCEPTs of the module do to one component, and every action cites them.
TLC checks the same properties on small instances in `video_overlap` and
`video_retries`, and those about visits in `visits_race` and `visits_single`.

`Delivery_proofs` and `EdgeDelivery_proofs` prove, for any
stations and any bounds with at least one attempt (`RetriesAssumption`), a natural
number of detections (`DetectionsAssumption`) and a Null that is no payload and no
row (`NullAssumption`):

| theorem | statement | argument |
|---|---|---|
| `Delivery_proofs!NeverEnteredTwice` | `Delivery!Spec => []EnteredOnce` | an item may be entered again only if it is in `doubted`, which never shrinks |
| `TypeCorrect` | `Spec => []TypeOK` | with `RequestsOK`: a request has a payload exactly while it is worked on, a sentinel that was seen is still there |
| `PromiseKept` | `Spec => KeepsPromise` | the refinement, from `FlowInv` below |
| `NeverStoredTwice` | `Spec => []StoredOnce` | `PromiseKept` and `NeverEnteredTwice` of the instance |
| `OrderKept` | `Spec => []StoredInOrder` | `OrderInv` below |
| `NothingLost` | `Spec => []NothingVanishes` | `TracedInv` below |

That the path implements `Delivery` means that a step which stores a batch is an
`Enter` of pending items, of which only doubted ones are stored already, and that
no step makes an item pending again.  Neither follows from the state of one
process.  `FlowInv` has what the processes rely on together: `Apart`, what is
still in a buffer, a publish or the queue is in one of these places only and none
of it was sent to the API; `Numbered`, every detection is at most `made`, so new
ones are new everywhere; `Accounted`, what a request carries is doubted or is what
the consumer has in hand and waits for; `NotYetStored`, what the consumer has in
hand is not stored, up to doubted detections, unless the answer that says so is
waiting for it.  The lemmas `EdgeMoves`, `FrameMoves`, `ConsumerMoves`, `ApiMoves`
say once where the detections of a step go; the invariant and the refinement use
them instead of the actions.

`StoredInOrder` speaks of the table alone.  `OrderInv` adds that the whole path is
in order: `QueueInOrder` for the queue and what the edge holds, `SentAhead` for
what was sent (stored, in hand, at the API) before what was not, and `InHandLast`,
the batch in hand comes after everything stored.  The last one fails between the
commit of the batch and its answer, which is why it excepts `Confirmed`; there it
is not needed, since a confirmed batch is put away.  A request that nobody waits
for can commit at any time, and is excepted by `doubted`.

`NothingVanishes` could fail where a step overwrites what it takes to be empty, or
forgets what it takes to be stored.  `TracedInv` adds to `FlowInv` why neither happens.
`EdgeTidy`: nothing is inside a publish of an edge when none is under way, and nothing
in its buffer once it has left its loop, whichever flush was cut short.  `HandOK`: the
consumer keeps what it posts until it hears of it, and it hears of a success only after
the commit of that very batch (`SuccessIsCommitted`), although an abandoned request may
be answered beside it.  So what is in a request need not be searched: a detection is in
the table, or in `Kept`, which leaves the requests out.

`FileDelivery_proofs` proves, for any stations, recordings, clips of at least one
frame, uploads and bounds (`RecordingAssumption`), and a Null that is no content of
a file (`NullAssumption` of `Recordings`):

| theorem | statement | argument |
|---|---|---|
| `NoFileLost` | `Spec => []RemovedOnlyWhenStored` | `FileInv` below |
| `FilesDelivered` | `Spec => KeepsPromise` | the refinement, from `FileInv` and `AcceptedInv`: what is doubted was accepted |
| `NeverRegisteredTwice` | `Spec => []RegisteredOnce` | `FilesDelivered` and `NeverEnteredTwice` of the instance |
| `FilesTyped` | `Spec => []TypeOK` | `WholeInv` below |
| `WholeRecognised` | `Spec => []RecognisedWhole` | `WholeInv` below |

That a file is only removed when it is stored is a matter of three processes: the
camera writes it, the producer copies and removes it, the API hashes the copy.
`FileInv` follows a finished file through them.  `ProducersInv`: what a producer has
in hand is in its own directory and, if it was finished when taken, named after the
whole of it.  `PostingInv`: while a producer waits, the copy of that name is whole,
the request has hashed nothing else, and an answer 201 or 406 means that the hash is
in the table.  `CallsInv`: a request nobody waits for is about a doubted recording.
`UniqueInv` is what the unique constraint gives: a flushed row's hash is in no row.
`RowsInv`: a recording that is neither doubted nor clipped is registered under the
hash of the whole, so that a second row of it would have a hash that is taken.
`NamesApart` is why producers do not disturb each other's copies: the name one
copies to is never that of the whole of another's file.  `Shape` leaves open what a
row found in its clip; `AcceptedInv` is needed for the refinement only.

`RecognisedWhole` is about what happens after the registration, when a worker reads the
copy although producers go on copying.  `WholeInv` adds to `FileInv`: `CopyInv`, a name
is torn only while the one producer that copies to it is at it; `IntactInv` and
`HandsInv`, the copy a row or a request names is there, and is the whole recording
unless it was copied twice or taken unfinished (the step that starts a second copy puts
the file into `recopied`); `FoundInv`, what a worker has found in such a copy is what there is to find, and a job has failed, or the pool is
broken, only after a fault.  `RestInv` types the rest, so that `TypeOK` follows; for the
events it uses `InOrderSorts`, which makes them a sequence.

Only model-checked is all liveness: `StaleVisitsSettle`, `BatchesSettle`,
`NoVideoForgotten`, `PassesEnd`, `DetectionsSettle`, `ConsumerMovesOn`,
`FilesTakenOver`.  It needs ENABLED and fairness and is out of the prover's reach.
Every invariant and every action property that a passing run checks is stated by one
of the theorems above.

## 5. Not modelled

* SSE: connecting, disconnecting and the keep-alive of a client.  `VisitStream`
  has a client that is always there.
* OpenCV and the trackers: what they find in a frame is part of the frame.
  `is_parked` is computed by the code and used nowhere.
* Videos without a station, which are recognised but never reach the aggregator.
* The retries without limit (`mark_unlimited_retry`): `VideoProcessError` is
  raised nowhere, so their branches cannot be reached.
* REST resources other than videos, events and status: create, read, update and
  delete of single rows without interaction.  Registration of a station is
  modelled where ingestion depends on it.
* Updates and deletions of stations and tractors while visits refer to them.
* The MQTT broker beyond what the code uses of it.  Two processes with the same
  default client id would disconnect each other; the model has one consumer and
  one edge per station, with ids of their own.
* Settings are CONSTANTS; logging, scripts, the health endpoint and deployment are
  left out.

The compositions are two: visits and the lifecycle of videos meet only in the
recognition task, whose commits both have, and what the edge stores does not
reach the aggregator.  A video's events are not counted in `VideoLifecycle`, so
that a crash between storing them and COMPLETED makes the retry store them again
follows from the code (`visit_service.py` 124) and is no property here.
