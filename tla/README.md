# Verification of Faceapp

Faceapp lets attendees of an event find their own photographs by a selfie. An
operator uploads an album; workers index the faces in it; attendees search the
album, opt out, or keep their result; after its retention period the album is
deleted, first from the database, then from the object store. The similarity
thresholds of the search come from an evaluation on labelled albums.

This directory holds TLA+ modules that model the code in `src/`, TLC
configurations that check them on small instances, and proofs, checked by
TLAPS, of theorems about them for all instances.

## 1. Inventory

Paths are relative to the repository. Each row of `PROJECT.json` "components"
names the files, "hazards" the lines where the behaviour is hard to test, "map"
the lines every definition stands for.

| Component | State it keeps | Operations | Interacts with |
|---|---|---|---|
| Ingestion queue (`supabase/migrations/..0400_ingest_jobs.sql`) | `ingest_jobs`: state, attempts, run_after, locked_by, locked_until | `claim_ingest_jobs`, `finish_ingest_job` | updates `photos.status`, `events.status`, `events.face_count` in the same transaction |
| Ingestion worker (`ml/faceapp_worker/ingest.py`, `repo.py`) | the batch it claimed, in memory | claim, heartbeat, `process_one` (derivatives, `replace_faces`), finish | queue, object store, face engine |
| Upload route (`src/app/api/events/[id]/upload`) | none | stores the original, then inserts photo and job and reopens the event | object store, queue |
| Retention (`..0200_retention.sql`) | `deletion_audit`, `storage_gc_queue` | `run_retention`, `log_selfie_deletion` | deletes events by cascade, feeds the collector |
| Storage collector (`..0600_storage_gc.sql`, `storage_gc.py`) | `storage_gc_queue` rows with leases | `claim_storage_gc`, `finish_storage_gc`, `drain_once`, `run` | object store |
| Attendee search (`src/app/api/search`, `src/lib/search.ts`, `thresholds.ts`) | `search_logs` | gate, rate limit, enrol, search, rank, destroy, audit, sign | enrolment service, faces, exclusions, retention audit |
| Opt-out (`src/app/api/optout`) | `exclusions` | enrol, delete matching faces, record the exclusion | faces, clusters, search |
| Keep-links, download, files (`src/lib/resultlink.ts`, routes) | signed tokens with an expiry | sign, verify, re-authorise, stream | faces, exclusions |
| Clustering (`ml/faceapp_worker/cluster.py`, `ml/faceapp_ml/clustering.py`) | `clusters`, `faces.cluster_id` | DBSCAN over an event, rewrite | faces that passes insert and opt-outs delete |
| Enrolment service (`ml/faceapp_worker/service.py`) | the loaded engine and policy, a lock | load, enrol frames, health | search, opt-out |
| Quality gate, engines (`ml/faceapp_ml`) | configuration | tiers, embeddings | worker, service, evaluation |
| Labelling (`ml/eval/label.py`) | `state.json`, `selfies/`, the dataset files | `init`, the review screens, `export` | gate, DBSCAN; feeds the evaluation |
| Evaluation (`ml/eval/run.py`, `faceindex.py`, `metrics.py`, `report.py`, `select_thresholds.py`, `faceapp_ml/config.py`) | index cache, reports, `thresholds.toml` | index, sweep, report, select, load | labelling; gates the search |
| Accounts (`src/lib/auth.ts`, `db.ts`, RLS) | sessions | sign in, sign out, ownership by RLS | everything an operator does |
| Browser (`src/components`) | React state, camera | capture, upload in batches, opt out | the routes |

What is hard here, and what makes each part correct:

* **Queue and workers.** Workers run concurrently, die at any point, lose
  replies and outlive leases; retention deletes rows under them. Correct means:
  a photograph is in one worker's hands at a time, its faces are indexed and
  counted once, every job settles, a settled job stays settled, and the page,
  the queue and the album's status tell the same.
* **The opening of an album** is decided by a statement that reads the other
  jobs under READ COMMITTED. Correct means: ready exactly when nothing is left.
* **Bytes and rows** live in two systems without a common transaction. Correct
  means: what a row shows is stored, and after the event nothing stored is
  forgotten by the collector.
* **The collector** retries deletes whose outcome it may not know. Correct
  means: done only when erased, dead-lettered only after all attempts, settled
  in the end.
* **Search and opt-out** run against workers, retention and each other. Correct
  means: nobody is answered before the destruction of the selfie is on record; an
  opted-out person does not come back through a worker's pass, a keep-link or a
  looser threshold; the limit is not exceeded without bound by concurrent requests;
  nothing returns into a deleted event.
* **Clustering** reads the faces, computes outside any transaction and replaces the
  clusters in one, while faces come and go and another run does the same. Correct
  means: no face is filed under a cluster that was not made of it, and a run that met
  nobody leaves what DBSCAN is defined to find.
* **The enrolment service** loads a model of a minute either in a thread or inside
  its event loop, under a double-checked lock. Correct means: nobody uses or repeats
  a half-finished load, a failed load blocks nobody, everything asked is answered.
* **Labelling** recomputes proposals after every edit of a person, and export writes
  four files and the enrolment images one after the other. Correct means: what a
  person said stands, and what export calls done can be loaded and leaks no image of
  a query into the photographs it is scored against.
* **Evaluation** reads through a cache that outlives what it was made of, and its
  result is accepted later by a loader that was not there. Correct means: a report
  is of the gate it names, misses stay misses, and numbers that load are earned.

## 2. Modules

| Module | Models |
|---|---|
| `WorkQueue` | abstract: a job is waiting, in the hands of one worker, done, dead or withdrawn |
| `IngestQueue` | `ingest_jobs` with claim and finish, the rows they write, the upload, retention of an event, and the worker loop |
| `AlbumGate` | abstract: upload, claim, finish and the end of one album take effect at once |
| `EventReady` | the same transactions, statement by statement, with row locks |
| `StorageGC` | the collector's queue, its processes, the object store |
| `Retention` | one event's objects from upload to erasure; instantiates `StorageGC` |
| `Search` | searches, opt-outs and keep-links of one event, with the steps of workers and retention they run against |
| `FaceGate` | the quality gate: tiers, what of an image is indexed, which frames enrol |
| `Dbscan` | `dbscan_cosine` as it goes, and a definition of what it should compute |
| `Clusters` | clustering processes over one event |
| `EnrolService` | the enrolment service's threads, lock, event loop and requests |
| `WorkerImage` | a container that runs one of `Clusters`, `EnrolService` and `StorageGC` |
| `Metrics` | scores, sweeps and the choice of thresholds |
| `Labelling` | `init`, `review` and `export` of one dataset |
| `Evaluation` | from the exported files to thresholds that load; extends `Labelling` and `Metrics` |
| `*Proofs` | the theorems of `IngestQueue`, `EventReady`, `StorageGC`, `Retention`, `Search`, `Dbscan`, `WorkerImage` (with `Clusters` and `EnrolService`) and `Evaluation` (with `Labelling` and `Metrics`) |
| `MC*` | give the constants values for TLC |

Definitions called "faulty variant" are no part of a specification; they say what
a plausible mistake in the definition below them would do, and `PROJECT.json`
"mutants" names the property that notices.

### IngestQueue

A job is named by its photograph (`ingest_jobs.photo_id` is unique). The state of
the tables is a function per column; the state of a worker is its program
counter between two database calls plus the batch it holds in memory:

| `pc[w]` | the worker is | next |
|---|---|---|
| `idle` | before `repo.claim` | `Claim`, `ClaimReplyLost` |
| `beat` | before `repo.heartbeat` | `Heartbeat` |
| `next` | at the head of `for job in jobs` | `Derive`, `RaiseEarly` |
| `derived` | after `store_photo_derivatives` | `DeleteFaces`, `RaiseLate` |
| `replacing` | inside the transaction of `replace_faces` | `CommitFaces`, `RaiseLate` |
| `indexed` | before, or inside, `repo.finish(ok)` | `CheckDrained`, then `FinishOk`; `FinishRaises` |
| `raised` | in the `except` of the loop | `CheckDrained`, then `FinishFailed`; `FinishRaises` |
| `down` | killed, or dead of an uncaught exception | `Restart` |

`held[w][p]` is `Job.attempts` of the claim the worker works from, so a stale
claim can be told from the current one. `replace_faces` takes two steps, because
its DELETE sees what was committed before it: `snap` is what it saw, and rows of
different passes are different members of `faceRows[p]`. The commit may succeed and
its reply be lost, which `process_one` sees as an exception. `credits[p]` is how
often the faces of a photograph were added to `events.face_count`.

Clocks are abstracted to what the queries compare: `due` (`run_after <= now()`)
and `lease` (`locked_until` null, ahead, behind). `LeaseExpires` lets a lease run
out that no live worker is behind; `LeaseOverruns` lets one run out under a live
worker, and is bounded by `MaxOverruns`. With 0 the model assumes what the
heartbeats are meant to ensure (a photograph takes less than `lease_seconds`);
with 1 it shows what happens otherwise. Unattested youth events are a constant,
because no code records an attestation.

`finish_ingest_job` takes two steps. `CheckDrained` has locked the row of the job (and,
for a success, that of the event) and looks with NOT EXISTS at what others have
committed; `verdict` is what it saw. `FinishOk` and `FinishFailed` commit, and the event
becomes ready by that verdict. In between everybody else goes on but for the locks:
the job and photo of the finish are not touched (`Finishing`), of two successes of an
event one waits for the other, and an upload waits for a success (`Counting`). A dead
letter or retry looks without the events lock. `crossed` is history: the events where
the finish of a dead letter met another finish or an upload, which is where the code's
verdict may be stale. `FinishRaises` is both ways the function raises: the job is gone with its
event, or the event would become ready against `events_youth_attested_before_ready`;
neither is caught in `run()`.

### EventReady

The three transactions that touch the event row (upload, finish of a success,
finish of a dead letter or retry) as sequences of statements. A statement reads
what is committed when it begins and what its own transaction wrote; the events
row is locked from the first UPDATE of a transaction until its end; an UPDATE
that had to wait re-checks the locked row but not its subquery. `AtomicFinish`
states that none of this shows: the committed state behaves as `AlbumGate`. That is so as
long as nothing is dead-lettered, and only then. Every album of `IngestQueue` (`Gate(e)`)
behaves so as well, with dead letters too, as long as it is not in `crossed`. Beyond these
conditions the code keeps no such promise at either grain; `ready_early` shows how.

### StorageGC

As IngestQueue, but a claimed row stays `pending` and only its lease keeps it. A
delete may fail having been carried out or not. An unusable key is dead-lettered
by two autocommitted statements (`FinishRefused`, `MarkFailed`). `moved` is
"deleted or failed is not zero", which decides whether a run without `--forever`
goes on. A claim finds nothing when nothing is claimable, or when another process has
locked what is, which SKIP LOCKED leaves out (`ClaimNothing`).

### Retention

Objects are pairs of a photograph and a kind. Uploads (`CheckEvent`,
`PutOriginal`, `InsertPhoto`), passes (`WritePreview`, `WriteThumb`,
`RecordDerivatives`) and `RunRetention` interleave with the steps of the
collectors. Every upload and pass may break off anywhere. `disturbed` remembers
that one did, or that retention came while one was in flight; it is history, not
state of the program, and separates what the order of steps alone can do
(`NothingForgotten`) from what a failure does (`AllEnqueued`).

### Search

One action per statement of the two handlers that another request could come in
between; `stage` is where a handler is. Retention and the workers are condensed to the
steps an attendee can notice (`Upload`, `IndexFaces`, `FinishPhoto`, `Expire`,
`DeleteEvent`); `IngestQueue` has them in full. Embeddings are abstracted to
`Distance`, a table of cosine distances in hundredths between people and faces;
`HighDistance` and `LowDistance` are one minus the two thresholds. A row of `faces` is
a face and the pass that inserted it, so a re-indexed face has a new id and a
keep-link does not resolve to it. `exposed` (what was shown after whose opt-out) and
`raced` (an opt-out that met a pass) are history. A search is one query, hence one
snapshot; an opt-out is one transaction. `Log` fails without the event, to which
`search_logs` refers; `deletion_audit` refers to nothing and outlives it.

### Clusters and Dbscan

A process is its SELECT (`ReadFaces`), the grouping in memory, and one transaction of
DELETE, INSERTs and UPDATEs. The transaction takes three steps: the DELETE's snapshot
(`BeginDelete`), the wait for another process that is deleting the same rows
(`EndDelete`), and the commit. Faces come (`FaceStored`: a pass) and go
(`FaceDeleted`: a pass or an opt-out) at any point; the foreign key unsets
`cluster_id` with its cluster. Embeddings are a symmetric relation `similar` ("cosine
similarity of at least 1 - eps"), of which TLC tries every one; a centroid is the set
of faces it was averaged over. `alone` and `exact` are history: nothing else happened
between a run's SELECT and its commit, and nothing since.

`Dbscan` is the program's own loops, as recursive functions, with a set for the work
list: `Turn` is one turn of the `while`, `StartAt` one of the `for`. `IsDbscan` does not mention the loop: core points share a label exactly if they
are density-connected, a border point has the label of a core neighbour, the rest is
noise.

### EnrolService

`at[t]` is where a thread is in `engine()`: the first look, the lock, the second look,
the model, the policy, publishing. There are two threads: the warming thread of
`lifespan()` and the event loop, where `enroll()`, which awaits only the reading of its
frames, runs engine and detection without giving the loop back: `Receive`, `Enter` and
`AnswerProbe` need the loop to be free. A load may fail (import, constructor, or
policy file), detection or averaging may raise (`Answer` with "error"), the container may be
restarted. A frame is what the handler tells apart: undecodable, no face, several, too far,
or one to enrol from.

### WorkerImage

`docker-entrypoint.sh` runs one program per container; `command` is the one it runs.
Besides the ingestion worker, which is checked on its own, these are the service, the
clustering job and the collector. They share the image and no state of these modules, so
the composition is a choice between the three.

### Labelling

`doc` is `state.json`, which every request loads and saves whole: the faces that pass
the gate, the group each is in and the groups' member lists (kept twice by the code,
hence twice here), the person of each group, the labels with their origin, the removed
pairs and the chosen selfies. Each POST of the review screens is an action; `Post`
recomputes the labels as every handler does. Which face, photograph or person a request
names is up to the page, which may be older than `state.json`: with `StalePages` the
handlers take what the page would not offer, as `_apply()` does; without it they are asked
what a current page offers. `export` is `ExportSelfies` (which cuts
the images and returns if there are problems) followed by one `ExportFile` per file,
in the order of the code; `KillExport` ends it between two. `verdict` (what the
reviewer said last of a pair) and `whole` (the files and images are of one export that
ended) are history.

### Metrics and Evaluation

Thresholds and similarities are whole steps of the grid, which may begin below the floor of
the scores (`--grid-min` under 0.20); precision and recall are pairs of counts, compared
crosswise with the targets. `Run` is `eval.run` over the exported
files: the refusal of uncorrected labels, the index through the cache, the sweep over tier 2
(and further up if no threshold is precise enough), the sweep over all faces, the
report. The cache key is the code's: name and size of the dataset, engine, policy, and
nothing of the labels, selfies or names of photographs. A report is what its JSON says,
and beside it, for the properties, the index and labels it was made of; its digest is
what it says. `Select` is `select_thresholds --write`, which records the bare name of the
report; `CommitReport` puts the report of that name beside the file, where
`load_thresholds` looks for it; `Accepted` says that `load_thresholds` returns; `HandEdit`
changes a number of the generated file. `Delivered` is `rank()` of the search over the
index of a report: the closest face of a photograph that is not rejected, of either tier,
decides the bucket.

## 3. Runs

Every run finishes within two minutes, most in seconds. "Violated" runs check one
statement that a comment, a doc or a test makes of the program; "findings" in
`PROJECT.json` quotes it.

| Run | Checks | Shows |
|---|---|---|
| `queue` | types, `SoleHolder`, `CountedOnce`, `FacesOnce`, `ReadyMeansDrained`, `PhotoFollowsJob`, `SettledStaysSettled`, `JobsSettle`, `AlbumsOpen`, `QueueSpec` | the pipeline while no lease overruns: kills, lost replies, retries, dead letters and retention lose nothing and double nothing, and the table implements `WorkQueue`; albums open when, and only when, they are drained, unless the finish of a dead letter crosses another finish or an upload |
| `queue_overrun` | `RunningIsLeased`, `DoneIsSearchable` | what survives an overrun lease and an unattested youth album |
| `attempts` | `AttemptsWithinMax` violated | kills are never dead-lettered |
| `ready` | types, `DrainedMeansReady`, `ReadyMeansDrained`, `AtomicFinish` | without dead letters the transactions behave as if atomic |
| `ready_early` | `ReadyMeansDrained` violated | a dead letter opens an album under an upload |
| `retention` | types, `ShownIsStored`, `NothingForgotten`, `AlbumErased` | overlap and failures at will: shown is stored; undisturbed: erased to the last byte |
| `forgotten` | `AllEnqueued` violated | a broken-off upload (or pass) leaves an object nobody knows of |
| `search` | types, `ExcludedUnseen`, `LimitHolds`, `NothingOutlivesEvent`, `AnswersOnRecord`, `FaceCountExact` | what attendees are promised, under all orders of three searches, an opt-out, passes and retention |
| `optout_radius` | `OptedOutUnseen` violated | an opt-out leaves faces searchable that the same selfie still matches |
| `worker_image` | types, `DoneMeansErased`, `NoEarlyDeadLetter`, `ErasureSettles`, `FacesInTheirCluster`, `QuietRunsExact`, `EngineWhole`, `EnrolmentsAnswered` | two collectors with a kill, an overrun lease and an unusable key; two clustering runs over faces that come and go, for every similarity among them; the service under requests, a health check, failed loads and a restart |
| `evaluation` | types, `LabelsFollowReview`, `ExportLoads`, `ReportHonest`, `MissesCount`, `TunedIsEarned` | an album from detection through review, exports that are killed, an edit of the gate and cached evaluations to thresholds that load |
| `hand_edit` | `EditsCaught` violated | a threshold changed by hand in the generated file loads |

`ReadyMeansDrained` and `AlbumsOpen` of `queue` speak of albums that are not in `crossed`:
there dead letters are retried, buried and looked past, alone and beside every other
step, but for the overlap of which `ready_early` shows the outcome. With `crossed` left out of
the two properties `queue` violates both.

### Other disagreements seen while modelling

They are not runs of their own: most are the same weakness as a run's from another side,
found with a variant of its constants; the others are visible in an action as it stands.

* `queue` with `MaxOverruns = 1` violates `FacesOnce` (two `replace_faces()`
  interleave: neither DELETE sees the other's rows), `CountedOnce` (a finish names
  the job, not the claim, so two finishes count twice) and `PhotoFollowsJob` (a slow
  worker marks the photograph `processing` behind the other's finish and dies: the
  job is done and the photograph, filtered by `p.status = 'done'` in
  `src/lib/search.ts`, is never found).
* `attempts` with `Unattested = {e1}` and `MaxKills = 0` violates
  `AttemptsWithinMax`: the finish of the last job rolls back and ends the worker.
* `ready` with `Outcomes` including `"failed"` violates `DrainedMeansReady`: of two
  concurrent finishes, one a dead letter, each sees the other's job running, and
  the album stays `indexing` for good.
* `forgotten` reaches its violation by a crash of the upload; retention between
  `put` and insert, and a pass that breaks off after a `write`, do the same.
* `storage_gc.py` says it runs "until the queue drains"; a run without `--forever`
  ends when a batch only failed to be retried, or when the claim finds only rows
  that back off (`ClaimNothing`, `Proceed`). The next scheduled run repairs it.
* `LimitHolds` allows `AtOnce - 1` searches more than `RateLimit`, and that is the best
  bound: requests that overtake each other between counting and logging all pass, where
  the route's message says "Searches are logged" of a limit per hour.
* Without `raced`, `FaceCountExact` fails: `optout/route.ts` subtracts rows that
  `finish_ingest_job` has not yet counted, and `greatest(0, ..)` then forgets some.
* `EnrollFails` and the opt-out destroy a selfie without `log_selfie_deletion()`, whose
  comment speaks of "the attendee selfie"; `AnswersOnRecord` is about searches only.
* `Clusters`: two overlapping runs leave the clusters of both, one of them named by no
  face; an opt-out or a re-ingestion leaves the old `face_count` and centroid; and an
  event without a tier-2 face any more keeps its old clusters, since the run returns
  early. `QuietRunsExact` is therefore about runs that met nobody.
* `EnrolService`: while the event loop waits for the lock or loads, `/health` is not
  answered, although its comment says that it does not force the load; the container's
  HEALTHCHECK has a timeout of five seconds.
* `TunedIsEarned` bounds what `rank()` delivers from above only. `eval/run.py:121` says that the
  confident set is measured over tier 2 "exactly as the search path will restrict it"; but
  `rank()` lets the closest face of a photograph decide, and when that is one of tier 1
  the photograph is a "maybe", although a tier-2 face of it passes `t_high`. So what is delivered may
  be less than what was predicted: where a right photograph goes that way the
  delivered precision is below the measured one, by which the threshold was chosen. The property
  therefore says that nothing is delivered that the row did not count, and no more of it wrong.
* `MissesCount` counts misses from the floor up only: with `--grid-min` below 0.20
  (`REACHABILITY_FLOOR`) an appearance whose best face lies between the two is found by a row and
  counted in `unreachable_rate` as well.
* `ExportSelfies` cuts `selfies/<person>-<n>.jpg` over those of an earlier export before it
  looks for problems. An export that then ends with problems, or is killed, leaves new images
  beside old CSV files, which do not hold their photographs out; an evaluation of them
  scores a query against the image it was cut from (`label.py`, `_write_selfies`, says why
  that "would quietly invalidate the number"). `ReportHonest` speaks of whole exports.
* `RemoveLabel` followed by `AddLabel` of a proposed pair makes the label `human`, which
  `dataset.py:47` defines as a pair "that the grouping did not propose"; so one click back
  and forth satisfies the refusal of uncorrected labels.
* `CacheKey` holds nothing of labels, selfies or names of photographs: an index stays in use
  after the selfies changed, and an export that holds out other photographs in the same
  number ends `Run` with a KeyError.
* `Precise` is true of a row without predictions: a threshold above every score may
  become `t_high`, and the confident set is then empty rather than precise.
* `build_index()` enrols without `MIN_FACE_FRACTION`, which the service applies, where its
  comment says "Enrollment mirrors the production path exactly".
* `eval.gate` (not modelled) returns 0 if the baseline never reached the target, before it
  reports that the two datasets differ.

### Bounds

* Two photographs, two workers, batches of up to two: one worker can hold two
  jobs while the other takes one over, which is what claims, heartbeats over a
  whole batch and the last job of an album need. `EventReady` has three
  photographs, so that a finish, another finish and an upload overlap.
* `MaxAttempts = 2`: one retry and one dead letter. `ClaimBound` caps the number of
  claims of a job where `attempts` would grow without end; in `queue` it lies above
  every reachable number of attempts (they pass `MaxAttempts` only by kills).
* `MaxKills = 1` (kills, lost replies, dropped connections): one is enough for a
  reclaim; three in `attempts`, to get past `MaxAttempts`. `MaxOverruns` is 0 or 1.
  `queue_overrun` trades the kill for a second album. The proofs are for any number.
* `Retention` has one photograph with its three objects, since no rule relates the
  objects of two photographs, one collector that may be killed once, and one attempt
  per key, so that a failed delete is a dead letter at once.
* `worker_image`: two collectors, so that one may take over from the other; a kill (or a claim
  that meets the other's lock) and an overrun lease.
* `Search`: two people, one of them with a second search and an opt-out, so that a
  search, a keep-link and an opt-out of the same person interleave with somebody else's;
  a close and a borderline face of hers; two passes, so that a pass inserts what an
  opt-out deleted. `RateLimit = 1` with `AtOnce = 2` and three requests reaches the limit
  and the overtaking. All requests fall into one hour and come from one device: a second
  device or hour has a count of its own. The thresholds are those of `DEV_THRESHOLDS`.
* `Clusters`: three faces with every similarity among them and the `MIN_CLUSTER_SIZE` of
  the code, 2: pairs, chains, a triangle and singletons; two runs, and the clusters of an
  earlier one or none. A border point needs a larger minimum and a fourth face;
  `DbscanCorrect` covers them, and any number of points.
* `EnrolService`: two requests are enough for one that loads and one that waits behind it;
  two failed loads, so that the warming thread and a request may both fail; one restart.
  The three sequences of frames are one that enrols, one that does not, and one beyond `MaxFrames`.
* `Evaluation`: four faces in three photographs, one person: two faces that DBSCAN groups, a
  look-alike, and a bystander in the same photograph who passes the lenient gate only. Four
  edits are what naming, choosing a selfie, removing and adding take; two exports, two
  evaluations and one edit of the gate are what a stale cache or a stale image takes;
  `MaxTunings = 2` lets a report change after thresholds were chosen, or a number be edited. With
  five edits the run takes longer than five minutes; the proofs are for any number. It asks of the
  screens what a current page offers; `hand_edit` and the proofs take stale pages too.

Deadlock is checked in `ready`, `ready_early`, `retention` and `forgotten`; in `EventReady` the step `AllSettled` stands for the intended end. In the
`queue*` runs it is not: an album that was deleted leaves idle workers with nothing
to claim. Nor in the two runs of `Search`, where every request comes to its end, in
`worker_image`, where every run and request does, and in `evaluation` and `hand_edit`,
where nobody has to do anything more.

### Fairness

* Workers: `run()` is a loop without a blocking call other than its own sleeps, so
  a step that stays possible is taken (`WF` of `Work`, and of `Drain` or `Start` of a collector);
  both are restarted by their supervisor or scheduler (`WF` of `Restart`, `Start`).
* Clocks go on: `run_after` and the lease of a job nobody has in hand pass.
* The service: threads run (`WF` of the steps of `engine()`, `Warmed`, `Answer`). The
  event loop takes up every coroutine that is ready, though others take the loop from it
  again and again (`SF` of `Receive` or `Enter` of a request, and of `AnswerProbe`); asyncio's queue is first in, first
  out. A load ends, one way or the other.
* Nothing is assumed of uploads, of retention, of kills, of a pass that fails, of a
  lease running out under a live worker, of clustering runs, or of people.

## 4. Proofs

The theorems hold for any sets of photographs, events, workers, keys, collectors, requests,
faces, processes and people, and any bounds. They rest on the named assumptions of the
modules only (which constants are naturals, which sets are finite, that null values are
not members of the sets, that a photograph's crop shows faces of that photograph, that a
minimum cluster size is a natural number). Where a theorem needs more, it says so in its
ASSUME.

* **Ingestion, `Base`**: types, the program counters (`AtWork`), the cascade of photo and
  job rows (`Cascade`), what a worker has written by each point of a pass (`Written`),
  `RunningIsLeased` and `DoneIsSearchable`. It is inductive whatever the leases do:
  `TypeCorrect`, `RunningAlwaysLeased`, `DoneAlwaysSearchable`.
* **`Strict`** adds, under `MaxOverruns = 0`, `InHand` (what a worker holds is
  running, owned by it, under a live lease, at the attempt it claimed),
  `SnapCurrent` (nobody writes faces between DELETE and commit of the holder), and
  the safety properties themselves. `CountedOnce` alone is not inductive: a finish
  adds a credit, so one has to know that the job was running, which is `InHand`,
  which in turn needs the live lease to exclude a second claim.
  `SoleHolderAlways`, `LedgerAlwaysRight` (which is `CountedOnce`), `SettledAlwaysStays`,
  `FacesAlwaysOnce`, `PhotoAlwaysFollows`. `ReadyAlwaysDrained` is of the albums outside
  `crossed`: as long as an album is outside, whoever has seen it drained still sees it so when it
  commits: its own job was the last open one, and an upload waits for a success (behind a dead letter
  it puts the album into `crossed`).
* **`ImplementsQueue`**: the refinement of `WorkQueue`, from `Strict`; the mapping
  reads a job as in hand when a live worker holds it and as waiting when its lease
  has still to run down.
* **`ImplementsGate`**: the refinement of `AlbumGate` by every album, also from `Strict`, as long as the
  album stays outside `crossed`: a behaviour where it never enters is one of `AlbumGate`. A batch
  starts those of its jobs that waited, in each album its own; a take-over starts nothing; the job
  of a finish was running, which is `InHand` again; the look of a finish is a stutter, and its
  commit is the step, of which the verdict is still true.
* **Opening**: `EventReadyProofs` adds to the types `LockKept` (only the holder of the events row
  is past its first UPDATE), `OwnJob` (what a transaction knows of its own job), `Decided` (what it
  read about the others is still so when it writes) and `JobsKnown`. `Decided` is the point of
  the lock and is what a dead letter breaks, which decides before it waits: hence `NoneFailed`, and
  `ready_early` shows that it is needed. `ReadyStaysDrained`, `DrainedIsReady`, and the refinement
  `FinishIsAtomic`. `GateTypeCorrect` needs no such assumption.
* **Collector**: `IInv` adds `Knows` (a process that had its delete answered holds a
  key that is not in the store; only unusable keys are dead-lettered out of turn).
  `DoneAlwaysErased`, `NeverGivenUpEarly`, with any number of kills and overruns.
* **`GCImplementsQueue`**: the collector's queue implements the same `WorkQueue`,
  for usable keys and `MaxOverruns = 0`. The step needs `Handed` (what a process has
  still to do is its own, leased and pending), which the live lease protects.
* **Retention**: `IInv` says that the collectors have nothing to do while the event lives
  (`Quiet`), that what a row names or a request has put is stored until then (`Backed`, `Joined`),
  that the event takes its rows along (`Emptied`), and, if nothing broke off, that every
  stored object is awaited by a row or request (`Awaited`) and was handed over by the end
  (`HandedOver`). `ShownAlwaysStored`, `UndisturbedAllErased`, for any failures of collectors.
* **Search**: `IInv` adds `NoneLeft` (a deleted event has no photographs, so no step of a
  pass can revive it) and `DestroyedOnRecord` (the record is there before the answer).
  `GoneStaysEmpty`, `AlwaysOnRecord`, `AlwaysExcluded`. `FaceCountAlwaysExact` adds `Uncounted`
  (what `finish_ingest_job` will count of an indexed photograph is what is there of it) and counts
  with the cardinalities of finite sets; `LimitAlwaysHolds` counts the requests that are past the
  check, logged or not (`Passed`), for finitely many requests.
* **DBSCAN** (`DbscanProofs`): `DbscanCorrect` says that the two loops end in what DBSCAN is defined to be,
  for any points, nearness and `min_samples`. Induction over data is out of reach as a schema with a
  formula for a parameter, but not as a statement about sets: `NatSetInduction` (a set of numbers that
  holds 0 and successors holds all) follows from the library's well-foundedness, and each loop is turned
  into a sequence of states (`Turns`, `Starts`) of which every prefix exists and keeps an invariant.
  That of the `while` loop (`Growing`) is that what has the new number is reached from the seed through
  core points, and that neighbours of visited core points have it or wait; `TurnShrinks` gives the
  bound on its turns. That of the `for` loop (`Grouping`) is that who has a label has a core
  neighbour with it and that core points seen so far share it exactly if they are connected.
  `GroupSizes`: up to `min_samples = 3` a group has that many members; from 4 on a border
  point may be missed by one of its two groups. `PairsLink`: with 2, as the code has it, there
  are no border points and DBSCAN is single linkage: a chain of look-alikes is one person.
* **Worker image**: `LockKept` says that whoever is between taking the lock and publishing holds it,
  and that nothing is published before it is whole. For clusters, `FacesInTheirCluster` is nearly
  inductive as it stands, and uses nothing of DBSCAN: whatever groups are found, a commit
  gives ids of clusters that it inserts and unsets those it deletes. `QuietRunsExact` is not: that
  nothing happened since a run read its faces has to be tied to what it read. `QuietKept` says that
  a run that is still alone has seen what is stored, is the only one at work and goes to
  delete the whole table; then its commit leaves clusters `MadeOf` one run, and `DbscanCorrect`
  says what these are. `QuietRunsAlwaysExact` needs `GroupSizes`, hence minimum sizes up to 3
  (`MIN_CLUSTER_SIZE` is 2); `QuietRunsGroup` is the rest of it for any size, `QuietRunsLink` what it
  means for 2. `ImageSound` is the composition of the three programs.
* **Labelling**: `DocInv` is that a group lists exactly the faces that name it, each once (`Formed`),
  that marks are what was said last (`Marked`), and that recomputing would change nothing.
  `ReviewStands`. `ExportInv` is that a running export has written the first n files of a
  dataset that loads. `ExportAlwaysLoads`. `GroupsAreChains` is `PairsLink` for what `init` proposes.
* **Evaluation**: from the files (`HoldInv`: the images that rows name show nobody in the photographs
  that stayed) to the cached index (`Kept`: of the policy in its key, and `Clean`) to the reports:
  `ReportsAlwaysHonest`. `Swept` says what the rows of a report are; that a photograph's best
  score is the score of a face, and that a smallest threshold exists, is proved for finite
  sets by well-foundedness of the strict subset relation. `MissesAlwaysCount`,
  `ThresholdsAlwaysEarned`: what `rank()` would deliver as confident is a tier-2 face at or above the
  chosen threshold, hence among what the sweep of tier 2 predicts there, and its wrong ones are among the
  wrong ones that were counted. `SelectedAlwaysLoads`: thresholds that were not edited, with the
  report whose digest they record beside them, are accepted, since the lower threshold is chosen
  among those not above the higher. `EvaluationTypeCorrect` joins `LabTyped` and `StoreTyped` to these
  invariants: moving a face leaves no count below zero because of `Formed`, and groups are
  numbered below the faces because of `DbscanType`. `EvaluationImplementsLabelling`: the chain does
  nothing to the labelling that the labelling does not do.

Model-checked only: all liveness (`JobsSettle`, `AlbumsOpen`, `ErasureSettles`, `AlbumErased`,
`EnrolmentsAnswered`), since fairness and ENABLED are beyond the prover. Every safety property of a
passing run is a theorem.

## 5. Not modelled

* What a photograph or a face is: decoding, watermarks, EXIF, detections, the networks, how
  blur and pose are measured. A pass yields derivatives and a batch of face rows, or raises;
  a detection has the numbers that the gate compares.
* The order in which claims prefer rows (`run_after`, `id`): any choice of claimable
  rows is allowed, which SKIP LOCKED permits anyway.
* The order of search results (`prominenceBoost`) and the limit of candidates: which face
  stands for a photograph is modelled, no property depends on its place.
* Request validation, sessions and row-level security. A session is a signed cookie
  without state on the server, and RLS is declarative.
* `deletion_audit`, `storage_gc_backlog`: written or read, they decide nothing;
  `Search` has the audit of selfies and purges as a set.
* Of the evaluation: the rendering of reports, recall by slices, several datasets at once, `eval.gate`
  (it compares two files and changes nothing) and the drawing of synthetic albums
  (`SynthIndex` is one result); two reviewers, or two browser tabs, on one `state.json`.
* Browser components: camera, retries of the uploader. Their state is that of one tab, and the rest
  meets it as requests, which the modules of the routes take in any order.
* The other components with status `not_modelled` in `PROJECT.json`.

## 6. Plan

In place: ingestion and its opening, the collector, retention, search and opt-out,
clustering and enrolment, labelling and evaluation, each with its proofs. The project keeps
few runs, each asking everything of its model that one set of constants can answer.

What is left, in this order:

1. `Capture` and `Uploader`: camera and timers against unmounting; batches with retries against
   the upload route's recognition of a repeated photograph.
2. `Rank`: the order of results as an operator, against a definition over sets of rows.
3. Accounts: expiry of sessions and links against the pages that were opened with them.
4. `eval.gate` over two reports of `Evaluation`.
