# s3rm-rs: TLA+ models, checks and proofs

`s3rm` deletes the objects of an S3 bucket: one task lists, a chain of tasks filters, a pool of
workers deletes in batches, a last task drains. The tasks are connected by bounded channels and
share a cancellation token, a few flags and one counter. What makes the program correct is what
happens between these tasks, and that is what the modules here describe.

## 1. Inventory

| Component | State it keeps | Operations | Talks to |
|---|---|---|---|
| `ObjectDeleter` (`deleter/mod.rs`) | buffer, current object | receive, two attribute filters, `--max-delete` check, buffer, flush, report, forward | input channel, `delete_counter`, token, S3, output channel, statistics, events |
| `BatchDeleter`, `SingleDeleter` (`deleter/batch.rs`, `single.rs`) | the `DeleteResult` under construction | batch request, classification of per-key errors, fallback to single requests | S3, statistics |
| S3 listing (`storage/s3/mod.rs`) | per task: permit, markers, JoinSet | dispatch, fetch page, send, spawn, join, paginate | semaphore, token, first channel |
| Filter stages (`filters/mod.rs`, `user_defined.rs`) | none | receive, decide, send | two channels, token, events |
| `DeletionPipeline` (`pipeline.rs`) | flags, error list | `run`, spawning, a supervisor per task, completion events | all tasks |
| Terminator (`terminator.rs`) | none | receive until closed | output channel |
| Ctrl+C handler, `main` (`bin/s3rm`) | `CTRL_C_RECEIVED`, exit code | store, cancel; compute the exit code | token, flags |
| Arguments, `Config` (`config/`) | none | parse values, check conflicts, convert | everything that reads `Config` |
| Prerequisites, `SafetyChecker` (`pipeline.rs`, `safety/`) | `delete_all_versions`, `prerequisites_checked`, `ready` | refuse, ask, adjust | user, S3, `main`, library callers |
| Filter predicates (`filters/*.rs`) | none | decide about one entry | the filter stages |
| `EventManager`, statistics report, indicator | two mutexes, atomic counters, totals | trigger, count, sum up | workers, callback, statistics channel |
| `FilterManager`, Lua engine (`callback/`, `lua/`) | two VMs, timeout hooks, the callback's mutex | load, call, time out | user-defined stage, events |
| Storage, client (`storage/mod.rs`, `client_builder.rs`) | token bucket | pace requests, build the client | all S3 calls |

What is hard in this code: several workers race on one counter and one token; the token may be
cancelled between any two awaits; S3 answers a batch partly and may have acted on a request it
reports as failed; other clients change the bucket during the run; a tree of listing tasks shares a
semaphore with its own parents; only one of the tasks is awaited, while the flags are set by the
supervisors of the others; the configuration is rewritten half-way through the prerequisites, which
are run by two callers; attributes are read long after the listing and used later still; scripts
time out through a hook; statistics, counters and callbacks are updated one after the other.
`PROJECT.json` lists these hazards line by line.

What makes each part correct:

* workers: the cap is never exceeded, nothing a filter rejected is deleted, reports are true, no
  object is lost or counted twice, no request exceeds the batch size, every worker ends;
* listing: every object exactly once, a failure is never taken for the end, no deadlock on permits;
* startup: nothing is deleted without `--force`, a dry run or a "yes"; lister, filters and deleters
  work in the same mode;
* selection: what is removed satisfies every option, as far as a version id, an ETag or a key nobody
  else touched can hold it, the current version is kept, nothing hidden becomes visible;
* reporting: all accounts of a run agree, and the callback hears of it completely and in order;
* Lua: a script that fails lets nothing through and cannot hang the run;
* storage: the rate is kept up to one burst, and no batch starves;
* pipeline: nothing is deleted after `run()` returns, failures and Ctrl+C show in the exit code,
  the run always ends.

## 2. Modules

### `ObjectDeleter`
The pool of workers with both deleters, the bucket and its other clients. A worker's position is
`pc[w]`; `cur`, `buffer`, `batch` and `result` are its local state, `returnTo` is where the pending
call of `delete_buffered_objects` returns to. An action ends where others can change what the
worker meets next, so the counter, the check of the token, the request and the report are separate
steps. `bucket[o]` says whether S3 still holds the listed version of `o`, one with other bytes, so
another ETag (`"changed"`), one with the same bytes and the same ETag (`"rewritten"`), or nothing;
`Remove` is the effect of a request, which may also happen when the client sees an error. The objects
in `WithoutETag` were listed without an ETag: their requests are unconditional even with `--if-match`
(`batch.rs:162`, `196-200`, `single.rs:42`, `README.md:1247`, `1296`; `optimistic_locking_properties.rs:138-143`
asserts it), and `IfMatch` and `FallbackETag` say when a request names one. Regex
and API answers of the filters are nondeterministic. `admitted`, `outcome` and `removed` are
history variables that only properties read. `MCObjectDeleter` gives the configurations.

### `*Proofs`
The theorems about these modules (section 5). `DeletionProofs` is about `ObjectDeleter`: one batch and
one request first, then the whole pool and the refinement. `StorageProofs` is about both modules of the
storage layer, `Storage` and `S3Lister`; since it extends both, the names every module has carry a
prefix in `Storage` (`StorageSpec`, `StorageTypeOK`).

### `S3Lister`
`list_dispatch` and both listings. One task per prefix; the sequential listing is the task of the
root without a delimiter. A key is represented by the set of prefixes it starts with (`Ancestors`),
and `Entries(p)` is what S3 lists under `p` with or without the delimiter. Pages are arbitrary
subsets of at most `max_keys` entries: S3 sorts them, so this allows more than S3 does. Dropping a
JoinSet aborts its tasks (`Abort`). The two listing modes (objects, versions) differ in their
markers only, which are abstracted to "there are entries left" and to `MarkerError`.

### `Pipeline`
`run()` with all tasks, supervisors, the Ctrl+C handler and `main`. Here a task is reduced to what
its neighbours see: a worker receives, sets flags, triggers events, cancels, forwards and ends, as
`ObjectDeleter` says in detail, and the lister is a producer. A channel is a number of objects with
ends that are dropped when the inner future ends; the supervisor learns of that later, cancels, and
sets `has_error` and `has_panic` in two steps. `config.cli` distinguishes the program, which ends
its process, from a library call, after which tasks live on. `cause` records who cancelled while
the pipeline ran. `STATS_REPORT`, which the event manager sends after `PIPELINE_END`, belongs to
`Reporting`.

### `Deletion`, `DeletionRefinement`
`Deletion` is what the deletion stage promises: an object is admitted under the limit or not at all,
requested only while nobody has cancelled, removed only while it is requested, and its fate is settled
once. `DeletionRefinement` reads the fate of an object off the workers' state (`FateOf`) and states
that `ObjectDeleter` implements `Deletion`.

### `Arguments`, `Startup`
`Arguments` holds the command line as operators: value parsers, `requires` and `conflicts_with`,
`Config::try_from`, `Config::for_target`. Options every rule treats alike share a field, and values
are valid, invalid or absent. `Startup` takes a command line, or a library caller's `Config`, to the
first listing request: `LoadConfig`, `CheckPrerequisites` with the prompt, the combination checks and
the versioning check, `Run` around them, the completion events (with `DELETE_CANCEL`, since a token
that anybody cancelled by then is announced) and the early exits. A library caller
checks and runs in any order and goes on after errors; other clients change the versioning state.

### `Filters`, `Selection`
`Filters` has the accessors of `S3Object`, every predicate, the order of the chain and the decisions of
the attribute filters. A regular expression is the class of the text it is matched with, one class
being texts on which the engine gives up. `Selection` sends the entries of a listing (objects or
versions, newest first, with `is_latest` absent where an endpoint leaves it out) through the chain,
HeadObject, GetObjectTagging and the deletion, while other clients use the same key. What they can do
is what limits a promise about the future:

* they write objects and delete markers (`Write`). `is_versioned_status` takes a suspended bucket for a
  versioned one (`storage/s3/mod.rs:863`); a write to it gets the version id "null" and replaces the
  entry that had it, also while an older listing names that id. The status may change at any time, so
  each write to a versioned bucket has a new id or "null" (`NewIds`, `Without`);
* they write the same bytes again, which keeps the ETag, and the size with it (`SameBytes`), while time,
  content type, metadata and tags may differ; an endpoint may leave the ETag out altogether (`NoETag`),
  and a request for such an object has no condition (`Conditional`);
* they change tags in place, under the same version id and ETag (`PutTagging`);
* they remove entries by version id, as a lifecycle rule does (`Purge`).

`disturbed` records what was done to which key, and the properties say what each kind of protection is
good for.

### `Reporting`
Workers and a filter stage report outcomes; each report is a sequence of small steps (`todo`): the
atomic counters, the statistics channel, the manager's statistics, entering and leaving the callback.
`run()` triggers the completion events, and the indicator drains, asks `is_closed` and sleeps. An object
that HeadObject or GetObjectTagging does not find is skipped with a statistic and without an event
(`ReportMissing`), so the callback counts fewer skipped objects than the indicator. `raced` records that
the channel was closed after the indicator found it empty and before it asked: the one case in which
its summary may lack messages.

### `LuaCallbacks`
Two VMs behind the filter stage and the event callback. A script is described by what matters to the
host: whether it loads, how long it runs, whether it catches errors or hangs in native code, which
library it needs, what it returns. The hook looks at the clock between slices.

### `Storage`, `ClientTests`
The token bucket all requests draw from (external: `leaky_bucket`, as the code uses it), and the
client as the builder makes it from credentials, files, region and timeouts. `ClientTests` gives the
unit tests of `client_builder.rs` and of the storage factory as rows: a configuration and what the
test asserts of the client.

### `EndToEnd`, `PipelineTests`
`EndToEnd` composes a whole run on one storage, with objects that keep their identity: prerequisites,
listing, the chain of `Filters`, workers with batches and fallback, supervisors, promotion, events.
`PipelineTests` gives the integration tests of `pipeline.rs` and their mock storages as cases. A case
with `prompt` polls supervisors before `run()` goes on, which is what the current-thread runtime of
the tests does; the other cases leave that order open, like the program's runtime.

The modules are kept apart so that each one's state space stays small; their interface is the
channel, the token and the configuration. `ObjectDeleter` allows its surroundings to close the
channel and to cancel at any moment, `S3Lister` allows its receiver to leave and the token to be
cancelled at any moment, so what is shown of either holds in every pipeline. `EndToEnd` puts them
together at a coarser grain.

A definition marked `Faulty` is not part of a model: it is a plausible mistake in the definition that
follows it, kept to show that a property notices it.

## 3. Runs

| Run | Instance | States | Shows |
|---|---|---|---|
| `deleter_safety` | 2 workers, 3 objects (1 delete marker, 2 that others write to, 1 of these listed without an ETag), channels of 1, 4 configurations | 2,422,246 | `MaxDeleteCap`, `TruthfulReport`, `IfMatchProtects`, `ObjectsConserved`, `StatsAgree`, `FailuresVisible`, `BatchesFit`, `TypeOK` |
| `deleter_liveness` | 2 workers, 2 objects (1 contended), 4 configurations | 143,350 | `Termination`, `MaxDeleteStops`, `ImplementsDeletion` |
| `lister_tree` | a tree of depth 4, 4 objects, 6 configurations (parallel with depth limits 1 to 3, Express One Zone, sequential), failing pages | 173,988 | `ListedExactlyOnce`, `FailurePropagates`, `PermitsConserved`, `ListingEnds` |
| `pipeline_run` | 1 filter stage, 2 workers, channels of 1, 1 fault; the program with a built-in filter, `--warn-as-error` and 1 object, a library caller with a user-defined filter and 2 objects | 516,926 | `NoDeletionAfterReturn`, `FailedKeysShowInExitCode`, `CtrlCExitCode`, `EndEventIsLast`, `RunEnds` |
| `pipeline_panic` | 1 filter stage, 1 worker, 1 object | | violates `PanicIsNeverSilent` |
| `startup_safety` | 875 command lines and 257 library configurations, each group of options in all combinations, up to 3 calls | 170,122 | `NoUnconfirmedDeletion`, `ModesAgree`, `EventsBracketRun`, `MainContract`, `AllVersionsHonoured` |
| `startup_script` | the library configurations | | violates `ScriptedFilterApplies` |
| `selection` | 1 key with up to 3 entries, 13 filter configurations, every value at its bound, 1 foreign write, rewrite, change of tags or purge | 634,003 | `NothingResurrected`, `OnlyPromisedRemoved`, `CurrentKept`, `AccountedOnce` |
| `reporting` | 2 workers, 1 filter stage, 7 cases | 209,626 | `CountsAgree`, `CallbackContract`, `RunReturns` |
| `lua` | 13 filter and 5 event scripts, with and without timeout, 2 modes, 2 objects | 25,670 | `FailsClosed`, `OnlyFilterErrorsStop`, `TameRunEnds` |
| `storage` | 2 workers and a lister, rates 10, 19 and 25, 54 profile set-ups, 22 unit tests | 283,967 | `PacedBound`, `ClientWired`, `Served` |
| `end_to_end` | 35 integration tests, the same without the tests' scheduling, 40 fault cases, 240 combinations on 4 objects and 2 workers | 108,107 | `Ledger`, `TestsHold`, no deadlock |

Each module also states its type invariant `TypeOK`. The runs list it where a theorem rests on it
(`ObjectDeleter`); the other invariants of the remaining modules already read every variable.

What some of these properties do not say, because the code does not do it:

* `IfMatchProtects` is about objects that were listed with an ETag and whose bytes changed. An object
  without one, and one that was rewritten with the same bytes, is deleted in its new state.
* `FailuresVisible` speaks of the moment when all workers have returned (`StageOver`), which is when the
  Terminator and `run()` can end. By then failed keys and an exceeded limit have set `has_warning`, and
  failed keys under `--warn-as-error`, an exceeded limit and a request that failed as a whole have
  cancelled the run. `has_error` is set by supervisors nobody awaits, and nothing is claimed of it: the
  exit code may miss a worker's error (`README.md:1245`, `1295`).
* A cancellation does not recall a request that was sent (`README.md:1246`). `ImplementsDeletion` says
  that nothing is requested after it, and `BatchesFit` that a flush it refused leaves no oversized batch.
* `OnlyPromisedRemoved`: the key is as promised in any case. With a version id other than "null", or if
  others neither wrote to the key nor purged it, so is everything but the tags, and the tags too if
  nobody changed them. A listed ETag with `--if-match` holds the size and nothing else.
* `CurrentKept` is not promised of a key others removed versions of, nor, for a request that names
  "null", of one others wrote to: in a suspended bucket the listed old version is then replaced by a
  current one under the same id, and the run deletes it.
* `CountsAgree`: with `raced`, the summary lacks what is left in the channel; otherwise it is exact. Among
  skipped objects the summary counts the missing ones, the callback's statistics do not.
* `TameRunEnds` shows that the timeout is reached. The time a call has used starts at zero with each
  call, so a hook that stayed behind with an old deadline would not be noticed; the code removes it.

Bounds. Two workers are needed for every race on the counter and the token, and the workers are
interchangeable (symmetry in `deleter_safety`). With batches of two and three objects in all there is
a full batch, a partial one and an object over the cap at the same time. A capacity of one makes every
channel full and empty within two objects. Two permits for a tree of three listing levels, with two
sub-prefixes on each of two levels, are fewer than the tasks that want one, which is what a deadlock
would need. `MaxFaults = 1`: one task fails or panics; more only ends more tasks. The deleter's
configurations are one per feature, combined where features meet (`--max-delete` with
`--warn-as-error`, with `--dry-run` and with `--if-match` and its fallback). `MaxCalls = 3` is a
check, a repeated check and a run. In `deleter_safety` two objects are replaced, rewritten or removed
in every gap between listing, batch and fallback, and a batch may hold the one with and the one
without ETag. In `Selection` keys do not interact, so one key is enough; two entries are a hidden
object and its marker, or a current and an old version, a third lets the entry with the id "null" be
the middle one; the foreign change falls into each of the gaps between listing, HeadObject, tagging
and deletion. In `Reporting` two workers and the stage meet at each mutex. In `LuaCallbacks` a second
object shows what a first call leaves behind. The rates of `Storage` are the smallest the command line
accepts and two whose tenth is rounded. One watch of ten refills is a second, at any moment.

The two violations are disagreements between the code and its documents:

* "a panic ... the CLI exits 101" (`README.md:1208`, "guarantees" at `1345`): the supervisor that
  records the panic is not awaited, and `main` may read the flags first. The README mentions the
  window under its known limitations (`1245`) and calls it theoretical; the run shows the steps that
  lead to exit code 0.
* "Lua filter and event callbacks can be registered via script paths in the `Config`" (`lib.rs:95`):
  only `Config::try_from(CLIArgs)` loads scripts. A library caller who sets
  `filter_callback_lua_script` runs without the filter.

Other disagreements met while modelling, without a run of their own:

* `--force-retry-count 0` is documented as "disabled" (`README.md:223`, `622`); the loop
  `0..=force_retry_count` makes one attempt for each retryable key (`AttemptsLeft`).
* the doc comment of `list_with_parallel` (`storage/s3/mod.rs:675`) says the semaphore bounds
  concurrency; a parent that released its permit keeps paging without one. The README's list of
  limitations says so too.
* `--dry-run`: "the minimum verbosity level is info, regardless of `-q` flags" (`README.md:691`); only
  the default level is raised (`BuildTracingConfig`).
* Ctrl+C at the prompt: exit code 0 in `README.md:1375`; the handler is installed later, so the
  process dies of the signal, 130 (`InterruptPrompt`).
* `STATS_REPORT` is "periodic" (`README.md:1110`); it is sent once, after `PIPELINE_END`
  (`TriggerEvent`).
* "Maximum objects per second" (`README.md:818`): the bucket starts full, so a second may see 1.9
  times the rate; `PacedBound` is the bound that holds.
* "the returned summary must accurately reflect the input events" (`indicator_properties.rs:65-67`): the
  indicator drains the channel and then asks `is_closed` (`indicator.rs:91`). What a worker sends in
  between is lost from the summary if `run()` closes the channel before the question. The test closes
  the channel before the indicator starts. `SummaryExact`, a part of `CountsAgree`, is what holds.

## 4. Fairness

The tokio runtime polls every task that is ready, so every task's next step is weakly fair. S3
requests end, because the SDK bounds attempts and time, and callbacks return. The semaphore hands a
free permit to a task that waits. Weak fairness for each task suffices although tasks compete for
permits and queue slots: there is no task that gives them back and takes them again for ever. No
fairness is assumed of Ctrl+C, of a caller who cancels or of other S3 clients. tokio's mutex queues
its waiters in order, so entering a callback is strongly fair (`Reporting`, `LuaCallbacks`). The clock
of the token bucket and of the Lua deadline goes on, and the interpreter executes (`Tick`, `Slice`).
Nothing is assumed of how often workers ask for tokens.

## 5. Proofs

The theorems hold for every value of the constants that the modules' assumptions allow: any finite
sets of objects, prefixes and workers, any number of filter stages, any queue size, any set of
configurations. The type invariant of each module is proved first, since the other proofs need it.
A proof that a step preserves an invariant has one step per action; actions that do not touch what
the invariant reads are dealt with by one frame lemma.

**`DeletionProofs`**, about one batch and one request:

* `TypeCorrect`: `Spec => []TypeOK`. `TypeOK` bounds the fallback's attempts by
  `force_retry_count`, which holds because an attempt is only counted when one is left.
* `CapHolds`: `Spec => []MaxDeleteCap`. The property speaks of what was removed from the bucket or
  reported, so it is not inductive. The invariant `CapInv` adds where such objects come from: whatever
  sits in a buffer, in a batch or in a result, and whatever was removed or reported, was admitted
  (`AdmittedOnly`), and the number of admitted objects is bounded by the counter and, once the
  counter exceeds the cap, by the cap (`AdmissionCounted`). Cardinalities come from
  `FiniteSetTheorems`.
* `IfMatchHolds`: `Spec => []IfMatchProtects`. The property is inductive: the only steps that remove
  anything are the three kinds of requests, each carries the ETag of an object that has one, and S3
  accepts a conditional request only for an object whose bytes are the listed ones (`RemoveAccepted`,
  the assumption made of S3). Nothing is claimed of the objects in `WithoutETag`.
* `ReportIsTruthful`: `Spec => []TruthfulReport`. The invariant `TruthInv` extends the claim to
  results that are built but not reported yet, which a batch carries through its fallback attempts;
  it lasts because no step restores a listed version (`NeverRelisted`).
* `BatchesHold`: `Spec => []BatchesFit`. A full buffer is a state of the worker, not an error, so the
  invariant `Fit` says where it may occur: a worker that receives or processes an object has room, a
  worker back from a refused flush is cancelled and will leave, and one with a request has emptied its
  buffer.

and about the whole pool of workers:

* `Conserved`: `Spec => []ObjectsConserved`. `OwnInv` says who has an object: no two workers
  (`Apart`), nobody what is still in the listing or in the channel (`Unreceived`), and inside a worker
  the object being processed, the buffer, the batch and the parts of the result are disjoint, each with
  the outcome that fits the program counter (`Mine`). `Tracked` is the converse: an object without an
  outcome is somewhere. `Ended` says why a worker ended: cancelled, or with the channel drained and
  nothing left behind after the final flush, also while that flush is still going on. That at least
  one worker exists is needed here: without one the channel would never be drained.
* `FailuresDecide`: `Spec => []FailuresVisible`. The property is about the moment when the workers have
  returned; `Shown` says of every moment that an outcome that shows a failure comes with its flag and
  its cancellation, which are never taken back (`FlagsStay`).
* `CountsMatch`: `Spec => []StatsAgree`. `Counted` states the counts at every moment. `DeleteError`
  messages are sent before the report, so they are counted with the failed keys of the results in the
  workers' hands (`Errors`); that these are disjoint is what `OwnInv` is needed for.
* `Implements`: `Spec => ImplementsDeletion`. Every initial state maps to one of `Deletion`, every
  step to a step of `Deletion` or to a stutter. `Deletion` counts admissions and the code counts
  attempts, so `LimitUsed` relates the counter to the number of admitted objects exactly, `StopOK` lets
  a worker stop only at a used-up limit, and `AdmittedFate` keeps skipped and stopped objects apart from
  admitted ones. `OwnInv` guarantees that a step of one worker changes no other worker's objects.

**`StorageProofs`** on `S3Lister`, for every tree of prefixes and every set of objects in it. `S3ListerAssumption`
says what a tree is: the prefixes of a key are nested, one on each level, and two keys that share a
prefix share all those above it. `TreeInv` is the base of all three proofs: a task exists only below
tasks that were started, has only entries of its own prefix in hand, and each sub-prefix in one place.

* `PermitsSafe`: `Spec => []PermitsConserved`, with the fact that a holder is a running task.
* `FailuresReachRoot`: `Spec => []FailurePropagates`. The `JoinSet` is what makes it true: a running
  task waits for each of its sub-tasks that has not ended well (`AwaitsChildren`), so a task that is
  done has only done tasks below it (`DoneBelow`). "Below" is a relation on prefixes, which spares an
  induction over the depth.
* `ExactlyOnce`: `Spec => []ListedExactlyOnce`. Nothing twice: an object that was sent is past the
  hands of the one task that lists it (`SentOnce`). Nothing left out: an object not yet sent is in some
  task's hand, itself or as part of a sub-prefix that has no task yet (`Accounted`), and a task that
  ends well has nothing in hand (`PageFinished`).

**`PipelineProofs`**, for any number of filter stages, workers, objects and faults:

* `ReturnIsFinal`: `Spec => []NoDeletionAfterReturn`: the Terminator ends after all workers did, and
  `run()` after the Terminator, or without having started any of them (`ReturnInv`).
* `FailuresShow`: `Spec => []FailedKeysShowInExitCode`. Only workers set `has_warning`, so it has its
  final value when `run()` promotes it and when `main` reads it (`WarningInv`).
* `CtrlCShows`: `Spec => []CtrlCExitCode`. The handler stores its flag before it cancels, and what it
  cancelled in time was cancelled before the Terminator ended (`CtrlCInv`).
* `EndIsLast`: `Spec => []EndEventIsLast`. In an undisturbed run the stages end in their order
  (`StageOrder`, stated for all pairs of stages), so the end of the workers is the end of all.

**`StartupProofs`**, for all sets of command lines and configurations, any number of calls:

* `Unconfirmed`, `Agreement`: `Spec => []NoUnconfirmedDeletion` and `[]ModesAgree`. `CheckedFor` says
  what each point of `check_prerequisites` has established of the configuration, and that it still
  holds after the configuration was rewritten, of the copy the stages run with, and whatever a library
  caller does between the check and the run.
* `VersionsHonoured`: `Spec => AllVersionsHonoured`, an action property.
* `EventsBracket`: `Spec => []EventsBracketRun`: `Reported` says what was triggered at each point, with
  or without `DELETE_CANCEL`.
* `MainKeepsContract`: `Spec => []MainContract`. `MainOnce` follows the program through its single
  check. That clap refuses what the combination checks refuse is a lemma about `Arguments`.

**`LuaCallbacksProofs`**, for all scripts, timeouts and numbers of objects:

* `FilterFailsClosed`: `Spec => []FailsClosed` and `ErrorsStop`: `Spec => []OnlyFilterErrorsStop`.
  Objects get their outcomes in the order in which they are received (`InTurn`), leave the stage only
  with a pass (`Passed`), and an error is the last outcome there is (`ErrorLast`), after which the stage
  only ends, as failed and with the token cancelled.

**`SelectionProofs`**, for every set of keys, every version history of each, all combinations of
filters and any number of changes by other clients. The base of all proofs is `SelectInv`. Of the version
ids of a key no two are the same at any time (`KeyOK`), but "null" may come to mean another entry. So the
entry a request for a listed object can act on, `Target`, is only known to stay or to vanish while the
object is `Pinned`: by a version id other than "null", since new entries have new ids, or because others
have left the key alone (`TargetKept`, up to tags). What was read of it then stays true, and
`EntryOK` says of every object on its way that it describes its target, has passed the stages behind it,
and has passed the attribute filters behind it, as long as it is pinned, and for the tags as long as
nobody changed them (`ChainComplete` and `AllPassed`: at the deletion these are all the stages the options
ask for).

* `CurrentIsKept`: `Spec => []CurrentKept`, with `StaysOld`: an entry that was listed as an old version
  always has one ahead of it that the run does not remove, unless others purged the key, or wrote to it
  and the id is "null". That the order of two entries is kept (`OrderKept`) needs a lemma for each
  thing that can happen to a key: something put on top, room made for it, tags changed, something removed.
* `PromiseKept`: `Spec => []OnlyPromisedRemoved`. For a pinned object the removed entry is the target. For
  a conditional one only the ETag is known to be the listed one, and with it the size (`SameSize`); the
  key does not depend on the entry at all (`KeyKept`).
* `HiddenStaysHidden`: `Spec => []NothingResurrected`. A step can uncover something only by removing a
  delete marker, and what comes to the deletion of such a run is none (`DeletesObject`); the delete marker
  a run adds hides, also where it takes the id "null" from another entry.
* `EntriesAccountedOnce`: `Spec => []AccountedOnce`. `Accounts` splits the listed entries into five
  disjoint sets; that a page brings nothing known follows from each key being listed once.

**`ReportingProofs`**, for any number of workers, any sequence of outcomes of each, any subscription and
any statistics carried over from an earlier run:

* `CallbackContractHolds`: `Spec => []CallbackContract`. The invariant `IInv` has five parts beyond the
  types. `Begun` gives the shape of what each actor has begun: an update is followed at once by the call
  of its event if somebody subscribed to it, the calls that come once (start, end, copy, report) are in
  order, only `run()` has any of these, and where `run()` is says which. `Quiet`: outside the time
  `run()` waits, a run nobody cancelled has no reporter at work. `InOrder` is the order of the property
  with what is still to come. `Told` is the heart: for each event, what the callback heard and the actors
  that have counted but not yet called add up to what the statistics gained. `Copied` carries this over
  to the copy taken for the report: taken when `PIPELINE_END` was told, it covers all that came before,
  and without a cancellation nothing comes after. That every report has its shape follows from how
  sequences of operations are joined (`Joined`), so no induction over them is needed; the counts grow by
  one element at a time (`CountAppended`).
* `CountsAgreeHold`: `Spec => []CountsAgree`. The property is about the end of a run; the invariant
  balances each account at every moment. For each counter and each statistic (`Accounts`), what is booked,
  the reporters that have begun a report and not booked it yet (`Pending`) and the outcomes nobody has
  turned to (`Unstarted`) are together all that happened (`Balanced`). This needs that a report books an
  outcome once and `run()` books none (`Booked`), and that what a reporter has left is the end of its
  outcomes (`Remaining`). The bytes of the counters and of the statistics differ by what is about to be
  booked in each, one element of a finite set per byte (`BytesBalanced`), so that no sum over reporters is
  needed. The messages sent are accounts of the same kind, in which missing objects are skipped ones. In
  the end nobody has anything left to do (`Quiet`), and `Told` carries the counts over to what
  the callback heard. For the indicator, the channel holds the end of what was sent and the totals are the
  sum of the beginning (`Drawn`); `Lookout` says that an indicator that found the channel empty, and asks
  without `raced`, asks about a channel that was empty when it was closed.

**`StorageProofs`** on `Storage`, for any workers, any rate and batch size, and all profile set-ups:

* `RateLimitHolds`: `StorageSpec => []PacedBound`. The invariant says who has collected what: exactly those wait
  that the limiter has queued (`Queued`), only the first of them has collected tokens
  (`OnlyFirstCollects`), and what was let through since the watch began, with the tokens in the bucket and
  those the first waiter has collected, was there at the start or came with a refill (`Paid`). A refill
  may serve several waiters, so the step is an induction over the queue.
* `ProfileFilesRead`: `StorageSpec => []ProfileWired`.

What a recursive function sums up is proved by an induction over the natural numbers in the form of the
well-founded minimum (`WFMin`, lemmas `Least` and `Induct`): the set of numbers for which the claim fails
has no least element.

**`EndToEndProofs`**, for any listing, chain of filters, number of workers, batch size, limit, storage and
schedule:

* `LedgerHolds`: `Spec => []Ledger`. An object is never in two places (`OnePlace`), which needs that no
  channel and no batch holds it twice (`NoRepeats`) and that there is nothing anywhere before the listing
  (`Unlisted`). That it is in one place is harder: a filter stage whose receiver has left drops the object
  in its hand, and so does a worker over the limit or whose request fails. `Orderly` excludes the first:
  as long as nobody cancelled and nothing panicked, a task ends after the one it receives from, so a
  stage that still runs has a receiver. The other two end in a cancellation or a panic, so as long as the
  run is undisturbed every object is somewhere (`Kept`). For the limit, what was admitted, in a batch or
  answered for, is never more than the counter and the limit (`Limited`); the counter alone would not do,
  since it also counts the objects over the limit. `Truthful` adds up events and removals: the answer for a
  batch is disjoint from what was deleted before, by `OnePlace`.

  The lemmas `FilterEffect`, `ReceiveEffect`, `FlushEffect`, `ListEffect` and `StillEffect` say once what
  each kind of step moves, and `Moves` what it does to the tasks; the invariants follow from these.

The type theorems of the modules are `PipelineTypes`, `ListerTypes`, `StartupTypes`, `CallbackTypes`,
`LimiterTyped` and, in `DeletionProofs` and `SelectionProofs`, `TypeCorrect`.

The assumptions say no more than the code guarantees: `--worker-size` is at least 1 (`Workers # {}`),
names of workers are not stage numbers, keys form a tree, tracing that is on has a level (`log::Level`
has no `off`), the version ids of a key differ, an ETag belongs to bytes of one size, an unversioned
key has one entry at most, versions are only listed in a versioned bucket, and sizes and counters are
natural numbers (they wrap at 2^64 only). TLC evaluates all of them in the runs.

Only model-checked:

* everything under fairness, which is beyond the prover: `Termination`, `MaxDeleteStops`,
  `ListingEnds`, `RunEnds`, `RunReturns`, `TameRunEnds`, `Served`;
* `TestsHold` of `EndToEnd` and of `ClientTests`, where it is part of `ClientWired`: statements about
  listed test cases, which TLC enumerates (the other part of `ClientWired` is `ProfileWired`, proved).

## 6. Plan

Done: every component the repository names, the refinement of the deletion stage, the composition of
a whole run, and the theorems of section 5: every safety property of a run is proved, except the
statements about listed test cases. Left: the step from `EndToEnd` to the finer modules is argued in
section 2, not stated as a refinement.

## 7. Not modelled

* The tracing subscriber, progress drawing, colours and messages: pure output. Whether something is
  shown, and at which level, is in `Arguments`.
* The text of targets, regular expressions, sizes and times: parsers are reduced to what they accept;
  `mask_access_key`, `Display` and `Debug` are left out.
* The sandbox of the Lua libraries and the memory limit. The top level of a script runs without a
  timeout, so a script that loops there hangs the start; `TameRunEnds` excludes it.
* S3 and the SDK: answers are nondeterministic within what the code can tell apart. The SDK's retries
  are not paced by the token bucket, so retried requests are not counted by `PacedBound`.
* A panic of the Terminator or of the indicator, and a per-key error without a key in a
  `DeleteObjects` answer (README, known limitations).
* Durations and rates in the summary.
* Crashes: nothing is persisted, and a new run starts from a new listing.

Limits of what is shown. A full purge that is cut short, by `--max-delete` or a cancellation, may have
removed a delete marker and not yet the versions under it; `NothingResurrected` is about runs scoped
by attributes only, and about keys others neither wrote to nor purged. `CurrentKept` is about the
entry that is current when the request arrives: if another client deletes the current version
afterwards, the kept one is gone too. `PacedBound` needs a rate of at least ten and of at least the
batch size, which the command line enforces and `Config::for_target` does not. A rate that is no
multiple of ten is refilled with its tenth rounded down. `--aws-config-file` is used for profiles
only. The object over `--max-delete` is sent as `DeleteError` and as `DELETE_FAILED` but is not in the
report's failed count, which is what `StatsAgree` says.
