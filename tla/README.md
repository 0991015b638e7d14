# A verification development for AITokenPerf

AITokenPerf measures LLM APIs: it sends streams of requests to an upstream at several
concurrency levels, reports latencies and token rates to a web page while it does so, repeats
benchmarks on a schedule with alerts, and diagnoses what lies between it and the model. This
directory holds TLA+ models of it, the configurations that check them with TLC, and theorems
proved with TLAPS. Paths and line numbers refer to the repository; `PROJECT.json` maps every
definition to the lines it stands for.

## 1. The system

One FastAPI process (`app/server.py`, a single asyncio event loop) serves the API and the
Vue frontend; several processes may share one database (`--workers`, or several containers),
SQLite or PostgreSQL. Between two awaits nothing else runs in the same process, so in the
models **a step is the code from one suspension to the next**; between processes only single
SQL statements and explicit transactions are atomic.

| Part | State | Operations | Interacts with |
|---|---|---|---|
| **Run admission**: `BenchTaskManager`, `_start_run_for_profile` (server.py 99-223, 1339-1435) | `_runs`, `_tasks` in memory | start, retry, stop, end of a task, periodic cleanup | starts benchmark tasks; read by the stream, the scheduler, the status endpoints |
| **Scheduled run**: `_run_scheduled_task` (scheduler.py 320-450) | local: plans, run ids | check of the whole group, runs one by one, wait, timeout | a client of admission beside the users |
| **Benchmark task**: `_run_benchmark_task`, `run_burst`, `run_sustained` (server.py 284-295, 349-479, main.py 29-106) | `BenchTask`: status, stop event, level, event list | levels, progress, save, stop, error, cancellation | sends requests through `client.py`; publishes to the stream |
| **Run stream and page**: `run_stream` (1551-1625), `useBenchSSE.js`, `SiteTestTab.vue` | the generator's place, `last_seq`, waiters; the page's set of completed models | replay, wait, scan, reconnect, close | reads event lists while tasks append to them |
| **Scheduler**: `TaskScheduler` (scheduler.py), lock and schedule columns of `scheduled_tasks` (db.py 1570-1824), endpoints (server.py 2175-2327) | the table; per process the loop, executions in flight, detached asyncio tasks | scan, claim, execute, release and reschedule, create, edit, pause, resume, delete, run-now, start, stop | starts scheduled runs; shares the table with all processes |
| **Alerting**: `notifier.py`, `_maybe_send_alert` (scheduler.py 225-317), alert endpoints | `alert_state` per task, `alert_acks`, cards in a chat | judge a sliding window per site and model, send cards, mute, unmute | reads results; shares its tables with renames and deletions |
| **Profiles** (db.py 546-806, server.py 801-980) | profiles and their keys, the active one; names copied into results, schedules, alert states | save, edit, switch, rename, delete, save settings | schedules, alarms and results refer to sites by name |
| **Users, schedules, notifiers** (server.py 640-790, 2070-2290, db.py 850-940) | rows that refer to each other, partly without foreign keys | register, promote, remove; create, edit, delete | every handler reads the user first |
| **Protocol adapters, metrics, statistics** (`client.py`, `protocols/`, `stats.py`) | `RequestMetrics` of one request | parse one upstream stream; aggregate a level | the benchmark task |
| **Diagnostics** (`channel_diagnostics.py`, `diagnostics/`) | one report; the upstream's prompt cache | six cache probes, five other categories, an overall status | the upstream, shared with other diagnoses |
| **Start and migrations** (`migrate.py`, db.py 231-545) | schema, rows of older versions, files of the first version | create, repair, migrate, back up | what renames rely on |
| **Rate limits, retention, pricing, logging, test mode, frontend views** | counters, caches, page state | middleware, periodic DELETE, lookups, presentation | |

What makes each of the modelled parts correct:

* *Admission*: no more slots in use than the limits; everything that executes is counted;
  slots come back; the registries neither leak nor lose a run that is still needed.
* *Scheduled run*: a group of sites is run as a whole or not at all, as far as nobody else
  starts runs; an execution ends together with its benchmarks, as far as its timeout does not
  cut them off.
* *Benchmark task*: exactly one final event, at the end, that tells the truth about stop
  requests and errors; a bounded event list from which a reader can tell what it missed.
* *Stream*: every event that is still kept is delivered once and in order; no wake-up is lost;
  the page learns the end and does not close before it.
* *Scheduler*: one execution of a task at a time over all processes; locks are never lost for
  good; executions recur at fixed intervals, not before they are due, within the limits, and
  stop when the task is paused.
* *Alerting*: the overview, the chat and the upstream agree; muting lasts until recovery; a
  lasting outage or recovery is found whatever single step fails.
* *Profiles*: no key is stored for, and sent to, another site than the one it was typed for.
* *Users, schedules, notifiers*: limits and references hold, and an admin acting alone
  cannot leave the system without one.
* *Adapters*: a request counts as successful only if the upstream said so; failures are
  explained; the samples of a report are times.
* *Diagnostics*: an honest upstream is not accused, a proxy that changes prompts is not passed.
* *Start*: nothing is imported twice; the two places in which a result names its site agree.

The behaviours that are hard to test are listed under `hazards` in `PROJECT.json`, each at
the line where it bites and with the properties that would notice it.

## 2. The modules

| Module | What it is |
|---|---|
| `SlotPool` | abstract: a pool of slots, taken all at once or not at all |
| `RunAdmission` | the manager and the start of runs, with the await between check and registration |
| `ScheduledRun` | extends `RunAdmission` by executions that start several runs |
| `EventLog` | abstract: the numbered, bounded log of a task with one final event |
| `BenchTask` | the coroutine of a benchmark, one `pc` value per await |
| `RunStream` | the SSE generator and the page over logs of `EventLog` |
| `Scheduler` | table, lock, loops, executions and requests of several processes |
| `AlarmPanel` | abstract: alarms of sites that are raised, muted, cleared, moved |
| `Alerting` | the evaluation of a task's rounds, statement by statement, beside users' edits |
| `Handlers` | what the models of request handlers share: requests in flight |
| `Profiles`, `Accounts` | the handlers over the tables of profiles; of users, schedules, notifiers |
| `Requests` | the parsers, the client around them and the totals of a level |
| `Diagnostics` | probes, categories and verdicts against a caching or interfering upstream |
| `Startup` | `init_db`, the repairs, the migration, and renames afterwards |
| `MC...` | instances for TLC: model values, small sets, symmetry |
| `...Proofs` | theorems and proofs about the module of that name |
| `ServicesProofs`, `UpstreamProofs` | the same for `Profiles`, `Accounts` and `Startup`; for `Requests` and `Diagnostics` |

How they compose: `BenchTask` implements `EventLog` (`ImplementsEventLog`), and `RunStream`
extends `EventLog`: its tasks do whatever `EventLog` allows, except that they do not vanish
(cancelled tasks, below), so that what is shown of the stream holds for the logs of all tasks
that are not cancelled. `RunAdmission` implements `SlotPool` when
starts do not overlap (`ImplementsPool`), and `ScheduledRun` is the composition of admission
with executions. `Scheduler` is about when executions happen, `ScheduledRun` about the runs of
one, `Alerting` about the evaluation at its end; `Alerting` takes from `Scheduler` that a task
is executed again and again (`KeepsRunning`) and not twice at a time (`MutualExclusion`).
`Alerting` implements `AlarmPanel` when users' edits do not overlap with an execution.

Definitions marked *Mutant* in the modules are small changes of the definition that follows
them (a dropped guard, a wrong comparison, a missing reset). No specification uses them.
`PROJECT.json` names for every checked property the one that must break it.

### How state and actions correspond to the code

**RunAdmission.** `request[h]` is what a handler holds in its local variables over
`await get_settings` (line 1373); `run` and `task` are `_runs` and `_tasks`; `executing` is
the set of asyncio tasks, which may outlive their entry in `task`. `Admit` is the handler up
to the await, `Start` the rest of it; `Register` is the part of it that `ScheduledRun` uses
too. `SettingsFail` is the await raising. `Age` makes the retention window pass, `Cleanup` is
`cleanup_idle` with `_cleanup_orphan_runs`. Starts come from `POST /api/runs`, from retry and
from the scheduler: they differ only in where the parameters come from. `slots` is models
times the highest level.

**ScheduledRun.** A handler is a request or an execution. `BeginExecution` is
`_run_scheduled_task` up to its first `_start_run_for_profile` that awaits: it compares the
slots of all profiles with what is free and admits the first one. `StartNext` registers that
run and goes on to the next profile within the same step, as the code does; `short` is the
return when a later profile does not fit. Profiles that are rejected (`ValueError`) are passed
over. `AllEnded` and `TimeoutCancels` end the wait: the execution is `over` or, after its
timeout, in `timeout`. The timeout cancels the coroutines of the execution's benchmarks, which end
in their `finally` blocks. It does not reach the workers of a sustained level, which are tasks of
their own (main.py:92): which of the cut-off tasks leave workers behind is a choice, recorded in
`stray`. `LeftBy(h)` are those an execution has left. They are followed until their run is no
longer listed or the same handler begins another execution, which bounds the set; in the code
they go on (section 5). An execution that returns in the middle of its group waits for
nothing, so its `mine` is emptied. `Normalized` is
`_normalize_concurrency_levels`; stored levels may be out of range, levels in a request are
rejected then. `overtaken` is a history variable.

**BenchTask.** `pc` names the await: `ready` (not scheduled yet), `requests`, `draining`
(`asyncio.wait` over the workers of a sustained level), `saving` (`db_save_result`), `paused`
(the sleep between levels), `closing` and `failing` (leaving the client session, normally or
with an exception). `asked` records that a user asked to stop; it is a history variable no
action reads. An event is its number and its type; the list is cut at `Cap` (500) to `Keep`
(300). A user may stop a run at any await. `Cancel` is the timeout of a scheduled execution: the
coroutine ends without a final event, but in a sustained level it leaves its workers behind
(`stray`), because the cancellation comes at main.py:96 and skips `_stop_event.set()`.
`StrayProgress` is such a worker: its request fails at once on the closed session, `client.py:148`
turns that into metrics, and `on_progress` publishes on a task that is idle. `StraysEnd` is
possible only if the stop event had been set before. The subtasks that a burst leaves behind
fail on the closed session and end; nobody reports what they return, so they publish
nothing. `Raise` is an exception in `aggregate_metrics` and what follows a level;
`send_streaming_request` catches everything.

**RunStream.** `at` is where the generator is suspended; `current` and `upto` are its
iterators: in the replay it iterates over the live list (`upto = Live`) until that list is
replaced by a cut copy, later over a snapshot. `inbox` is what the page got on this
connection. `PageReceives` is the whole of `runWithSSE`'s event handler as far as it decides
to close. Tasks that vanish without a final event (cancelled by the scheduler) are in
`EventLog` but not in `RunStream`: only scheduled runs are cancelled, and the page streams
only runs it has started itself.

**Scheduler.** All times are relative to now and count down with `Tick`; a `next_run_at`
that is a whole interval late is as late as one that is due now, since `NextAt` depends on it
only modulo the interval. So time needs no bound. `zoned` says whether the stored
`next_run_at` has a time zone: what `_trigger` and `start` write has one, what
`release_and_reschedule_scheduled_task` writes on SQLite has not, and `NextAt` (scheduler.py
192-210) computes something else then. A request that issues two statements is two actions,
the second one waiting in `pending`; so is the detached asyncio task of `start_loop`. An
execution is claimed, begins, ends (or is ended by its timeout), reads the row and writes it,
each a step. `Timeout` bounds an execution, `Grace` the statements after it: the assumption
`LockAssumption` (`Timeout + Grace <= LockTime`) holds for the defaults 1800 and 3600 seconds
but not for every `SCHEDULER_TASK_TIMEOUT`. On SQLite counting and locking are one step; on
PostgreSQL the count is taken from the statement's snapshot, so they are two (`ClaimNext`,
`ClaimCounted`), and the row itself is checked again. `Crash` drops what the process did,
`Shutdown` is `stop()`.
`start()` is one step, although it awaits once per row: the process serves no request before
it has returned. A client may issue any request that `Requests` allows at any time. `Next`
keeps the steps that can take its lock from an execution of another process apart from the
others (`Start`, `Unlock`), so that `CarefulSpec` can restrict just these.

**Alerting.** `exec.pc` is the statement or card that comes next; the rest of `exec` are the
local variables of `_run_scheduled_task` and `_maybe_send_alert`: `prev` and `ids` are columns
of the row read before the benchmark, `new`, `alerts`, `recovers` what the judgement made of
them. `results[n]` is the window of rounds that `get_task_window_rounds_by_cell` returns,
`Round` adds one and drops what no longer fits, `Expire` lets time drop more in minute and
time mode. `SaveState` writes the states back as a whole. `Abort` is an exception or the
execution's timeout anywhere in it. A site has one model here, so a cell of the code is a name. `card` is
a history variable: the last card sent about a site, whether or not it arrived. The layout of
cards and the check of webhook addresses are left out.

**Profiles.** A handler that issues several statements is in `request` between them, with what
it has read. `SaveTyped` and `SaveCleared` are the handlers that need no read; `SaveKept`
reads the stored key first (`_resolve_profile_api_key`). `SettingsKept`, `SettingsTyped`,
`SettingsRead` and `WriteProfile` are the statements of `update_config`. `upsert_profile`
makes the row active even with `set_active=False`, as the code does. `home` is a history
variable: the site for which a key was typed, followed through renames. Columns other than the
key and `is_active` are left out.

**Accounts.** `call` is the same for users, schedules and notifiers. `Request` is
`get_current_user`, which reads the role from the table. `delete_notifier` counts and deletes
in two statements of one transaction (`CountReferences`, `RemoveNotifier`). Removing a user
cascades. Ids are never used twice (`AUTOINCREMENT`). `outranked` is a history variable: whether
the admin whose request changed a role or removed a user last had lost its own role by then.

**Requests.** A line of the stream is one of six kinds, those a parser tells apart; each parser
is an operator from metrics and a line to metrics, `StreamEnded` what happens at the end of
the body, `Interrupt` any exception. Times count lines: `start_time` is 1 and the n-th line
comes at n+1, so that order and equality of times are those of the code's clock at its
finest. `aggregate_metrics` is which requests a report counts and which samples it takes;
percentiles are arithmetic over these and left out.

**Diagnostics.** The upstream is one of six kinds and its cache is shared by the diagnoses
under way; `Prompt` is the prefix of a probe's prompt with its `run_tag`, `UsageOf` the usage
the upstream then reports. Tokens are counted in tenths of the system prompt, which keeps the
ratios that `build_cache_report` compares (1.5, 2.0, 0.3). What the other five categories ask
and how they read the answers is one choice (`good`), limited to what they can parse.

**Startup.** `boot` is the transaction that comes next; `CrashServer` may come between any two
(an ordinary stop is the same). `Install` chooses what is there before the first start: nothing,
the files of the version without a database, or a database of an earlier schema. A result's row
is its `base_url`, its name in `config_json`, its name in the column, and the first site of its
schedule. The database is SQLite here.

## 3. Runs

| Run | Instance | What it shows |
|---|---|---|
| `RunAdmission_single` | 2 users, 1 start in flight, 2 runs of up to 2 models, levels 1 and 2, limits 2 and 3, with fairness | `SlotLimits`, `AllWorkCounted`, `RegistriesAgree`, `ImplementsPool`, `StopFreesSlots`, `RunsReclaimed` |
| `RunAdmission_limits` | 2 starts in flight, 2 runs, limits 3 and 4 | **violates** `SlotLimits` |
| `ScheduledRun_safety` | 2 users, 2 requests or executions in flight, 3 runs, tasks of up to 2 profiles, stored levels some of which are out of range, limits 2 and 3 | `OvercommitBound`, `PartialOnlyIfOvertaken`, `EndsWithItsRuns` |
| `BenchTask_run` | 2 tasks, levels 2, 1, 2, both modes, started by users and by schedules, list cut at 3 to 2, with fairness | `CompletedRunIsComplete`, `NoLevelAfterStop`, `ImplementsEventLog`, `TasksEnd` |
| `RunStream_page` | 2 tasks, 3 events and a final one each, list cut at 2 to 1, one lost connection, any outcome, with fairness | `DeliveredInOrder`, `OnlyCutEventsSkipped`, `ClosesAfterAllUnlessStopped`, `CatchesUp`, `PageResolves` |
| `Scheduler_workers` | SQLite, 2 tasks of one user, 2 instances that start late and of which one crashes or stops, limit 1, create, delete and run-now, all of it careful (`CarefulSpec`) | `MutualExclusion`, `LockOutlivesExecution`, `ExecutionLimits`, `NeverStranded` |
| `Scheduler_recurrence` | PostgreSQL, 1 task, executions of up to 2 ticks at an interval of 2, pause, resume, edit, delete, a crash, a fault, with fairness | `KeepsRunning`, `FixedInterval`, `PauseTakesEffect` |
| `Scheduler_resumed` | 1 task, 1 instance, pause and resume | **violates** `OneBenchmark` |
| `Scheduler_drift` | 1 task on SQLite | **violates** `FixedInterval` |
| `Alerting_rest` | 2 names, a window of 2 or 3 rounds, 1 bad round or 2 of 3 raise an alarm and 1 good one clears it, all edits between executions, a fault, with fairness | `ShownIsWhatWasSent`, `ImplementsPanel`, `DownIsAlerted`, `UpIsRecovered` |
| `Alerting_overlap` | 2 names, a window of 4, rules 2, 3 and 2, deletions during executions | **violates** `DeletedSitesForgotten` |
| `Services` | five models one at a time: 2 handlers with 2 sites and 2 keys; 2 handlers with 2 users, 3 schedules, 1 notifier and a limit of 1; 2 streams of up to 3 lines; 2 diagnoses and a fault; starts over 2 old sites, 2 old results and a new one, with crashes | `KeysStayHome`; `SchedulesBounded`, `NotifiersResolve`, `AdminRemains`; `FailuresExplained`, `SuccessIsEarned`, `SamplesAreTimes`; `HonestNotAccused`, `InterferenceSeen`; `MigratedOnce`, `NamesAgree` |

The runs that end in a violation show where the program does something else than a comment
or document of the repository says; `findings` in `PROJECT.json` quotes both sides.

**Preconditions.** Some properties hold only if certain requests do not overlap, and the runs
say so in a constant: `Handler` has one element in `RunAdmission_single`; `Overlap` is `FALSE`
in `Alerting_rest`; `MCProfilesApart` and `MCApart` (module `MCServices`) keep renames apart
from saves, the saving of settings from every other change of profiles, and the deletion of a
notifier from the saving of a schedule. Admins act on each other without such a condition. `CarefulSpec` is `Spec`
without the requests that release the lock of a task, or delete the task, and without the starts
of an instance, while that task, or any task, is being executed: that is a condition on users and
operators, nothing in the code enforces it (`Scheduler_resumed` shows what happens otherwise).
Everything else overlaps freely in these runs. Section 5 says what happens without the precondition.

`FixedInterval` is about what an execution computes: the next time it writes is the first one
ahead of now on the grid of the time that was due when it read the row. So it is never the old
time written back, never a time that is past, and it skips none that is still to come. A `resume` or an edit that comes
between the reading and the writing is overwritten, which delays its trigger (a hazard in
`PROJECT.json` that no property covers); `KeepsRunning` shows that no more than that is lost.

**Bounds.** The limits and lengths are chosen so that what they bound really happens: a
second run of a user and a third of anybody can be refused; the event list is cut within one
level and more than once; an execution can outlast its interval; the window of rounds overflows
and the rules for consecutive and for accumulated rounds disagree; a stream of three lines has
room for text, an error and a final event in every order. As long as mutual exclusion holds
there are no more executions than tasks, so the number of execution identities in `Exec`
restricts nothing; in the runs with pause and resume, where it fails, at most two executions
of the one task are considered at a time. `MaxRequests` bounds the requests that are between
their two statements: in `Scheduler_recurrence` 6 are more than the pairs of a second statement
and a task there are, so that requests overlap in every way; in `Scheduler_workers` it is 1, and
a request overlaps with the loops, executions, crashes and starts only. `MaxProgress`, `MaxEvents`, `MaxDrops`, `MaxLines`,
`MaxCrashes`, `MaxFaults`, `MaxProfiles` and `MaxChildren` bound what is otherwise unbounded;
each is named in the guard that uses it and is at least one where the run is about it, except
that `MaxFaults` and `MaxCrashes` are 0 where a failure would only shorten behaviours. Two
users, two sites, two tasks and two instances are enough for every interaction in the code: no
statement relates more than two of them other than by counting.

**Deadlock** checking is off where everything comes to an end: in `BenchTask` and `RunStream`
a run is over, in `Services` all requests are closed, all diagnoses saved, or the database is
one that cannot be opened. It is on everywhere else.

**Symmetry** is used only in runs without liveness, over sets whose members the module never
compares: the executions and instances of `Scheduler_workers`, and in `Services` the handlers,
requests and diagnoses, which are the same two values.

**Fairness.** `RunAdmission`: a benchmark ends (every request has a timeout), time passes, the
cleanup loop runs (server.py 486-500; it survives exceptions). No start and no stop is fair.
`BenchTask`: the coroutine goes on, as every await in it has a timeout or is a save or a
sleep. `RunStream`: the generator is scheduled and EventSource reconnects; tasks need not
publish anything. `Scheduler`: the clock, each process's loop, each execution and each
detached task go on, and a process that is down is started again (`restart: unless-stopped`
in `docker-compose.yml`). `Alerting`: the task is executed again and again, which is
`KeepsRunning` of `Scheduler`. No user request, crash, failure, outage or repair is fair.
`EndRun` is part of what an execution does because `wait_for` ends it.

**Types.** Every module states a type invariant; all of them are proved (section 4), which no run
needs to repeat.

## 4. Proofs

All theorems hold for every value of the constants that satisfies the assumptions of the
module.

**RunAdmissionProofs.** `TypeCorrect`, then `AllWorkIsCounted` and `RegistriesAlwaysAgree`:
that what executes is busy and registered is inductive only together with the registries'
agreement, because `Cleanup` removes runs. `OvercommitIsBounded` needs to know what a
handler compared with before it suspended: the invariant says that the slots of the running
runs together with those of the requests in flight never exceed one limit per handler; each
`Start` moves a request's slots to a run without changing the sum, and what `Stop`, `Finish`
and `Cleanup` do only lowers it. Numbers of slots are cardinalities of sets of pairs (run,
slot), so that the sums are set unions and not inductions. `SingleStartKeepsLimits` and
`SingleStartImplementsPool` assume that at most one start is in flight
(`Cardinality(Handler) = 1`); the refinement maps `Start` to `Acquire`, the end of the last
busy task of a run to `Release`, and every other step to a stutter.

**SchedulerProofs.** `TypeCorrect` includes that a computed `next_run_at` is 1 to `Interval`
ahead (`NextAtRange`). `CarefulUseExecutesOnce` and `CarefulUseKeepsLocks` are about
`CarefulSpec`: any number of instances start, crash and stop, and users pause, resume, edit,
delete and run tasks at will, as long as no lock is released, and no instance started, while the
task it belongs to is being executed. That is what the code relies on; the run
`Scheduler_resumed` and section 5 say what happens without it. Mutual exclusion alone is not
inductive, because nothing in it prevents a lock from expiring under an execution. `Locking`
adds `LockHeld`: the lock of an executed task lasts at least as long as what is left of the
execution and of the statements after it. A claim establishes that by `LockAssumption`, `Tick`
ages both, and an execution that releases its lock is, by mutual exclusion, the one that held it.
`SameLocking` disposes of every step that leaves the executions and their locks alone.
`OneExecutionPerTask` and `LocksOutliveExecutions` derive the same from a condition on the
constants alone: under `SafeUse` (nobody pauses, resumes or deletes, and there is one instance,
which may crash and restart, or the instances stay up) every step is careful
(`SafeUseIsCareful`), because an instance that is down has nothing in flight (`DownIsQuiet`,
`RequestsServed`), so that `start()` finds only dead locks.
The limits are about what the loops execute, which is locked as long as use is careful.
`LimitsHold` is about both databases. On SQLite a claim finds room and takes it in one statement,
and everything else only makes room. On PostgreSQL an instance that has counted may find the room
gone when it locks, so the invariant `LimitInv` charges such an instance in advance: what is
executed, together with the instances that have counted, exceeds a limit by less than the number
of instances. With one instance the limits hold on either database.
`NobodyIsStranded` assumes nothing about use: it is a theorem of `Spec`, with locks released under
executions, crashes between the two halves of a request, and any number of instances. It needs
that an execution never writes an empty `next_run_at` (`Computed`), and what becomes of an active
row that has none (`Unarmed`): either the request that made it active is still to arm it, or the
instance that served it has gone down, and then the instances are not all up before its next
`start()`, which arms every active row.
`IntervalsAreFixed` is about PostgreSQL,
where a stored time keeps its zone: the computed time is 1 to `Interval` ahead (`NextAtRange`) and
congruent to the one read (`NextAtOnGrid`), which together make it the first of its grid; on SQLite the run `Scheduler_drift` violates it.

**ScheduledRunProofs.** `ScheduledOvercommitIsBounded`: an execution suspends only with one run
requested, so that it takes part in the sum of `RunAdmissionProofs` like one request, however
large its group; the lemmas about the sum are the same. `PartOnlyIfOvertaken` needs `GroupFits`:
as long as nobody overtakes an execution, the run it has requested, the group behind it and all
running runs fit the limits together; starting a run moves its slots from the first of the three
to the last, and whatever other handlers start sets `overtaken`. `GroupSlots` counts pairs
(profile, slot), so that the slots of a group are those of its head and those of its rest.
`ExecutionsEndWithTheirRuns` needs `KnowsItsRuns`: the runs an execution waits for stay listed, so
that no other run takes their place while it waits. It also needs that no two executions have a
run in common (`OwnRuns`) and that workers go on only where a timeout has cut them off
(`StraysAreCutOff`): an execution that is over without a timeout then has none. `StraysAreCutOff`
is also half of `ScheduledWorkIsCounted`; the other half is `AllWorkCounted`, about coroutines.

**BenchTaskProofs.** The invariant is stated for one task at a time: where it is in its loop over
the levels (`LoopInv`), that `stop_event` stays set once a user asked (`StopInv`), that its list
holds consecutive numbers up to `event_seq`, at most `Cap` of them (`NumberInv`), and that it has
a final event, which says the truth, exactly if it has returned (`OutcomeInv`; a cancelled task
has none), and that only a cancelled task leaves workers (`StrayInv`), so that what these publish
never follows a final event. `EventsAreConsecutive` is what lets readers ask for everything after a number.
`CompletedOnlyIfComplete` and `StopIsHonoured` follow. `LogIsImplemented` maps what `_publish`
does, the cut and the progress of workers left behind included, to one step of `EventLog`, and the
steps that publish nothing to a stutter.

**RunStreamProofs.** The theorems are about streams of tasks that do what `EventLog` allows but do
not vanish. `DeliveredAlwaysInOrder` and `NothingKeptIsSkipped` rest on one fact about what the generator
yields next, from the live list, a list that was cut meanwhile or a snapshot: it comes after
`last_seq`, and whatever lies between has been cut (a log only grows at its end and is only cut
at its beginning). `ReplayInv` says that the replay reaches each task with nothing sent.
`PageClosesAfterAll` needs `CompletedAreOver`: what the page counts as completed is.

**AlertingProofs.** `TypeCorrect` holds under any edits. The others assume `Overlap = FALSE`: no
edit comes between the reading of the task's row and the writing of its alarms. Then the
row that was read is the row that is there (`AsRead`), and the invariant `Structure` follows the
verdicts through the cards, the acknowledgements and the saving: what is raised, alerted,
recovered or about to be saved is the name of a site (`OfSites`), what is to be alerted and
recovered is the difference between old and new states (`Found`), and of the recovered sites
only those whose turn is still to come are acknowledged (`Muted`). `PanelIsImplemented` maps
`SaveState` to one evaluation of the panel. `ShownIsAlwaysWhatWasSent` adds `Told`: what the last
card says about a site is what its alarm is, or will be once the verdicts are saved.
`DeletedSitesAreForgotten` proves without overlap what the run `Alerting_overlap` refutes with it.

**ServicesProofs, profiles.** `KeysAlwaysStayHome` assumes `TakeTurns`: no rename overlaps with a save,
and nothing with the saving of settings (what `MCProfilesApart` gives the run). A stored key is
at home because the request that wrote it carried it from the same row; so the invariant
`AtHome` adds that every key carried by a request in flight is at home where the request is
going to write it (`Carried`), and that the requests that could move it are not in flight
(`Alone`). For the settings that place is the active profile, read twice: it stays the same
because only settings are being saved meanwhile, and they write to it without deactivating it.

**ServicesProofs, accounts.** `SchedulesAlwaysBounded` assumes nothing about overlaps. Its invariant
(`Counted`) bounds what a user owns together with that user's requests past the count: a row
that is inserted takes the place of its request, and the one step that adds to the sum, the
count, starts from a number below the limit and adds at most one request per handler.
`NotifiersAlwaysResolve` assumes that no notifier is removed while a schedule is being saved
(`SaveOrUnbind`). `Relies` says what each request in flight may rely on when it writes: a
notifier once found stays its user's as long as the user exists, an edited schedule keeps its
owner or is gone since ids are never given twice, and nothing refers to a notifier that was
counted as free. `AdminsAreLostToOthers` assumes nothing about overlaps: no request in flight is
aimed at the one who makes it (`OnOthers`), so a statement executed for someone who is still an
admin leaves that admin, and one executed for someone who is not is what `outranked` records.

**ServicesProofs, startup.** The invariant `Agreeing` says of every row that the copy of its name is
empty or right; every repair, migration, save and rename preserves it, a crash changes nothing
that is stored. `Once` says that nothing is stored from files before the first user exists,
and that a file still to do has not been stored; a restarted server that finds a user has
nothing to do.

**UpstreamProofs, requests.** `Judged` relates, for each request, the metrics a parser has made to the
lines it was told: `Earned` what a success took, `Explained` what a failure leaves, `Timed` that
times are in the order of the lines. It holds after every line of every protocol, so the three
properties follow when the stream ends, is cut off or fails, for streams of any length.

**UpstreamProofs, diagnostics.** `HonestNeverAccused` and `InterferenceAlwaysSeen` assume nothing
about how many diagnoses use an upstream. The invariant says, for each diagnosis, what its probes
left in the upstream's cache (`Left`), what their answers said (`Said`) and what was concluded
(`Concluded`). That prefixes carry the run's own tag is what keeps a diagnosis from finding
what another one left; that a proxy's own prefix carries none is what makes the breaker probe
find it. `SignsWarn` and `WarningDoesNotPass` follow a sign from the report to the overall status.

Only model-checked: liveness and everything else that depends on fairness (`StopFreesSlots`,
`RunsReclaimed`, `TasksEnd`, `CatchesUp`, `PageResolves`, `KeepsRunning`, `PauseTakesEffect`,
`DownIsAlerted`, `UpIsRecovered`), since the provers handle neither fairness nor `ENABLED`. Every
invariant, action property and refinement that a passing run checks is proved, under the
preconditions named here. No module uses `RECURSIVE` operators; sums and windows are written as
cardinalities and sequences, so that nothing rests on an induction over data.

## 5. What the models say beyond the findings

Runs and streams:

* A sustained benchmark always ends as stopped: `run_sustained` sets the task's own stop event
  when its duration is over (main.py:100), so the task publishes "Benchmark stopped by user"
  (server.py:464) and starts no further level. The page takes the first `bench:stopped` for
  the end of the run (SiteTestTab.vue:702), whatever its comment in line 689 says.
* `_run_scheduled_task` compares its whole group with the free slots, to run all of it or none
  (scheduler.py:356); if another start comes in between, it returns in the middle
  (lines 409-415), and the runs it has started go on without the lock.
* The stream may end before it has sent the last events of a task that became idle while it
  was sending those of another one; the page reconnects and gets them in the replay.
* A stream that has replayed the final events waits for ever (with keep-alives): the check for
  the end comes only after new events. The page has closed by then.
* A burst level cannot be interrupted: a stop request takes effect at its end.
* A scheduled run that is cancelled by its timeout publishes no final event, so `_run_status`
  calls it completed.
* If the timeout (scheduler.py:169, which logs "强制终止", forced to end) comes while a sustained
  level is running, its workers are never told to stop: the cancellation interrupts the sleep at
  main.py:96, `_stop_event.set()` (line 100) is skipped, and the workers are tasks of their own
  (line 92). The session closes, each of their requests fails at once, and the failure is caught
  (client.py:148): they loop on without end, append to `results` (line 83), publish `bench:progress` on a task that
  is idle, take no slot and are listed nowhere, also while the next execution of the task runs. Nothing can stop
  them: `stop_run` sets the stop event of running tasks only. The models show how far this
  reaches: no coroutine stays behind, no other run is disturbed, and readers of the log see
  consecutive numbers still, but no final event and no end.

Scheduler:

* `start()` releases every lock it finds on an active task, not only those that have expired, as
  its docstring says, or those of a process that died (scheduler.py:42-51). An instance that
  starts while another one executes a task, as any of several workers may, has it executed a
  second time: without the condition on `Start` in `CarefulNext`, TLC finds `MutualExclusion`
  violated with one task and two instances that start late.
* On PostgreSQL instances that claim different tasks at the same time count each in its own
  snapshot (db.py:1769, 1774), so `max_global` and `max_per_user` do not hold across instances,
  as db.py:1736 says. `ExecutionLimits` therefore allows PostgreSQL one execution more for every
  instance but the first, and no less would do: with two instances the limits themselves are
  exceeded by one.
* The loop claims from a list it read earlier. A task that was being executed then and is
  free when its turn comes is executed again at once, although its `next_run_at` is in the
  future: the claim checks the lock only.
* `PUT /api/schedules/{id}` of an active task makes it due at once, whatever was edited.
* An execution whose task was paused while it was about to be rescheduled keeps its lock until
  it expires; the release in `cancel_loop` normally comes first.

Alerting:

* Good rounds clear an alarm when they are consecutive, bad ones raise it also when they only
  add up in the window (notifier.py:77-82): after bad, bad, good, good a single bad round
  alerts again.
* With a window in minutes no longer than the interval there are never two rounds in it, and
  no alarm that needs two.
* A card that gets lost is not sent again; one that was sent before a failure of the save is
  sent twice. An alarm that is muted between the removal of its old mute and the save stays
  muted the next time.
* An execution that overlaps with a deletion or a rename writes back the states it read before
  (`Alerting_overlap`).

Profiles, users, notifiers:

* `update_config` reads the key of the active profile, saves the settings and reads the active
  profile again; a switch in between stores the key of one site for the other. It also drops
  the profile's models, provider, protocol and endpoint.
* A profile renamed while it is being saved with its old key comes back under the old name.
  A switch that races a deletion leaves no profile active. Results and diagnoses under way
  during a rename are saved under the old name.
* `upsert_profile(set_active=False)` writes `is_active` all the same: editing a profile
  activates it beside the active one.
* The masked keys that `_mask_api_key` makes (`abcd****wxyz`) are not those that the check for
  old clients looks for (`...`).
* `delete_notifier` counts references and deletes in one transaction to avoid the race
  (db.py:899), which neither database's default isolation does; a schedule saved in between
  keeps the id of a notifier that is gone. So does one whose notifier was validated before.
* Two admins that demote each other at the same time leave none: each was checked when its request
  began, and is obeyed although it has lost its role since (auth.py:92 says that demoted users
  lose access immediately). `AdminRemains` says that there is no other way. Removing a user removes the
  rows of a run in flight; its results cannot be saved then.

Requests and diagnostics:

* `[DONE]` after `response.failed` counts as a success; an error after the final event leaves a
  success with error details; a chat error with an empty message is neither.
* `streaming.py:32` and `context.py:40` pass `stream=True` to aiohttp's `post`, which does not
  take it: these categories always fail (their tests replace the session). The others read
  events of Anthropic's protocol only.
* `run_diagnostics` does not know "inconclusive", which the cache category may return: the
  whole is "passed" then.
* A cache with a hit rate above 0 is "supported" by the docstring; the code wants 1.0.

Start:

* A crash after the first user was created and before the files were read leaves them
  unmigrated for good: the next start finds a user.
* Results without a site's name are named after the first site of their schedule, or after the
  site with their URL; what was renamed meanwhile is not followed.
* `init_db` indexes `scheduled_task_id` before `_migrate_schema` would add it: a database
  without that column is never opened.

## 6. Not modelled, and what is left

Not modelled, with the reasons in `PROJECT.json`: rate limiting and bans (a list per address
and path, without an await), results, history and retention (queries and a DELETE by age),
pricing (one assignment and lookups), the single-task endpoints of the first version (no route
leads to them), logging, configuration and test mode, and the frontend beyond the test page.
Left out of modelled parts: percentiles and rates (floating point), passwords, tokens and
sessions (functions of their input), the layout of cards, URLs and payloads.

Left for later:

1. Proofs: `DeletedSitesForgotten` for edits other than deletions that overlap with an execution.
   (`ScheduledRun` does not implement `SlotPool`: a timeout ends the runs of a group in one step,
   and the pool gives slots back run by run.)
2. `Scheduler`: more due tasks than the 50 that a scan reads, under fairness; triggers lost to
   an execution that is being rescheduled.
3. `ScheduledRun`: workers that a timeout has left, beyond the next execution; `RunStream`: the
   streams of runs that were cancelled or cleaned up, and the rest of the page.
