# A TLA+ model of lmn

`lmn` is a load tester: `lmn run` sends HTTP requests from many concurrent
virtual users (VUs), collects one record per request, prints a report, and
answers a pipeline with an exit code. This directory models the parts of it in
which something can go wrong that a unit test hardly reaches: the concurrent
tasks of a run, how they start, stop and hand over results; the arithmetic of
load curves and scenario weights; how settings and headers of several layers
become a run; how request templates are checked and rendered by several VUs at
once; how records become a report; publishing over an unreliable network; and
what the exit code of the whole process means.

Paths below are relative to the repository (`src/` in `PROJECT.json`).

## 1. Inventory

### Components, state, operations

| Component | Code | State | Operations |
|---|---|---|---|
| Fixed-count executor | `lmn-core/src/execution/fixed/mod.rs` | shared budget, sender, join handles, drain handle | spawn VUs, drop sender, join VUs, join drain |
| Plain VU | `lmn-core/src/vu/mod.rs` | place in its loop | claim a unit, wait for a permit, render a body, send, record; `select!` with the token |
| Scenario VU | `lmn-core/src/vu/scenario.rs`, `lmn-core/src/capture/mod.rs` | step, captures, `abort_remaining` | begin an iteration, skip, inject captures, render, permit, send, capture, record |
| Scenario assignment | `assign_scenario`, `lmn-core/src/execution/mod.rs` | none (VU index) | weighted round-robin |
| Rate limiter | `lmn-core/src/execution/rate_limit.rs` | token bucket (crate `governor`) | wait for a permit |
| Load curve | `lmn-core/src/load_curve/mod.rs` | stages | `target_vus_at`, `total_duration`, `validate` |
| Curve executor | `lmn-core/src/execution/curve/mod.rs` | handles with a token each, ticker, VU counter | tick, scale up, scale down and await, close, join |
| Drain accumulators | `lmn-core/src/execution/mod.rs` | counters per run, scenario, step, stage | record |
| Run command, Ctrl-C | `lmn-core/src/command/run.rs` | cancellation token | build, execute, cancel on a signal |
| HTTP request | `lmn-core/src/http/request.rs` | none | one request, its outcome, its body |
| Request templates | `lmn-core/src/request_template/` | the values fixed at startup | parse: validate definitions, placeholders, references, cycles; fix `:global` and `ENV:` values; render a body |
| Response templates | `lmn-core/src/response_template/` | counts per field | parse, extract, record |
| Histograms | `lmn-core/src/histogram/`, `stats/` | sketches, capped maps, reservoirs | record, quantile |
| Report and table | `lmn-core/src/output/`, `lmn-cli/src/cli/output.rs` | none | derive every number from the accumulators, draw the latency chart |
| Publishing | `lmn-core/src/publish/http_sink.rs`, `error.rs`, `sink.rs` | attempt, last error | serialize, post, classify, back off, give up |
| Publish configuration | `lmn-core/src/publish/config.rs` | none | choose, check and normalise the URL |
| Main program | `lmn-cli/src/main.rs`, `cli/json_output.rs` | threshold verdict, exit code | parse, resolve, execute, write, print, publish, exit |
| Thresholds | `lmn-core/src/threshold/` | rules | evaluate |
| Configuration file | `lmn-core/src/config/lumen_config.rs` | none | parse, validate |
| Argument resolution | `lmn-cli/src/cli/adapter.rs`, `command.rs`, `lmn-core/src/config/secret.rs` | settings, global headers | choose a mode, merge flag, file and default, expand variables |
| Scenario resolution | `lmn-core/src/config/resolver.rs` | headers of each step | merge headers, check capture references |
| Template commands, telemetry | `lmn-core/src/command/configure_template.rs`, `monitoring/` | none | copy a file, name spans |

### How they interact

    main -- resolve --> RunCommand -- spawn --> Ctrl-C task -- token --+
                            |                                          |
                            v                                          v
                        executor -- spawn, join, cancel --> VU ... VU (budget, bucket,
                            |                                |         template context)
                            |                unbounded channel of records
                            +-- spawn, join --> drain task <-+
                            |
                            v
      accumulators --> statistics --> report --> thresholds
                                                    --> file --> stdout --> publish --> exit code

The tasks share five things: the atomic budget, the token bucket, the
cancellation token, the rendering context of the template, which is read-only
by then, and the channel. The channel ends when its last sender is dropped, so
the order in which the executor drops its own sender, joins the VUs and joins
the drain decides whether a run ends and whether its report is complete. They
also share the worker threads of the runtime: a task that never awaits keeps one.

### What is hard, and what should be true

* **Racing for the budget.** A unit is claimed well before it is recorded, and
  each wait in between can be cancelled. No more requests may start than asked
  for; every unit must be recorded once or be lost for a known reason; an
  uninterrupted run must report exactly its budget.
* **Stopping.** The load client has no timeout (`execution/mod.rs:411`), so
  against a silent server only the token ends a wait. Every wait must be able to
  see it; the curve executor awaits retired VUs inside its own loop, where it
  sees neither the clock nor Ctrl-C; and a VU that has nothing to wait for
  withholds a worker from the tasks that would cancel it.
* **The end of the channel.** Nothing may be recorded after the drain has closed
  its books, and a drain that died must not yield a partial report.
* **Layers.** A header may come from the file, a flag, a scenario or a step, in
  any spelling; the innermost must win. Capture references are checked before
  the run, in less than what they are injected into during it. Three places choose
  the mode of a run, and a setting must not get lost between them.
* **Templates.** A cycle must be found from whatever name the search starts,
  and nothing else be refused as one; several VUs render from one context; a
  value that is fixed for the run and one that is not are told apart by name.
* **Captures.** The map of captured values outlives an iteration. A request must
  only carry values its own VU captured in the same iteration.
* **Five ways out of the step loop**, each with its own rule on skipped records:
  an iteration must leave one record per step, in order, skips only as a suffix.
* **Scaling.** `vu_handles.len()` stands for the number of live VUs. It must be
  that number however often the curve goes up and down, and never above the peak
  the connection pool was sized for.
* **Late records** must go to the stage in which they completed; zero-length
  stages and boundary instants must have one owner.
* **Reports.** Five counters are fed from one record, at four levels, and what
  is reported is what remains after subtractions; caps must cost detail and
  nothing else; two reports of the same run must not differ.
* **Publishing** may time out after the platform stored the run, and an answer
  may come during a later attempt. A success must be one, retries must stop, and
  nothing may go to an address that was not to be used.
* **Exit codes.** The file, stdout and the platform may each fail: code 0 must
  mean that the thresholds held and the report is where it was asked for.

`PROJECT.json` lists each hazard at its line, with the properties aimed at it.

## 2. The modules

| Module | What it models |
|---|---|
| `Metrics` | what a record adds to the counters, and what the report derives |
| `RequestPool` | the abstract promise of a fixed-count run: a pool of units |
| `FixedRun` | a fixed-count run of plain VUs; implements `RequestPool` |
| `Assign` | `assign_scenario` |
| `ConfigFile` | what `parse_config` accepts |
| `Startup` | from a command line and a file to the VUs of a run (uses `ConfigFile`, `Assign`) |
| `ScenarioRun` | a fixed-count run of scenario VUs (uses `Assign`, `Metrics`) |
| `LoadCurve`, `CurveSweep` | the arithmetic of curves, and a clock sweeping over them |
| `CurveRun` | a load-curve run and the worker threads it runs on (uses `LoadCurve`, `Metrics`) |
| `Template` | a request template from its file to the bodies of a run |
| `Response` | what is recorded of an answer: outcome, body, extracted fields |
| `Report` | from records to the JSON report and the table (uses `Response`) |
| `RetryPolicy`, `Publish` | `HttpSink::publish` against a lossy network and a platform |
| `Endpoint` | where a run is published to |
| `RunCli` | `lmn run` from its arguments to its exit code; contains `Publish`, uses `Endpoint` |
| `...Proofs` | theorems about the module of that name, and their proofs (`CurveRunProofs` also those of `LoadCurve` and `CurveSweep`) |
| `SumProofs` | lemmas about sums over finite sets and places in sequences, for the others |
| `MC...` | the constants of the model-checking runs |

Common to the run modules: an action is what one task does between two points
where another task can interfere (an atomic read-modify-write, an await, a
channel send, a poll of the token). Ctrl-C is an action of the environment,
enabled once, at any time before the run has returned. A task is a place in its
loop (`vu[v]`, `co`, `drain`), the channel a sequence of records, and a request
is reduced to its outcome, `ok` (a 2xx status) or `failed` (any other status, or
a transport error); `Response` has the rules behind that.

### FixedRun

`Claim` and `BudgetExhausted` are the two outcomes of the `fetch_update` of
`claim_budget`; `AcquirePermit`, `Dispatch`, `RenderFails`, `Complete` follow
the loop of `Vu::spawn`; `CancelAtPermit` and `CancelInFlight` are the
cancellation branches of its two `select!`s, enabled beside the others because
`select!` may take either when both are ready. A failed send (`Complete` with a
drain that has panicked) ends the VU. `SpawnVU`, `DropSender`, `JoinVU`,
`JoinDrain` are `FixedExecutor::execute` in its order. `Receive`, `DrainEnds`,
`DrainPanics` are the drain task; `Closed`, that the coordinator has dropped its
sender and every VU has ended, is when `recv()` yields nothing more. `Limited`
is `RpsLimiter::new`: no limit for a rate of zero or one that does not fit a
`u32` (`U32Max`, scaled). The bucket itself is external: a burst of `Rps`
permits, regained one at a time. `lost`, `dispatched` and `refills` are history.

`RequestPool` forgets the tasks: units are taken, then counted or dropped, and
the report may be made only when nothing taken is outstanding and the pool is
empty, or the run was interrupted, or there was nobody to take anything. The
refinement `PoolSpec` counts a queued record as held.

### Assign, ConfigFile, Startup

`AssignScenario` is `assign_scenario`: the running sum saturates at `U64Max`
(scaled), weights that are all zero fall back to round-robin, the last scenario
is the code's fallback.

`ConfigFile` reduces a file to the keys it has, those whose value is no good,
its headers and its scenarios. Header names are taken after case folding, as
the code compares them, with `spelling` to tell two keys of a map apart; every
rule about the text of one item is its `wellFormed`. No file is the same as an
empty one.

`Startup` is `RunArgsResolved::try_from` in its order: `Parse`,
`ResolveExecution`, `ResolveHeaders`, then `SingleRequest` or the
`ScenarioResolver` (`BeginScenario`, `ResolveStep` with the expansion of the
merged headers, `EndScenario` with the check of references), `ResolvePublish`.
`SpawnVU` then assigns scenarios over an index that is never reset, which is
what both executors do with `vu_counter`; `SpawnPanics` is the division by zero
for an empty list. Of a value only its source is kept, and the references to
captures in it: `refs` has those of the text as it is written, which the check
looks at, `gains` those that come out of a variable when `Expand` replaces it. The maps of headers are
hash maps, so that `Merges` yields every result an order of iteration may give.
An alias counts as a path of the template it names. Command lines are those that
clap lets through: `ClapAccepts` has the conflicts that `RunArgs` declares.

### ScenarioRun

A VU's loop is `CheckToken`, `ClaimIteration` (clears captures and
`abort_remaining`), then per step `StepCancelled`, `StepSkipped`, `StepBegins`,
`Prepare` or `PrepareFails` (injection into body and headers, rendering;
failing skips this step and the rest), `AcquirePermit`, `Complete` (records,
captures, and sets `abort_remaining` by policy), `CancelWait`. A captured value
is represented by the number of the iteration that captured it: that is what
tells a fresh value from a stale one. `RecordAll` feeds the three levels of
accumulators. Paths, JSON and the text of `{{capture.KEY}}` are not modelled;
that a path may be missing in an answer is.

### LoadCurve, CurveSweep, CurveRun

`TargetVusAt` and `StageIndexAt` are the two walks over the stages. The
interpolation is exact where the code uses `f64` with `round()`; halves round
up, as they do for the non-negative values that occur. `CurveSweep` evaluates
both at every instant of a family of curves that `Valid` (`validate`) accepts.

`CurveRun` has the executor's loop: `Tick` (spawn, retire, close, or nothing;
missed ticks are made up for, as tokio's default ticker does), `ParentCancelled`,
`JoinVU` and `ResumeLoop` (the awaits of a scale-down and of the end),
`DropSender`, `JoinDrain`. `Receive` is the drain; the counters of a stage
(`StageStats`) know no skipped records. A VU has a token of its own; both VU kinds are
reduced to what the executor can see: `Dispatch`, `Complete`, `Skip` (scenario
VUs only) and `ExitVU`. The time unit is the ticker's period, 100 ms. A VU
never looks at the parent token: it only ends once the executor, having seen
the end of the curve or Ctrl-C, cancels the VU's own. The rate limiter is not
repeated here.

The executor runs on the main thread, everything else on `Workers` threads: VUs,
the drain, the task that waits for the signal (`CtrlC` presses the key,
`CancelParent` is the task), and the timer, whose time is `clock`. A scenario VU
whose first step can never be injected (`Doomed`: a reference to a capture that
no earlier step can have made, in an inherited header or a template file) goes
round its loop without an await: after `Spin` it has a worker until it sees its
own token. `Free` says that some worker is left, and guards what needs one.

### Template

`Template::parse` in its order: `ValidateAll` (every definition, with the casts
of `f64` to `usize` and the wrapping sum of a release build), `ValidatePlaceholders`
(the body), `CheckReferences`, then the cycle check as the walk it is:
`StartRoot` for each name in any order, `Descend` along a reference not yet
followed, `Backtrack`; `visiting` is its stack. `CyclesChecked` begins the
generation of the `:global` values, `ResolveEnv` ends it. A VU's
`generate_one` is `StartRequest`, `Generate`, `FinishJob`, one job per request,
interleaved with those of other VUs; `Generate` expands one level of
composition. `generate_object` does not look at the fixed values, as the code's
does not. What is written for a value is its node: the placeholder it is for, the
definition it came from, and when it was made. `BodyAsWritten` leaves open when
the values inside a composition are made as soon as a composition of the file
says `:global` (see section 3).

### Response, Report

`Response` decides from an exchange on success, status code, whether the body is
kept, and which fields are extracted (`Extract`: values in the order of the
template, then the mismatches; labels are paths joined by dots). In `Report` a
run has a response template or none for each `Place`, which is a step of a
scenario, or the one place of a run of single requests; `TemplateOf` is what a
VU extracts with, `Tracking` is `has_tracked_fields`: whether any place has one.
`Report` drains records in any order: `Receive` updates run, stage, scenario and
step as `DrainMetricsAccumulator` does, `RecordValue` feeds the capped maps and the
reservoir, which may replace any sample. `BuildReport` is
`RunReport::from_params`, `PrintTable` is `print_stats` with its latency chart;
`Lossy` are the latencies that lose a microsecond on the way through `f64`
milliseconds (127 of the 11465 values the real histogram can return, such as
1007 and 4031).

The percentiles of a field are picked at two positions: `compute.rs` divides
integers (`IndexAt`), `Distribution::quantile` cuts the product of two `f64`
(`DistributionAt`). The `f64` nearest to 0.95 and 0.99 lie below them, by
`Deficit`; where the product should be an integer, `FallsShort` says whether it
is rounded to the `f64` below, as it would be if the deficit, grown with the
number of samples, exceeded half the distance between neighbours. It never does
(`ProductIsExact`), as `stats/distribution.rs:33` claims; `MCReport` evaluates the claim for every
number of samples up to 10,000, the code's cap, as an assumption on constants.

### Publish, Endpoint, RunCli

`Publish`: all attempts carry the same bytes, so an attempt is its number.
`Serialize` (with the size limit), `Post`, `Succeed`, `Rejected`,
`TransportError` and `Retry` are `HttpSink::publish` and `post_once`;
`RetryPolicy` has the classification and the delay. The platform handles a
request any time later, also after the client gave up on it, may store the run
and still answer 5xx, and the network may lose either way. `Endpoint` is
`PublishConfigBuilder`: default, policy and normalisation of the URL.

`RunCli` is `main()` in its order: `Parse`, `Resolve`, `Execute` (with the
thresholds), `WriteFile`, `PrintReport`, publishing, exit. The execution is one
step whose results are those of the run modules. `println!` to a closed pipe
panics: exit code 101. A usage error ends in clap with code 2. Thresholds are
evaluated as exact fractions; the epsilon of `eq` and non-finite numbers are
left out, and so are rules over latencies. A run has at least one scenario here;
that a list of none is accepted and ends in a panic is `Startup`'s. `Publish`
has no run of its own: `RunCli` takes its steps between the start and the end of
publishing, and lets the network and the platform go on after the process is gone.

## 3. The runs

| Run | Shows | Bounds |
|---|---|---|
| `fixed` | type, accounting (`Ledger`), `NeverOverBudget`, `RateCap`, `ExactUnlessCancelled`, `NothingAfterDrain`, the inductive invariant `IInv`, the refinement `PoolSpec`, and that the run returns (`Ends`) | 2 VUs, 3 units, a burst of one permit; bodies may fail to render, the drain may panic |
| `scenario` | `FreshCaptures`, `IterationShape`, `SkipsHaveCause`, `WholeIterations`, `OneLateRequest`, `Ends` | 2 VUs on 2 scenarios (3 and 2 steps, one per failure policy), 2 iterations |
| `curve_sweep` | `StageOwnsInstant`, and `RampIsLinear` up to rounding | all curves of up to 2 stages over durations 0, 1, 3 and targets 0, 1, 4, 5, and a family of 3 stages; every instant, and one beyond |
| `curve` | type, `LiveWithinPeak`, `ListedAreLive`, `StagesAccount`, `ReportComplete`, `Ends` | 2, (0 for no time), 1, 2 VUs, of which the second spins; 2 workers, 2 records; the drain may panic |
| `curve_spin` | violated: `CtrlCLands` | the same curve, 2 workers and 2 VUs that spin |
| `startup` | `InnermostWins`, `WrittenRefsDefined`, `NothingLost`, `Proportional` | 2 header names in 2 spellings, 1 alias, lists and caps of 2 (3 items exceed them), 5 VUs; families of files that vary the settings, the layers of headers, references and variables, or the list of scenarios, each with every command line of up to 2 of 7 flags and 2 lines with headers |
| `startup_empty` | violated: `CallersEnsureScenario` | as `startup` |
| `startup_env` | violated: `ExpandedOnce` | as `startup` |
| `startup_template` | violated: `FileTemplateUsed` | as `startup` |
| `template` | `VerdictIsRight`, `BodyAsWritten`, `ValuesInSpec`, `RenderingEnds` | every reference graph over 3 names, some of them undefined; placeholders of 6 kinds in the body, 4 kinds of composition; strings and floats with numbers around each bound; 2 requests at once |
| `report` | `ReportIsTally`, `CapsDegradeOnly`, `TableAgrees`, `BarsAccount` | up to 5 records in any order, of 5 kinds of single requests or 6 of the 3 steps of two scenarios; 10 assignments of response templates to places; caps of 2, 8 latencies, 3 bars |
| `cli` | `ZeroMeansReported`, `PublishedLast`, `SuccessIsStored`, `GivesUpInTime`, `AlwaysExits` | every command line with two rules, runs of up to 2 requests and 1 second, 5 URLs (one for each way to be accepted or refused, and the default), 3 publish attempts, as in the code |

Why these are enough: the races of a fixed run are between two VUs for the last
unit or permit, between a VU and the token, and between the last VU and the
drain; two VUs and a unit more than VUs show each of them, and a VU going round
its loop twice. Two iterations let a value outlive one; three steps let a
failure in the middle have both an earlier and a later neighbour. A curve that
goes up, down and up again is the shortest that spawns while VUs retire, and one
worker to spare with one VU that spins is where a second would stop the run. In
`startup`, two header names show that one is displaced and the other is not, two
spellings that names and not keys are compared; every pair of layers meets, and
each reference stands before and after the step that captures it; `U64Max` is
the largest sum of weights the caps let through, as a `u64` is larger than any;
5 VUs reach into a second round. Three names give cycles of length one, two and
three, behind an entry that is not on them, and objects that share a part. Five
records fill a cap of two, overflow it, and meet a known value again. The
theorems of section 5 remove the bounds for all of the safety properties.

`Total`, `MaxRecords`, `MaxRequests`, `Slack` and `MaxVUs` end the behaviours;
the systems stop by themselves, so deadlock is checked, with an explicit
stuttering step after the end. Only `curve_sweep` and the runs of `Startup`,
which really end, and `curve_spin`, whose two spinning VUs hold both workers for
good, have `CHECK_DEADLOCK FALSE`.

Each property of a passing run is paired in `PROJECT.json` with a plausible bug
(the definitions commented as mutants) under which TLC finds it violated.

### Divergences between documents and code

Four runs are expected to fail, each on one statement of the repository:

* `curve_spin`: a Ctrl-C "lands within one request"
  (`docs/guides/scenarios-internals.md:95`). A scenario VU of a curve run whose
  first step can never be injected skips all steps and begins again
  (`vu/scenario.rs:163`) without an await, since a curve has no budget and
  `UnboundedSender::send` does not wait. As many of them as the runtime has
  workers leave none for the signal task or the timer, so that neither Ctrl-C nor the
  end of the curve is noticed, while the channel grows. With one worker to
  spare the run ends (`curve`).
* `startup_empty`: callers of `assign_scenario` "must ensure at least one
  scenario exists" (`execution/mod.rs:369`); `scenarios: []` is accepted
  (`config/lumen_config.rs:197`), and the first VU to be spawned panics.
* `startup_env`: values of variables "are NOT scanned again"
  (`config/secret.rs:50`); in scenario mode the global headers, expanded by
  `cli/adapter.rs:310`, are expanded with each step's own once more
  (`config/resolver.rs:128`).
* `startup_template`: the file's `response_template`
  (`docs/reference/config.md:21`) is parsed and then not looked at
  (`cli/adapter.rs:339`).

Others met on the way, visible in the models and not kept as runs.

Of runs: skipped steps "don't affect latency or error rate"
(`docs/guides/scenarios.md:219`), but they are in the divisor of `error_rate`
(`output/compute.rs:94`); a run cut short by Ctrl-C ends with 0; a cancelled
iteration leaves its remaining steps without any record, so counts are not
"iterations x steps" (`scenarios-internals.md:167`); Ctrl-C prints "waiting for
in-flight requests to finish" (`command/run.rs:70`), but the `select!` around a
request drops it (`vu/mod.rs:124`); an omitted ramp is documented as a jump
(`load-curves.md:32`), the default is linear (`load_curve/mod.rs:71`).

Of exit codes: a usage error ends with clap's code 2, documented as a failed
threshold (`exit-codes.md:8-9`); a run whose stdout is closed ends with 101
(`exit-codes.md:17` names only 0, 1, 2); "host unreachable" is documented as code
1 (`exit-codes.md:8`), but refused connections are failed records and the code is
0 unless a threshold says otherwise (`main.rs:179`).

Of configuration: a variable that is not set is an error, not a warning and an
empty string (`headers-auth.md:24`); references in headers and bodies are
documented to be checked at load time (`docs/reference/config.md:122`), but the
check scans a step's own headers as written and its inline body
(`config/resolver.rs:70`), while values are injected into the merged and expanded
headers and the rendered body (`:129`, `:161`): references that are inherited, come
out of a variable, or stand in a template file go unchecked, which
`WrittenRefsDefined` states as the only exceptions; a flag whose mode
the file does not select is dropped without a word, which `NothingLost` states
likewise; trailing slashes of a publish URL: exactly one is dropped.

Of templates: `:global` "is supported inside `composition` values"
(`lmn-core/TEMPLATES.md:171`), where it has no effect (`validators/object.rs:44`,
`generator.rs:50`), so that `BodyAsWritten` says of such values only what they
are made from, not when; `{{ENV:X:global}}` "is not supported" (`TEMPLATES.md:66`) and
accepted; rounding may carry a float out of its range when the bounds have more
decimals than it is rounded to; the sum of the two character counts of a string
wraps in a release build; `docs/guides/request-bodies.md:18` and two other pages
keep the definitions under `_loadtest_metadata_templates`, the code looks for
`_lmn_metadata_templates` (`request_template/mod.rs:19`).

Of reports: the `ok` count of a stage includes skipped steps
(`output/compute.rs:178` against `json-output.md:89`), so that `ReportIsTally`
leaves `requests` and `ok` open for a stage with skipped steps; every distinct
value of a field is documented to be in the report
(`docs/recipes/response-template.md:17`), beyond the cap it is not, nor is the
overflow; the collection at a
reduced rate above a number of VUs, and the note in the table that sampling was
active (`docs/getting-started/core-concepts.md:119-126`), do not exist; an answer that breaks off in
its body is a success; the slowest latency may fall out of the chart, which
`BarsAccount` states as the only exception.

## 4. Fairness

Nothing is assumed of the user: Ctrl-C is never fair. Assumed are:

* weak fairness for every VU's own steps, the drain, the coordinator and the
  task that waits for the signal: tokio polls every task that is ready. In
  `CurveRun` these are guarded by `Free`, so that nothing is assumed of a task
  for which there is no worker; and VUs that spin are not assumed to see their
  token at any particular moment, only in the end;
* weak fairness for `Refill` in `FixedRun`: the bucket refills with time;
* in `CurveRun`, strong fairness for `ExitVU`: a VU whose request keeps
  completing while its token is cancelled has both branches of `select!` ready
  again and again, and `select!` picks among ready branches at random. Fairness
  is stated for the VUs together, which is the same here, since a VU exits once
  and the records of a run are bounded;
* weak fairness for `main()` with its publishing client: every wait of the
  client is bounded by its HTTP timeout (`http_sink.rs`), so an error is always
  possible;
* in `Template`, weak fairness for `parse()` and for the rendering of each body,
  which are sequential code without awaits.

Nothing is assumed of the server under test. `Ends` of `FixedRun` and
`ScenarioRun` has two halves: a run ends if no request stays in flight for ever
(`ServerAnswers`), and after Ctrl-C without that hypothesis, since a silent
server then holds nobody. `Ends` of `CurveRun` needs no server either: it starts
from the end of the curve's time, or from Ctrl-C, after which time may stand
still.

## 5. What is proved

Every safety property that a run checks is also a theorem, and so is the
refinement. A theorem holds for every value of the constants that satisfies the
named assumptions of its module. They say no more than the types of the
arguments do, or what has been checked before the code is reached (a curve that
runs is `Valid`); three that the proofs need more of are noted below
(`InputsAssumption`, `CapsAssumption`, `ReportAssumption`).

| Module | Theorem | States |
|---|---|---|
| `FixedRunProofs` | `TypeCorrect`, `InvCorrect` | `Spec => []TypeOK`, `Spec => []IInv` |
| | `LedgerBalances` | every unit taken is held once, queued, counted or lost |
| | `WithinBudget`, `WithinRate` | no more requests start than asked for, nor than burst and refills allow |
| | `UninterruptedIsExact` | an uninterrupted report counts the whole budget |
| | `DrainedIsComplete` | nothing is sent or recorded after the drain has ended |
| | `ImplementsPool` | `Spec => PoolSpec`: a fixed run implements `RequestPool` |
| `ScenarioRunProofs` | `CapturesAreFresh` | a request carries values of its own VU and iteration only |
| | `IterationsAreWhole`, `SkipsAreCaused` | one record per step, skips last and not without a reason |
| | `OneRequestAfterCancel` | no VU starts two requests after Ctrl-C |
| | `ReportsWholeIterations` | `WholeIterations`: the report of an uninterrupted run, for any scenarios and any budget |
| `CurveRunProofs` | `HandlesAreTheRunningVUs` | `ListedAreLive`: the length of `vu_handles` is the number of running VUs |
| | `NeverAboveThePeak` | `LiveWithinPeak`, for every curve |
| | `CurveTypes` | `Spec => []TypeOK` |
| | `RecordsCountForTheirStage` | `StagesAccount`: records count where they completed, and stages add up |
| | `NothingMissingInReport` | `ReportComplete` |
| | `InstantsHaveOneStage`, `RampsAreStraight` | `StageOwnsInstant`, `RampIsLinear`, for every valid curve and every instant |
| `TemplateProofs` | `BodiesAreAsWritten` | each body has a value of the right definition at each place, and no null; of when it was made, what the property says |
| | `VerdictsAreRight` | `VerdictIsRight`: the cycle check, for every reference graph |
| | `ValuesKeepToTheirSpec` | `ValuesInSpec`, for every definition |
| `StartupProofs` | `SettingsAreKept` | `NothingLost` |
| | `InnermostIsSent` | `InnermostWins`, for any headers and any order of the hash maps |
| | `WrittenRefsAreDefined` | `WrittenRefsDefined`: no reference a step itself writes lacks its value, for any files and variables |
| | `SharesAreProportional` | `Proportional`, for any weights and any number of VUs |
| `ReportProofs` | `ReportCountsRecords` | `ReportIsTally`: the numbers of the JSON report, for any response templates at any steps |
| | `CapsCostDetailOnly` | `CapsDegradeOnly`, for any caps |
| | `ReportsAgree`, `BarsAreTheRequests` | `TableAgrees`, `BarsAccount` |
| `RunCliProofs` | `ZeroIsSuccess`, `PublishedLastAndSafely` | what exit code 0 means; what leaves the machine, when and where to |
| | `SuccessIsReal`, `RetriesAreBounded` | `SuccessIsStored`, `GivesUpInTime`, over every lossy network |

The properties are not inductive as they stand; each proof has an invariant that
is, shown for the initial states, kept by every action, and strong enough.

* **FixedRun.** `NeverOverBudget` speaks of requests started, but a unit is taken
  two steps earlier: `StartedWithinBudget` adds the VUs that hold a unit and have
  not started; `RateCap` likewise needs `StartedWithPermit`. `NothingAfterDrain`
  needs to know why the drain could end: `DrainClosed` says that every sender was
  gone and the queue empty, and `CoordinatorOrder` that no VU can be spawned by
  then. `ExactUnlessCancelled` needs in addition the causes for which a VU ends
  and a unit is lost. `IInv` is their conjunction, also checked by TLC. The
  counts are cardinalities of sets of VUs: `OccupiedMove` says how such a count
  changes when one VU moves, `CountsMove` applies it to all three.
* **FixedRun implements RequestPool.** From `IInv`, with the same `CountsMove`:
  each action either leaves the pool's counts alone or is one of its steps.
* **ScenarioRun.** Everything said of a VU is said by `Local(v)`, whose six parts
  follow one VU through its loop; `LocalFrame` and `OthersUntouched` let each
  action be looked at for its own VU only. `Emitted` and `Advanced` say what
  several skipped records at once do to a trail. That `Fresh` is kept needs that
  captures are cleared when a unit is claimed; `Caused` and `Shape` need what
  `abort_remaining` stands for (`Going`). `AssignInRange` shows that the
  round-robin gives a scenario that exists for any weights, saturated sums included.
* **The counts of ScenarioRun.** `WholeIterations` speaks of the end only. `CInv`
  says what holds before: of each step, as many records are counted or queued as
  iterations have got past it (`Counted`, a sum over the VUs), and what each VU
  has begun together with what is left is the budget (`UnitsSpent`). Both sums
  change by one with one VU; `IInv` says where in an iteration that is.
* **CurveRun.** `Distinct` (nobody is listed twice), `Running` (a listed VU has
  not been told to stop), `Accounted` (who is alive is on one of the two lists),
  `Phases` (which list is empty when), for lists that grow at the end (`Spawned`)
  and shrink at the end (`Retired`) and at the front (`Joined`). The peak is the
  bound `Bounded` on the two lists together, which holds because the list of
  the awaited is empty whenever the loop looks at the curve. That targets lie
  between zero and the peak is `TargetInRange`, from what the interpolation does
  between two stages (`LineBetween`).
* **The counts of CurveRun.** `AInv` relates what a stage has counted and what is
  queued for it to what has been answered in it (`PerStage`), and the counters of
  the stages to those of the run (`Overall`). `StageFound` shows that the look-up
  in the drain finds the stage an instant belongs to, whenever it is made.
* **CurveSweep.** `OneStageOwns`: the ends of the stages never decrease, so the
  first one that lies ahead is that of the one stage around an instant.
  `RoundedNearest` bounds the rounding, `TargetInStage` finds the stage
  `target_vus_at` stops at to be the one `stage_index_at` returns.
* **Template.** `RightJob` says of a job in progress that what it has generated
  and what it is still to generate covers what is wanted, all of it from defined
  names (`Checked`), and `ResolvedRight` that what was fixed at startup is there;
  `Order` keeps startup before the requests.
* **The cycle check.** `detect_cycle` keeps no list of the names it is done with;
  the invariant has one, `Good`, the names from which every chain of references
  ends. A name that refers to good names only is good (`GoodGrows`). `StackOK`
  says that each name on the stack refers to the next, and that its other
  references are good or not yet followed; so a name that is popped is good, and
  the stack up to a name that is on it already is a cycle. `RootsRight` says that
  a name the check has started from is good or at the bottom of the stack: at the
  end all are, and `GoodAreAcyclic` ranks them, by induction on their number.
* **Values of a template.** `Valid` carries what the validators found to the
  generators; the rest is arithmetic: the counts of a string do not wrap and fit
  the least length, and rounding does not leave an interval between two
  multiples of what it rounds to (`RoundedBetween`).
* **Startup.** For `NothingLost`, `Settled` gives the settings in closed form
  after each phase. For the headers, `Layered(got, all)` says that `got` has each
  name of `all` once, from the innermost layer; `MergeLayers` shows that a merge
  keeps this for any order of the maps if what comes in is from a layer further in, and
  the invariant applies it to the globals, to a scenario and to each step. For
  references, the invariant keeps for each resolved step that its own headers
  and its inline body have passed the check. `InputsAssumption` says what clap
  lets through: `NothingLost` would fail for `--load-curve` together with
  `--concurrency`, which clap refuses.
* **Shares of the VUs.** `Share(ws, i, n)` is what scenario i has had after n VUs
  in closed form: its weight for each complete round, and the part of its slots
  the round in progress has passed. `SharesRight` says that this is the number of
  its VUs; one more VU is one more for the scenario `AssignScenario` gives and
  for no other. `CapsAssumption` (64 scenarios of weight up to 10 000 do not
  overflow a `u64`, which the comment at `execution/mod.rs:362` relies on) is
  needed: a saturated sum would shorten the round.
* **Report.** `RInv` has the closed form of every accumulator: a row is right for
  a set of records if its counters are the numbers of those drained from it
  (`RowOf`, `FullRow`), a histogram is right for what was noted under its label
  (`StringsOf`, `FloatsOf`), and what has not come yet has no entry. One record
  adds to every set it belongs to (`OneMore`); `Noting` says what one more note
  does to all counts at once. The reports are functions of the accumulators;
  `SortedOrder` shows that the samples `compute.rs` sorts are in order, for
  percentiles, least and greatest. A record is parsed with the template of its own
place (`Parsers`), and what it notes has a label of `Labels` whichever place that
is. `ProductIsExact` shows that the product of floats never falls short: one of
the powers of two below an integer is at least half of it, and a deficit of 10 in
25 parts is less than half the distance there. The list `Powers` ends somewhere:
`ReportAssumption` has at most 16384 samples, the code 10,000.
* **RunCli.** `Delivery` relates what is on its way, stored and answered to the
  attempts made, `Attempts` the errors seen to their number; both are kept by the
  network and the platform as well. `MainOrder` says what has been done when
  `main()` is at a place, `ClientOrder` that the client has not started before
  its turn.

`SumProofs` has what all the counting rests on. `SumFunctionOnSet` is a fold that
takes the elements in an order fixed by `CHOOSE`; `SumRemoves` shows that the
order does not matter. The library's induction takes an operator as a
parameter, which the provers cannot instantiate, so `NatBySteps` and `SetBySteps`
state induction with the set of the values for which a claim holds.

Only model-checked: liveness (`Ends`, `RenderingEnds`, `AlwaysExits`), which is out
of the prover's reach, and the four violations of section 3, which are
counterexamples.

## 6. What is left out

* Text: YAML, JSON, URLs, duration strings, the characters of names and headers,
  report layout. `Startup` keeps whether an item is well formed, `RunCli`
  whether resolving succeeds, `Template` whether a file is JSON.
* The buckets of the latency histogram (three significant digits) and the
  distribution of the reservoir's draws; rounding of `f64` inside the
  interpolation, the thresholds and printed numbers. Thresholds over latencies.
* Throughput and the run's metadata in the reports.
* Request bodies and headers as they go over the wire, and what happens to them
  in `reqwest`; `resolve_string_placeholders`, which nothing calls.
* Panics of VU tasks (a join error is ignored by the executors). The drain's
  panic is modelled in `FixedRun` and `CurveRun`.
* Memory: the channel is unbounded in code and model; the models bound the
  records instead.
* A plain VU of a curve run whose body always fails to render would spin like a
  doomed scenario VU (`vu/mod.rs:90`). Templates are validated when they are
  loaded and no input makes rendering fail afterwards, so `CurveRun` does not
  have it; `FixedRun` and `ScenarioRun` have the failure itself because the code
  handles it.
* The `configure-*` subcommands (a file copied into a directory), telemetry
  (names of spans), and the deduplication of published runs, which is the
  platform's.

## 7. Plan

All components whose behaviour goes beyond sequential input and output are
modelled. What would add most now:

1. `ScenarioRun` as an implementation of `RequestPool`, whose units are
   iterations.
2. Latency thresholds, once histograms with buckets are modelled; then `RunCli`
   could take its results from `Report`.
