------------------------------- MODULE Report -------------------------------
(***************************************************************************)
(* From records to the two reports of a run: what the drain task          *)
(* accumulates (lmn-core/src/execution/mod.rs, response_template/stats.rs,*)
(* histogram/), what RunReport::from_params makes of it for JSON          *)
(* (lmn-core/src/output/), and what print_stats makes of it for the table *)
(* (lmn-cli/src/cli/output.rs).                                           *)
(*                                                                         *)
(* Records come in any order.  A histogram of latencies is exact (the     *)
(* code's keeps three significant digits), fractions are not divided out, *)
(* and a map is a function on the keys it has.                            *)
(***************************************************************************)
EXTENDS Response, FiniteSetsExt, Functions

CONSTANTS
    Inputs,     \* records that may come: exchanges with their attribution
    Templates,  \* the response templates of a run, by place (see Place); <<>> for none
    NumStages,  \* stages of the curve; 0 in fixed mode
    MaxLatency, \* the upper end of the latency histogram
    Lossy,      \* latencies that lose a microsecond in f64 (see Micros)
    MaxBuckets, \* DEFAULT_CATEGORICAL_MAX_BUCKETS
    MaxSamples, \* DEFAULT_NUMERIC_MAX_SAMPLES, 10,000 in the code
    Bars,       \* BUCKETS of the latency chart
    MaxRecords  \* bound: records of a run

ASSUME ReportAssumption ==
    /\ NumStages \in Nat /\ MaxLatency \in Nat \ {0} /\ Bars \in Nat \ {0}
    /\ MaxBuckets \in Nat \ {0} /\ MaxSamples \in Nat \ {0} /\ MaxSamples <= 16384
    /\ MaxRecords \in Nat
    /\ IsFiniteSet(Inputs) /\ None \notin Contents
    /\ \A t \in Templates : \A p \in DOMAIN t : t[p] \in Seq(Range(t[p]))
    /\ \A r \in Inputs :
        /\ r.content \in Contents /\ {r.skipped, r.sent} \subseteq BOOLEAN
        /\ r.took \in Nat /\ (r.sent => r.status # None)
        /\ \A path \in DOMAIN r.body :
            r.body[path].kind = "number" => r.body[path].value \in Int

VARIABLES
    template, \* the response template of each place of the run
    phase,    \* "drain", "refused", "drained" or "reported"
    acc,      \* DrainMetricsAccumulator, and the curve's stage_stats
    todo,     \* fields of the current record still to be recorded
    json, table, \* the reports
    tally,    \* history: how often each input was drained
    noted     \* history: [kind, value] of what was recorded, per label

vars == <<template, phase, acc, todo, json, table, tally, noted>>

At(f, key, default) == IF key \in DOMAIN f THEN f[key] ELSE default

\* A record comes from a step of a scenario or, in a run of single requests,
\* from the one place <<None, None>>.  Each has a response template or none.
Place(x) == <<x.scenario, x.step>>
TemplateOf(x) == At(template, Place(x), <<>>)

\* has_tracked_fields: some place has a template.
Tracking == \E p \in DOMAIN template : template[p] # <<>>

\* The labels of a run's fields, whichever step they are of.
Labels == UNION {{Label(template[p][i].path) : i \in FieldsOf(template[p])} :
                    p \in DOMAIN template}
Stages == 1..NumStages

-----------------------------------------------------------------------------
(* Accumulators *)

Put(f, key, value) == [k \in DOMAIN f \cup {key} |-> IF k = key THEN value ELSE f[k]]

Add(f, key, n) == Put(f, key, At(f, key, 0) + n)

\* RequestStats; errors are the requests without a status code.
EmptyRow == [total |-> 0, failed |-> 0, skipped |-> 0, errors |-> 0,
             codes |-> <<>>, latency |-> [d \in 1..MaxLatency |-> 0]]

\* LatencyHistogram::record
Clamped(d) == IF d < 1 THEN 1 ELSE IF d > MaxLatency THEN MaxLatency ELSE d

\* Everything but the counter of skipped records, which a stage has not.
Count(row, r) ==
    IF r.skipped THEN [row EXCEPT !.total = @ + 1]
    ELSE LET code == StatusCode(r) IN
        [row EXCEPT
            !.total = @ + 1,
            !.failed = IF Success(r) THEN @ ELSE @ + 1,
            !.latency[Clamped(r.took)] = @ + 1,
            !.codes = IF code = None THEN @ ELSE Add(@, code, 1),
            !.errors = IF code = None THEN @ + 1 ELSE @]

RecordRow(row, r) == [Count(row, r) EXCEPT !.skipped = IF r.skipped THEN @ + 1 ELSE @]

EmptyScenario == [requests |-> EmptyRow, steps |-> <<>>]

\* ScenarioMetricsAccumulator::record: nothing without a scenario's name.
RecordScenario(scenarios, r) ==
    IF r.scenario = None THEN scenarios
    ELSE LET old == At(scenarios, r.scenario, EmptyScenario)
             step == At(old.steps, r.step, EmptyRow)
         IN  Put(scenarios, r.scenario,
                 [requests |-> RecordRow(old.requests, r),
                  steps |-> Put(old.steps, r.step, RecordRow(step, r))])

EmptyResponse == [parsed |-> 0, strings |-> <<>>, floats |-> <<>>, mismatches |-> <<>>]

EmptyAcc == [run |-> EmptyRow, stages |-> [i \in Stages |-> EmptyRow],
             scenarios |-> <<>>, response |-> EmptyResponse]

Init ==
    /\ template \in Templates
    /\ phase = IF \A p \in DOMAIN template : template[p] = <<>> \/ TemplateOK(template[p])
                 THEN "drain" ELSE "refused"
    /\ acc = EmptyAcc /\ todo = <<>>
    /\ json = None /\ table = None
    /\ tally = [x \in Inputs |-> 0]
    /\ noted = [l \in Labels |-> <<>>]

Drained == SumFunction(tally)

\* record_request, the stage of the record, and record_extraction as far as
\* the number of responses.  What the record brings was extracted in the VU,
\* with the template of its own place.
Receive(r) ==
    /\ phase = "drain" /\ todo = <<>>
    /\ Drained < MaxRecords
    /\ Place(r) \in DOMAIN template
    /\ LET found == IF r.skipped THEN <<>> ELSE Extraction(r, TemplateOf(r)) IN
        /\ acc' = [acc EXCEPT
                !.run = RecordRow(@, r),
                !.stages = [i \in Stages |-> IF i = r.stage THEN Count(@[i], r) ELSE @[i]],
                !.scenarios = RecordScenario(@, r),
                !.response.parsed = IF found = <<>> THEN @ ELSE @ + 1]
        /\ todo' = found
    /\ tally' = [tally EXCEPT ![r] = @ + 1]
    /\ UNCHANGED <<template, phase, json, table, noted>>

EmptyCategorical == [entries |-> <<>>, overflow |-> 0]

\* Mutant of RecordString: at the cap even a known value overflows.
RecordBelowCap(h, value) ==
    IF Cardinality(DOMAIN h.entries) < MaxBuckets
      THEN [h EXCEPT !.entries = Add(@, value, 1)]
      ELSE [h EXCEPT !.overflow = @ + 1]

\* CategoricalHistogram::record
RecordString(h, value) ==
    IF value \in DOMAIN h.entries \/ Cardinality(DOMAIN h.entries) < MaxBuckets
      THEN [h EXCEPT !.entries = Add(@, value, 1)]
      ELSE [h EXCEPT !.overflow = @ + 1]

EmptyNumeric == [samples |-> <<>>, seen |-> 0]

\* NumericHistogram::record, with j drawn below the number of values seen.
RecordFloat(h, value, j) ==
    [seen |-> h.seen + 1,
     samples |-> IF Len(h.samples) < MaxSamples THEN Append(h.samples, value)
                 ELSE IF j < MaxSamples THEN [h.samples EXCEPT ![j + 1] = value]
                 ELSE h.samples]

\* One value, or one mismatch, of the extraction: ResponseStats::record.
RecordValue ==
    /\ todo # <<>>
    /\ LET first == Min(DOMAIN todo)
           e == todo[first]
           old == acc.response
       IN  /\ \/ /\ e.kind = "STRING"
                 /\ LET h == At(old.strings, e.label, EmptyCategorical) IN
                    acc' = [acc EXCEPT !.response.strings =
                                Put(@, e.label, RecordString(h, e.value))]
              \/ /\ e.kind = "FLOAT"
                 /\ LET h == At(old.floats, e.label, EmptyNumeric) IN
                    \E j \in 0..h.seen :
                       acc' = [acc EXCEPT !.response.floats =
                                Put(@, e.label, RecordFloat(h, e.value, j))]
              \/ /\ e.kind = "MISMATCH"
                 /\ acc' = [acc EXCEPT !.response.mismatches = Add(@, e.label, 1)]
           /\ noted' = [noted EXCEPT ![e.label] =
                            Append(@, [kind |-> e.kind, value |-> e.value])]
           /\ todo' = Restrict(todo, DOMAIN todo \ {first})
    /\ UNCHANGED <<template, phase, json, table, tally>>

\* The channel is closed: the accumulator becomes the statistics.
DrainEnds ==
    /\ phase = "drain" /\ todo = <<>>
    /\ phase' = "drained"
    /\ UNCHANGED <<template, acc, todo, json, table, tally, noted>>

-----------------------------------------------------------------------------
(* RunReport::from_params *)

Monus(a, b) == IF a > b THEN a - b ELSE 0

Samples(hist) == SumFunction(hist)

\* The least recorded value up to which p percent of the samples lie.
Quantile(hist, p) ==
    LET upTo(d) == SumFunctionOnSet(hist, 1..d)
    IN  IF Samples(hist) = 0 THEN 0
        ELSE Min({d \in DOMAIN hist : hist[d] > 0 /\ 100 * upTo(d) >= p * Samples(hist)})

Lowest(hist) == IF Samples(hist) = 0 THEN 0 ELSE Min({d \in DOMAIN hist : hist[d] > 0})
Highest(hist) == IF Samples(hist) = 0 THEN 0 ELSE Max({d \in DOMAIN hist : hist[d] > 0})

LatencyStats(hist) ==
    [min |-> Lowest(hist), max |-> Highest(hist),
     sum |-> SumFunction([d \in DOMAIN hist |-> d * hist[d]]), of |-> Samples(hist),
     at |-> [p \in {10, 25, 50, 75, 90, 95, 99} |-> Quantile(hist, p)]]

\* status_code_map: "error" (here None) is a key only if there are any.
StatusCodeMap(row) ==
    IF row.errors > 0 THEN Put(row.codes, None, row.errors) ELSE row.codes

ErrorRate(row) == IF row.total = 0 THEN <<0, 1>> ELSE <<row.failed, row.total>>

\* Mutant of RequestSummary: ok is what has not failed.
SummaryOfSent(row) ==
    [total |-> row.total, failed |-> row.failed, skipped |-> row.skipped,
     ok |-> Monus(row.total, row.failed), error_rate |-> ErrorRate(row)]

RequestSummary(row) ==
    [total |-> row.total, failed |-> row.failed, skipped |-> row.skipped,
     ok |-> Monus(Monus(row.total, row.failed), row.skipped), error_rate |-> ErrorRate(row)]

RowReport(row) ==
    [requests |-> RequestSummary(row), latency |-> LatencyStats(row.latency),
     status_codes |-> StatusCodeMap(row)]

\* per_stage_reports: a stage has no counter of skipped records.
StageReport(row) ==
    [requests |-> row.total, ok |-> Monus(row.total, row.failed), failed |-> row.failed,
     error_rate |-> ErrorRate(row), latency |-> LatencyStats(row.latency)]

\* In place i, the least sample that at least i samples do not exceed.
Sorted(samples) ==
    [i \in DOMAIN samples |->
        Min({v \in Range(samples) :
                i <= Cardinality({j \in DOMAIN samples : samples[j] <= v})})]

\* Mutant of IndexAt: percentiles divide the gaps between the values.
IndexOfGap(n, p) == ((n - 1) * p) \div 100

\* p percent of n.
Portion(n, p) == (n * p) \div 100

\* Position of the p-th percentile among n sorted values.
IndexAt(n, p) == IF Portion(n, p) < n - 1 THEN Portion(n, p) ELSE n - 1

FloatSummary(h) ==
    LET s == Sorted(h.samples)
        n == Len(s)
    IN  [min |-> s[1], max |-> s[n], sum |-> SumFunction(h.samples), of |-> n,
         at |-> [p \in {50, 95, 99} |-> s[IndexAt(n, p) + 1]]]

\* response_stats_report: what overflowed is not mentioned.
ResponseReport(rs) ==
    [responses_parsed |-> rs.parsed,
     string_fields |-> [l \in DOMAIN rs.strings |-> rs.strings[l].entries],
     float_fields |-> [l \in DOMAIN rs.floats |-> FloatSummary(rs.floats[l])],
     mismatch_counts |-> rs.mismatches]

ScenarioReport(s) ==
    [overall |-> RowReport(s.requests),
     steps |-> [step \in DOMAIN s.steps |-> RowReport(s.steps[step])]]

JsonReport ==
    [run |-> RowReport(acc.run),
     response_stats |-> IF Tracking THEN ResponseReport(acc.response) ELSE None,
     curve_stages |-> [i \in Stages |-> StageReport(acc.stages[i])],
     scenarios |-> [s \in DOMAIN acc.scenarios |-> ScenarioReport(acc.scenarios[s])]]

BuildReport ==
    /\ phase = "drained"
    /\ json = None
    /\ json' = JsonReport
    /\ UNCHANGED <<template, phase, acc, todo, table, tally, noted>>

-----------------------------------------------------------------------------
(* print_stats *)

\* A latency in milliseconds, back in microseconds and cut to an integer.
Micros(d) == IF d \in Lossy THEN d - 1 ELSE d

\* Mutant of InChart: the largest latency is left out.
BelowTop(d, low, high) == low <= d /\ d < high

InChart(d, low, high) == low <= d /\ d <= high

BarOf(d, low, high) ==
    LET i == ((d - low) * Bars) \div (high - low)
    IN  IF i < Bars - 1 THEN i + 1 ELSE Bars

\* print_latency_histogram; no chart for less than two latencies.
LatencyBars(hist) ==
    LET low == Micros(Lowest(hist))
        high == Micros(Highest(hist))
    IN  IF Samples(hist) = 0 \/ low >= high THEN <<>>
        ELSE [b \in 1..Bars |->
                SumFunction([d \in DOMAIN hist |->
                    IF InChart(d, low, high) /\ BarOf(d, low, high) = b THEN hist[d] ELSE 0])]

TableRow(row) ==
    [total |-> row.total, failed |-> row.failed, skipped |-> row.skipped,
     ok |-> Monus(Monus(row.total, row.failed), row.skipped)]

\* A step shows its error rate and one percentile, a scenario three.
TableStep(row) ==
    [total |-> row.total, skipped |-> row.skipped, p95 |-> Quantile(row.latency, 95),
     error_rate |-> IF row.total = 0 THEN <<0, 1>> ELSE <<row.failed, row.total>>]

TableScenario(s) ==
    [requests |-> TableRow(s.requests),
     at |-> [p \in {50, 95, 99} |-> Quantile(s.requests.latency, p)],
     steps |-> [step \in DOMAIN s.steps |-> TableStep(s.steps[step])]]

\* How far the f64 next to p / 100 lies below it, in 25ths of 2^-53.
Deficit(p) == IF p = 95 THEN 10 ELSE IF p = 99 THEN 2 ELSE 0

\* The powers of two less than what MaxSamples may be.
Powers == {1, 2, 4, 8, 16, 32, 64, 128, 256, 512, 1024, 2048, 4096, 8192}

\* Whether n * (p / 100), exactly the integer Portion(n, p), is rounded to the
\* f64 below it: when the deficit, n times as large by then, is more than half
\* the distance of two f64 just below that integer, which is b / 2^53 for the
\* greatest power b of two less than it.
FallsShort(n, p) ==
    /\ (n * p) % 100 = 0
    /\ Deficit(p) > 0
    /\ \A b \in Powers : b < Portion(n, p) => 25 * b < Deficit(p) * n

\* (n as f64 * p).floor(): a product that is no integer is 1/100 or more from
\* the next one, and no rounding makes up for that.
FloorOfProduct(n, p) == Portion(n, p) - (IF FallsShort(n, p) THEN 1 ELSE 0)

\* Distribution::quantile, whose p is 0.5, 0.95 or 0.99.
DistributionAt(h, p) ==
    LET n == Len(h.samples)
        floor == FloorOfProduct(n, p)
    IN  Sorted(h.samples)[(IF floor < n - 1 THEN floor ELSE n - 1) + 1]

TableFloat(h) ==
    [min |-> Min(Range(h.samples)), max |-> Max(Range(h.samples)),
     at |-> [p \in {50, 95, 99} |-> DistributionAt(h, p)]]

\* Stages are not shown; nor is what overflowed.
Table ==
    [requests |-> TableRow(acc.run),
     latency |-> [p \in {10, 25, 50, 75, 90, 95, 99} |-> Quantile(acc.run.latency, p)],
     bars |-> LatencyBars(acc.run.latency),
     codes |-> StatusCodeMap(acc.run),
     scenarios |-> [s \in DOMAIN acc.scenarios |-> TableScenario(acc.scenarios[s])],
     strings |-> [l \in DOMAIN acc.response.strings |-> acc.response.strings[l].entries],
     floats |-> [l \in DOMAIN acc.response.floats |-> TableFloat(acc.response.floats[l])],
     mismatches |-> acc.response.mismatches]

PrintTable ==
    /\ phase = "drained"
    /\ json # None
    /\ table' = Table
    /\ phase' = "reported"
    /\ UNCHANGED <<template, acc, todo, json, tally, noted>>

Finished == phase \in {"refused", "reported"} /\ UNCHANGED vars

Next ==
    \/ \E r \in Inputs : Receive(r)
    \/ RecordValue \/ DrainEnds \/ BuildReport \/ PrintTable \/ Finished

Spec == Init /\ [][Next]_vars

-----------------------------------------------------------------------------
(* Properties *)

Drawn(S) == SumFunctionOnSet(tally, S)

Sent(S) == {x \in S : ~x.skipped}

\* What a row must say when S are the inputs it is about.
Tells(row, S) ==
    /\ row.requests.total = Drawn(S)
    /\ row.requests.skipped = Drawn(S \ Sent(S))
    /\ row.requests.ok = Drawn({x \in Sent(S) : Success(x)})
    /\ row.requests.failed = Drawn({x \in Sent(S) : ~Success(x)})
    /\ row.latency.of = Drawn(Sent(S))
    /\ \A x \in Sent(S) : tally[x] > 0 =>
        /\ Clamped(x.took) \in row.latency.min..row.latency.max
        /\ StatusCode(x) \in DOMAIN row.status_codes
    /\ \A code \in DOMAIN row.status_codes :
        row.status_codes[code] = Drawn({x \in Sent(S) : StatusCode(x) = code})

Of(scenario) == {x \in Inputs : x.scenario = scenario}

\* Every number of the JSON report is the number of records it is about,
\* whatever the order they were drained in: of the run, of each scenario and
\* of each step, where ok, failed and skipped add up, and where exactly what
\* was sent has a latency and a status code or an error.  So it is for a stage in
\* which no step was skipped; where some were, what its requests and ok say is
\* left open: a stage has no counter of skipped records, and its ok is the rest
\* of its total (compute.rs:178), while json-output.md:89 says 2xx responses.
\* The responses parsed are those whose JSON was read to the end, at places
\* with a template of their own.
\* About: five counters fed from one record (DrainMetricsAccumulator, the
\* scenario's, the step's, the stage's), and compute.rs, which subtracts.
ReportIsTally ==
    json # None =>
        /\ Tells(json.run, Inputs)
        /\ \A x \in Inputs : (tally[x] > 0 /\ x.scenario # None) =>
            x.scenario \in DOMAIN json.scenarios
                /\ x.step \in DOMAIN json.scenarios[x.scenario].steps
        /\ \A s \in DOMAIN json.scenarios :
            /\ Tells(json.scenarios[s].overall, Of(s))
            /\ \A step \in DOMAIN json.scenarios[s].steps :
                Tells(json.scenarios[s].steps[step], {x \in Of(s) : x.step = step})
        /\ \A i \in Stages :
            LET S == {x \in Inputs : x.stage = i} IN
            /\ json.curve_stages[i].failed = Drawn({x \in Sent(S) : ~Success(x)})
            /\ json.curve_stages[i].latency.of = Drawn(Sent(S))
            /\ Drawn(S \ Sent(S)) = 0 =>
                /\ json.curve_stages[i].requests = Drawn(S)
                /\ json.curve_stages[i].ok = Drawn({x \in S : Success(x)})
        /\ Tracking => json.response_stats.responses_parsed =
            Drawn({x \in Sent(Inputs) :
                    TemplateOf(x) # <<>> /\ x.sent /\ x.content = "json"})

\* Places of the notes of a kind, and of those with one value.
OfKind(notes, kind) == {i \in DOMAIN notes : notes[i].kind = kind}

OfValue(notes, kind, v) == {i \in OfKind(notes, kind) : notes[i].value = v}

\* The caps cost detail and nothing else: a value of a string field that is
\* counted at all is counted each time it occurred, what found no room is in
\* the overflow, and room is denied only when there is none; the samples of a
\* float field are values that occurred, no more often than they did, and as
\* many as fit.  Fields whose labels coincide share their counts.
\* About: CategoricalHistogram and the reservoir of NumericHistogram.
CapsDegradeOnly ==
    \A l \in Labels :
        LET strings == At(acc.response.strings, l, EmptyCategorical)
            floats == At(acc.response.floats, l, EmptyNumeric)
            samples == floats.samples
        IN  /\ At(acc.response.mismatches, l, 0) = Cardinality(OfKind(noted[l], "MISMATCH"))
            /\ \A v \in DOMAIN strings.entries :
                strings.entries[v] = Cardinality(OfValue(noted[l], "STRING", v))
            /\ SumFunction(strings.entries) + strings.overflow =
                Cardinality(OfKind(noted[l], "STRING"))
            /\ Cardinality(DOMAIN strings.entries) <= MaxBuckets
            /\ strings.overflow > 0 => Cardinality(DOMAIN strings.entries) = MaxBuckets
            /\ Len(samples) = Min({MaxSamples, Cardinality(OfKind(noted[l], "FLOAT"))})
            /\ \A v \in Range(samples) :
                Cardinality({i \in DOMAIN samples : samples[i] = v})
                    <= Cardinality(OfValue(noted[l], "FLOAT", v))

\* The two reports of one run never differ in a number both of them show, and
\* the percentiles of a field are among its samples and in order.
\* About: compute.rs, which sorts and indexes the samples itself, against
\* Distribution, of which its documentation says "both output paths report
\* identical percentile values" (stats/distribution.rs).
TableAgrees ==
    table # None =>
        /\ \A k \in DOMAIN table.requests : table.requests[k] = json.run.requests[k]
        /\ table.latency = json.run.latency.at
        /\ table.codes = json.run.status_codes
        /\ DOMAIN table.scenarios = DOMAIN json.scenarios
        /\ \A s \in DOMAIN table.scenarios :
            LET shown == table.scenarios[s]
                full == json.scenarios[s]
                all == full.overall
            IN  /\ \A k \in DOMAIN shown.requests : shown.requests[k] = all.requests[k]
                /\ \A p \in DOMAIN shown.at : shown.at[p] = all.latency.at[p]
                /\ \A step \in DOMAIN shown.steps :
                    /\ shown.steps[step].total = full.steps[step].requests.total
                    /\ shown.steps[step].skipped = full.steps[step].requests.skipped
                    /\ shown.steps[step].p95 = full.steps[step].latency.at[95]
                    /\ shown.steps[step].error_rate = full.steps[step].requests.error_rate
        /\ Tracking =>
            /\ table.strings = json.response_stats.string_fields
            /\ table.mismatches = json.response_stats.mismatch_counts
            /\ \A l \in DOMAIN table.floats :
                LET shown == table.floats[l]
                    full == json.response_stats.float_fields[l]
                IN  /\ shown.at = full.at
                    /\ <<shown.min, shown.max>> = <<full.min, full.max>>
                    /\ full.min <= full.at[50] /\ full.at[50] <= full.at[95]
                    /\ full.at[95] <= full.at[99] /\ full.at[99] <= full.max

\* The bars of the latency chart add up to the requests measured, except for
\* those at the maximum if its way through milliseconds loses a microsecond.
\* About: print_latency_histogram, which compares integers with bounds that
\* were divided and multiplied by 1000 in floating point.
BarsAccount ==
    (table # None /\ table.bars # <<>>) =>
        LET hist == acc.run.latency
            top == Highest(hist)
        IN  SumFunction(table.bars) = Samples(hist) - (IF top \in Lossy THEN hist[top] ELSE 0)
=============================================================================
