---------------------------- MODULE ReportProofs ----------------------------
(***************************************************************************)
(* Proofs about the reports of a run: the numbers of the JSON report are  *)
(* numbers of records, the caps of the histograms cost nothing but        *)
(* detail, the table agrees with the JSON report and its chart with the   *)
(* requests measured, for every set of records, template and cap.         *)
(*                                                                         *)
(* What is counted for a run, a stage, a scenario or a step is a row; a   *)
(* row is right for the records it is about if each of its counters is    *)
(* the number of those records it should count.  The inductive invariant  *)
(* says that every row is right all the time, that every histogram of     *)
(* response fields is right for what was noted at its label, and that a   *)
(* report, once made, is that of the accumulator as it still is.          *)
(***************************************************************************)
EXTENDS Report, SumProofs, SequenceTheorems, FiniteSetTheorems, TLAPS

-----------------------------------------------------------------------------
(* Sorted samples *)

\* The samples in order: the first is the least, the last the greatest, and
\* each is one of them.
LEMMA SortedOrder ==
    ASSUME NEW s \in Seq(Int), s # <<>>
    PROVE  /\ Len(s) \in Nat \ {0} /\ Len(Sorted(s)) = Len(s)
           /\ \A i \in 1..Len(s) : Sorted(s)[i] \in Int
           /\ \A i, j \in 1..Len(s) : i <= j => Sorted(s)[i] <= Sorted(s)[j]
           /\ Sorted(s)[1] = Min(Range(s))
           /\ Sorted(s)[Len(s)] = Max(Range(s))
<1> DEFINE n == Len(s)
           R == Range(s)
           upTo(v) == {j \in DOMAIN s : s[j] <= v}
           fits(i) == {v \in R : i <= Cardinality(upTo(v))}
           top == Max(R)
<1>1. /\ n \in Nat \ {0} /\ DOMAIN s = 1..n
      /\ \A i \in 1..n : s[i] \in Int
      /\ IsFiniteSet(1..n) /\ Cardinality(1..n) = n
    BY LenProperties, ElementOfSeq, EmptySeq, FS_Interval
<1>2. IsFiniteSet(R) /\ R \subseteq Int /\ \A j \in 1..n : s[j] \in R
    BY <1>1, RangeFinite DEF Range
<1>3. top \in R /\ \A y \in R : y <= top
  <2>1. R # {}
    BY <1>1, <1>2
  <2> QED BY <1>2, <2>1, GreatestOf
<1>4. \A v \in R : Cardinality(upTo(v)) \in Nat /\ Cardinality(upTo(v)) <= n
  <2> SUFFICES ASSUME NEW v \in R
               PROVE  Cardinality(upTo(v)) \in Nat /\ Cardinality(upTo(v)) <= n
    OBVIOUS
  <2>1. upTo(v) \in SUBSET (1..n)
    BY <1>1
  <2> HIDE DEF upTo
  <2> QED BY <1>1, <2>1, FS_Subset, FS_CardinalityType
<1>5. \A v \in R : 1 <= Cardinality(upTo(v))
  <2> SUFFICES ASSUME NEW v \in R PROVE 1 <= Cardinality(upTo(v))
    OBVIOUS
  <2>1. PICK j \in 1..n : v = s[j]
    BY <1>1 DEF Range
  <2>2. j \in upTo(v) /\ upTo(v) \in SUBSET (1..n)
    BY <1>1, <2>1
  <2>3. IsFiniteSet(upTo(v))
    BY <1>1, <2>2, FS_Subset
  <2>4. Cardinality(upTo(v)) # 0
    BY <2>2, <2>3, FS_EmptySet
  <2> HIDE DEF upTo
  <2> QED BY <1>4, <2>4
<1>6. Cardinality(upTo(top)) = n
  <2>1. upTo(top) = 1..n
    BY <1>1, <1>2, <1>3
  <2> QED BY <1>1, <2>1
<1>7. \A v \in R : n <= Cardinality(upTo(v)) => v = top
  <2> SUFFICES ASSUME NEW v \in R, n <= Cardinality(upTo(v)) PROVE v = top
    OBVIOUS
  <2>1. upTo(v) \in SUBSET (1..n)
    BY <1>1
  <2>2. Cardinality(1..n) = Cardinality(upTo(v))
    BY <1>1, <1>4
  <2>3. 1..n = upTo(v)
    BY <1>1, <2>1, <2>2, FS_Subset
  <2>4. PICK j \in 1..n : top = s[j]
    BY <1>1, <1>3 DEF Range
  <2>5. top <= v
    BY <1>1, <2>3, <2>4
  <2> QED BY <1>2, <1>3, <2>5
<1> HIDE DEF upTo
<1>8. \A i \in 1..n : fits(i) \in SUBSET Int /\ IsFiniteSet(fits(i)) /\ top \in fits(i)
  <2> SUFFICES ASSUME NEW i \in 1..n
               PROVE  fits(i) \in SUBSET Int /\ IsFiniteSet(fits(i)) /\ top \in fits(i)
    OBVIOUS
  <2>1. fits(i) \in SUBSET R
    OBVIOUS
  <2>2. top \in fits(i)
    BY <1>1, <1>3, <1>6
  <2> HIDE DEF fits
  <2> QED BY <1>2, <2>1, <2>2, FS_Subset
<1>9. \A i, j \in 1..n : i <= j => fits(j) \subseteq fits(i)
    BY <1>1, <1>4
<1>10. fits(1) = R
    BY <1>5
<1>11. \A v \in fits(n) : v = top
    BY <1>7
<1> HIDE DEF fits
<1>12. \A i \in 1..n : Min(fits(i)) \in fits(i) /\ \A y \in fits(i) : Min(fits(i)) <= y
    BY <1>8, LeastOf
<1>13. Sorted(s) = [i \in 1..n |-> Min(fits(i))]
    BY <1>1 DEF Sorted, fits, upTo
<1>14. \A i \in 1..n : Sorted(s)[i] = Min(fits(i)) /\ Min(fits(i)) \in Int
    BY <1>8, <1>12, <1>13
<1>15. Len(Sorted(s)) = n
  <2>1. Sorted(s) \in [1..n -> Int]
    BY <1>13, <1>14
  <2>2. Sorted(s) \in Seq(Int) /\ DOMAIN Sorted(s) = 1..n
    BY <1>1, <2>1, SeqDef
  <2>3. Len(Sorted(s)) \in Nat /\ 1..Len(Sorted(s)) = 1..n
    BY <2>2, LenProperties
  <2> QED BY <1>1, <2>3
<1>16. \A i, j \in 1..n : i <= j => Min(fits(i)) <= Min(fits(j))
    BY <1>9, <1>12
<1>17. 1 \in 1..n /\ n \in 1..n
    BY <1>1
<1>18. Min(fits(n)) = top
    BY <1>11, <1>12, <1>17
<1> QED BY <1>1, <1>10, <1>14, <1>15, <1>16, <1>17, <1>18

-----------------------------------------------------------------------------
(* The rows *)

\* How many of the records in S were drained, when t says how often each was.
Total(t, S) == SumFunctionOnSet(t, S)

With(S, code) == {x \in Sent(S) : StatusCode(x) = code}
Failures(S) == {x \in Sent(S) : ~Success(x)}

\* A row's counters, but for the one of skipped records, are right for S.
RowOf(row, S, t) ==
    /\ row = [total |-> row.total, failed |-> row.failed, skipped |-> row.skipped,
              errors |-> row.errors, codes |-> row.codes, latency |-> row.latency]
    /\ row.latency \in [1..MaxLatency -> Nat]
    /\ row.total = Total(t, S)
    /\ row.failed = Total(t, Failures(S))
    /\ row.errors = Total(t, With(S, None))
    /\ Samples(row.latency) = Total(t, Sent(S))
    /\ \A x \in Sent(S) : t[x] > 0 =>
        /\ row.latency[Clamped(x.took)] > 0
        /\ StatusCode(x) # None => StatusCode(x) \in DOMAIN row.codes
    /\ \A code \in DOMAIN row.codes :
        code # None /\ row.codes[code] = Total(t, With(S, code))

FullRow(row, S, t) == RowOf(row, S, t) /\ row.skipped = Total(t, S \ Sent(S))

InStep(s, step) == {x \in Of(s) : x.step = step}
InStage(i) == {x \in Inputs : x.stage = i}

\* A scenario, and a step of it, is listed once one of its records has come.
ScenariosOf(scenarios, t) ==
    /\ \A s \in DOMAIN scenarios :
        /\ s # None
        /\ FullRow(scenarios[s].requests, Of(s), t)
        /\ \A step \in DOMAIN scenarios[s].steps :
            FullRow(scenarios[s].steps[step], InStep(s, step), t)
    /\ \A x \in Inputs : (t[x] > 0 /\ x.scenario # None) =>
        /\ x.scenario \in DOMAIN scenarios
        /\ x.step \in DOMAIN scenarios[x.scenario].steps

-----------------------------------------------------------------------------
(* The histograms of response fields *)

\* A histogram of strings is right for what was noted.
StringsOf(h, s) ==
    /\ h = [entries |-> h.entries, overflow |-> h.overflow]
    /\ h.entries \in [DOMAIN h.entries -> Nat] /\ IsFiniteSet(DOMAIN h.entries)
    /\ h.overflow \in Nat
    /\ \A v \in DOMAIN h.entries : h.entries[v] = Cardinality(OfValue(s, "STRING", v))
    /\ SumFunction(h.entries) + h.overflow = Cardinality(OfKind(s, "STRING"))
    /\ Cardinality(DOMAIN h.entries) <= MaxBuckets
    /\ h.overflow > 0 => Cardinality(DOMAIN h.entries) = MaxBuckets
    /\ h.overflow = 0 => \A i \in OfKind(s, "STRING") : s[i].value \in DOMAIN h.entries

Least(m, n) == IF m <= n THEN m ELSE n

\* A reservoir of numbers is.
FloatsOf(h, s) ==
    /\ h.samples \in Seq(Int)
    /\ h.seen = Cardinality(OfKind(s, "FLOAT"))
    /\ Len(h.samples) = Least(MaxSamples, h.seen)
    /\ \A v \in Int :
        Cardinality(Places(h.samples, {v})) <= Cardinality(OfValue(s, "FLOAT", v))

\* new is s with the note e.
Noting(s, e, new) ==
    /\ \A kind :
        /\ Cardinality(OfKind(s, kind)) \in Nat
        /\ Cardinality(OfKind(new, kind))
             = Cardinality(OfKind(s, kind)) + (IF e.kind = kind THEN 1 ELSE 0)
    /\ \A kind, v :
        /\ Cardinality(OfValue(s, kind, v)) \in Nat
        /\ Cardinality(OfValue(new, kind, v))
             = Cardinality(OfValue(s, kind, v))
                 + (IF e.kind = kind /\ e.value = v THEN 1 ELSE 0)
    /\ \A kind : \A i \in OfKind(new, kind) :
        \/ i \in OfKind(s, kind) /\ new[i] = s[i]
        \/ e.kind = kind /\ new[i] = e

-----------------------------------------------------------------------------
(* The invariant *)

\* What extraction may find, and what is noted of it.
Findings ==
    UNION {{ExtractOne(x.body, template[p][i]) : x \in Inputs, i \in FieldsOf(template[p])} :
            p \in DOMAIN template}
Marks == {[kind |-> e.kind, value |-> e.value] : e \in Findings}

\* Where there is a template it has a field.
Usable == \A p \in DOMAIN template : template[p] = <<>> \/ FieldsOf(template[p]) # {}

Shapes ==
    /\ template \in Templates
    /\ phase \in {"drain", "refused", "drained", "reported"}
    /\ phase = "refused" \/ Usable
    /\ tally \in [Inputs -> Nat]
    /\ noted \in [Labels -> Seq(Marks)]
    /\ todo \in [DOMAIN todo -> Findings] /\ DOMAIN todo \subseteq Nat
    /\ acc = [run |-> acc.run, stages |-> acc.stages, scenarios |-> acc.scenarios,
              response |-> acc.response]
    /\ acc.response = [parsed |-> acc.response.parsed, strings |-> acc.response.strings,
                       floats |-> acc.response.floats, mismatches |-> acc.response.mismatches]

RowsRight ==
    /\ FullRow(acc.run, Inputs, tally)
    /\ \A i \in Stages : RowOf(acc.stages[i], InStage(i), tally)
    /\ ScenariosOf(acc.scenarios, tally)

\* The records of a place with a template that were sent a response in JSON.
Parsers ==
    {x \in Sent(Inputs) : TemplateOf(x) # <<>> /\ x.sent /\ x.content = "json"}

ParsedRight ==
    /\ phase = "refused" => \A x \in Inputs : tally[x] = 0
    /\ acc.response.parsed = Total(tally, Parsers)

FieldsRight ==
    /\ \A l \in Labels :
        /\ StringsOf(At(acc.response.strings, l, EmptyCategorical), noted[l])
        /\ FloatsOf(At(acc.response.floats, l, EmptyNumeric), noted[l])
        /\ At(acc.response.mismatches, l, 0) = Cardinality(OfKind(noted[l], "MISMATCH"))
    /\ \A l \in DOMAIN acc.response.floats :
        l \in Labels /\ acc.response.floats[l].samples # <<>>

\* Nothing is recorded any more once a report is made.
ReportsLast ==
    /\ todo # <<>> => phase = "drain"
    /\ json # None => phase \in {"drained", "reported"} /\ json = JsonReport
    /\ table # None => json # None /\ phase = "reported" /\ table = Table

RInv == Shapes /\ RowsRight /\ ParsedRight /\ FieldsRight /\ ReportsLast

\* One more record: one more of every set of records it belongs to.
LEMMA OneMore ==
    ASSUME NEW t \in [Inputs -> Nat], NEW r \in Inputs, NEW S \in SUBSET Inputs
    PROVE  /\ Total(t, S) \in Nat
           /\ Total([t EXCEPT ![r] = @ + 1], S) = Total(t, S) + (IF r \in S THEN 1 ELSE 0)
<1> DEFINE u == [t EXCEPT ![r] = @ + 1]
<1>1. IsFiniteSet(Inputs)
    BY ReportAssumption
<1>2. u \in [Inputs -> Nat] /\ u[r] = t[r] + 1 /\ \A y \in Inputs \ {r} : t[y] = u[y]
    OBVIOUS
<1> HIDE DEF u
<1>3. /\ SumFunctionOnSet(t, S) \in Nat
      /\ SumFunctionOnSet(u, S) = SumFunctionOnSet(t, S) + (IF r \in S THEN 1 ELSE 0)
    BY <1>1, <1>2, SumCountsUp
<1> QED BY <1>3 DEF Total, u

\* Whoever has no records yet has none to count.
LEMMA NoneYet ==
    ASSUME NEW t \in [Inputs -> Nat], NEW S \in SUBSET Inputs, \A x \in S : t[x] = 0
    PROVE  FullRow(EmptyRow, S, t)
<1>1. \A T \in SUBSET S : Total(t, T) = 0
  <2> SUFFICES ASSUME NEW T \in SUBSET S PROVE SumFunctionOnSet(t, T) = 0
    BY DEF Total
  <2>1. IsFiniteSet(T)
    BY ReportAssumption, FS_Subset
  <2> QED BY <2>1, SumZero
<1>2. Sent(S) \in SUBSET S /\ Failures(S) \in SUBSET S /\ With(S, None) \in SUBSET S
    BY DEF Sent, Failures, With
<1>3. Samples(EmptyRow.latency) = 0
  <2> DEFINE hist == [d \in 1..MaxLatency |-> 0]
  <2>1. IsFiniteSet(1..MaxLatency) /\ DOMAIN hist = 1..MaxLatency /\ \A d \in 1..MaxLatency : hist[d] = 0
    BY ReportAssumption, FS_Interval
  <2>2. EmptyRow.latency = hist
    BY DEF EmptyRow
  <2> HIDE DEF hist
  <2>3. SumFunctionOnSet(hist, 1..MaxLatency) = 0
    BY <2>1, SumZero
  <2> QED BY <2>1, <2>2, <2>3 DEF Samples, SumFunction
<1>4. /\ EmptyRow.latency \in [1..MaxLatency -> Nat] /\ DOMAIN EmptyRow.codes = {}
      /\ EmptyRow.total = 0 /\ EmptyRow.failed = 0 /\ EmptyRow.errors = 0 /\ EmptyRow.skipped = 0
    BY DEF EmptyRow
<1>5. EmptyRow = [total |-> EmptyRow.total, failed |-> EmptyRow.failed,
                  skipped |-> EmptyRow.skipped, errors |-> EmptyRow.errors,
                  codes |-> EmptyRow.codes, latency |-> EmptyRow.latency]
    BY DEF EmptyRow
<1>6. \A x \in Sent(S) : ~(t[x] > 0)
    BY <1>2
<1>7. /\ Total(t, S) = 0 /\ Total(t, Sent(S)) = 0 /\ Total(t, Failures(S)) = 0
      /\ Total(t, With(S, None)) = 0 /\ Total(t, S \ Sent(S)) = 0
    BY <1>1, <1>2
<1> QED BY <1>3, <1>4, <1>5, <1>6, <1>7 DEF FullRow, RowOf

\* A record of no member of S changes nothing for S.
LEMMA Elsewhere ==
    ASSUME NEW t \in [Inputs -> Nat], NEW r \in Inputs, NEW S \in SUBSET Inputs, r \notin S,
           NEW row
    PROVE  /\ RowOf(row, S, t) => RowOf(row, S, [t EXCEPT ![r] = @ + 1])
           /\ FullRow(row, S, t) => FullRow(row, S, [t EXCEPT ![r] = @ + 1])
<1> DEFINE u == [t EXCEPT ![r] = @ + 1]
<1>1. \A T \in SUBSET S : Total(u, T) = Total(t, T)
  <2> SUFFICES ASSUME NEW T \in SUBSET S PROVE Total(u, T) = Total(t, T)
    OBVIOUS
  <2>1. Total(t, T) \in Nat /\ Total(u, T) = Total(t, T) + (IF r \in T THEN 1 ELSE 0)
    BY OneMore
  <2> QED BY <2>1
<1>2. Sent(S) \in SUBSET S /\ Failures(S) \in SUBSET S
    BY DEF Sent, Failures
<1>3. \A code : With(S, code) \in SUBSET S
    BY DEF With, Sent
<1>4. \A x \in S : u[x] = t[x]
    OBVIOUS
<1> HIDE DEF u
<1>5. /\ Total(u, S) = Total(t, S) /\ Total(u, Sent(S)) = Total(t, Sent(S))
      /\ Total(u, Failures(S)) = Total(t, Failures(S))
      /\ Total(u, S \ Sent(S)) = Total(t, S \ Sent(S))
      /\ \A code : Total(u, With(S, code)) = Total(t, With(S, code))
    BY <1>1, <1>2, <1>3
<1>6. RowOf(row, S, t) => RowOf(row, S, u)
    BY <1>2, <1>4, <1>5 DEF RowOf
<1> QED BY <1>5, <1>6 DEF FullRow, u

\* A latency bar grows by one.
LEMMA LatencyGrows ==
    ASSUME NEW hist \in [1..MaxLatency -> Nat], NEW d \in 1..MaxLatency
    PROVE  LET new == [hist EXCEPT ![d] = @ + 1]
           IN  /\ Samples(new) = Samples(hist) + 1
               /\ new \in [1..MaxLatency -> Nat] /\ new[d] > 0
               /\ \A e \in 1..MaxLatency : new[e] >= hist[e]
<1> DEFINE new == [hist EXCEPT ![d] = @ + 1]
           D == 1..MaxLatency
<1>1. IsFiniteSet(D)
    BY ReportAssumption, FS_Interval
<1>5. D \in SUBSET D /\ d \in D /\ hist \in [D -> Nat]
    OBVIOUS
<1>2. DOMAIN new = D /\ DOMAIN hist = D
    OBVIOUS
<1>3. new[d] > 0 /\ \A e \in D : new[e] >= hist[e]
    OBVIOUS
<1>6. new \in [D -> Nat] /\ new[d] = hist[d] + 1 /\ \A y \in D \ {d} : hist[y] = new[y]
    OBVIOUS
<1> HIDE DEF D, new
<1>4. SumFunctionOnSet(new, D) = SumFunctionOnSet(hist, D) + 1
    BY <1>1, <1>5, <1>6, SumCountsUpOverall
<1> QED BY <1>2, <1>3, <1>4, <1>6 DEF D, new, Samples, SumFunction

\* A record of S is counted: the row is right with one more of it.
LEMMA CountAdds ==
    ASSUME NEW t \in [Inputs -> Nat], NEW r \in Inputs, NEW S \in SUBSET Inputs, r \in S,
           NEW row, RowOf(row, S, t)
    PROVE  /\ RowOf(Count(row, r), S, [t EXCEPT ![r] = @ + 1])
           /\ Count(row, r).skipped = row.skipped
<1> DEFINE u == [t EXCEPT ![r] = @ + 1]
           new == Count(row, r)
           code == StatusCode(r)
           d == Clamped(r.took)
<1>1. \A T \in SUBSET Inputs :
        Total(t, T) \in Nat /\ Total(u, T) = Total(t, T) + (IF r \in T THEN 1 ELSE 0)
    BY OneMore
<1>2. Sent(S) \in SUBSET Inputs /\ Failures(S) \in SUBSET Inputs
    BY DEF Sent, Failures
<1>3. \A c : With(S, c) \in SUBSET Inputs
    BY DEF With, Sent
<1>4. \A x \in S : x # r => u[x] = t[x]
    OBVIOUS
<1>5. /\ (r \in Sent(S)) = ~r.skipped
      /\ (r \in Failures(S)) = (~r.skipped /\ ~Success(r))
    BY DEF Sent, Failures
<1>6. \A c : (r \in With(S, c)) = (~r.skipped /\ c = code)
    BY DEF With, Sent
<1>7. d \in 1..MaxLatency
    BY ReportAssumption DEF Clamped
<1>8. r.skipped \in BOOLEAN
    BY ReportAssumption
<1> HIDE DEF u, code, d
<1>9. row = [total |-> row.total, failed |-> row.failed, skipped |-> row.skipped,
             errors |-> row.errors, codes |-> row.codes, latency |-> row.latency]
    BY DEF RowOf
<1>10. CASE r.skipped
  <2>1. new = [total |-> row.total + 1, failed |-> row.failed, skipped |-> row.skipped,
               errors |-> row.errors, codes |-> row.codes, latency |-> row.latency]
    BY <1>9, <1>10 DEF Count
  <2>2. /\ new.total = row.total + 1 /\ new.failed = row.failed /\ new.errors = row.errors
        /\ new.codes = row.codes /\ new.latency = row.latency /\ new.skipped = row.skipped
        /\ new = [total |-> new.total, failed |-> new.failed, skipped |-> new.skipped,
                  errors |-> new.errors, codes |-> new.codes, latency |-> new.latency]
    BY <2>1
  <2> HIDE DEF new
  <2>3. /\ Total(u, S) = Total(t, S) + 1 /\ Total(u, Sent(S)) = Total(t, Sent(S))
        /\ Total(u, Failures(S)) = Total(t, Failures(S))
        /\ \A c : Total(u, With(S, c)) = Total(t, With(S, c))
    BY <1>1, <1>2, <1>3, <1>5, <1>6, <1>10
  <2>4. \A x \in Sent(S) : x \in S /\ x # r
    BY <1>5, <1>10 DEF Sent
  <2>5. \A x \in Sent(S) : u[x] = t[x]
    BY <1>4, <2>4
  <2>6. RowOf(new, S, u)
    BY <2>2, <2>3, <2>5 DEF RowOf
  <2> QED BY <2>2, <2>6 DEF new, u
<1>11. CASE ~r.skipped
  <2> DEFINE codes == IF code = None THEN row.codes ELSE Add(row.codes, code, 1)
             latency == [row.latency EXCEPT ![d] = @ + 1]
             failed == IF Success(r) THEN row.failed ELSE row.failed + 1
             errors == IF code = None THEN row.errors + 1 ELSE row.errors
  <2>1. new = [total |-> row.total + 1, failed |-> failed, skipped |-> row.skipped,
               errors |-> errors, codes |-> codes, latency |-> latency]
    BY <1>9, <1>11 DEF Count, code, d
  <2>2. /\ new.total = row.total + 1 /\ new.failed = failed /\ new.errors = errors
        /\ new.codes = codes /\ new.latency = latency /\ new.skipped = row.skipped
        /\ new = [total |-> new.total, failed |-> new.failed, skipped |-> new.skipped,
                  errors |-> new.errors, codes |-> new.codes, latency |-> new.latency]
    BY <2>1
  <2>3. /\ Total(u, S) = Total(t, S) + 1 /\ Total(u, Sent(S)) = Total(t, Sent(S)) + 1
        /\ Total(u, Failures(S)) = Total(t, Failures(S)) + (IF Success(r) THEN 0 ELSE 1)
        /\ \A c : Total(u, With(S, c)) = Total(t, With(S, c)) + (IF c = code THEN 1 ELSE 0)
        /\ Total(t, S) \in Nat /\ Total(t, Sent(S)) \in Nat /\ Total(t, Failures(S)) \in Nat
        /\ \A c : Total(t, With(S, c)) \in Nat
    BY <1>1, <1>2, <1>3, <1>5, <1>6, <1>11
  <2>4. row.latency \in [1..MaxLatency -> Nat]
    BY DEF RowOf
  <2>5. /\ latency \in [1..MaxLatency -> Nat] /\ latency[d] > 0
        /\ \A e \in 1..MaxLatency : latency[e] >= row.latency[e]
        /\ Samples(latency) = Samples(row.latency) + 1
    BY <1>7, <2>4, LatencyGrows
  <2>7. /\ DOMAIN codes = DOMAIN row.codes \cup (IF code = None THEN {} ELSE {code})
        /\ \A c \in DOMAIN row.codes : codes[c] = row.codes[c] + (IF c = code THEN 1 ELSE 0)
        /\ code # None => code \in DOMAIN codes
    <3>1. \A c \in DOMAIN row.codes : c # None /\ row.codes[c] \in Nat
      BY <2>3 DEF RowOf
    <3> QED BY <3>1 DEF Add, Put, At
  <2>8. code # None /\ code \notin DOMAIN row.codes => codes[code] = 1
    BY DEF Add, Put, At
  <2> HIDE DEF new, codes, latency, failed, errors
  <2>9. \A x \in Sent(S) : u[x] > 0 =>
            /\ latency[Clamped(x.took)] > 0
            /\ StatusCode(x) # None => StatusCode(x) \in DOMAIN codes
    <3> SUFFICES ASSUME NEW x \in Sent(S), u[x] > 0
                 PROVE  /\ latency[Clamped(x.took)] > 0
                        /\ StatusCode(x) # None => StatusCode(x) \in DOMAIN codes
      OBVIOUS
    <3>1. CASE x = r
      BY <2>5, <2>7, <3>1 DEF code, d
    <3>2. CASE x # r
      <4>1. x \in S /\ t[x] > 0
        BY <1>4, <3>2 DEF Sent
      <4>2. /\ row.latency[Clamped(x.took)] > 0
            /\ StatusCode(x) # None => StatusCode(x) \in DOMAIN row.codes
        BY <4>1 DEF RowOf
      <4>3. Clamped(x.took) \in 1..MaxLatency
        BY <4>1, ReportAssumption DEF Clamped
      <4>4. latency[Clamped(x.took)] > 0
        <5>1. PICK e \in 1..MaxLatency : e = Clamped(x.took)
          BY <4>3
        <5>2. latency[e] \in Nat /\ row.latency[e] \in Nat /\ row.latency[e] > 0
          BY <2>4, <2>5, <4>2, <5>1
        <5> QED BY <2>5, <5>1, <5>2
      <4> QED BY <2>7, <4>2, <4>4
    <3> QED BY <3>1, <3>2
  <2>10. \A c \in DOMAIN codes : c # None /\ codes[c] = Total(u, With(S, c))
    <3> SUFFICES ASSUME NEW c \in DOMAIN codes
                 PROVE  c # None /\ codes[c] = Total(u, With(S, c))
      OBVIOUS
    <3>1. CASE c \in DOMAIN row.codes
      <4>1. c # None /\ row.codes[c] = Total(t, With(S, c))
        BY <3>1 DEF RowOf
      <4>2. codes[c] = row.codes[c] + (IF c = code THEN 1 ELSE 0)
        BY <2>7, <3>1
      <4> QED BY <2>3, <4>1, <4>2
    <3>2. CASE c \notin DOMAIN row.codes
      <4>1. c = code /\ code # None
        BY <2>7, <3>2
      <4>2. \A x \in With(S, c) : t[x] = 0
        <5> SUFFICES ASSUME NEW x \in With(S, c), t[x] > 0 PROVE FALSE
          BY <1>3
        <5>1. x \in Sent(S) /\ StatusCode(x) = c
          BY DEF With
        <5> QED BY <3>2, <4>1, <5>1 DEF RowOf
      <4>3. Total(t, With(S, c)) = 0
        <5>1. IsFiniteSet(With(S, c))
          BY <1>3, ReportAssumption, FS_Subset
        <5> QED BY <4>2, <5>1, SumZero DEF Total
      <4> QED BY <2>3, <2>8, <3>2, <4>1, <4>3
    <3> QED BY <3>1, <3>2
  <2>11. /\ row.total = Total(t, S) /\ row.failed = Total(t, Failures(S))
         /\ row.errors = Total(t, With(S, None)) /\ Samples(row.latency) = Total(t, Sent(S))
    BY DEF RowOf
  <2>12. failed = Total(u, Failures(S))
    BY <2>3, <2>11 DEF failed
  <2>13. errors = Total(u, With(S, None))
    BY <2>3, <2>11 DEF errors
  <2>14. RowOf(new, S, u)
    BY <2>2, <2>3, <2>5, <2>9, <2>10, <2>11, <2>12, <2>13 DEF RowOf
  <2> QED BY <2>2, <2>14 DEF new, u
<1> QED BY <1>8, <1>10, <1>11

\* A record of S is counted, by a row with a counter of skipped records.
LEMMA RecordAdds ==
    ASSUME NEW t \in [Inputs -> Nat], NEW r \in Inputs, NEW S \in SUBSET Inputs, r \in S,
           NEW row, FullRow(row, S, t)
    PROVE  FullRow(RecordRow(row, r), S, [t EXCEPT ![r] = @ + 1])
<1> DEFINE u == [t EXCEPT ![r] = @ + 1]
           mid == Count(row, r)
           new == RecordRow(row, r)
<1>1. RowOf(mid, S, u) /\ mid.skipped = row.skipped
    BY CountAdds DEF FullRow
<1>2. S \ Sent(S) \in SUBSET Inputs
    BY DEF Sent
<1>3. /\ Total(t, S \ Sent(S)) \in Nat
      /\ Total(u, S \ Sent(S))
            = Total(t, S \ Sent(S)) + (IF r \in S \ Sent(S) THEN 1 ELSE 0)
    BY <1>2, OneMore
<1>4. (r \in S \ Sent(S)) = r.skipped /\ r.skipped \in BOOLEAN
    BY ReportAssumption DEF Sent
<1> HIDE DEF u, mid
<1>5. mid = [total |-> mid.total, failed |-> mid.failed, skipped |-> mid.skipped,
             errors |-> mid.errors, codes |-> mid.codes, latency |-> mid.latency]
    BY <1>1 DEF RowOf
<1>6. /\ new.total = mid.total /\ new.failed = mid.failed /\ new.errors = mid.errors
      /\ new.codes = mid.codes /\ new.latency = mid.latency
      /\ new.skipped = IF r.skipped THEN mid.skipped + 1 ELSE mid.skipped
      /\ new = [total |-> new.total, failed |-> new.failed, skipped |-> new.skipped,
                errors |-> new.errors, codes |-> new.codes, latency |-> new.latency]
  <2>1. new = [mid EXCEPT !.skipped = IF r.skipped THEN @ + 1 ELSE @]
    BY DEF RecordRow, mid
  <2> QED BY <1>5, <2>1
<1> HIDE DEF new
<1>7. RowOf(new, S, u)
    BY <1>1, <1>6 DEF RowOf
<1>8. new.skipped = Total(u, S \ Sent(S))
  <2>1. row.skipped = Total(t, S \ Sent(S))
    BY DEF FullRow
  <2> QED BY <1>1, <1>3, <1>4, <1>6, <2>1
<1> QED BY <1>7, <1>8 DEF FullRow, u, new

\* The accounts of the scenarios take a record.
LEMMA ScenarioAdds ==
    ASSUME NEW t \in [Inputs -> Nat], NEW r \in Inputs, NEW sc, ScenariosOf(sc, t)
    PROVE  ScenariosOf(RecordScenario(sc, r), [t EXCEPT ![r] = @ + 1])
<1> DEFINE u == [t EXCEPT ![r] = @ + 1]
           n == r.scenario
           new == RecordScenario(sc, r)
<1>1. \A x \in Inputs : x # r => u[x] = t[x]
    OBVIOUS
<1>2. \A s, step : Of(s) \in SUBSET Inputs /\ InStep(s, step) \in SUBSET Inputs
    BY DEF Of, InStep
<1>3. \A s \in DOMAIN sc : s # n =>
        /\ FullRow(sc[s].requests, Of(s), u)
        /\ \A step \in DOMAIN sc[s].steps : FullRow(sc[s].steps[step], InStep(s, step), u)
  <2> SUFFICES ASSUME NEW s \in DOMAIN sc, s # n
               PROVE  /\ FullRow(sc[s].requests, Of(s), u)
                      /\ \A step \in DOMAIN sc[s].steps :
                            FullRow(sc[s].steps[step], InStep(s, step), u)
    OBVIOUS
  <2>1. r \notin Of(s) /\ \A step : r \notin InStep(s, step)
    BY DEF Of, InStep
  <2>2. FullRow(sc[s].requests, Of(s), t)
    BY DEF ScenariosOf
  <2>3. FullRow(sc[s].requests, Of(s), u)
    BY <1>2, <2>1, <2>2, Elsewhere
  <2>4. ASSUME NEW step \in DOMAIN sc[s].steps
        PROVE  FullRow(sc[s].steps[step], InStep(s, step), u)
    <3>1. FullRow(sc[s].steps[step], InStep(s, step), t)
        BY DEF ScenariosOf
    <3> QED BY <1>2, <2>1, <3>1, Elsewhere
  <2> QED BY <2>3, <2>4
<1>4. CASE n = None
  <2>1. new = sc
    BY <1>4 DEF RecordScenario
  <2>2. \A s \in DOMAIN sc : s # n
    BY <1>4 DEF ScenariosOf
  <2>3. \A x \in Inputs : (u[x] > 0 /\ x.scenario # None) =>
            x.scenario \in DOMAIN sc /\ x.step \in DOMAIN sc[x.scenario].steps
    BY <1>1, <1>4 DEF ScenariosOf
  <2> QED BY <1>3, <1>4, <2>1, <2>2, <2>3 DEF ScenariosOf
<1>5. CASE n # None
  <2> DEFINE old == At(sc, n, EmptyScenario)
             rows == old.steps
             step0 == At(rows, r.step, EmptyRow)
             full == RecordRow(old.requests, r)
             steps == Put(rows, r.step, RecordRow(step0, r))
  <2>1. FullRow(old.requests, Of(n), t)
    <3>1. CASE n \in DOMAIN sc
        BY <3>1 DEF At, ScenariosOf
    <3>2. CASE n \notin DOMAIN sc
      <4>1. \A x \in Of(n) : t[x] = 0
        <5> SUFFICES ASSUME NEW x \in Of(n), t[x] > 0 PROVE FALSE
            BY <1>2
        <5> QED BY <1>5, <3>2 DEF Of, ScenariosOf
      <4>2. old.requests = EmptyRow
        BY <3>2 DEF At, EmptyScenario
      <4> QED BY <1>2, <4>1, <4>2, NoneYet
    <3> QED BY <3>1, <3>2
  <2>2. /\ \A step \in DOMAIN rows : FullRow(rows[step], InStep(n, step), t)
        /\ \A x \in Of(n) : t[x] > 0 => x.step \in DOMAIN rows
    <3>1. CASE n \in DOMAIN sc
        BY <1>5, <3>1 DEF At, ScenariosOf, Of
    <3>2. CASE n \notin DOMAIN sc
      <4>1. rows = <<>>
        BY <3>2 DEF At, EmptyScenario
      <4>2. \A x \in Of(n) : ~(t[x] > 0)
        BY <1>5, <3>2 DEF Of, ScenariosOf
      <4> QED BY <4>1, <4>2
    <3> QED BY <3>1, <3>2
  <2>3. FullRow(step0, InStep(n, r.step), t)
    <3>1. CASE r.step \in DOMAIN rows
        BY <2>2, <3>1 DEF At
    <3>2. CASE r.step \notin DOMAIN rows
      <4>1. \A x \in InStep(n, r.step) : t[x] = 0
        <5> SUFFICES ASSUME NEW x \in InStep(n, r.step), t[x] > 0 PROVE FALSE
            BY <1>2
        <5> QED BY <2>2, <3>2 DEF InStep
      <4>2. step0 = EmptyRow
        BY <3>2 DEF At
      <4> QED BY <1>2, <4>1, <4>2, NoneYet
    <3> QED BY <3>1, <3>2
  <2>4. r \in Of(n) /\ r \in InStep(n, r.step) /\ \A step : step # r.step => r \notin InStep(n, step)
    BY DEF Of, InStep
  <2>5. FullRow(full, Of(n), u)
    BY <1>2, <2>1, <2>4, RecordAdds
  <2>6. FullRow(RecordRow(step0, r), InStep(n, r.step), u)
    BY <1>2, <2>3, <2>4, RecordAdds
  <2>7. DOMAIN steps = DOMAIN rows \cup {r.step}
    BY DEF Put
  <2>8. \A step \in DOMAIN steps : FullRow(steps[step], InStep(n, step), u)
    <3> SUFFICES ASSUME NEW step \in DOMAIN steps
                 PROVE  FullRow(steps[step], InStep(n, step), u)
      OBVIOUS
    <3>1. CASE step = r.step
      <4>1. steps[step] = RecordRow(step0, r)
        BY <3>1 DEF Put
      <4> QED BY <2>6, <3>1, <4>1
    <3>2. CASE step # r.step
      <4>1. step \in DOMAIN rows /\ steps[step] = rows[step]
        BY <2>7, <3>2 DEF Put
      <4> QED BY <1>2, <2>2, <2>4, <3>2, <4>1, Elsewhere
    <3> QED BY <3>1, <3>2
  <2>9. new = Put(sc, n, [requests |-> full, steps |-> steps])
    BY <1>5 DEF RecordScenario
  <2> HIDE DEF full, steps, rows, old, new, step0
  <2>10. /\ DOMAIN new = DOMAIN sc \cup {n}
         /\ new[n].requests = full /\ new[n].steps = steps
         /\ \A s \in DOMAIN sc : s # n => new[s] = sc[s]
    BY <2>9 DEF Put
  <2>11. ASSUME NEW s \in DOMAIN new
         PROVE  /\ s # None
                /\ FullRow(new[s].requests, Of(s), u)
                /\ \A step \in DOMAIN new[s].steps :
                     FullRow(new[s].steps[step], InStep(s, step), u)
    <3>1. CASE s = n
        BY <1>5, <2>5, <2>8, <2>10, <3>1
    <3>2. CASE s # n
      <4>1. s \in DOMAIN sc /\ new[s] = sc[s]
        BY <2>10, <3>2
      <4>2. s # None
        BY <4>1 DEF ScenariosOf
      <4> QED BY <1>3, <3>2, <4>1, <4>2
    <3> QED BY <3>1, <3>2
  <2>12. ASSUME NEW x \in Inputs, u[x] > 0, x.scenario # None
         PROVE  x.scenario \in DOMAIN new /\ x.step \in DOMAIN new[x.scenario].steps
    <3>1. CASE x = r
        BY <2>7, <2>10, <3>1
    <3>2. CASE x # r
      <4>1. t[x] > 0
        BY <1>1, <2>12, <3>2
      <4>2. CASE x.scenario = n
        <5>1. x \in Of(n)
          BY <4>2 DEF Of
        <5> QED BY <2>2, <2>7, <2>10, <4>1, <4>2, <5>1
      <4>3. CASE x.scenario # n
        <5>1. x.scenario \in DOMAIN sc /\ x.step \in DOMAIN sc[x.scenario].steps
          BY <2>12, <4>1 DEF ScenariosOf
        <5> QED BY <2>10, <4>3, <5>1
      <4> QED BY <4>2, <4>3
    <3> QED BY <3>1, <3>2
  <2> QED BY <2>11, <2>12 DEF ScenariosOf, new
<1> QED BY <1>4, <1>5

\* One more note: one more of its kind and of its value.
LEMMA NotesGrow ==
    ASSUME NEW R, NEW s \in Seq(R), NEW e \in R
    PROVE  Noting(s, e, Append(s, e))
<1> DEFINE new == Append(s, e)
           A(kind) == {x \in R : x.kind = kind}
           B(kind, v) == {x \in R : x.kind = kind /\ x.value = v}
<1>1. new \in Seq(R) /\ DOMAIN s = 1..Len(s) /\ Len(s) \in Nat /\ DOMAIN new = 1..(Len(s) + 1)
    BY AppendProperties, LenProperties
<1>2. /\ \A i \in DOMAIN s : s[i] \in R
      /\ \A i \in DOMAIN new : new[i] \in R /\ new[i] = IF i = Len(s) + 1 THEN e ELSE s[i]
    BY <1>1, AppendProperties, ElementOfSeq, LenProperties
<1>3. \A kind : OfKind(s, kind) = Places(s, A(kind)) /\ OfKind(new, kind) = Places(new, A(kind))
    BY <1>2 DEF OfKind, Places
<1>4. \A kind, v : /\ OfValue(s, kind, v) = Places(s, B(kind, v))
                   /\ OfValue(new, kind, v) = Places(new, B(kind, v))
    BY <1>2 DEF OfValue, OfKind, Places
<1>5. \A kind : (e \in A(kind)) = (e.kind = kind)
    OBVIOUS
<1>6. \A kind, v : (e \in B(kind, v)) = (e.kind = kind /\ e.value = v)
    OBVIOUS
<1>7. \A T : /\ Cardinality(Places(s, T)) \in Nat
             /\ Cardinality(Places(new, T)) = Cardinality(Places(s, T)) + (IF e \in T THEN 1 ELSE 0)
    BY PlacesFinite, PlacesAppend
<1>8. \A kind : \A i \in OfKind(new, kind) :
          \/ i \in OfKind(s, kind) /\ new[i] = s[i]
          \/ e.kind = kind /\ new[i] = e
    BY <1>1, <1>2 DEF OfKind
<1> HIDE DEF new, A, B
<1>9. \A kind : /\ Cardinality(OfKind(s, kind)) \in Nat
                /\ Cardinality(OfKind(new, kind))
                     = Cardinality(OfKind(s, kind)) + (IF e.kind = kind THEN 1 ELSE 0)
    BY <1>3, <1>5, <1>7
<1>10. \A kind, v : /\ Cardinality(OfValue(s, kind, v)) \in Nat
                    /\ Cardinality(OfValue(new, kind, v))
                         = Cardinality(OfValue(s, kind, v))
                             + (IF e.kind = kind /\ e.value = v THEN 1 ELSE 0)
    BY <1>4, <1>6, <1>7
<1> QED BY <1>8, <1>9, <1>10 DEF Noting, new

\* Nothing noted, nothing counted.
LEMMA NothingNoted ==
    /\ StringsOf(EmptyCategorical, <<>>) /\ FloatsOf(EmptyNumeric, <<>>)
    /\ \A kind : Cardinality(OfKind(<<>>, kind)) = 0
<1>1. \A kind, v : OfKind(<<>>, kind) = {} /\ OfValue(<<>>, kind, v) = {}
    BY DEF OfKind, OfValue
<1>2. \A kind, v : Cardinality(OfKind(<<>>, kind)) = 0 /\ Cardinality(OfValue(<<>>, kind, v)) = 0
    BY <1>1, FS_EmptySet
<1>3. SumFunction(<<>>) = 0 /\ DOMAIN <<>> = {}
    BY SumEmpty DEF SumFunction
<1>4. StringsOf(EmptyCategorical, <<>>)
  <2> DEFINE h == [entries |-> <<>>, overflow |-> 0]
  <2>1. h.entries = <<>> /\ h.overflow = 0 /\ h = [entries |-> h.entries, overflow |-> h.overflow]
    OBVIOUS
  <2>2. <<>> \in [DOMAIN <<>> -> Nat] /\ IsFiniteSet(DOMAIN <<>>) /\ Cardinality(DOMAIN <<>>) = 0
    BY <1>3, FS_EmptySet
  <2>3. 0 <= MaxBuckets
    BY ReportAssumption
  <2> HIDE DEF h
  <2>4. StringsOf(h, <<>>)
    BY <1>1, <1>2, <1>3, <2>1, <2>2, <2>3 DEF StringsOf
  <2> QED BY <2>4 DEF h, EmptyCategorical
<1>5. FloatsOf(EmptyNumeric, <<>>)
  <2>1. <<>> \in Seq(Int) /\ Len(<<>>) = 0
    BY EmptySeq
  <2>2. \A v : Cardinality(Places(<<>>, {v})) = 0
    BY PlacesOfNone
  <2> DEFINE h == [samples |-> <<>>, seen |-> 0]
  <2>3. h.samples = <<>> /\ h.seen = 0
    OBVIOUS
  <2>4. Least(MaxSamples, 0) = 0
    BY ReportAssumption DEF Least
  <2> HIDE DEF h
  <2>5. FloatsOf(h, <<>>)
    <3>1. h.samples \in Seq(Int) /\ Len(h.samples) = Least(MaxSamples, h.seen)
      BY <2>1, <2>3, <2>4
    <3>2. h.seen = Cardinality(OfKind(<<>>, "FLOAT"))
      BY <1>2, <2>3
    <3>3. \A v : Cardinality(Places(h.samples, {v})) = 0
      BY <2>2, <2>3
    <3>4. \A v \in Int :
            Cardinality(Places(h.samples, {v})) <= Cardinality(OfValue(<<>>, "FLOAT", v))
      BY <1>2, <3>3
    <3> QED BY <3>1, <3>2, <3>4 DEF FloatsOf
  <2> QED BY <2>5 DEF h, EmptyNumeric
<1> QED BY <1>2, <1>4, <1>5

\* A note of another kind changes nothing.
LEMMA OtherKind ==
    ASSUME NEW R, NEW s \in Seq(R), NEW e \in R, NEW h
    PROVE  /\ e.kind # "STRING" /\ StringsOf(h, s) => StringsOf(h, Append(s, e))
           /\ e.kind # "FLOAT" /\ FloatsOf(h, s) => FloatsOf(h, Append(s, e))
<1> DEFINE new == Append(s, e)
<1>0. Noting(s, e, new)
    BY NotesGrow
<1> HIDE DEF new
<1>1. \A kind : e.kind # kind =>
        /\ Cardinality(OfKind(new, kind)) = Cardinality(OfKind(s, kind))
        /\ \A v : Cardinality(OfValue(new, kind, v)) = Cardinality(OfValue(s, kind, v))
        /\ \A i \in OfKind(new, kind) : i \in OfKind(s, kind) /\ new[i] = s[i]
    BY <1>0 DEF Noting
<1>2. ASSUME e.kind # "STRING", StringsOf(h, s) PROVE StringsOf(h, new)
    BY <1>1, <1>2 DEF StringsOf
<1>3. ASSUME e.kind # "FLOAT", FloatsOf(h, s) PROVE FloatsOf(h, new)
    BY <1>1, <1>3 DEF FloatsOf
<1> QED BY <1>2, <1>3 DEF new

\* A string is noted and recorded.
LEMMA StringRecorded ==
    ASSUME NEW R, NEW s \in Seq(R), NEW e \in R, e.kind = "STRING", NEW h, StringsOf(h, s)
    PROVE  StringsOf(RecordString(h, e.value), Append(s, e))
<1> DEFINE new == Append(s, e)
           v == e.value
           g == RecordString(h, v)
           D == DOMAIN h.entries
<1>1. Noting(s, e, new)
    BY NotesGrow
<1> HIDE DEF new, v, g, D
<1>2. /\ Cardinality(OfKind(new, "STRING")) = Cardinality(OfKind(s, "STRING")) + 1
      /\ Cardinality(OfKind(s, "STRING")) \in Nat
    BY <1>1 DEF Noting
<1>3. \A w : /\ Cardinality(OfValue(s, "STRING", w)) \in Nat
             /\ Cardinality(OfValue(new, "STRING", w))
                  = Cardinality(OfValue(s, "STRING", w)) + (IF w = v THEN 1 ELSE 0)
    BY <1>1 DEF Noting, v
<1>4. \A i \in OfKind(new, "STRING") :
          \/ i \in OfKind(s, "STRING") /\ new[i] = s[i]
          \/ new[i].value = v
    BY <1>1 DEF Noting, v
<1>5. /\ h = [entries |-> h.entries, overflow |-> h.overflow]
      /\ h.entries \in [D -> Nat] /\ IsFiniteSet(D) /\ h.overflow \in Nat
      /\ Cardinality(D) \in Nat
    BY FS_CardinalityType DEF StringsOf, D
<1>6. /\ \A w \in D : h.entries[w] = Cardinality(OfValue(s, "STRING", w))
      /\ SumFunctionOnSet(h.entries, D) + h.overflow = Cardinality(OfKind(s, "STRING"))
      /\ Cardinality(D) <= MaxBuckets
      /\ h.overflow > 0 => Cardinality(D) = MaxBuckets
      /\ h.overflow = 0 => \A i \in OfKind(s, "STRING") : s[i].value \in D
    BY DEF StringsOf, SumFunction, D
<1>7. SumFunctionOnSet(h.entries, D) \in Nat
    BY <1>5, SumNat DEF NatValued
<1>8. MaxBuckets \in Nat
    BY ReportAssumption
<1>9. CASE v \in D \/ Cardinality(D) < MaxBuckets
  <2> DEFINE f == Add(h.entries, v, 1)
  <2>1. g = [entries |-> f, overflow |-> h.overflow]
    BY <1>5, <1>9 DEF g, RecordString, D
  <2>2. /\ DOMAIN f = D \cup {v} /\ f[v] = (IF v \in D THEN h.entries[v] ELSE 0) + 1
        /\ \A w \in D : w # v => f[w] = h.entries[w]
    BY DEF Add, Put, At, D
  <2>3. f \in [D \cup {v} -> Nat]
    <3>1. f = [w \in D \cup {v} |-> f[w]]
      BY <2>2 DEF Add, Put, D
    <3>2. \A w \in D \cup {v} : f[w] \in Nat
      BY <1>5, <2>2
    <3> QED BY <3>1, <3>2
  <2>4. g.entries = f /\ g.overflow = h.overflow
        /\ g = [entries |-> g.entries, overflow |-> g.overflow]
    BY <2>1
  <2> HIDE DEF f
  <2>5. SumFunctionOnSet(f, D \cup {v}) = SumFunctionOnSet(h.entries, D) + 1
    <3>1. CASE v \in D
      <4>1. D \cup {v} = D
        BY <3>1
      <4>2. f \in [D -> Nat] /\ f[v] = h.entries[v] + 1
        BY <2>2, <2>3, <3>1, <4>1
      <4>3. \A y \in D \ {v} : h.entries[y] = f[y]
        BY <2>2
      <4>4. SumFunctionOnSet(f, D) = SumFunctionOnSet(h.entries, D) + 1
        BY <1>5, <3>1, <4>2, <4>3, SumCountsUpOverall
      <4> QED BY <4>1, <4>4
    <3>2. CASE v \notin D
      <4>1. IntValued(f, D \cup {v}) /\ IntValued(h.entries, D)
        BY <1>5, <2>3 DEF IntValued
      <4>2. SumFunctionOnSet(f, D \cup {v}) = f[v] + SumFunctionOnSet(f, D)
        BY <1>5, <3>2, <4>1, SumAdds
      <4>3. \A x \in D : h.entries[x] = f[x]
        BY <2>2, <3>2
      <4>4. SumFunctionOnSet(h.entries, D) = SumFunctionOnSet(f, D)
        BY <1>5, <4>1, <4>3, SumEqual
      <4> QED BY <1>7, <2>2, <3>2, <4>2, <4>4
    <3> QED BY <3>1, <3>2
  <2>6. /\ IsFiniteSet(D \cup {v})
        /\ Cardinality(D \cup {v}) = IF v \in D THEN Cardinality(D) ELSE Cardinality(D) + 1
    BY <1>5, FS_AddElement
  <2>7. /\ Cardinality(D \cup {v}) <= MaxBuckets
        /\ h.overflow > 0 => Cardinality(D \cup {v}) = MaxBuckets
    BY <1>5, <1>6, <1>8, <1>9, <2>6
  <2>8. \A w \in D \cup {v} : f[w] = Cardinality(OfValue(new, "STRING", w))
    <3> SUFFICES ASSUME NEW w \in D \cup {v}
                 PROVE  f[w] = Cardinality(OfValue(new, "STRING", w))
      OBVIOUS
    <3>1. CASE w \in D
      BY <1>3, <1>6, <2>2, <3>1
    <3>2. CASE w \notin D
      <4>1. w = v /\ v \notin D /\ f[v] = 1
        BY <2>2, <3>2
      <4>2. Cardinality(D) < MaxBuckets /\ h.overflow = 0
        BY <1>5, <1>6, <1>8, <1>9, <4>1
      <4>3. OfValue(s, "STRING", v) = {}
        <5>1. \A i \in OfKind(s, "STRING") : s[i].value # v
          BY <1>6, <4>1, <4>2
        <5> QED BY <5>1 DEF OfValue
      <4>4. Cardinality(OfValue(s, "STRING", v)) = 0
        BY <4>3, FS_EmptySet
      <4> QED BY <1>3, <4>1, <4>4
    <3> QED BY <3>1, <3>2
  <2>9. h.overflow = 0 => \A i \in OfKind(new, "STRING") : new[i].value \in D \cup {v}
    BY <1>4, <1>6
  <2>10. SumFunctionOnSet(f, D \cup {v}) + h.overflow = Cardinality(OfKind(new, "STRING"))
    BY <1>2, <1>5, <1>6, <1>7, <2>5
  <2>11. DOMAIN f = D \cup {v}
    BY <2>2
  <2>12. StringsOf(g, new)
    BY <1>5, <2>3, <2>4, <2>6, <2>7, <2>8, <2>9, <2>10, <2>11 DEF StringsOf, SumFunction
  <2> QED BY <2>12 DEF g, new, v
<1>10. CASE ~(v \in D \/ Cardinality(D) < MaxBuckets)
  <2>1. g = [entries |-> h.entries, overflow |-> h.overflow + 1]
    BY <1>5, <1>10 DEF g, RecordString, D
  <2>2. /\ g.entries = h.entries /\ g.overflow = h.overflow + 1
        /\ g = [entries |-> g.entries, overflow |-> g.overflow]
    BY <2>1
  <2>3. \A w \in D : h.entries[w] = Cardinality(OfValue(new, "STRING", w))
    BY <1>3, <1>6, <1>10
  <2>4. Cardinality(D) = MaxBuckets
    BY <1>5, <1>6, <1>8, <1>10
  <2>5. SumFunctionOnSet(h.entries, D) + (h.overflow + 1) = Cardinality(OfKind(new, "STRING"))
    BY <1>2, <1>5, <1>6, <1>7
  <2>6. h.overflow + 1 \in Nat /\ h.overflow + 1 # 0
    BY <1>5
  <2>7. StringsOf(g, new)
    BY <1>5, <1>6, <2>2, <2>3, <2>4, <2>5, <2>6 DEF StringsOf, SumFunction, D
  <2> QED BY <2>7 DEF g, new, v
<1> QED BY <1>9, <1>10

\* A number is noted and recorded, whatever the place drawn for it.
LEMMA FloatRecorded ==
    ASSUME NEW R, NEW s \in Seq(R), NEW e \in R, e.kind = "FLOAT", e.value \in Int,
           NEW h, FloatsOf(h, s), NEW j \in 0..h.seen
    PROVE  /\ FloatsOf(RecordFloat(h, e.value, j), Append(s, e))
           /\ RecordFloat(h, e.value, j).samples # <<>>
<1> DEFINE new == Append(s, e)
           v == e.value
           g == RecordFloat(h, v, j)
           old == h.samples
<1>1. Noting(s, e, new)
    BY NotesGrow
<1> HIDE DEF new, v, g, old
<1>2. /\ Cardinality(OfKind(new, "FLOAT")) = Cardinality(OfKind(s, "FLOAT")) + 1
      /\ Cardinality(OfKind(s, "FLOAT")) \in Nat
    BY <1>1 DEF Noting
<1>3. \A w : /\ Cardinality(OfValue(s, "FLOAT", w)) \in Nat
             /\ Cardinality(OfValue(new, "FLOAT", w))
                  = Cardinality(OfValue(s, "FLOAT", w)) + (IF w = v THEN 1 ELSE 0)
    BY <1>1 DEF Noting, v
<1>4. /\ old \in Seq(Int) /\ h.seen = Cardinality(OfKind(s, "FLOAT")) /\ h.seen \in Nat
      /\ Len(old) = Least(MaxSamples, h.seen) /\ Len(old) \in Nat
      /\ \A w \in Int : Cardinality(Places(old, {w})) <= Cardinality(OfValue(s, "FLOAT", w))
    BY <1>2, LenProperties DEF FloatsOf, old
<1>5. MaxSamples \in Nat \ {0} /\ v \in Int
    BY ReportAssumption DEF v
<1>6. g.seen = h.seen + 1
    BY DEF g, RecordFloat
<1>7. \A w : Cardinality(Places(old, {w})) \in Nat
    BY <1>4, PlacesFinite
<1>8. ASSUME g.samples \in Seq(Int), Len(g.samples) = Least(MaxSamples, h.seen + 1),
             \A w \in Int : Cardinality(Places(g.samples, {w}))
                                <= Cardinality(Places(old, {w})) + (IF w = v THEN 1 ELSE 0),
             \A w : Cardinality(Places(g.samples, {w})) \in Nat
      PROVE  FloatsOf(g, new) /\ g.samples # <<>>
  <2>1. \A w \in Int :
            Cardinality(Places(g.samples, {w})) <= Cardinality(OfValue(new, "FLOAT", w))
    <3> SUFFICES ASSUME NEW w \in Int
                 PROVE  Cardinality(Places(g.samples, {w})) <= Cardinality(OfValue(new, "FLOAT", w))
      OBVIOUS
    <3> DEFINE a == Cardinality(Places(g.samples, {w}))
               b == Cardinality(Places(old, {w}))
               c == Cardinality(OfValue(s, "FLOAT", w))
               d == Cardinality(OfValue(new, "FLOAT", w))
               one == IF w = v THEN 1 ELSE 0
    <3>1. a \in Nat /\ b \in Nat /\ c \in Nat /\ one \in Nat
      BY <1>3, <1>7, <1>8
    <3>2. a <= b + one /\ b <= c /\ d = c + one
      BY <1>3, <1>4, <1>8
    <3> HIDE DEF a, b, c, d, one
    <3>3. a <= d
      BY <3>1, <3>2
    <3> QED BY <3>3 DEF a, d
  <2>2. g.seen = Cardinality(OfKind(new, "FLOAT"))
    BY <1>2, <1>4, <1>6
  <2>3. Len(g.samples) = Least(MaxSamples, g.seen)
    BY <1>6, <1>8
  <2>4. Len(g.samples) > 0
    BY <1>4, <1>5, <1>8 DEF Least
  <2>5. g.samples # <<>>
    BY <2>4, EmptySeq
  <2> QED BY <1>8, <2>1, <2>2, <2>3, <2>5 DEF FloatsOf
<1>9. CASE Len(old) < MaxSamples
  <2>1. g.samples = Append(old, v)
    BY <1>9 DEF g, RecordFloat, old
  <2>2. Append(old, v) \in Seq(Int) /\ Len(Append(old, v)) = Len(old) + 1
    BY <1>4, <1>5, AppendProperties
  <2>3. Len(old) + 1 = Least(MaxSamples, h.seen + 1)
    BY <1>4, <1>5, <1>9 DEF Least
  <2>4. \A w : Cardinality(Places(Append(old, v), {w}))
                   = Cardinality(Places(old, {w})) + (IF v \in {w} THEN 1 ELSE 0)
    <3>1. \A A : Cardinality(Places(Append(old, v), A))
                    = Cardinality(Places(old, A)) + (IF v \in A THEN 1 ELSE 0)
      BY <1>4, <1>5, PlacesAppend
    <3> QED BY <3>1
  <2>5. \A w : Cardinality(Places(g.samples, {w}))
                   = Cardinality(Places(old, {w})) + (IF w = v THEN 1 ELSE 0)
    BY <2>1, <2>4
  <2>6. \A w : /\ Cardinality(Places(g.samples, {w})) \in Nat
               /\ Cardinality(Places(g.samples, {w}))
                    <= Cardinality(Places(old, {w})) + (IF w = v THEN 1 ELSE 0)
    <3> SUFFICES ASSUME NEW w
                 PROVE  /\ Cardinality(Places(g.samples, {w})) \in Nat
                        /\ Cardinality(Places(g.samples, {w}))
                             <= Cardinality(Places(old, {w})) + (IF w = v THEN 1 ELSE 0)
      OBVIOUS
    <3> DEFINE a == Cardinality(Places(g.samples, {w}))
               b == Cardinality(Places(old, {w}))
               one == IF w = v THEN 1 ELSE 0
    <3>1. b \in Nat /\ one \in Nat /\ a = b + one
      BY <1>7, <2>5
    <3> HIDE DEF a, b, one
    <3>2. a \in Nat /\ a <= b + one
      BY <3>1
    <3> QED BY <3>2 DEF a, b, one
  <2>7. g.samples \in Seq(Int) /\ Len(g.samples) = Least(MaxSamples, h.seen + 1)
    BY <2>1, <2>2, <2>3
  <2> QED BY <1>8, <2>6, <2>7 DEF g, new, v
<1>10. CASE ~(Len(old) < MaxSamples)
  <2>1. Len(old) = MaxSamples /\ Least(MaxSamples, h.seen + 1) = MaxSamples
    BY <1>4, <1>5, <1>10 DEF Least
  <2>2. CASE j < MaxSamples
    <3> DEFINE k == j + 1
               t == [old EXCEPT ![k] = v]
    <3>1. k \in 1..Len(old)
      BY <1>4, <2>1, <2>2
    <3>2. g.samples = t
      BY <1>10, <2>2 DEF g, RecordFloat, old
    <3> HIDE DEF k
    <3>3. /\ t \in Seq(Int) /\ Len(t) = Len(old)
          /\ \A i \in 1..Len(old) : t[i] = IF i = k THEN v ELSE old[i]
      BY <1>4, <1>5, <3>1, ExceptSeq
    <3>4. DOMAIN t = 1..Len(old) /\ DOMAIN old = 1..Len(old)
      BY <1>4, <3>3, LenProperties
    <3> HIDE DEF t
    <3>5. \A w : /\ Cardinality(Places(t, {w})) \in Nat
                 /\ Cardinality(Places(t, {w}))
                        <= Cardinality(Places(old, {w})) + (IF w = v THEN 1 ELSE 0)
      <4> SUFFICES ASSUME NEW w
                   PROVE  /\ Cardinality(Places(t, {w})) \in Nat
                          /\ Cardinality(Places(t, {w}))
                                <= Cardinality(Places(old, {w})) + (IF w = v THEN 1 ELSE 0)
        OBVIOUS
      <4> DEFINE P == Places(old, {w})
                 Q == Places(t, {w})
      <4>1. IsFiniteSet(P) /\ Cardinality(P) \in Nat /\ Cardinality(Q) \in Nat
        BY <1>4, <3>3, PlacesFinite
      <4>2. CASE w = v
        <5>1. Q \in SUBSET (P \cup {k})
          BY <3>3, <3>4 DEF Places
        <5> HIDE DEF P, Q
        <5>2. /\ IsFiniteSet(P \cup {k})
              /\ Cardinality(P \cup {k}) = IF k \in P THEN Cardinality(P) ELSE Cardinality(P) + 1
          BY <4>1, FS_AddElement
        <5>3. Cardinality(Q) <= Cardinality(P \cup {k})
          BY <5>1, <5>2, FS_Subset
        <5>4. Cardinality(Q) <= Cardinality(P) + 1
          BY <4>1, <5>2, <5>3
        <5> QED BY <4>1, <4>2, <5>4 DEF P, Q
      <4>3. CASE w # v
        <5>1. Q \in SUBSET P
          BY <3>3, <3>4, <4>3 DEF Places
        <5> HIDE DEF P, Q
        <5>2. Cardinality(Q) <= Cardinality(P)
          BY <4>1, <5>1, FS_Subset
        <5> QED BY <4>1, <4>3, <5>2 DEF P, Q
      <4> QED BY <4>2, <4>3
    <3> QED BY <1>8, <2>1, <3>2, <3>3, <3>5 DEF g, new, v
  <2>3. CASE ~(j < MaxSamples)
    <3>1. g.samples = old
      BY <1>10, <2>3 DEF g, RecordFloat, old
    <3>2. \A w : Cardinality(Places(g.samples, {w}))
                    <= Cardinality(Places(old, {w})) + (IF w = v THEN 1 ELSE 0)
      BY <1>7, <3>1
    <3> QED BY <1>4, <1>7, <1>8, <2>1, <3>1, <3>2 DEF g, new, v
  <2> QED BY <2>2, <2>3
<1> QED BY <1>9, <1>10

\* What Put leaves at a key.
LEMMA PutAt ==
    ASSUME NEW f, NEW key, NEW value, NEW l, NEW default
    PROVE  /\ At(Put(f, key, value), l, default) = IF l = key THEN value ELSE At(f, l, default)
           /\ DOMAIN Put(f, key, value) = DOMAIN f \cup {key}
           /\ Put(f, key, value)[key] = value
           /\ \A k \in DOMAIN f : k # key => Put(f, key, value)[k] = f[k]
BY DEF Put, At

\* What a finding may be.
LEMMA FindingFacts ==
    ASSUME NEW e \in Findings
    PROVE  /\ e.label \in Labels
           /\ e.kind \in {"STRING", "FLOAT", "MISMATCH"}
           /\ e.kind = "FLOAT" => e.value \in Int
           /\ [kind |-> e.kind, value |-> e.value] \in Marks
<1>1. PICK p \in DOMAIN template :
        \E x \in Inputs, i \in FieldsOf(template[p]) : e = ExtractOne(x.body, template[p][i])
    BY DEF Findings
<1>7. PICK x \in Inputs, i \in FieldsOf(template[p]) : e = ExtractOne(x.body, template[p][i])
    BY <1>1
<1> DEFINE field == template[p][i]
           held == ResolvePath(x.body, field.path)
<1>2. /\ e.label = Label(field.path) /\ e.value = held.value
      /\ e.kind = IF Matches(field, held) THEN field.text ELSE "MISMATCH"
    BY <1>7 DEF ExtractOne
<1>3. held.kind = "number" => held.value \in Int
    BY ReportAssumption DEF ResolvePath
<1> HIDE DEF held
<1>4. e.kind \in {"STRING", "FLOAT", "MISMATCH"}
    BY <1>2 DEF Matches
<1>5. e.kind = "FLOAT" => e.value \in Int
    BY <1>2, <1>3 DEF Matches
<1>6. e.label \in Labels
    BY <1>2 DEF Labels
<1> QED BY <1>4, <1>5, <1>6 DEF Marks

\* What an exchange brings: something exactly if its JSON is read to the end
\* and its place has a template.
LEMMA ExtractionFacts ==
    ASSUME NEW r \in Inputs, template \in Templates, Place(r) \in DOMAIN template, Usable
    PROVE  LET found == Extraction(r, TemplateOf(r))
           IN  /\ found \in [DOMAIN found -> Findings] /\ DOMAIN found \subseteq Nat
               /\ (found # <<>>) = (TemplateOf(r) # <<>> /\ r.sent /\ r.content = "json")
<1> DEFINE t == TemplateOf(r)
           found == Extraction(r, t)
           all == Extract(r.body, t)
<1>6. t = template[Place(r)] /\ (t = <<>> \/ FieldsOf(t) # {})
    BY DEF TemplateOf, At, Usable
<1>7. FieldsOf(t) \subseteq Nat
  <2>1. t \in Seq(Range(t))
    BY <1>6, ReportAssumption
  <2>2. DOMAIN t = 1..Len(t) /\ Len(t) \in Nat
    BY <2>1, LenProperties
  <2> QED BY <2>2 DEF FieldsOf
<1> HIDE DEF t
<1>8. \A i \in FieldsOf(t) : ExtractOne(r.body, t[i]) \in Findings
    BY <1>6 DEF Findings
<1>1. all \in [FieldsOf(t) -> Findings]
    BY <1>8 DEF Extract
<1>2. <<>> \in [DOMAIN <<>> -> Findings] /\ DOMAIN <<>> = {}
    OBVIOUS
<1>3. found = all \/ found = <<>>
    BY DEF Extraction
<1>4. found \in [DOMAIN found -> Findings] /\ DOMAIN found \subseteq Nat
  <2>1. DOMAIN all = FieldsOf(t) /\ DOMAIN all \subseteq Nat
    BY <1>1, <1>7
  <2> HIDE DEF all, found
  <2>2. CASE found = all
    BY <1>1, <2>1, <2>2
  <2>3. CASE found = <<>>
    BY <1>2, <2>3
  <2> QED BY <1>3, <2>2, <2>3
<1>5. ASSUME t # <<>> PROVE (found # <<>>) = (r.sent /\ r.content = "json")
  <2>1. DOMAIN all # {} /\ DOMAIN <<>> = {}
    BY <1>1, <1>2, <1>5, <1>6
  <2>2. all # <<>>
    BY <2>1
  <2>3. (ResponseBody(r, TRUE) = "json") = (r.sent /\ r.content = "json")
    <3>1. None # "json" /\ r.sent \in BOOLEAN
      BY ReportAssumption DEF Contents
    <3> QED BY <3>1 DEF ResponseBody
  <2>4. (t # <<>>) = TRUE
    BY <1>5
  <2>5. found = IF ResponseBody(r, TRUE) = "json" THEN all ELSE <<>>
    BY <2>4 DEF Extraction
  <2> HIDE DEF all, found
  <2>6. CASE ResponseBody(r, TRUE) = "json"
    BY <2>2, <2>3, <2>5, <2>6
  <2>7. CASE ResponseBody(r, TRUE) # "json"
    BY <2>3, <2>5, <2>7
  <2> QED BY <2>6, <2>7
<1>9. ASSUME t = <<>> PROVE found = <<>>
  <2>1. None # "json"
    BY ReportAssumption DEF Contents
  <2>2. (t # <<>>) = FALSE
    BY <1>9
  <2> QED BY <2>1, <2>2 DEF Extraction, ResponseBody
<1>10. r.sent \in BOOLEAN
    BY ReportAssumption
<1> HIDE DEF found
<1>11. (found # <<>>) = (t # <<>> /\ r.sent /\ r.content = "json")
  <2>1. CASE t = <<>>
    BY <1>9, <2>1
  <2>2. CASE t # <<>>
    BY <1>5, <1>10, <2>2
  <2> QED BY <2>1, <2>2
<1> QED BY <1>4, <1>11 DEF found, t

\* A run begins with nothing counted.
LEMMA RInvInit == Init => RInv
<1> SUFFICES ASSUME Init PROVE RInv
    OBVIOUS
<1>1. /\ acc = EmptyAcc /\ todo = <<>> /\ json = None /\ table = None
      /\ tally = [x \in Inputs |-> 0] /\ noted = [l \in Labels |-> <<>>]
      /\ template \in Templates
      /\ phase = IF \A p \in DOMAIN template :
                        template[p] = <<>> \/ TemplateOK(template[p])
                   THEN "drain" ELSE "refused"
    BY DEF Init
<1>2. tally \in [Inputs -> Nat] /\ \A x \in Inputs : tally[x] = 0
    BY <1>1
<1>3. \A S \in SUBSET Inputs : FullRow(EmptyRow, S, tally)
    BY <1>2, NoneYet
<1>4. Shapes
  <2>1. todo \in [DOMAIN todo -> Findings] /\ DOMAIN todo = {}
    BY <1>1
  <2>2. phase = "refused" \/ Usable
    BY <1>1 DEF TemplateOK, Usable
  <2>3. noted \in [Labels -> Seq(Marks)]
    <3>1. <<>> \in Seq(Marks)
      BY EmptySeq
    <3> QED BY <1>1, <3>1
  <2>4. acc = [run |-> acc.run, stages |-> acc.stages, scenarios |-> acc.scenarios,
               response |-> acc.response]
    BY <1>1 DEF EmptyAcc
  <2>5. acc.response = [parsed |-> acc.response.parsed, strings |-> acc.response.strings,
                        floats |-> acc.response.floats, mismatches |-> acc.response.mismatches]
    BY <1>1 DEF EmptyAcc, EmptyResponse
  <2>6. phase \in {"drain", "refused"}
    BY <1>1
  <2> QED BY <1>1, <1>2, <2>1, <2>2, <2>3, <2>4, <2>5, <2>6 DEF Shapes
<1>5. RowsRight
  <2>1. acc.run = EmptyRow /\ acc.scenarios = <<>> /\ \A i \in Stages : acc.stages[i] = EmptyRow
    BY <1>1 DEF EmptyAcc
  <2>2. \A i \in Stages : InStage(i) \in SUBSET Inputs
    BY DEF InStage
  <2>3. ScenariosOf(<<>>, tally)
    BY <1>2 DEF ScenariosOf
  <2> QED BY <1>3, <2>1, <2>2, <2>3 DEF RowsRight, FullRow
<1>6. ParsedRight
  <2> DEFINE S == Parsers
  <2>1. S \in SUBSET Inputs
    BY DEF Sent, Parsers
  <2> HIDE DEF S
  <2>2. IsFiniteSet(S) /\ \A x \in S : tally[x] = 0
    BY <1>2, <2>1, FS_Subset, ReportAssumption
  <2>3. Total(tally, S) = 0
    BY <2>2, SumZero DEF Total
  <2>4. acc.response.parsed = 0
    BY <1>1 DEF EmptyAcc, EmptyResponse
  <2> QED BY <1>2, <2>3, <2>4 DEF ParsedRight, S
<1>7. FieldsRight
  <2>1. acc.response.strings = <<>> /\ acc.response.floats = <<>> /\ acc.response.mismatches = <<>>
    BY <1>1 DEF EmptyAcc, EmptyResponse
  <2>2. \A l, d : At(<<>>, l, d) = d
    BY DEF At
  <2>3. \A l \in Labels : noted[l] = <<>>
    BY <1>1
  <2> QED BY <2>1, <2>2, <2>3, NothingNoted DEF FieldsRight
<1>8. ReportsLast
    BY <1>1 DEF ReportsLast
<1> QED BY <1>4, <1>5, <1>6, <1>7, <1>8 DEF RInv

\* A record is drained.
LEMMA ReceiveStep ==
    ASSUME RInv, NEW r \in Inputs, Receive(r) PROVE RInv'
<1> DEFINE found == IF r.skipped THEN <<>> ELSE Extraction(r, TemplateOf(r))
           more == IF found = <<>> THEN acc.response.parsed ELSE acc.response.parsed + 1
<1>1. /\ phase = "drain" /\ todo = <<>> /\ Place(r) \in DOMAIN template
      /\ todo' = found /\ tally' = [tally EXCEPT ![r] = @ + 1]
      /\ UNCHANGED <<template, phase, json, table, noted>>
    BY DEF Receive
<1>2. /\ acc'.run = RecordRow(acc.run, r)
      /\ acc'.stages = [i \in Stages |->
            IF i = r.stage THEN Count(acc.stages[i], r) ELSE acc.stages[i]]
      /\ acc'.scenarios = RecordScenario(acc.scenarios, r)
      /\ acc' = [run |-> acc'.run, stages |-> acc'.stages, scenarios |-> acc'.scenarios,
                 response |-> acc'.response]
      /\ acc'.response = [acc.response EXCEPT !.parsed = more]
    BY DEF Receive, RInv, Shapes
<1>3. /\ acc'.response.parsed = more
      /\ acc'.response.strings = acc.response.strings
      /\ acc'.response.floats = acc.response.floats
      /\ acc'.response.mismatches = acc.response.mismatches
      /\ acc'.response = [parsed |-> acc'.response.parsed, strings |-> acc'.response.strings,
                          floats |-> acc'.response.floats,
                          mismatches |-> acc'.response.mismatches]
    BY <1>2 DEF RInv, Shapes
<1>4. tally \in [Inputs -> Nat] /\ tally' \in [Inputs -> Nat]
    BY <1>1 DEF RInv, Shapes
<1>5. Usable /\ template \in Templates
    BY <1>1 DEF RInv, Shapes
<1>6. /\ found \in [DOMAIN found -> Findings] /\ DOMAIN found \subseteq Nat
      /\ (found # <<>>) =
            (r.skipped = FALSE /\ TemplateOf(r) # <<>> /\ r.sent /\ r.content = "json")
  <2>1. CASE r.skipped
    BY <2>1
  <2>2. CASE ~r.skipped
    <3>1. r.skipped = FALSE /\ found = Extraction(r, TemplateOf(r))
      BY <2>2, ReportAssumption
    <3> HIDE DEF found
    <3> QED BY <1>1, <1>5, <3>1, ExtractionFacts
  <2> QED BY <2>1, <2>2
<1> HIDE DEF found, more
<1>7. Shapes'
  <2>1. Findings' = Findings /\ Labels' = Labels /\ Marks' = Marks
    BY <1>1 DEF Findings, Labels, Marks
  <2>2. /\ template' \in Templates
        /\ phase' \in {"drain", "refused", "drained", "reported"}
        /\ phase' = "refused" \/ Usable'
        /\ noted' \in [Labels' -> Seq(Marks')]
    BY <1>1, <2>1 DEF RInv, Shapes, Usable
  <2>3. todo' \in [DOMAIN todo' -> Findings'] /\ DOMAIN todo' \subseteq Nat
    BY <1>1, <1>6, <2>1
  <2> QED BY <1>2, <1>3, <1>4, <2>2, <2>3 DEF Shapes
<1>8. RowsRight'
  <2>1. FullRow(acc'.run, Inputs, tally')
    <3>1. FullRow(acc.run, Inputs, tally) /\ Inputs \in SUBSET Inputs
      BY DEF RInv, RowsRight
    <3>2. FullRow(RecordRow(acc.run, r), Inputs, [tally EXCEPT ![r] = @ + 1])
      BY <1>4, <3>1, RecordAdds
    <3> QED BY <1>1, <1>2, <3>2
  <2>2. \A i \in Stages : RowOf(acc'.stages[i], InStage(i), tally')
    <3> SUFFICES ASSUME NEW i \in Stages
                 PROVE  RowOf(acc'.stages[i], InStage(i), [tally EXCEPT ![r] = @ + 1])
      BY <1>1
    <3>1. RowOf(acc.stages[i], InStage(i), tally) /\ InStage(i) \in SUBSET Inputs
      BY DEF RInv, RowsRight, InStage
    <3>2. CASE i = r.stage
      <4>1. r \in InStage(i) /\ acc'.stages[i] = Count(acc.stages[i], r)
        BY <1>2, <3>2 DEF InStage
      <4>2. RowOf(Count(acc.stages[i], r), InStage(i), [tally EXCEPT ![r] = @ + 1])
        BY <1>4, <3>1, <4>1, CountAdds
      <4> QED BY <4>1, <4>2
    <3>3. CASE i # r.stage
      <4>1. r \notin InStage(i) /\ acc'.stages[i] = acc.stages[i]
        BY <1>2, <3>3 DEF InStage
      <4> QED BY <1>4, <3>1, <4>1, Elsewhere
    <3> QED BY <3>2, <3>3
  <2>3. ScenariosOf(acc'.scenarios, tally')
    <3>1. ScenariosOf(acc.scenarios, tally)
      BY DEF RInv, RowsRight
    <3>2. ScenariosOf(RecordScenario(acc.scenarios, r), [tally EXCEPT ![r] = @ + 1])
      BY <1>4, <3>1, ScenarioAdds
    <3> QED BY <1>1, <1>2, <3>2
  <2> QED BY <2>1, <2>2, <2>3 DEF RowsRight
<1>9. ParsedRight'
  <2> DEFINE S == Parsers
  <2>1. /\ S \in SUBSET Inputs
        /\ (r \in S) =
              (r.skipped = FALSE /\ TemplateOf(r) # <<>> /\ r.sent /\ r.content = "json")
    BY ReportAssumption DEF Sent, Parsers
  <2> HIDE DEF S
  <2>2. Total(tally', S) = Total(tally, S) + (IF r \in S THEN 1 ELSE 0) /\ Total(tally, S) \in Nat
    BY <1>1, <1>4, <2>1, OneMore
  <2>3. acc'.response.parsed = Total(tally', S)
    <3>1. acc.response.parsed = Total(tally, S)
      BY DEF RInv, ParsedRight, S
    <3>2. (found # <<>>) = (r \in S)
      BY <1>6, <2>1
    <3> QED BY <1>3, <2>2, <3>1, <3>2 DEF more
  <2>4. phase' # "refused" /\ Parsers' = Parsers
    BY <1>1 DEF Parsers, TemplateOf, At
  <2> QED BY <2>3, <2>4 DEF ParsedRight, S
<1>10. FieldsRight'
    BY <1>1, <1>3 DEF RInv, FieldsRight, Labels
<1>11. ReportsLast'
    BY <1>1 DEF RInv, ReportsLast
<1> QED BY <1>7, <1>8, <1>9, <1>10, <1>11 DEF RInv

\* A value, or a mismatch, of it is recorded.
LEMMA RecordStep ==
    ASSUME RInv, RecordValue PROVE RInv'
<1> DEFINE first == Min(DOMAIN todo)
           e == todo[first]
           mark == [kind |-> e.kind, value |-> e.value]
           old == acc.response
           new == acc'.response
<1>1. /\ todo # <<>> /\ todo' = Restrict(todo, DOMAIN todo \ {first})
      /\ noted' = [noted EXCEPT ![e.label] = Append(@, mark)]
      /\ UNCHANGED <<template, phase, json, table, tally>>
    BY DEF RecordValue
<1>2. /\ todo \in [DOMAIN todo -> Findings] /\ DOMAIN todo \subseteq Nat
      /\ noted \in [Labels -> Seq(Marks)] /\ template \in Templates
    BY DEF RInv, Shapes
<1>3. first \in DOMAIN todo
  <2>2. DOMAIN todo \in SUBSET Nat
    BY <1>2
  <2>3. ASSUME DOMAIN todo = {} PROVE FALSE
    <3>1. todo \in [{} -> Findings] /\ <<>> \in [{} -> Findings]
      BY <1>2, <2>3
    <3>2. todo = <<>>
      BY <3>1
    <3> QED BY <1>1, <3>2
  <2> QED BY <2>2, <2>3, MinExists
<1>4. e \in Findings
    BY <1>2, <1>3
<1> HIDE DEF e, first
<1>5. /\ e.label \in Labels /\ e.kind \in {"STRING", "FLOAT", "MISMATCH"}
      /\ e.kind = "FLOAT" => e.value \in Int
      /\ mark \in Marks
    BY <1>4, FindingFacts
<1>6. mark.kind = e.kind /\ mark.value = e.value
    OBVIOUS
<1> HIDE DEF mark
<1>7. \A l \in Labels : noted[l] \in Seq(Marks)
                        /\ noted'[l] = IF l = e.label THEN Append(noted[l], mark) ELSE noted[l]
    BY <1>1, <1>2
<1>8. /\ acc = [run |-> acc.run, stages |-> acc.stages, scenarios |-> acc.scenarios,
                response |-> acc.response]
      /\ old = [parsed |-> old.parsed, strings |-> old.strings, floats |-> old.floats,
                mismatches |-> old.mismatches]
    BY DEF RInv, Shapes
<1>9. /\ acc'.run = acc.run /\ acc'.stages = acc.stages /\ acc'.scenarios = acc.scenarios
      /\ acc' = [run |-> acc'.run, stages |-> acc'.stages, scenarios |-> acc'.scenarios,
                 response |-> acc'.response]
      /\ new.parsed = old.parsed
      /\ new = [parsed |-> new.parsed, strings |-> new.strings, floats |-> new.floats,
                mismatches |-> new.mismatches]
    BY <1>8 DEF RecordValue
<1>10. \/ /\ e.kind = "STRING" /\ new.floats = old.floats /\ new.mismatches = old.mismatches
          /\ new.strings = Put(old.strings, e.label,
                RecordString(At(old.strings, e.label, EmptyCategorical), e.value))
       \/ /\ e.kind = "FLOAT" /\ new.strings = old.strings /\ new.mismatches = old.mismatches
          /\ \E j \in 0..At(old.floats, e.label, EmptyNumeric).seen :
                new.floats = Put(old.floats, e.label,
                    RecordFloat(At(old.floats, e.label, EmptyNumeric), e.value, j))
       \/ /\ e.kind = "MISMATCH" /\ new.strings = old.strings /\ new.floats = old.floats
          /\ new.mismatches = Put(old.mismatches, e.label, At(old.mismatches, e.label, 0) + 1)
    BY <1>8 DEF RecordValue, Add, e, first
<1> HIDE DEF old, new
<1>16. e.kind # "STRING" => new.strings = old.strings
    BY <1>10
<1>17. e.kind # "FLOAT" => new.floats = old.floats
    BY <1>10
<1>18. e.kind # "MISMATCH" => new.mismatches = old.mismatches
    BY <1>10
<1>19. \A f, key, value, l, d :
          /\ At(Put(f, key, value), l, d) = IF l = key THEN value ELSE At(f, l, d)
          /\ DOMAIN Put(f, key, value) = DOMAIN f \cup {key}
          /\ Put(f, key, value)[key] = value
          /\ \A k \in DOMAIN f : k # key => Put(f, key, value)[k] = f[k]
    BY PutAt
<1>11. Shapes'
  <2>1. Findings' = Findings /\ Labels' = Labels /\ Marks' = Marks
    BY <1>1 DEF Findings, Labels, Marks
  <2>2. noted' \in [Labels -> Seq(Marks)]
    <3>1. Append(noted[e.label], mark) \in Seq(Marks)
      BY <1>5, <1>7, AppendProperties
    <3> QED BY <1>1, <1>2, <3>1
  <2>3. todo' \in [DOMAIN todo' -> Findings] /\ DOMAIN todo' \subseteq Nat
    BY <1>1, <1>2 DEF Restrict
  <2>4. /\ template' \in Templates
        /\ phase' \in {"drain", "refused", "drained", "reported"}
        /\ phase' = "refused" \/ Usable'
        /\ tally' \in [Inputs -> Nat]
    BY <1>1 DEF RInv, Shapes, Usable
  <2> QED BY <1>1, <1>9, <2>1, <2>2, <2>3, <2>4 DEF Shapes, new
<1>12. RowsRight'
    BY <1>1, <1>9 DEF RInv, RowsRight
<1>13. ParsedRight'
    BY <1>1, <1>9 DEF RInv, ParsedRight, Parsers, TemplateOf, At, new, old
<1>14. FieldsRight'
  <2> DEFINE s == noted[e.label]
  <2>0. s \in Seq(Marks)
    BY <1>5, <1>7
  <2>1. ASSUME NEW l \in Labels
        PROVE  /\ StringsOf(At(old.strings, l, EmptyCategorical), noted[l])
               /\ FloatsOf(At(old.floats, l, EmptyNumeric), noted[l])
               /\ At(old.mismatches, l, 0) = Cardinality(OfKind(noted[l], "MISMATCH"))
    BY DEF RInv, FieldsRight, old
  <2>2. \A l \in DOMAIN old.floats : l \in Labels /\ old.floats[l].samples # <<>>
    BY DEF RInv, FieldsRight, old
  <2>3. Noting(s, mark, Append(s, mark))
    BY <1>5, <2>0, NotesGrow
  <2>4. ASSUME NEW l \in Labels
        PROVE  StringsOf(At(new.strings, l, EmptyCategorical), noted'[l])
    <3> DEFINE h == At(old.strings, e.label, EmptyCategorical)
    <3>1. CASE l # e.label
      <4>1. At(new.strings, l, EmptyCategorical) = At(old.strings, l, EmptyCategorical)
        BY <1>10, <1>16, <1>19, <3>1
      <4> QED BY <1>7, <2>1, <3>1, <4>1
    <3>2. CASE l = e.label /\ e.kind = "STRING"
      <4>1. At(new.strings, l, EmptyCategorical) = RecordString(h, e.value)
        <5>1. new.strings = Put(old.strings, e.label, RecordString(h, e.value))
          BY <1>10, <3>2
        <5> QED BY <1>19, <3>2, <5>1
      <4>2. StringsOf(h, s)
        BY <1>5, <2>1
      <4> HIDE DEF h, s
      <4>3. StringsOf(RecordString(h, mark.value), Append(s, mark))
        BY <1>5, <1>6, <2>0, <3>2, <4>2, StringRecorded
      <4> QED BY <1>6, <1>7, <3>2, <4>1, <4>3 DEF s
    <3>3. CASE l = e.label /\ e.kind # "STRING"
      <4>1. At(new.strings, l, EmptyCategorical) = h
        BY <1>10, <3>3
      <4>2. StringsOf(h, s)
        BY <1>5, <2>1
      <4> HIDE DEF h, s
      <4>3. StringsOf(h, Append(s, mark))
        BY <1>5, <1>6, <2>0, <3>3, <4>2, OtherKind
      <4> QED BY <1>7, <3>3, <4>1, <4>3 DEF s
    <3> QED BY <3>1, <3>2, <3>3
  <2>5. ASSUME NEW l \in Labels
        PROVE  FloatsOf(At(new.floats, l, EmptyNumeric), noted'[l])
    <3> DEFINE h == At(old.floats, e.label, EmptyNumeric)
    <3>1. CASE l # e.label
      <4>1. At(new.floats, l, EmptyNumeric) = At(old.floats, l, EmptyNumeric)
        BY <1>10, <1>17, <1>19, <3>1
      <4> QED BY <1>7, <2>1, <3>1, <4>1
    <3>2. CASE l = e.label /\ e.kind = "FLOAT"
      <4>1. PICK j \in 0..h.seen : new.floats = Put(old.floats, e.label, RecordFloat(h, e.value, j))
        BY <1>10, <3>2
      <4>2. At(new.floats, l, EmptyNumeric) = RecordFloat(h, e.value, j)
        BY <1>19, <3>2, <4>1
      <4>3. FloatsOf(h, s)
        BY <1>5, <2>1
      <4> HIDE DEF h, s
      <4>4. FloatsOf(RecordFloat(h, mark.value, j), Append(s, mark))
        BY <1>5, <1>6, <2>0, <3>2, <4>3, FloatRecorded
      <4> QED BY <1>6, <1>7, <3>2, <4>2, <4>4 DEF s
    <3>3. CASE l = e.label /\ e.kind # "FLOAT"
      <4>1. At(new.floats, l, EmptyNumeric) = h
        BY <1>10, <3>3
      <4>2. FloatsOf(h, s)
        BY <1>5, <2>1
      <4> HIDE DEF h, s
      <4>3. FloatsOf(h, Append(s, mark))
        BY <1>5, <1>6, <2>0, <3>3, <4>2, OtherKind
      <4> QED BY <1>7, <3>3, <4>1, <4>3 DEF s
    <3> QED BY <3>1, <3>2, <3>3
  <2>6. ASSUME NEW l \in Labels
        PROVE  At(new.mismatches, l, 0) = Cardinality(OfKind(noted'[l], "MISMATCH"))
    <3>1. CASE l # e.label
      <4>1. At(new.mismatches, l, 0) = At(old.mismatches, l, 0)
        BY <1>10, <1>18, <1>19, <3>1
      <4> QED BY <1>7, <2>1, <3>1, <4>1
    <3>2. CASE l = e.label
      <4>1. noted'[l] = Append(s, mark)
        BY <1>7, <3>2
      <4>2. /\ Cardinality(OfKind(s, "MISMATCH")) \in Nat
            /\ Cardinality(OfKind(Append(s, mark), "MISMATCH"))
                 = Cardinality(OfKind(s, "MISMATCH")) + (IF e.kind = "MISMATCH" THEN 1 ELSE 0)
        BY <1>6, <2>3 DEF Noting
      <4>3. At(old.mismatches, l, 0) = Cardinality(OfKind(s, "MISMATCH"))
        BY <1>5, <2>1, <3>2
      <4>4. At(new.mismatches, l, 0)
                = At(old.mismatches, l, 0) + (IF e.kind = "MISMATCH" THEN 1 ELSE 0)
        <5>1. CASE e.kind = "MISMATCH"
          <6>1. new.mismatches = Put(old.mismatches, e.label, At(old.mismatches, e.label, 0) + 1)
            BY <1>10, <5>1
          <6> QED BY <1>19, <3>2, <5>1, <6>1
        <5>2. CASE e.kind # "MISMATCH"
          BY <1>18, <4>2, <4>3, <5>2
        <5> QED BY <5>1, <5>2
      <4> QED BY <4>1, <4>2, <4>3, <4>4
    <3> QED BY <3>1, <3>2
  <2>7. \A l \in DOMAIN new.floats : l \in Labels /\ new.floats[l].samples # <<>>
    <3> DEFINE h == At(old.floats, e.label, EmptyNumeric)
    <3>1. CASE e.kind # "FLOAT"
      BY <1>10, <2>2, <3>1
    <3>2. CASE e.kind = "FLOAT"
      <4>1. PICK j \in 0..h.seen : new.floats = Put(old.floats, e.label, RecordFloat(h, e.value, j))
        BY <1>10, <3>2
      <4>2. FloatsOf(h, s)
        BY <1>5, <2>1
      <4> HIDE DEF h, s
      <4>3. RecordFloat(h, mark.value, j).samples # <<>>
        BY <1>5, <1>6, <2>0, <3>2, <4>2, FloatRecorded
      <4>4. \A l \in DOMAIN new.floats :
                \/ l = e.label /\ new.floats[l] = RecordFloat(h, e.value, j)
                \/ l \in DOMAIN old.floats /\ new.floats[l] = old.floats[l]
        <5> DEFINE g == RecordFloat(h, e.value, j)
        <5>1. new.floats = Put(old.floats, e.label, g)
          BY <4>1
        <5> HIDE DEF g
        <5>2. /\ DOMAIN new.floats = DOMAIN old.floats \cup {e.label}
              /\ new.floats[e.label] = g
              /\ \A k \in DOMAIN old.floats : k # e.label => new.floats[k] = old.floats[k]
          BY <5>1 DEF Put
        <5> QED BY <5>2 DEF g
      <4> QED BY <1>5, <1>6, <2>2, <4>3, <4>4
    <3> QED BY <3>1, <3>2
  <2>8. Labels' = Labels
    BY <1>1 DEF Labels
  <2> QED BY <2>4, <2>5, <2>6, <2>7, <2>8 DEF FieldsRight, new
<1>15. ReportsLast'
    BY <1>1 DEF RInv, ReportsLast
<1> QED BY <1>11, <1>12, <1>13, <1>14, <1>15 DEF RInv

\* The invariant is one.
LEMMA RInvNext == RInv /\ [Next]_vars => RInv'
<1> SUFFICES ASSUME RInv, [Next]_vars PROVE RInv'
    OBVIOUS
<1>1. ASSUME NEW r \in Inputs, Receive(r) PROVE RInv'
    BY <1>1, ReceiveStep
<1>2. CASE RecordValue
    BY <1>2, RecordStep
<1> DEFINE Same == UNCHANGED <<template, acc, todo, tally, noted>>
<1>3. ASSUME Same, phase' \in {"drained", "reported", phase}, phase = "refused" => phase' = phase,
             ReportsLast'
      PROVE  RInv'
  <2>1. Shapes'
    <3>1. Shapes
      BY DEF RInv
    <3>2. /\ template' = template /\ acc' = acc /\ todo' = todo
          /\ tally' = tally /\ noted' = noted
      BY <1>3
    <3>3. Labels' = Labels
      BY <3>2 DEF Labels
    <3>4. Findings' = Findings
      BY <3>2 DEF Findings
    <3>5. Usable' <=> Usable
      BY <3>2 DEF Usable
    <3>6. phase' \in {"drain", "refused", "drained", "reported"}
      BY <1>3, <3>1 DEF Shapes
    <3>7. phase' = "refused" \/ Usable
      BY <1>3, <3>1 DEF Shapes
    <3>8. noted' \in [Labels' -> Seq(Marks')]
      <4>1. Marks' = Marks
        BY <3>4 DEF Marks
      <4> QED BY <3>1, <3>2, <3>3, <4>1 DEF Shapes
    <3>9. todo' \in [DOMAIN todo' -> Findings'] /\ DOMAIN todo' \subseteq Nat
      BY <3>1, <3>2, <3>4 DEF Shapes
    <3> QED BY <3>1, <3>2, <3>5, <3>6, <3>7, <3>8, <3>9 DEF Shapes
  <2>2. RowsRight'
    BY <1>3 DEF RInv, RowsRight
  <2>3. ParsedRight'
    BY <1>3 DEF RInv, ParsedRight, Parsers, TemplateOf, At
  <2>4. FieldsRight'
    BY <1>3 DEF RInv, FieldsRight, Labels
  <2> QED BY <1>3, <2>1, <2>2, <2>3, <2>4 DEF RInv
<1>4. Same => JsonReport' = JsonReport /\ Table' = Table
    BY DEF JsonReport, Table, Tracking
<1>5. ReportsLast
    BY DEF RInv
<1>6. CASE DrainEnds
  <2>1. ReportsLast'
    BY <1>5, <1>6 DEF DrainEnds, ReportsLast
  <2> QED BY <1>3, <1>6, <2>1 DEF DrainEnds
<1>7. CASE BuildReport
  <2>1. Same /\ json' = JsonReport /\ phase' = phase /\ phase = "drained" /\ table' = table /\ json = None
    BY <1>7 DEF BuildReport
  <2>2. ReportsLast'
    BY <1>4, <1>5, <2>1 DEF ReportsLast
  <2> QED BY <1>3, <2>1, <2>2
<1>8. CASE PrintTable
  <2>1. /\ Same /\ json' = json /\ json # None /\ phase' = "reported" /\ phase = "drained"
        /\ table' = Table
    BY <1>8 DEF PrintTable
  <2>2. ReportsLast'
    BY <1>4, <1>5, <2>1 DEF ReportsLast
  <2> QED BY <1>3, <2>1, <2>2
<1>9. CASE UNCHANGED vars
  <2>1. Same /\ UNCHANGED <<json, table, phase>>
    BY <1>9 DEF vars
  <2>2. ReportsLast'
    BY <1>4, <1>5, <2>1 DEF ReportsLast
  <2> QED BY <1>3, <2>1, <2>2
<1> QED BY <1>1, <1>2, <1>6, <1>7, <1>8, <1>9 DEF Next, Finished

\* The invariant implies the properties.
LEMMA RInvCorrect == Spec => []RInv
BY RInvInit, RInvNext, PTL DEF Spec

-----------------------------------------------------------------------------
(* The JSON report *)

\* No sum is less than one of its parts.
LEMMA PartOfSum ==
    ASSUME NEW D, IsFiniteSet(D), NEW f \in [D -> Nat], NEW S \in SUBSET D, NEW x \in S
    PROVE  SumFunctionOnSet(f, S) \in Nat /\ f[x] <= SumFunctionOnSet(f, S)
<1>1. IsFiniteSet(S) /\ IsFiniteSet(S \ {x})
    BY FS_Subset, FS_RemoveElement
<1>2. IntValued(f, S) /\ NatValued(f, S) /\ NatValued(f, S \ {x}) /\ f[x] \in Nat
    BY DEF IntValued, NatValued
<1>3. SumFunctionOnSet(f, S) = f[x] + SumFunctionOnSet(f, S \ {x})
    BY <1>1, <1>2, SumRemoves
<1>4. SumFunctionOnSet(f, S \ {x}) \in Nat /\ SumFunctionOnSet(f, S) \in Nat
    BY <1>1, <1>2, SumNat
<1> QED BY <1>2, <1>3, <1>4

\* What is in S is in a part of S or not in it.
LEMMA Parted ==
    ASSUME NEW t \in [Inputs -> Nat], NEW S \in SUBSET Inputs, NEW T \in SUBSET S
    PROVE  /\ Total(t, S) = Total(t, T) + Total(t, S \ T)
           /\ Total(t, S) \in Nat /\ Total(t, T) \in Nat /\ Total(t, S \ T) \in Nat
<1>1. IsFiniteSet(S) /\ IsFiniteSet(T) /\ IsFiniteSet(S \ T)
    BY FS_Subset, ReportAssumption
<1>2. IntValued(t, S) /\ NatValued(t, S) /\ NatValued(t, T) /\ NatValued(t, S \ T)
    BY DEF IntValued, NatValued
<1>3. SumFunctionOnSet(t, S) = SumFunctionOnSet(t, T) + SumFunctionOnSet(t, S \ T)
    BY <1>1, <1>2, SumParts
<1>4. /\ SumFunctionOnSet(t, S) \in Nat /\ SumFunctionOnSet(t, T) \in Nat
      /\ SumFunctionOnSet(t, S \ T) \in Nat
    BY <1>1, <1>2, SumNat
<1> QED BY <1>3, <1>4 DEF Total

\* The ends of a latency histogram enclose whatever is in it.
LEMMA LatencyEnds ==
    ASSUME NEW hist \in [1..MaxLatency -> Nat]
    PROVE  /\ Samples(hist) \in Nat
           /\ \A d \in 1..MaxLatency : hist[d] > 0 =>
                /\ Samples(hist) # 0
                /\ Lowest(hist) <= d /\ d <= Highest(hist)
           /\ Samples(hist) # 0 =>
                /\ Lowest(hist) \in 1..MaxLatency /\ Highest(hist) \in 1..MaxLatency
                /\ hist[Highest(hist)] > 0
<1> DEFINE D == 1..MaxLatency
           U == {d \in D : hist[d] > 0}
<1>1. IsFiniteSet(D) /\ MaxLatency \in Nat
    BY ReportAssumption, FS_Interval
<1>2. DOMAIN hist = D /\ hist \in [D -> Nat] /\ D \subseteq Nat
    BY <1>1
<1>3. U \in SUBSET D
    OBVIOUS
<1>4. \A d \in D : ~(hist[d] > 0) => hist[d] = 0
    OBVIOUS
<1>5. Samples(hist) = SumFunctionOnSet(hist, D)
    BY <1>2 DEF Samples, SumFunction
<1> DEFINE low == Min(U)
           high == Max(U)
<1>6. /\ Lowest(hist) = IF Samples(hist) = 0 THEN 0 ELSE low
      /\ Highest(hist) = IF Samples(hist) = 0 THEN 0 ELSE high
    BY <1>2 DEF Lowest, Highest
<1>7. \A d \in D : d \in U <=> hist[d] > 0
    OBVIOUS
<1> HIDE DEF D, U, low, high
<1>8. SumFunctionOnSet(hist, D) \in Nat
  <2>1. NatValued(hist, D)
    BY <1>2 DEF NatValued
  <2> QED BY <1>1, <2>1, SumNat
<1>9. \A d \in D : hist[d] \in Nat /\ hist[d] <= SumFunctionOnSet(hist, D)
  <2>1. D \in SUBSET D
    OBVIOUS
  <2>2. \A d \in D : hist[d] <= SumFunctionOnSet(hist, D)
    BY <1>1, <1>2, <2>1, PartOfSum
  <2> QED BY <1>2, <2>2
<1>10. SumFunctionOnSet(hist, D) # 0 => U # {}
  <2> SUFFICES ASSUME U = {} PROVE SumFunctionOnSet(hist, D) = 0
    OBVIOUS
  <2>1. \A d \in D : hist[d] = 0
    BY <1>4, <1>7
  <2> QED BY <1>1, <2>1, SumZero
<1>11. U # {} => low \in U /\ \A d \in U : low <= d
  <2>1. U \in SUBSET Nat
    BY <1>2, <1>3
  <2> QED BY <2>1, MinExists DEF low
<1>12. U # {} => high \in U /\ \A d \in U : d <= high
  <2>1. U \in SUBSET Int
    BY <1>2, <1>3
  <2>2. IsFiniteSet(U)
    BY <1>1, <1>3, FS_Subset
  <2> QED BY <2>1, <2>2, GreatestOf DEF high
<1>13. \A d \in D : hist[d] > 0 => SumFunctionOnSet(hist, D) # 0
    BY <1>8, <1>9
<1>14. \A d \in D : hist[d] > 0 =>
          Samples(hist) # 0 /\ Lowest(hist) <= d /\ d <= Highest(hist)
  <2> SUFFICES ASSUME NEW d \in D, hist[d] > 0
               PROVE  Samples(hist) # 0 /\ Lowest(hist) <= d /\ d <= Highest(hist)
    OBVIOUS
  <2>1. d \in U /\ Samples(hist) # 0
    BY <1>5, <1>7, <1>13
  <2> QED BY <1>6, <1>11, <1>12, <2>1
<1>15. Samples(hist) # 0 =>
          Lowest(hist) \in D /\ Highest(hist) \in D /\ hist[Highest(hist)] > 0
    BY <1>3, <1>5, <1>6, <1>7, <1>10, <1>11, <1>12
<1> QED BY <1>5, <1>8, <1>14, <1>15 DEF D

\* The report of a row that is right for S tells what S is.
LEMMA RowTells ==
    ASSUME NEW S \in SUBSET Inputs, NEW row, FullRow(row, S, tally), tally \in [Inputs -> Nat]
    PROVE  Tells(RowReport(row), S)
<1> DEFINE out == RowReport(row)
           hist == row.latency
           ok == {x \in Sent(S) : Success(x)}
<1>1. /\ out.requests.total = row.total /\ out.requests.failed = row.failed
      /\ out.requests.skipped = row.skipped
      /\ out.requests.ok = Monus(Monus(row.total, row.failed), row.skipped)
      /\ out.latency.min = Lowest(hist) /\ out.latency.max = Highest(hist)
      /\ out.latency.of = Samples(hist)
      /\ out.status_codes = StatusCodeMap(row)
    BY DEF RowReport, RequestSummary, LatencyStats
<1>2. /\ row.total = Total(tally, S) /\ row.skipped = Total(tally, S \ Sent(S))
      /\ row.failed = Total(tally, Failures(S)) /\ row.errors = Total(tally, With(S, None))
      /\ Samples(hist) = Total(tally, Sent(S)) /\ hist \in [1..MaxLatency -> Nat]
    BY DEF FullRow, RowOf
<1>3. \A T : Drawn(T) = Total(tally, T)
    BY DEF Drawn, Total
<1>4. Sent(S) \in SUBSET S /\ Failures(S) \in SUBSET Sent(S) /\ Sent(S) \in SUBSET Inputs
    BY DEF Sent, Failures
<1>5. ok = Sent(S) \ Failures(S) /\ {x \in Sent(S) : ~Success(x)} = Failures(S)
    BY DEF Failures
<1>6. \A c : With(S, c) = {x \in Sent(S) : StatusCode(x) = c} /\ With(S, c) \in SUBSET Inputs
    BY <1>4 DEF With
<1> HIDE DEF out, hist, ok
<1>7. Monus(Monus(row.total, row.failed), row.skipped) = Total(tally, ok)
  <2>1. /\ Total(tally, S) = Total(tally, Sent(S)) + Total(tally, S \ Sent(S))
        /\ Total(tally, Sent(S)) \in Nat /\ Total(tally, S \ Sent(S)) \in Nat
    BY <1>4, Parted
  <2>2. /\ Total(tally, Sent(S)) = Total(tally, Failures(S)) + Total(tally, ok)
        /\ Total(tally, Failures(S)) \in Nat /\ Total(tally, ok) \in Nat
    BY <1>4, <1>5, Parted
  <2> QED BY <1>2, <2>1, <2>2 DEF Monus
<1>8. \A x \in Sent(S) : tally[x] > 0 =>
        /\ Clamped(x.took) \in out.latency.min..out.latency.max
        /\ StatusCode(x) \in DOMAIN out.status_codes
  <2> SUFFICES ASSUME NEW x \in Sent(S), tally[x] > 0
               PROVE  /\ Clamped(x.took) \in out.latency.min..out.latency.max
                      /\ StatusCode(x) \in DOMAIN out.status_codes
    OBVIOUS
  <2>1. hist[Clamped(x.took)] > 0 /\ (StatusCode(x) # None => StatusCode(x) \in DOMAIN row.codes)
    BY DEF FullRow, RowOf, hist
  <2>2. Clamped(x.took) \in 1..MaxLatency
    BY <1>4, ReportAssumption DEF Clamped
  <2>3. /\ Samples(hist) # 0
        /\ Lowest(hist) <= Clamped(x.took) /\ Clamped(x.took) <= Highest(hist)
        /\ Lowest(hist) \in 1..MaxLatency /\ Highest(hist) \in 1..MaxLatency
    BY <1>2, <2>1, <2>2, LatencyEnds
  <2>4. Clamped(x.took) \in out.latency.min..out.latency.max
    BY <1>1, <2>2, <2>3
  <2>5. StatusCode(x) = None => row.errors > 0
    <3> SUFFICES ASSUME StatusCode(x) = None PROVE row.errors > 0
      OBVIOUS
    <3>1. x \in With(S, None) /\ With(S, None) \in SUBSET Inputs /\ tally[x] \in Nat
      BY <1>4, <1>6
    <3>2. IsFiniteSet(Inputs)
      BY ReportAssumption
    <3>3. /\ SumFunctionOnSet(tally, With(S, None)) \in Nat
          /\ tally[x] <= SumFunctionOnSet(tally, With(S, None))
      BY <3>1, <3>2, PartOfSum
    <3> QED BY <1>2, <3>1, <3>3 DEF Total
  <2>6. StatusCode(x) \in DOMAIN StatusCodeMap(row)
    <3>1. CASE StatusCode(x) = None
      BY <2>5, <3>1 DEF StatusCodeMap, Put
    <3>2. CASE StatusCode(x) # None
      BY <2>1, <3>2 DEF StatusCodeMap, Put
    <3> QED BY <3>1, <3>2
  <2> QED BY <1>1, <2>4, <2>6
<1>9. \A code \in DOMAIN StatusCodeMap(row) :
        StatusCodeMap(row)[code] = Total(tally, With(S, code))
  <2> SUFFICES ASSUME NEW code \in DOMAIN StatusCodeMap(row)
               PROVE  StatusCodeMap(row)[code] = Total(tally, With(S, code))
    OBVIOUS
  <2>1. \A c \in DOMAIN row.codes : c # None /\ row.codes[c] = Total(tally, With(S, c))
    BY DEF FullRow, RowOf
  <2>2. CASE row.errors > 0
    BY <1>2, <2>1, <2>2 DEF StatusCodeMap, Put
  <2>3. CASE ~(row.errors > 0)
    BY <2>1, <2>3 DEF StatusCodeMap
  <2> QED BY <2>2, <2>3
<1>10. \A code \in DOMAIN out.status_codes :
        out.status_codes[code] = Drawn({x \in Sent(S) : StatusCode(x) = code})
    BY <1>1, <1>3, <1>6, <1>9
<1>11. /\ out.requests.total = Drawn(S) /\ out.requests.skipped = Drawn(S \ Sent(S))
       /\ out.requests.ok = Drawn(ok) /\ out.requests.failed = Drawn(Failures(S))
       /\ out.latency.of = Drawn(Sent(S))
    BY <1>1, <1>2, <1>3, <1>7
<1> QED BY <1>5, <1>8, <1>10, <1>11 DEF Tells, out, ok

\* Every number of the JSON report is the number of records it is about, in
\* whatever order they were drained (RunReport::from_params of the statistics
\* DrainMetricsAccumulator has made).
THEOREM ReportCountsRecords == Spec => []ReportIsTally
<1>1. ASSUME RInv PROVE ReportIsTally
  <2> SUFFICES ASSUME json # None PROVE ReportIsTally
    BY DEF ReportIsTally
  <2>1. json = JsonReport
    BY <1>1 DEF RInv, ReportsLast
  <2>2. /\ json.run = RowReport(acc.run)
        /\ json.curve_stages = [i \in Stages |-> StageReport(acc.stages[i])]
        /\ json.scenarios = [s \in DOMAIN acc.scenarios |-> ScenarioReport(acc.scenarios[s])]
        /\ json.response_stats = IF Tracking THEN ResponseReport(acc.response) ELSE None
    BY <2>1 DEF JsonReport
  <2>3. tally \in [Inputs -> Nat] /\ \A T : Drawn(T) = Total(tally, T)
    BY <1>1 DEF RInv, Shapes, Drawn, Total
  <2>4. Tells(json.run, Inputs)
    <3>1. FullRow(acc.run, Inputs, tally) /\ Inputs \in SUBSET Inputs
      BY <1>1 DEF RInv, RowsRight
    <3>2. Tells(RowReport(acc.run), Inputs)
      BY <2>3, <3>1, RowTells
    <3> QED BY <2>2, <3>2
  <2>5. /\ DOMAIN json.scenarios = DOMAIN acc.scenarios
        /\ \A s \in DOMAIN acc.scenarios :
            /\ json.scenarios[s].overall = RowReport(acc.scenarios[s].requests)
            /\ DOMAIN json.scenarios[s].steps = DOMAIN acc.scenarios[s].steps
            /\ \A step \in DOMAIN acc.scenarios[s].steps :
                json.scenarios[s].steps[step] = RowReport(acc.scenarios[s].steps[step])
    BY <2>2 DEF ScenarioReport
  <2>6. \A x \in Inputs : (tally[x] > 0 /\ x.scenario # None) =>
            x.scenario \in DOMAIN json.scenarios
                /\ x.step \in DOMAIN json.scenarios[x.scenario].steps
    BY <1>1, <2>5 DEF RInv, RowsRight, ScenariosOf
  <2>7. ASSUME NEW s \in DOMAIN json.scenarios
        PROVE  /\ Tells(json.scenarios[s].overall, Of(s))
               /\ \A step \in DOMAIN json.scenarios[s].steps :
                    Tells(json.scenarios[s].steps[step], {x \in Of(s) : x.step = step})
    <3>1. s \in DOMAIN acc.scenarios /\ FullRow(acc.scenarios[s].requests, Of(s), tally)
      BY <1>1, <2>5 DEF RInv, RowsRight, ScenariosOf
    <3>2. Of(s) \in SUBSET Inputs /\ \A step : InStep(s, step) \in SUBSET Inputs
      BY DEF Of, InStep
    <3>3. Tells(RowReport(acc.scenarios[s].requests), Of(s))
      BY <2>3, <3>1, <3>2, RowTells
    <3>4. ASSUME NEW step \in DOMAIN json.scenarios[s].steps
          PROVE  Tells(json.scenarios[s].steps[step], InStep(s, step))
      <4>1. /\ step \in DOMAIN acc.scenarios[s].steps
            /\ json.scenarios[s].steps[step] = RowReport(acc.scenarios[s].steps[step])
        BY <2>5, <3>1
      <4>2. FullRow(acc.scenarios[s].steps[step], InStep(s, step), tally)
        BY <1>1, <3>1, <4>1 DEF RInv, RowsRight, ScenariosOf
      <4>3. Tells(RowReport(acc.scenarios[s].steps[step]), InStep(s, step))
        BY <2>3, <3>2, <4>2, RowTells
      <4> QED BY <4>1, <4>3
    <3>5. \A step : InStep(s, step) = {x \in Of(s) : x.step = step}
      BY DEF InStep
    <3>6. Tells(json.scenarios[s].overall, Of(s))
      BY <2>5, <3>1, <3>3
    <3> QED BY <3>4, <3>5, <3>6
  <2>8. ASSUME NEW i \in Stages
        PROVE  /\ json.curve_stages[i].failed = Drawn({x \in Sent(InStage(i)) : ~Success(x)})
               /\ json.curve_stages[i].latency.of = Drawn(Sent(InStage(i)))
               /\ Drawn(InStage(i) \ Sent(InStage(i))) = 0 =>
                    /\ json.curve_stages[i].requests = Drawn(InStage(i))
                    /\ json.curve_stages[i].ok = Drawn({x \in InStage(i) : Success(x)})
    <3> DEFINE row == acc.stages[i]
               S == InStage(i)
               ok == S \ Failures(S)
               good == {x \in S : Success(x)}
    <3>1. /\ json.curve_stages[i].requests = row.total /\ json.curve_stages[i].failed = row.failed
          /\ json.curve_stages[i].ok = Monus(row.total, row.failed)
          /\ json.curve_stages[i].latency.of = Samples(row.latency)
      BY <2>2 DEF StageReport, LatencyStats
    <3>2. RowOf(row, S, tally)
      BY <1>1 DEF RInv, RowsRight
    <3>3. /\ row.total = Total(tally, S) /\ row.failed = Total(tally, Failures(S))
          /\ Samples(row.latency) = Total(tally, Sent(S))
      BY <3>2 DEF RowOf
    <3>4. S \in SUBSET Inputs /\ Failures(S) \in SUBSET S
      BY DEF InStage, Failures, Sent
    <3>5. /\ Failures(S) = {x \in Sent(S) : ~Success(x)}
          /\ good \in SUBSET ok /\ ok \ good \in SUBSET (S \ Sent(S))
          /\ ok \in SUBSET Inputs /\ S \ Sent(S) \in SUBSET Inputs
      BY <3>4 DEF Failures, Sent
    <3>10. ok = S \ Failures(S)
      OBVIOUS
    <3> HIDE DEF S, ok, good
    <3>6. /\ Total(tally, S) = Total(tally, Failures(S)) + Total(tally, ok)
          /\ Total(tally, Failures(S)) \in Nat /\ Total(tally, ok) \in Nat
      BY <2>3, <3>4, <3>10, Parted
    <3>7. Monus(row.total, row.failed) = Total(tally, ok)
      BY <3>3, <3>6 DEF Monus
    <3>8. ASSUME Drawn(S \ Sent(S)) = 0 PROVE Total(tally, ok) = Total(tally, good)
      <4> DEFINE rest == ok \ good
      <4>1. /\ Total(tally, ok) = Total(tally, good) + Total(tally, rest)
            /\ Total(tally, good) \in Nat
        BY <2>3, <3>5, Parted
      <4>2. \A x \in S \ Sent(S) : tally[x] = 0
        <5> SUFFICES ASSUME NEW x \in S \ Sent(S) PROVE tally[x] = 0
          OBVIOUS
        <5>1. IsFiniteSet(Inputs) /\ tally[x] \in Nat
          BY <2>3, <3>5, ReportAssumption
        <5>2. tally[x] <= SumFunctionOnSet(tally, S \ Sent(S))
          BY <2>3, <3>5, <5>1, PartOfSum
        <5>3. SumFunctionOnSet(tally, S \ Sent(S)) = 0
          BY <3>8 DEF Drawn
        <5> QED BY <5>1, <5>2, <5>3
      <4>3. Total(tally, rest) = 0
        <5>1. IsFiniteSet(rest) /\ \A x \in rest : tally[x] = 0
          BY <3>5, <4>2, ReportAssumption, FS_Subset
        <5> HIDE DEF rest
        <5> QED BY <5>1, SumZero DEF Total
      <4> QED BY <4>1, <4>3
    <3>9. /\ json.curve_stages[i].failed = Drawn(Failures(S))
          /\ json.curve_stages[i].latency.of = Drawn(Sent(S))
          /\ json.curve_stages[i].requests = Drawn(S)
          /\ Drawn(S \ Sent(S)) = 0 => json.curve_stages[i].ok = Drawn(good)
      BY <2>3, <3>1, <3>3, <3>7, <3>8
    <3> QED BY <3>5, <3>9 DEF S, good
  <2>9. \A i : InStage(i) = {x \in Inputs : x.stage = i}
    BY DEF InStage
  <2>10. Tracking => json.response_stats.responses_parsed = Drawn(Parsers)
    <3> SUFFICES ASSUME Tracking PROVE json.response_stats.responses_parsed = Drawn(Parsers)
      OBVIOUS
    <3>1. json.response_stats.responses_parsed = acc.response.parsed
      BY <2>2 DEF ResponseReport
    <3> QED BY <1>1, <2>3, <3>1 DEF RInv, ParsedRight
  <2> QED BY <2>4, <2>6, <2>7, <2>8, <2>9, <2>10 DEF ReportIsTally, Parsers
<1> QED BY <1>1, RInvCorrect, PTL

-----------------------------------------------------------------------------
(* The fields *)

\* A count, as the library and as the invariant state it.
LEMMA LeastIsMin == \A m, n \in Nat : Min({m, n}) = Least(m, n)
<1> SUFFICES ASSUME NEW m \in Nat, NEW n \in Nat PROVE Min({m, n}) = Least(m, n)
    OBVIOUS
<1>1. Min({m, n}) \in {m, n} /\ \A y \in {m, n} : Min({m, n}) <= y
  <2>1. {m, n} \in SUBSET Nat /\ {m, n} # {}
    OBVIOUS
  <2> QED BY <2>1, MinExists
<1> DEFINE k == Min({m, n})
<1>2. k \in {m, n} /\ k <= m /\ k <= n
    BY <1>1
<1> HIDE DEF k
<1>3. k = Least(m, n)
    BY <1>2 DEF Least
<1> QED BY <1>3 DEF k

\* The caps on a field's histogram cost detail and nothing else: what is
\* counted is counted in full, the rest is in the overflow, and a reservoir
\* holds values that came, as many as fit (CategoricalHistogram::record and
\* NumericHistogram::record).
THEOREM CapsCostDetailOnly == Spec => []CapsDegradeOnly
<1>1. ASSUME RInv PROVE CapsDegradeOnly
  <2> SUFFICES ASSUME NEW l \in Labels
               PROVE  LET strings == At(acc.response.strings, l, EmptyCategorical)
                          floats == At(acc.response.floats, l, EmptyNumeric)
                          samples == floats.samples
                      IN  /\ At(acc.response.mismatches, l, 0)
                                = Cardinality(OfKind(noted[l], "MISMATCH"))
                          /\ \A v \in DOMAIN strings.entries :
                                strings.entries[v] = Cardinality(OfValue(noted[l], "STRING", v))
                          /\ SumFunction(strings.entries) + strings.overflow =
                                Cardinality(OfKind(noted[l], "STRING"))
                          /\ Cardinality(DOMAIN strings.entries) <= MaxBuckets
                          /\ strings.overflow > 0 =>
                                Cardinality(DOMAIN strings.entries) = MaxBuckets
                          /\ Len(samples) =
                                Min({MaxSamples, Cardinality(OfKind(noted[l], "FLOAT"))})
                          /\ \A v \in Range(samples) :
                                Cardinality({i \in DOMAIN samples : samples[i] = v})
                                    <= Cardinality(OfValue(noted[l], "FLOAT", v))
    BY DEF CapsDegradeOnly
  <2> DEFINE strings == At(acc.response.strings, l, EmptyCategorical)
             floats == At(acc.response.floats, l, EmptyNumeric)
             samples == floats.samples
  <2>1. /\ StringsOf(strings, noted[l]) /\ FloatsOf(floats, noted[l])
        /\ At(acc.response.mismatches, l, 0) = Cardinality(OfKind(noted[l], "MISMATCH"))
    BY <1>1 DEF RInv, FieldsRight
  <2>2. noted[l] \in Seq(Marks)
    BY <1>1 DEF RInv, Shapes
  <2> HIDE DEF strings, floats
  <2>3. Len(samples) = Min({MaxSamples, Cardinality(OfKind(noted[l], "FLOAT"))})
    <3> DEFINE n == Cardinality(OfKind(noted[l], "FLOAT"))
    <3>1. Len(samples) = Least(MaxSamples, n)
      BY <2>1 DEF FloatsOf
    <3>2. n \in Nat
      <4>1. DOMAIN noted[l] = 1..Len(noted[l]) /\ Len(noted[l]) \in Nat
        BY <2>2, LenProperties
      <4>2. IsFiniteSet(1..Len(noted[l]))
        BY <4>1, FS_Interval
      <4>3. OfKind(noted[l], "FLOAT") \in SUBSET (1..Len(noted[l]))
        BY <4>1 DEF OfKind
      <4> QED BY <4>2, <4>3, FS_Subset, FS_CardinalityType
    <3>3. MaxSamples \in Nat
      BY ReportAssumption
    <3> HIDE DEF n
    <3>4. Min({MaxSamples, n}) = Least(MaxSamples, n)
      BY <3>2, <3>3, LeastIsMin
    <3> QED BY <3>1, <3>4 DEF n
  <2>4. ASSUME NEW v \in Range(samples)
        PROVE  Cardinality({i \in DOMAIN samples : samples[i] = v})
                    <= Cardinality(OfValue(noted[l], "FLOAT", v))
    <3>1. samples \in Seq(Int) /\ \A w \in Int :
            Cardinality(Places(samples, {w})) <= Cardinality(OfValue(noted[l], "FLOAT", w))
      BY <2>1 DEF FloatsOf
    <3>2. v \in Int
      <4>1. PICK i \in DOMAIN samples : v = samples[i]
        BY DEF Range
      <4>2. DOMAIN samples = 1..Len(samples)
        BY <3>1, LenProperties
      <4> QED BY <3>1, <4>1, <4>2, ElementOfSeq
    <3>3. Places(samples, {v}) = {i \in DOMAIN samples : samples[i] = v}
      BY DEF Places
    <3> QED BY <3>1, <3>2, <3>3
  <2> HIDE DEF samples
  <2>5. /\ \A v \in DOMAIN strings.entries :
                strings.entries[v] = Cardinality(OfValue(noted[l], "STRING", v))
        /\ SumFunction(strings.entries) + strings.overflow =
                Cardinality(OfKind(noted[l], "STRING"))
        /\ Cardinality(DOMAIN strings.entries) <= MaxBuckets
        /\ strings.overflow > 0 => Cardinality(DOMAIN strings.entries) = MaxBuckets
    BY <2>1 DEF StringsOf
  <2> QED BY <2>1, <2>3, <2>4, <2>5 DEF strings, floats, samples
<1> QED BY <1>1, RInvCorrect, PTL

\* Percentiles of n values lie among them, in order.
LEMMA IndexesInOrder ==
    ASSUME NEW n \in Nat \ {0}
    PROVE  /\ IndexAt(n, 50) + 1 \in 1..n
           /\ IndexAt(n, 95) + 1 \in 1..n
           /\ IndexAt(n, 99) + 1 \in 1..n
           /\ IndexAt(n, 50) <= IndexAt(n, 95) /\ IndexAt(n, 95) <= IndexAt(n, 99)
<1>1. /\ (n * 50) \div 100 \in Nat /\ (n * 95) \div 100 \in Nat /\ (n * 99) \div 100 \in Nat
      /\ (n * 50) \div 100 <= (n * 95) \div 100 /\ (n * 95) \div 100 <= (n * 99) \div 100
    OBVIOUS
<1> DEFINE a == (n * 50) \div 100
           b == (n * 95) \div 100
           c == (n * 99) \div 100
<1>2. /\ IndexAt(n, 50) = IF a < n - 1 THEN a ELSE n - 1
      /\ IndexAt(n, 95) = IF b < n - 1 THEN b ELSE n - 1
      /\ IndexAt(n, 99) = IF c < n - 1 THEN c ELSE n - 1
    BY DEF IndexAt, Portion
<1>3. a \in Nat /\ b \in Nat /\ c \in Nat /\ a <= b /\ b <= c
    BY <1>1
<1> HIDE DEF a, b, c
<1> QED BY <1>2, <1>3

\* For as many samples as are kept, and the percentiles shown, the product in
\* floating point has the floor the integer formula computes.
LEMMA ProductIsExact ==
    ASSUME NEW n \in Nat \ {0}, NEW p \in {50, 95, 99}, n <= 16384
    PROVE  FloorOfProduct(n, p) = Portion(n, p)
<1> DEFINE k == Portion(n, p)
<1>1. ASSUME FallsShort(n, p) PROVE FALSE
  <2>1. p = 95 \/ p = 99
    BY <1>1 DEF FallsShort, Deficit
  <2>2. (n * p) % 100 = 0 /\ \A b \in Powers : b < k => 25 * b < Deficit(p) * n
    BY <1>1 DEF FallsShort
  <2>3. 100 * k = n * p /\ k \in Nat
    <3>1. \A m \in Nat : m % 100 = 0 => 100 * (m \div 100) = m /\ m \div 100 \in Nat
      OBVIOUS
    <3>2. n * p \in Nat
      OBVIOUS
    <3> QED BY <2>2, <3>1, <3>2 DEF Portion
  <2> HIDE DEF k
  <2>4. k > 1 /\ k <= 16384 /\ n \in Nat
    <3>1. CASE p = 95
      BY <2>3, <3>1
    <3>2. CASE p = 99
      BY <2>3, <3>2
    <3> QED BY <2>1, <3>1, <3>2
  <2>5. PICK b \in Powers : b < k /\ k <= 2 * b
    BY <2>3, <2>4 DEF Powers
  <2>6. 25 * b < Deficit(p) * n /\ b \in Nat
    BY <2>2, <2>5 DEF Powers
  <2>7. CASE p = 95
    BY <2>3, <2>4, <2>5, <2>6, <2>7 DEF Deficit
  <2>8. CASE p = 99
    BY <2>3, <2>4, <2>5, <2>6, <2>8 DEF Deficit
  <2> QED BY <2>1, <2>7, <2>8
<1>2. Portion(n, p) \in Int
  <2>1. \A m \in Nat : m \div 100 \in Int
    OBVIOUS
  <2> QED BY <2>1 DEF Portion
<1> QED BY <1>1, <1>2 DEF FloorOfProduct

\* Of a reservoir that is not empty both reports show the same, in order.
LEMMA FloatsAgree ==
    ASSUME NEW h, h.samples \in Seq(Int), h.samples # <<>>, Len(h.samples) <= MaxSamples
    PROVE  LET shown == TableFloat(h)
               full == FloatSummary(h)
           IN  /\ shown.at = full.at
               /\ <<shown.min, shown.max>> = <<full.min, full.max>>
               /\ full.min <= full.at[50] /\ full.at[50] <= full.at[95]
               /\ full.at[95] <= full.at[99] /\ full.at[99] <= full.max
<1> DEFINE s == Sorted(h.samples)
           n == Len(h.samples)
           shown == TableFloat(h)
           full == FloatSummary(h)
<1>1. /\ n \in Nat \ {0} /\ Len(s) = n
      /\ \A i, j \in 1..n : i <= j => s[i] <= s[j]
      /\ s[1] = Min(Range(h.samples)) /\ s[n] = Max(Range(h.samples))
    BY SortedOrder
<1>2. /\ full.min = s[1] /\ full.max = s[n]
      /\ full.at = [p \in {50, 95, 99} |-> s[IndexAt(n, p) + 1]]
    BY <1>1 DEF FloatSummary
<1>3. /\ shown.min = Min(Range(h.samples)) /\ shown.max = Max(Range(h.samples))
      /\ shown.at = [p \in {50, 95, 99} |-> DistributionAt(h, p)]
    BY DEF TableFloat
<1>4. \A p \in {50, 95, 99} : DistributionAt(h, p) = s[IndexAt(n, p) + 1]
  <2> SUFFICES ASSUME NEW p \in {50, 95, 99}
               PROVE  DistributionAt(h, p) = s[IndexAt(n, p) + 1]
    OBVIOUS
  <2>1. n \in Nat \ {0} /\ n <= 16384
    <3>1. n \in Nat \ {0} /\ n <= MaxSamples
      BY <1>1
    <3> HIDE DEF n, s, shown, full
    <3> QED BY <3>1, ReportAssumption
  <2>2. FloorOfProduct(n, p) = Portion(n, p)
    <3> HIDE DEF n, s, shown, full
    <3> QED BY <2>1, ProductIsExact
  <2> QED BY <2>2 DEF DistributionAt, IndexAt
<1> DEFINE i == IndexAt(n, 50) + 1
           j == IndexAt(n, 95) + 1
           k == IndexAt(n, 99) + 1
<1>5. full.at[50] = s[i] /\ full.at[95] = s[j] /\ full.at[99] = s[k]
    BY <1>2
<1> HIDE DEF s, n, shown, full
<1>6. i \in 1..n /\ j \in 1..n /\ k \in 1..n /\ i <= j /\ j <= k
  <2>1. n \in Nat \ {0}
    BY <1>1
  <2>2. /\ IndexAt(n, 50) + 1 \in 1..n /\ IndexAt(n, 95) + 1 \in 1..n
        /\ IndexAt(n, 99) + 1 \in 1..n
        /\ IndexAt(n, 50) <= IndexAt(n, 95) /\ IndexAt(n, 95) <= IndexAt(n, 99)
    BY <2>1, IndexesInOrder
  <2>3. IndexAt(n, 50) \in Int /\ IndexAt(n, 95) \in Int /\ IndexAt(n, 99) \in Int
    BY <2>1 DEF IndexAt, Portion
  <2> QED BY <2>2, <2>3 DEF i, j, k
<1> HIDE DEF i, j, k
<1>7. 1 \in 1..n /\ n \in 1..n /\ 1 <= i /\ k <= n
    BY <1>1, <1>6
<1>8. s[1] <= s[i] /\ s[i] <= s[j] /\ s[j] <= s[k] /\ s[k] <= s[n]
    BY <1>1, <1>6, <1>7
<1>9. shown.at = full.at
    BY <1>2, <1>3, <1>4
<1> QED BY <1>1, <1>2, <1>3, <1>5, <1>8, <1>9 DEF shown, full

\* The table and the JSON report of a run never differ in a number both show
\* (print_stats against RunReport::from_params).
THEOREM ReportsAgree == Spec => []TableAgrees
<1>1. ASSUME RInv PROVE TableAgrees
  <2> SUFFICES ASSUME table # None PROVE TableAgrees
    BY DEF TableAgrees
  <2>1. table = Table /\ json = JsonReport
    BY <1>1 DEF RInv, ReportsLast
  <2>2. /\ json.run = RowReport(acc.run)
        /\ json.scenarios = [s \in DOMAIN acc.scenarios |-> ScenarioReport(acc.scenarios[s])]
        /\ json.response_stats = IF Tracking THEN ResponseReport(acc.response) ELSE None
    BY <2>1 DEF JsonReport
  <2>3. /\ table.requests = TableRow(acc.run)
        /\ table.latency =
            [p \in {10, 25, 50, 75, 90, 95, 99} |-> Quantile(acc.run.latency, p)]
        /\ table.codes = StatusCodeMap(acc.run)
        /\ table.scenarios = [s \in DOMAIN acc.scenarios |-> TableScenario(acc.scenarios[s])]
        /\ table.strings =
            [l \in DOMAIN acc.response.strings |-> acc.response.strings[l].entries]
        /\ table.floats =
            [l \in DOMAIN acc.response.floats |-> TableFloat(acc.response.floats[l])]
        /\ table.mismatches = acc.response.mismatches
    BY <2>1 DEF Table
  <2>4. \A row : /\ DOMAIN TableRow(row) = {"total", "failed", "skipped", "ok"}
                 /\ \A k \in {"total", "failed", "skipped", "ok"} :
                        TableRow(row)[k] = RowReport(row).requests[k]
    BY DEF TableRow, RowReport, RequestSummary
  <2>5. \A row : RowReport(row).latency.at =
            [p \in {10, 25, 50, 75, 90, 95, 99} |-> Quantile(row.latency, p)]
    BY DEF RowReport, LatencyStats
  <2>9. \A row : \A p \in {10, 25, 50, 75, 90, 95, 99} :
            RowReport(row).latency.at[p] = Quantile(row.latency, p)
    <3> TAKE row
    <3> DEFINE at == RowReport(row).latency.at
    <3>1. at = [p \in {10, 25, 50, 75, 90, 95, 99} |-> Quantile(row.latency, p)]
      BY <2>5
    <3> HIDE DEF at
    <3>2. \A p \in {10, 25, 50, 75, 90, 95, 99} : at[p] = Quantile(row.latency, p)
      BY <3>1
    <3> QED BY <3>2 DEF at
  <2>6. /\ \A k \in DOMAIN table.requests : table.requests[k] = json.run.requests[k]
        /\ table.latency = json.run.latency.at
        /\ table.codes = json.run.status_codes
        /\ DOMAIN table.scenarios = DOMAIN json.scenarios
    <3>1. \A k \in DOMAIN table.requests : table.requests[k] = json.run.requests[k]
      BY <2>2, <2>3, <2>4
    <3>2. table.latency = json.run.latency.at
      BY <2>2, <2>3, <2>5
    <3>3. table.codes = json.run.status_codes
      BY <2>2, <2>3 DEF RowReport
    <3>4. DOMAIN table.scenarios = DOMAIN json.scenarios
      BY <2>2, <2>3
    <3> QED BY <3>1, <3>2, <3>3, <3>4
  <2>7. ASSUME NEW s \in DOMAIN table.scenarios
        PROVE  LET shown == table.scenarios[s]
                   full == json.scenarios[s]
                   all == full.overall
               IN  /\ \A k \in DOMAIN shown.requests : shown.requests[k] = all.requests[k]
                   /\ \A p \in DOMAIN shown.at : shown.at[p] = all.latency.at[p]
                   /\ \A step \in DOMAIN shown.steps :
                        /\ shown.steps[step].total = full.steps[step].requests.total
                        /\ shown.steps[step].skipped = full.steps[step].requests.skipped
                        /\ shown.steps[step].p95 = full.steps[step].latency.at[95]
                        /\ shown.steps[step].error_rate = full.steps[step].requests.error_rate
    <3> DEFINE shown == table.scenarios[s]
               full == json.scenarios[s]
               old == acc.scenarios[s]
    <3>1. shown = TableScenario(old) /\ full = ScenarioReport(old)
      BY <2>2, <2>3
    <3> HIDE DEF shown, full, old
    <3>2. /\ shown.requests = TableRow(old.requests)
          /\ shown.at = [p \in {50, 95, 99} |-> Quantile(old.requests.latency, p)]
          /\ shown.steps = [step \in DOMAIN old.steps |-> TableStep(old.steps[step])]
      BY <3>1 DEF TableScenario
    <3>3. /\ full.overall = RowReport(old.requests)
          /\ full.steps = [step \in DOMAIN old.steps |-> RowReport(old.steps[step])]
      BY <3>1 DEF ScenarioReport
    <3>4. \A k \in DOMAIN shown.requests : shown.requests[k] = full.overall.requests[k]
      BY <2>4, <3>2, <3>3
    <3>5. \A p \in DOMAIN shown.at : shown.at[p] = full.overall.latency.at[p]
      <4>1. \A p \in {50, 95, 99} : shown.at[p] = Quantile(old.requests.latency, p)
        BY <3>2
      <4>2. DOMAIN shown.at = {50, 95, 99}
        BY <3>2
      <4>3. \A p \in {50, 95, 99} :
                full.overall.latency.at[p] = Quantile(old.requests.latency, p)
        BY <2>9, <3>3
      <4> QED BY <4>1, <4>2, <4>3
    <3>6. ASSUME NEW step \in DOMAIN shown.steps
          PROVE  /\ shown.steps[step].total = full.steps[step].requests.total
                 /\ shown.steps[step].skipped = full.steps[step].requests.skipped
                 /\ shown.steps[step].p95 = full.steps[step].latency.at[95]
                 /\ shown.steps[step].error_rate = full.steps[step].requests.error_rate
      <4> DEFINE row == old.steps[step]
      <4>1. shown.steps[step] = TableStep(row) /\ full.steps[step] = RowReport(row)
        BY <3>2, <3>3
      <4> HIDE DEF row
      <4>2. RowReport(row).latency.at[95] = Quantile(row.latency, 95)
        BY <2>9
      <4>3. /\ RowReport(row).requests.total = row.total
            /\ RowReport(row).requests.skipped = row.skipped
            /\ RowReport(row).requests.error_rate = ErrorRate(row)
        BY DEF RowReport, RequestSummary
      <4>4. /\ TableStep(row).total = row.total /\ TableStep(row).skipped = row.skipped
            /\ TableStep(row).p95 = Quantile(row.latency, 95)
            /\ TableStep(row).error_rate = ErrorRate(row)
        BY DEF TableStep, ErrorRate
      <4> QED BY <4>1, <4>2, <4>3, <4>4
    <3> QED BY <3>4, <3>5, <3>6 DEF shown, full
  <2>8. ASSUME Tracking
        PROVE  /\ table.strings = json.response_stats.string_fields
               /\ table.mismatches = json.response_stats.mismatch_counts
               /\ \A l \in DOMAIN table.floats :
                    LET shown == table.floats[l]
                        full == json.response_stats.float_fields[l]
                    IN  /\ shown.at = full.at
                        /\ <<shown.min, shown.max>> = <<full.min, full.max>>
                        /\ full.min <= full.at[50] /\ full.at[50] <= full.at[95]
                        /\ full.at[95] <= full.at[99] /\ full.at[99] <= full.max
    <3>1. json.response_stats = ResponseReport(acc.response)
      BY <2>2, <2>8
    <3>2. /\ json.response_stats.string_fields =
                [l \in DOMAIN acc.response.strings |-> acc.response.strings[l].entries]
          /\ json.response_stats.mismatch_counts = acc.response.mismatches
          /\ json.response_stats.float_fields =
                [l \in DOMAIN acc.response.floats |-> FloatSummary(acc.response.floats[l])]
      BY <3>1 DEF ResponseReport
    <3>3. ASSUME NEW l \in DOMAIN table.floats
          PROVE  LET shown == table.floats[l]
                     full == json.response_stats.float_fields[l]
                 IN  /\ shown.at = full.at
                     /\ <<shown.min, shown.max>> = <<full.min, full.max>>
                     /\ full.min <= full.at[50] /\ full.at[50] <= full.at[95]
                     /\ full.at[95] <= full.at[99] /\ full.at[99] <= full.max
      <4> DEFINE h == acc.response.floats[l]
      <4>1. l \in DOMAIN acc.response.floats
        BY <2>3
      <4>2. h.samples # <<>> /\ h.samples \in Seq(Int) /\ Len(h.samples) <= MaxSamples
        <5>1. l \in Labels /\ h.samples # <<>>
          BY <1>1, <4>1 DEF RInv, FieldsRight
        <5>2. FloatsOf(At(acc.response.floats, l, EmptyNumeric), noted[l])
          BY <1>1, <5>1 DEF RInv, FieldsRight
        <5>3. At(acc.response.floats, l, EmptyNumeric) = h
          BY <4>1 DEF At
        <5>4. Len(h.samples) = Least(MaxSamples, h.seen) /\ h.samples \in Seq(Int)
          BY <5>2, <5>3 DEF FloatsOf
        <5>5. MaxSamples \in Nat /\ h.seen \in Nat
          <6>1. noted[l] \in Seq(Marks)
            BY <1>1, <5>1 DEF RInv, Shapes
          <6>2. DOMAIN noted[l] = 1..Len(noted[l]) /\ Len(noted[l]) \in Nat
            BY <6>1, LenProperties
          <6>3. OfKind(noted[l], "FLOAT") \in SUBSET DOMAIN noted[l]
            BY DEF OfKind
          <6>4. IsFiniteSet(OfKind(noted[l], "FLOAT"))
            <7>1. IsFiniteSet(DOMAIN noted[l])
              BY <6>2, FS_Interval
            <7> QED BY <6>3, <7>1, FS_Subset
          <6>5. Cardinality(OfKind(noted[l], "FLOAT")) \in Nat
            BY <6>4, FS_CardinalityType
          <6> QED BY <5>2, <5>3, <6>5, ReportAssumption DEF FloatsOf
        <5> HIDE DEF h
        <5> QED BY <5>1, <5>4, <5>5 DEF Least
      <4>3. table.floats[l] = TableFloat(h)
            /\ json.response_stats.float_fields[l] = FloatSummary(h)
        BY <2>3, <3>2, <4>1
      <4> HIDE DEF h
      <4> QED BY <4>2, <4>3, FloatsAgree
    <3> QED BY <2>3, <3>2, <3>3
  <2> QED BY <2>6, <2>7, <2>8 DEF TableAgrees
<1> QED BY <1>1, RInvCorrect, PTL

-----------------------------------------------------------------------------
(* The latency chart *)

\* A latency in the chart has one of its bars.
LEMMA BarInChart ==
    ASSUME NEW d \in Nat, NEW low \in Nat, NEW high \in Nat, low < high, InChart(d, low, high)
    PROVE  BarOf(d, low, high) \in 1..Bars
<1> DEFINE i == ((d - low) * Bars) \div (high - low)
<1>1. Bars \in Nat \ {0} /\ d - low \in Nat /\ high - low \in Nat \ {0}
    BY ReportAssumption DEF InChart
<1>2. \A m, n \in Nat : m * n \in Nat
    OBVIOUS
<1>3. \A m \in Nat : \A n \in Nat \ {0} : m \div n \in Nat
    OBVIOUS
<1> DEFINE m == (d - low) * Bars
           n == high - low
<1>4. m \in Nat /\ n \in Nat \ {0}
    BY <1>1, <1>2
<1> HIDE DEF m, n
<1>5. m \div n \in Nat
    BY <1>3, <1>4
<1>6. i \in Nat
    BY <1>5 DEF m, n
<1>7. BarOf(d, low, high) = IF i < Bars - 1 THEN i + 1 ELSE Bars
    BY DEF BarOf
<1> HIDE DEF i
<1> QED BY <1>1, <1>6, <1>7

\* Of the latencies measured, only the largest may be beyond the end of the
\* chart: if its way through milliseconds loses a microsecond.
LEMMA OutOfChart ==
    ASSUME NEW hist \in [1..MaxLatency -> Nat], NEW d \in 1..MaxLatency, hist[d] > 0
    PROVE  InChart(d, Micros(Lowest(hist)), Micros(Highest(hist)))
                <=> ~(d = Highest(hist) /\ d \in Lossy)
<1> DEFINE low == Lowest(hist)
           high == Highest(hist)
<1>1. /\ low \in 1..MaxLatency /\ high \in 1..MaxLatency
      /\ low <= d /\ d <= high
    BY LatencyEnds
<1>2. MaxLatency \in Nat
    BY ReportAssumption
<1> HIDE DEF low, high
<1>3. /\ Micros(low) \in Int /\ Micros(low) <= low
      /\ high \in Lossy => Micros(high) = high - 1
      /\ high \notin Lossy => Micros(high) = high
    BY <1>1, <1>2 DEF Micros
<1>4. CASE high \in Lossy
  <2>1. Micros(high) = high - 1
    BY <1>3, <1>4
  <2>2. InChart(d, Micros(low), Micros(high)) <=> d # high
    BY <1>1, <1>2, <1>3, <2>1 DEF InChart
  <2> QED BY <1>4, <2>2 DEF low, high
<1>5. CASE high \notin Lossy
  <2>1. Micros(high) = high
    BY <1>3, <1>5
  <2>2. InChart(d, Micros(low), Micros(high))
    BY <1>1, <1>2, <1>3, <2>1 DEF InChart
  <2> QED BY <1>5, <2>2 DEF low, high
<1> QED BY <1>4, <1>5

\* The bars of a chart add up to what is in it.
LEMMA BarsAddUp ==
    ASSUME NEW hist \in [1..MaxLatency -> Nat], LatencyBars(hist) # <<>>
    PROVE  SumFunction(LatencyBars(hist))
                = Samples(hist) - (IF Highest(hist) \in Lossy THEN hist[Highest(hist)] ELSE 0)
<1> DEFINE low == Micros(Lowest(hist))
           high == Micros(Highest(hist))
           top == Highest(hist)
           D == 1..MaxLatency
           B == 1..Bars
           within(d) == InChart(d, low, high)
           bar(d) == BarOf(d, low, high)
           g == [d \in D |-> IF within(d) THEN hist[d] ELSE 0]
           c == [d \in D |-> IF within(d) THEN bar(d) ELSE 1]
           bars == LatencyBars(hist)
<1>1. IsFiniteSet(D) /\ IsFiniteSet(B) /\ MaxLatency \in Nat /\ Bars \in Nat \ {0}
    BY ReportAssumption, FS_Interval
<1>2. DOMAIN hist = D
    OBVIOUS
<1>3. Samples(hist) # 0 /\ ~(low >= high)
    BY DEF LatencyBars
<1>4. bars = [b \in B |-> SumFunction([d \in D |->
                        IF within(d) /\ bar(d) = b THEN hist[d] ELSE 0])]
    BY <1>2 DEF LatencyBars
<1>5. Lowest(hist) \in D /\ top \in D /\ hist[top] > 0
    BY <1>3, LatencyEnds
<1>6. low \in Nat /\ high \in Nat /\ low < high
    BY <1>1, <1>3, <1>5 DEF Micros
<1>7. \A d \in D : within(d) => bar(d) \in B
  <2> SUFFICES ASSUME NEW d \in D, InChart(d, low, high) PROVE BarOf(d, low, high) \in B
    OBVIOUS
  <2>1. d \in Nat
    BY <1>1
  <2> HIDE DEF low, high
  <2> QED BY <1>6, <2>1, BarInChart
<1>8. \A d \in D : hist[d] > 0 => (within(d) <=> ~(d = top /\ d \in Lossy))
    BY OutOfChart
<1>9. Samples(hist) = SumFunctionOnSet(hist, D)
    BY <1>2 DEF Samples, SumFunction
<1>10. \A d \in D : hist[d] \in Nat
    OBVIOUS
<1> HIDE DEF low, high, top, within, bar
<1>11. \A d \in D : g[d] = IF within(d) THEN hist[d] ELSE 0
    OBVIOUS
<1>12. IntValued(hist, D) /\ IntValued(g, D)
    BY <1>10, <1>11 DEF IntValued
<1>13. SumFunctionOnSet(bars, B) = SumFunctionOnSet(g, D)
  <2>1. c \in [D -> B]
    BY <1>1, <1>7
  <2>2. ASSUME NEW b \in B PROVE bars[b] = SumFunctionOnSet(Group(c, g, D, b), D)
    <3> DEFINE part == [d \in D |-> IF within(d) /\ bar(d) = b THEN hist[d] ELSE 0]
    <3>1. part = Group(c, g, D, b)
      BY DEF Group
    <3>2. bars[b] = SumFunction(part) /\ DOMAIN part = D
      BY <1>4
    <3> HIDE DEF part, g, c, bars
    <3>3. SumFunction(part) = SumFunctionOnSet(part, D)
      BY <3>2 DEF SumFunction
    <3> QED BY <3>1, <3>2, <3>3
  <2> HIDE DEF g, c, bars, D, B
  <2> QED BY <1>1, <1>12, <2>1, <2>2, SumGroups
<1>14. SumFunction(bars) = SumFunctionOnSet(bars, B)
  <2>1. DOMAIN bars = B
    BY <1>4
  <2> HIDE DEF bars
  <2> QED BY <2>1 DEF SumFunction
<1>15. CASE top \in Lossy
  <2>1. g[top] = 0
    BY <1>5, <1>8, <1>11, <1>15
  <2>2. \A d \in D \ {top} : hist[d] = g[d]
    <3> SUFFICES ASSUME NEW d \in D, d # top PROVE hist[d] = g[d]
      OBVIOUS
    <3>1. CASE hist[d] > 0
      BY <1>8, <1>11, <3>1
    <3>2. CASE ~(hist[d] > 0)
      BY <1>10, <1>11, <3>2
    <3> QED BY <3>1, <3>2
  <2> HIDE DEF g, D
  <2>3. SumFunctionOnSet(g, D) = SumFunctionOnSet(hist, D) - hist[top] + g[top]
    BY <1>1, <1>5, <1>12, <2>2, SumBump
  <2>4. SumFunctionOnSet(hist, D) \in Int /\ hist[top] \in Nat
    BY <1>1, <1>5, <1>10, <1>12, SumInt
  <2>5. SumFunctionOnSet(g, D) = SumFunctionOnSet(hist, D) - hist[top]
    BY <2>1, <2>3, <2>4
  <2> QED BY <1>9, <1>13, <1>14, <1>15, <2>5 DEF top
<1>16. CASE top \notin Lossy
  <2>1. \A d \in D : g[d] = hist[d]
    <3> SUFFICES ASSUME NEW d \in D PROVE hist[d] = g[d]
      OBVIOUS
    <3>1. CASE hist[d] > 0
      BY <1>8, <1>11, <1>16, <3>1
    <3>2. CASE ~(hist[d] > 0)
      BY <1>10, <1>11, <3>2
    <3> QED BY <3>1, <3>2
  <2> HIDE DEF g, D
  <2>2. SumFunctionOnSet(g, D) = SumFunctionOnSet(hist, D)
    BY <1>1, <1>12, <2>1, SumEqual
  <2>3. SumFunctionOnSet(hist, D) \in Int
    BY <1>1, <1>12, SumInt
  <2>4. SumFunction(bars) = Samples(hist) - 0
    BY <1>9, <1>13, <1>14, <2>2, <2>3
  <2> QED BY <1>16, <2>4 DEF top
<1> QED BY <1>15, <1>16

\* The bars of the latency chart are all the requests measured, but for those
\* at a maximum that loses its last microsecond (print_latency_histogram).
THEOREM BarsAreTheRequests == Spec => []BarsAccount
<1>1. ASSUME RInv PROVE BarsAccount
  <2> SUFFICES ASSUME table # None, table.bars # <<>>
               PROVE  SumFunction(table.bars) = Samples(acc.run.latency)
                        - (IF Highest(acc.run.latency) \in Lossy
                             THEN acc.run.latency[Highest(acc.run.latency)] ELSE 0)
    BY DEF BarsAccount
  <2>1. table = Table
    BY <1>1 DEF RInv, ReportsLast
  <2>2. table.bars = LatencyBars(acc.run.latency)
    BY <2>1 DEF Table
  <2>3. acc.run.latency \in [1..MaxLatency -> Nat]
    BY <1>1 DEF RInv, RowsRight, FullRow, RowOf
  <2> QED BY <2>2, <2>3, BarsAddUp
<1> QED BY <1>1, RInvCorrect, PTL
=============================================================================
