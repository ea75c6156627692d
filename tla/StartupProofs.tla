---------------------------- MODULE StartupProofs ----------------------------
(***************************************************************************)
(* Proofs about what becomes of flags, settings and headers, for every    *)
(* command line and every file, however many headers, scenarios and steps *)
(* they have and in whatever order the maps are traversed; and about the  *)
(* VUs each scenario gets, however many of either there are.              *)
(***************************************************************************)
EXTENDS Startup, SumProofs, SequenceTheorems, FiniteSetTheorems, WellFoundedInduction, TLAPS

-----------------------------------------------------------------------------
(* Layers of headers *)

\* `got` has each header that `all` names, once, from the innermost layer.
Layered(got, all) ==
    /\ \A g \in all : \E h \in got : h.name = g.name
    /\ \A h \in got : \A g \in all : g.name = h.name => Rank(g) <= Rank(h)
    /\ \A g, h \in got : g.name = h.name => g = h \/ (g.layer = "file" /\ h.layer = "file")

\* The rank of each layer, read off Layers.
LEMMA Ranks ==
    ASSUME NEW h
    PROVE  /\ h.layer = "file" => Rank(h) = 1
           /\ h.layer = "flag" => Rank(h) = 2
           /\ h.layer = "scenario" => Rank(h) = 3
           /\ h.layer = "step" => Rank(h) = 4
<1>1. /\ DOMAIN Layers = 1..4 /\ Layers[1] = "file" /\ Layers[2] = "flag"
      /\ Layers[3] = "scenario" /\ Layers[4] = "step"
    BY DEF Layers
<1>2. ASSUME NEW k \in 1..4, h.layer = Layers[k] PROVE Rank(h) = k
  <2>1. \A r \in 1..4 : Layers[r] = h.layer => r = k
    BY <1>1, <1>2
  <2>2. k \in DOMAIN Layers /\ Layers[k] = h.layer
    BY <1>1, <1>2
  <2> QED BY <1>1, <2>1, <2>2 DEF Rank
<1> QED BY <1>1, <1>2

\* merge_headers_into keeps the layers in order.
LEMMA MergeLayers ==
    ASSUME NEW base, NEW all, NEW incoming, NEW merged \in Merges(base, incoming),
           Layered(base, all),
           \A h \in incoming : \A g \in all \cup incoming : Rank(g) <= Rank(h)
    PROVE  Layered(merged, all \cup incoming) /\ merged \subseteq base \cup incoming
<1>1. PICK last \in SUBSET incoming :
        /\ merged = {b \in base : \A h \in incoming : ~SameHeader(b, h)} \cup last
        /\ \A h \in incoming : \E g \in last : SameHeader(h, g)
        /\ \A g, h \in last : SameHeader(g, h) => g = h
    BY DEF Merges
<1>2. ASSUME NEW g \in all \cup incoming PROVE \E h \in merged : h.name = g.name
  <2>1. CASE \E h \in incoming : h.name = g.name
    BY <1>1, <2>1 DEF SameHeader
  <2>2. CASE \A h \in incoming : h.name # g.name
    <3>1. PICK b \in base : b.name = g.name
        BY <2>2 DEF Layered
    <3> QED BY <1>1, <2>2, <3>1 DEF SameHeader
  <2> QED BY <2>1, <2>2
<1>3. ASSUME NEW h \in merged, NEW g \in all \cup incoming, g.name = h.name
      PROVE  Rank(g) <= Rank(h)
  <2>1. CASE h \in last
    BY <1>1, <2>1
  <2>2. CASE h \in base /\ \A i \in incoming : ~SameHeader(h, i)
    <3>1. g \in all
        BY <1>3, <2>2 DEF SameHeader
    <3> QED BY <1>3, <2>2, <3>1 DEF Layered
  <2> QED BY <1>1, <2>1, <2>2
<1>4. ASSUME NEW g \in merged, NEW h \in merged, g.name = h.name
      PROVE  g = h \/ (g.layer = "file" /\ h.layer = "file")
  <2>1. CASE g \in last /\ h \in last
    BY <1>1, <1>4, <2>1 DEF SameHeader
  <2>2. CASE g \in base /\ h \in base
    BY <1>4, <2>2 DEF Layered
  <2>3. ASSUME NEW x \in last, NEW y \in merged, y \notin last, x.name = y.name PROVE FALSE
    BY <1>1, <2>3 DEF SameHeader
  <2> QED BY <1>1, <1>4, <2>1, <2>2, <2>3
<1> QED BY <1>1, <1>2, <1>3, <1>4 DEF Layered

\* Of two flags of one name the later is kept.
LEMMA LastOfName ==
    ASSUME NEW headers, headers \in Seq(HeadersOf("flag")), cli.headers = headers,
           NEW n \in DOMAIN headers
    PROVE  \E h \in LastFlags : h.name = headers[n].name
<1> DEFINE L == Len(headers)
           Later == {k \in DOMAIN headers : headers[k].name = headers[n].name}
           T == {L - k : k \in Later}
<1>1. L \in Nat /\ DOMAIN headers = 1..L
    BY LenProperties
<1>2. T \subseteq Nat /\ T # {}
    BY <1>1
<1>3. PICK x \in T : \A y \in T : ~(<<y, x>> \in OpToRel(<, Nat))
  <2> HIDE DEF T
  <2> QED BY <1>2, NatLessThanWellFounded, WFMin
<1>4. PICK k \in Later : x = L - k
    OBVIOUS
<1>5. ASSUME NEW m \in Later PROVE ~(m > k)
  <2>1. L - m \in T /\ L - m \in Nat /\ x \in Nat
    BY <1>1, <1>2
  <2>2. ~(L - m < x)
    <3> HIDE DEF T
    <3> QED BY <1>3, <2>1 DEF OpToRel
  <2> QED BY <1>1, <1>4, <2>1, <2>2
<1>6. headers[k] \in LastFlags
    BY <1>5 DEF LastFlags, SameHeader
<1> QED BY <1>4, <1>6

\* Of the --header flags the last of each name is left.
LEMMA FlagsOnce ==
    ASSUME cli.headers \in Seq(HeadersOf("flag"))
    PROVE  /\ LastFlags \subseteq HeadersOf("flag")
           /\ \A g, h \in LastFlags : g.name = h.name => g = h
<1>1. DOMAIN cli.headers = 1..Len(cli.headers) /\ Len(cli.headers) \in Nat
      /\ \A i \in DOMAIN cli.headers : cli.headers[i] \in HeadersOf("flag")
    BY LenProperties, ElementOfSeq
<1>2. LastFlags \subseteq HeadersOf("flag")
    BY <1>1 DEF LastFlags
<1>3. ASSUME NEW g \in LastFlags, NEW h \in LastFlags, g.name = h.name PROVE g = h
  <2>1. PICK n \in DOMAIN cli.headers : g = cli.headers[n] /\
            \A m \in DOMAIN cli.headers : m > n => ~SameHeader(cli.headers[n], cli.headers[m])
    BY DEF LastFlags
  <2>2. PICK k \in DOMAIN cli.headers : h = cli.headers[k] /\
            \A m \in DOMAIN cli.headers : m > k => ~SameHeader(cli.headers[k], cli.headers[m])
    BY DEF LastFlags
  <2>3. ~(n > k) /\ ~(k > n)
    BY <1>3, <2>1, <2>2 DEF SameHeader
  <2> QED BY <1>1, <2>1, <2>2, <2>3
<1> QED BY <1>2, <1>3

\* What a variable expands to has no bearing on names and layers, and what is
\* referred to before is referred to after.
LEMMA Expanded ==
    ASSUME NEW h \in Headers
    PROVE  /\ Expand(h) \in Headers
           /\ Expand(h).name = h.name /\ Expand(h).layer = h.layer
           /\ h.refs \subseteq Expand(h).refs
           /\ Rank(Expand(h)) = Rank(h)
    BY DEF Expand, Headers, Texts, Rank

\* Expanding the references in the values leaves names and layers alone.
LEMMA ExpandedLayers ==
    ASSUME NEW got \in SUBSET Headers, NEW all, Layered(got, all)
    PROVE  Layered(ExpandAll(got), all) /\ ExpandAll(got) \subseteq Headers
<1>1. \A x \in ExpandAll(got) : \E h \in got : x = Expand(h)
    BY DEF ExpandAll
<1>2. \A h \in got : Expand(h) \in ExpandAll(got)
    BY DEF ExpandAll
<1>3. \A h \in got : /\ Expand(h) \in Headers /\ Expand(h).name = h.name
                     /\ Expand(h).layer = h.layer /\ Rank(Expand(h)) = Rank(h)
    BY Expanded
<1> QED BY <1>1, <1>2, <1>3 DEF Layered

-----------------------------------------------------------------------------
(* Settings *)

\* What the two resolutions and the last one make of a setting.
AfterExecution(s) ==
    CASE s \in {"output", "output_file", "rps"} -> Pick(s)
      [] s = "load_curve" -> CurveSource
      [] s \in CountFlags -> IF CurveSource = "unused" THEN Pick(s) ELSE "unused"
      [] OTHER -> "unused"

AfterRequest(s) ==
    CASE s \in {"host", "method", "request_template"} -> Pick(s)
      [] s \in {"body", "response_template"} -> IF s \in cli.flags THEN "flag" ELSE "default"
      [] OTHER -> AfterExecution(s)

BeforePublish(s) == IF ScenarioMode THEN AfterExecution(s) ELSE AfterRequest(s)

AtTheEnd(s) == IF s = "publish_url" /\ Publishes THEN PublishSource ELSE BeforePublish(s)

Settled ==
    /\ pc \in {"parse", "execution"} => settings = [s \in Settings |-> "unused"]
    /\ pc \in {"headers", "request", "step"} =>
        settings = [s \in Settings |-> AfterExecution(s)]
    /\ pc = "publish" => settings = [s \in Settings |-> BeforePublish(s)]
    /\ pc = "ready" => settings = [s \in Settings |-> AtTheEnd(s)]

Inputs == cli \in CommandLines /\ file \in Files

SInv == Inputs /\ Settled

\* What is computed from the inputs stays as they stay.
LEMMA SameInputs ==
    ASSUME UNCHANGED inputs
    PROVE  /\ \A s : /\ AfterExecution(s)' = AfterExecution(s)
                     /\ BeforePublish(s)' = BeforePublish(s)
                     /\ AtTheEnd(s)' = AtTheEnd(s)
           /\ Inputs' = Inputs
    BY DEF inputs, AfterExecution, AfterRequest, BeforePublish, AtTheEnd, Pick, CurveSource,
           ScenarioMode, Publishes, PublishSource, Inputs

\* Each setting is settled by one step of the start and left alone by the rest.
LEMMA SInvNext == SInv /\ [Next]_vars => SInv'
<1> SUFFICES ASSUME SInv, [Next]_vars PROVE SInv'
    OBVIOUS
<1>1. UNCHANGED inputs
    BY DEF Next, vars, inputs, Parse, ResolveExecution, ResolveHeaders, SingleRequest,
           BeginScenario, ResolveStep, EndScenario, EndScenarios, ResolvePublish, SpawnVU,
           SpawnPanics
<1>2. Inputs'
    BY <1>1, SameInputs DEF SInv
<1>s. ASSUME settings' = settings,
             \/ pc' = pc
             \/ pc' \in {"rejected", "panicked"}
             \/ pc = "parse" /\ pc' = "execution"
             \/ {pc, pc'} \subseteq {"headers", "request", "step"}
             \/ pc = "request" /\ pc' = "publish" /\ ScenarioMode
      PROVE  Settled'
    BY <1>s, <1>1, SameInputs DEF SInv, Settled, BeforePublish
<1>3. ASSUME Parse PROVE Settled'
    BY <1>3, <1>s DEF Parse, Reject
<1>4. ASSUME ResolveExecution PROVE Settled'
  <2>1. CASE pc' = "rejected"
    BY <2>1 DEF Settled
  <2>2. CASE pc' # "rejected"
    <3>1. pc' = "headers" /\ settings' = [s \in Settings |-> ExecutionSource(s)]
          /\ settings = [s \in Settings |-> "unused"]
        BY <1>4, <2>2 DEF ResolveExecution, Reject, SInv, Settled
    <3>2. \A s \in Settings : ExecutionSource(s) = AfterExecution(s)
        BY <3>1 DEF ExecutionSource, AfterExecution, CountFlags
    <3>3. settings' = [s \in Settings |-> AfterExecution(s)]
        BY <3>1, <3>2
    <3> QED BY <1>1, <3>1, <3>3, SameInputs DEF Settled
  <2> QED BY <2>1, <2>2
<1>5. ASSUME ResolveHeaders PROVE Settled'
    BY <1>5, <1>s DEF ResolveHeaders, Reject
<1>6. ASSUME SingleRequest PROVE Settled'
  <2>1. CASE pc' = "rejected"
    BY <2>1 DEF Settled
  <2>2. CASE pc' # "rejected"
    <3>1. pc' = "publish" /\ settings' = [s \in Settings |-> RequestSource(s)]
          /\ settings = [s \in Settings |-> AfterExecution(s)] /\ ~ScenarioMode
        BY <1>6, <2>2 DEF SingleRequest, Reject, SInv, Settled
    <3>2. \A s \in Settings : RequestSource(s) = BeforePublish(s)
        BY <3>1 DEF RequestSource, BeforePublish, AfterRequest
    <3>3. settings' = [s \in Settings |-> BeforePublish(s)]
        BY <3>1, <3>2
    <3> QED BY <1>1, <3>1, <3>3, SameInputs DEF Settled
  <2> QED BY <2>1, <2>2
<1>7. ASSUME BeginScenario \/ ResolveStep \/ EndScenario PROVE Settled'
    BY <1>7, <1>s DEF BeginScenario, ResolveStep, EndScenario, Reject
<1>8. ASSUME EndScenarios PROVE Settled'
    BY <1>8, <1>s DEF EndScenarios
<1>9. ASSUME ResolvePublish PROVE Settled'
  <2>1. /\ pc' = "ready" /\ settings = [s \in Settings |-> BeforePublish(s)]
        /\ settings' = IF Publishes THEN [settings EXCEPT !["publish_url"] = PublishSource]
                       ELSE settings
    BY <1>9 DEF ResolvePublish, SInv, Settled
  <2>2. settings' = [s \in Settings |-> AtTheEnd(s)]
    BY <2>1 DEF AtTheEnd
  <2> QED BY <1>1, <2>1, <2>2, SameInputs DEF Settled
<1>10. ASSUME SpawnVU \/ SpawnPanics \/ UNCHANGED vars PROVE Settled'
    BY <1>10, <1>s DEF SpawnVU, SpawnPanics, vars
<1>11. Settled'
    BY <1>3, <1>4, <1>5, <1>6, <1>7, <1>8, <1>9, <1>10 DEF Next
<1> QED BY <1>2, <1>11 DEF SInv

\* The invariant implies the property.
LEMMA SInvNothingLost == SInv => NothingLost
<1> SUFFICES ASSUME SInv, pc = "ready" PROVE NothingLost
    BY DEF NothingLost
<1>1. settings = [s \in Settings |-> AtTheEnd(s)]
    BY DEF SInv, Settled
<1>2. /\ cli.flags \subseteq Flags /\ file.keys \subseteq FileKeys
      /\ "load_curve" \in cli.flags => cli.flags \cap CountFlags = {}
    BY InputsAssumption DEF ClapAccepts, CountFlags, SInv, Inputs, ConfigFiles
<1>3. ASSUME NEW f \in cli.flags
      PROVE  \/ settings[f] = "flag"
             \/ f \in CountFlags /\ "stages" \in file.keys
             \/ f \in RequestFlags /\ ScenarioMode
  <2>1. f \in Settings /\ settings[f] = AtTheEnd(f) /\ Pick(f) = "flag"
    BY <1>1, <1>2 DEF Settings, Pick
  <2>2. CASE f = "publish_url"
    BY <2>1, <2>2 DEF AtTheEnd, Publishes, PublishSource
  <2>3. CASE f = "load_curve"
    BY <2>1, <2>3 DEF AtTheEnd, BeforePublish, AfterRequest, AfterExecution, CurveSource,
                      CountFlags
  <2>4. CASE f \in CountFlags
    BY <1>2, <2>1, <2>4 DEF AtTheEnd, BeforePublish, AfterRequest, AfterExecution, CurveSource,
                      CountFlags
  <2>5. CASE f \in RequestFlags
    BY <2>1, <2>5 DEF AtTheEnd, BeforePublish, AfterRequest, RequestFlags
  <2>6. CASE f \in {"output", "output_file", "rps"}
    BY <1>2, <2>1, <2>6 DEF AtTheEnd, BeforePublish, AfterRequest, AfterExecution, CountFlags
  <2> QED BY <2>1, <2>2, <2>3, <2>4, <2>5, <2>6 DEF Settings, Flags, CountFlags, RequestFlags
<1>4. ASSUME NEW s \in file.keys \cap Settings, settings[s] = "default"
      PROVE  s = "response_template"
  <2>1. AtTheEnd(s) = "default" /\ Pick(s) # "default" /\ s # "body" /\ CurveSource # "default"
    BY <1>1, <1>2, <1>4 DEF Pick, FileKeys, CurveSource
  <2>2. BeforePublish(s) = "default"
    BY <2>1 DEF AtTheEnd, PublishSource
  <2>3. AfterExecution(s) # "default"
    BY <2>1 DEF AfterExecution
  <2> QED BY <2>1, <2>2, <2>3 DEF BeforePublish, AfterRequest
<1>5. ASSUME NEW s \in CountFlags
      PROVE  settings[s] = "unused" <=> settings["load_curve"] # "unused"
  <2>1. s \in Settings /\ "load_curve" \in Settings
    BY DEF Settings, Flags, CountFlags
  <2>2. settings["load_curve"] = CurveSource
    BY <1>1, <2>1 DEF AtTheEnd, BeforePublish, AfterRequest, AfterExecution, CountFlags
  <2>3. settings[s] = IF CurveSource = "unused" THEN Pick(s) ELSE "unused"
    BY <1>1, <2>1 DEF AtTheEnd, BeforePublish, AfterRequest, AfterExecution, CountFlags
  <2>4. Pick(s) # "unused"
    BY DEF Pick
  <2> QED BY <2>2, <2>3, <2>4
<1> QED BY <1>3, <1>4, <1>5 DEF NothingLost

\* No flag and no setting of a file disappears, except where the mode of the
\* run makes it meaningless, or it is the response template of a file.
\* About: the chains from flag to file to default, and the three places that
\* choose a mode, for every command line and file.
THEOREM SettingsAreKept == Spec => []NothingLost
<1>1. Init => SInv
    BY DEF Init, SInv, Inputs, Settled
<1>2. SInv /\ [Next]_vars => SInv'
    BY SInvNext
<1>3. SInv => NothingLost
    BY SInvNothingLost
<1> QED BY <1>1, <1>2, <1>3, PTL DEF Spec

-----------------------------------------------------------------------------
(* Headers and references *)

Outer == file.headers \cup {cli.headers[k] : k \in DOMAIN cli.headers}

\* Step i of scenario n sends its headers by layer; those that are its own are
\* what the headers it was written with expand to.
StepRight(got, n, i) ==
    /\ Layered(got, HeadersFor(n, i))
    /\ \A h \in got : h.layer = "step" =>
        \E g \in file.scenarios[n].steps[i].headers : h = Expand(g)

HeaderTypes ==
    /\ globals \in SUBSET Headers /\ inherited \in SUBSET Headers
    /\ \A h \in globals \cup inherited : h.layer # "step"
    /\ sent \in Seq(SUBSET Headers)
    /\ resolved \in Seq(Seq(SUBSET Headers)) /\ Len(resolved) <= Len(file.scenarios)

\* Past its parsing the file is valid; in the midst of a scenario there is one.
Place ==
    /\ pc \in {"execution", "headers", "request", "step", "publish", "ready"} => ParseConfig(file)
    /\ pc = "step" => /\ ScenarioMode
                      /\ Len(resolved) < Len(file.scenarios)
                      /\ Len(sent) <= Len(Current.steps)

GlobalsRight == pc \in {"request", "step"} => Layered(globals, Outer)

InheritedRight == pc = "step" => Layered(inherited, Outer \cup Current.headers)

SentRight ==
    pc = "step" => \A i \in DOMAIN sent : StepRight(sent[i], Len(resolved) + 1, i)

\* The check of the references has been passed, and no step has two bodies.
ScenarioRight(n) ==
    \A i \in DOMAIN resolved[n] :
        /\ StepRight(resolved[n][i], n, i)
        /\ i \in DOMAIN file.scenarios[n].steps
        /\ file.scenarios[n].steps[i].body # "both"
        /\ ScannedRefs(file.scenarios[n].steps[i]) \subseteq Captured(file.scenarios[n], i)

ResolvedRight == \A n \in DOMAIN resolved : ScenarioRight(n)

HInv ==
    /\ Inputs /\ HeaderTypes /\ Place /\ GlobalsRight /\ InheritedRight /\ SentRight
    /\ ResolvedRight

\* The parts of a file and of a command line that a resolver reads.
LEMMA FileTypes ==
    ASSUME Inputs
    PROVE  /\ file.headers \subseteq HeadersOf("file")
           /\ cli.headers \in Seq(HeadersOf("flag"))
           /\ Len(file.scenarios) \in Nat
           /\ \A n \in 1..Len(file.scenarios) :
                /\ n \in DOMAIN file.scenarios
                /\ file.scenarios[n].headers \subseteq HeadersOf("scenario")
                /\ Len(file.scenarios[n].steps) \in Nat
                /\ \A i \in 1..Len(file.scenarios[n].steps) :
                    /\ i \in DOMAIN file.scenarios[n].steps
                    /\ file.scenarios[n].steps[i] \in StepConfigs
                    /\ file.scenarios[n].steps[i].headers \subseteq HeadersOf("step")
<1>1. file \in ConfigFiles /\ cli.headers \in Seq(HeadersOf("flag"))
    BY InputsAssumption DEF Inputs
<1>2. file.headers \subseteq HeadersOf("file") /\ file.scenarios \in Seq(ScenarioConfigs)
    BY <1>1 DEF ConfigFiles
<1>3. Len(file.scenarios) \in Nat /\ DOMAIN file.scenarios = 1..Len(file.scenarios)
    BY <1>2, LenProperties
<1>4. ASSUME NEW n \in 1..Len(file.scenarios)
      PROVE  /\ file.scenarios[n].headers \subseteq HeadersOf("scenario")
             /\ Len(file.scenarios[n].steps) \in Nat
             /\ \A i \in 1..Len(file.scenarios[n].steps) :
                    /\ i \in DOMAIN file.scenarios[n].steps
                    /\ file.scenarios[n].steps[i] \in StepConfigs
  <2>1. file.scenarios[n] \in ScenarioConfigs
    BY <1>2, ElementOfSeq
  <2>2. /\ file.scenarios[n].headers \subseteq HeadersOf("scenario")
        /\ file.scenarios[n].steps \in Seq(StepConfigs)
    BY <2>1 DEF ScenarioConfigs
  <2> QED BY <2>2, LenProperties, ElementOfSeq
<1>5. \A step \in StepConfigs : step.headers \subseteq HeadersOf("step")
    BY DEF StepConfigs
<1> QED BY <1>1, <1>2, <1>3, <1>4, <1>5

\* The headers of the run, file and flags merged.
LEMMA GlobalHeaders ==
    ASSUME Inputs
    PROVE  LET last == LastFlags
               all == {h \in file.headers : \A g \in last : ~SameHeader(h, g)} \cup last
           IN  /\ Layered(all, Outer) /\ all \in SUBSET Headers
               /\ \A h \in all : h.layer # "step"
<1> DEFINE all == {h \in file.headers : \A g \in LastFlags : ~SameHeader(h, g)} \cup LastFlags
<1>1. /\ file.headers \subseteq HeadersOf("file") /\ LastFlags \subseteq HeadersOf("flag")
      /\ \A g, h \in LastFlags : g.name = h.name => g = h
    BY FileTypes, FlagsOnce
<1>2. \A h \in file.headers : h.layer = "file" /\ Rank(h) = 1
    BY <1>1, Ranks DEF HeadersOf
<1>3. \A h \in HeadersOf("flag") : h.layer = "flag" /\ Rank(h) = 2
    BY Ranks DEF HeadersOf
<1>4. all \in Merges(file.headers, LastFlags)
  <2>1. LastFlags \in {some \in SUBSET LastFlags :
                        /\ \A h \in LastFlags : \E g \in some : SameHeader(h, g)
                        /\ \A g, h \in some : SameHeader(g, h) => g = h}
    BY <1>1 DEF SameHeader
  <2> QED BY <2>1 DEF Merges
<1>5. Layered(file.headers, file.headers)
    BY <1>2 DEF Layered
<1>6. Layered(all, file.headers \cup LastFlags)
  <2>1. \A h \in LastFlags : \A g \in file.headers \cup LastFlags : Rank(g) <= Rank(h)
    BY <1>1, <1>2, <1>3
  <2> HIDE DEF all
  <2> QED BY <1>4, <1>5, <2>1, MergeLayers
<1>7. ASSUME NEW k \in DOMAIN cli.headers
      PROVE  \E h \in LastFlags : h.name = cli.headers[k].name /\ Rank(cli.headers[k]) = Rank(h)
  <2>1. cli.headers \in Seq(HeadersOf("flag"))
    BY FileTypes
  <2>2. PICK h \in LastFlags : h.name = cli.headers[k].name
    BY <2>1, LastOfName
  <2>3. cli.headers[k] \in HeadersOf("flag")
    BY <2>1, LenProperties, ElementOfSeq
  <2> QED BY <1>1, <1>3, <2>2, <2>3
<1> HIDE DEF all
<1>8. Layered(all, Outer)
    BY <1>6, <1>7 DEF Layered, Outer
<1>9. all \in SUBSET Headers /\ \A h \in all : h.layer # "step"
    BY <1>1, <1>2, <1>3 DEF all, HeadersOf
<1> QED BY <1>8, <1>9 DEF all

\* Headers from outside the scenarios rank below those of the scenarios.
LEMMA OuterRanks ==
    ASSUME Inputs
    PROVE  \A h \in Outer : Rank(h) \in 1..2
<1>1. \A h \in file.headers : Rank(h) = 1
    BY FileTypes, Ranks DEF HeadersOf
<1>2. \A k \in DOMAIN cli.headers : Rank(cli.headers[k]) = 2
  <2>1. \A k \in DOMAIN cli.headers : cli.headers[k] \in HeadersOf("flag")
    BY FileTypes, LenProperties, ElementOfSeq
  <2> QED BY <2>1, Ranks DEF HeadersOf
<1> QED BY <1>1, <1>2 DEF Outer

\* The invariant holds initially.
LEMMA HInvInit == Init => HInv
<1> SUFFICES ASSUME Init PROVE HInv
    OBVIOUS
<1>1. Inputs /\ Len(file.scenarios) \in Nat
    BY FileTypes DEF Init, Inputs
<1>2. /\ \A S : <<>> \in Seq(S)
      /\ Len(<<>>) = 0 /\ DOMAIN <<>> = {}
    BY EmptySeq
<1>3. HeaderTypes
    BY <1>1, <1>2 DEF Init, HeaderTypes
<1>4. Place /\ GlobalsRight /\ InheritedRight /\ SentRight
    BY DEF Init, Place, GlobalsRight, InheritedRight, SentRight
<1>5. ResolvedRight
    BY <1>2 DEF Init, ResolvedRight
<1> QED BY <1>1, <1>3, <1>4, <1>5 DEF HInv

\* What is said of the resolved scenarios depends on the inputs only.
LEMMA SameScenarios ==
    ASSUME UNCHANGED inputs
    PROVE  /\ Inputs' = Inputs /\ Outer' = Outer /\ ScenarioMode' = ScenarioMode
           /\ ParseConfig(file)' = ParseConfig(file)
           /\ \A got, n, i : StepRight(got, n, i)' = StepRight(got, n, i)
           /\ resolved' = resolved => /\ ResolvedRight' = ResolvedRight
                                      /\ Current' = Current
<1>1. cli' = cli /\ file' = file
    BY DEF inputs
<1>2. Inputs' = Inputs /\ Outer' = Outer /\ ScenarioMode' = ScenarioMode
    BY <1>1 DEF Inputs, Outer, ScenarioMode
<1>3. ParseConfig(file)' = ParseConfig(file)
    BY <1>1 DEF ParseConfig, ValidExecution, ValidScenarios, ValidHeaders, CountOK
<1>4. \A got, n, i : StepRight(got, n, i)' = StepRight(got, n, i)
    BY <1>1 DEF StepRight, HeadersFor
<1>5. ASSUME resolved' = resolved PROVE ResolvedRight' = ResolvedRight /\ Current' = Current
    BY <1>1, <1>4, <1>5 DEF ResolvedRight, ScenarioRight, Current
<1> QED BY <1>2, <1>3, <1>4, <1>5

\* Steps that only move on, outside of a scenario.
LEMMA MoveOn ==
    ASSUME HInv, UNCHANGED <<inputs, globals, inherited, sent, resolved>>,
           Place', GlobalsRight', pc' # "step" \/ pc = "step"
    PROVE  HInv'
<1>1. /\ Inputs' = Inputs /\ Outer' = Outer /\ Current' = Current
      /\ ResolvedRight' = ResolvedRight
      /\ \A got, n, i : StepRight(got, n, i)' = StepRight(got, n, i)
    BY SameScenarios
<1>2. HeaderTypes'
    BY DEF HInv, HeaderTypes, inputs
<1>3. InheritedRight'
    BY <1>1 DEF HInv, InheritedRight
<1>4. SentRight'
    BY <1>1 DEF HInv, SentRight
<1> QED BY <1>1, <1>2, <1>3, <1>4 DEF HInv

\* The file's headers and the flags are merged, or one cannot be expanded.
LEMMA HeadersMerged ==
    ASSUME HInv, ResolveHeaders
    PROVE  HInv'
<1>1. UNCHANGED <<inputs, inherited, sent, resolved>> /\ pc = "headers"
    BY DEF ResolveHeaders
<1> DEFINE all == {h \in file.headers : \A g \in LastFlags : ~SameHeader(h, g)} \cup LastFlags
<1>2. \/ pc' = "rejected" /\ globals' = globals
      \/ pc' = "request" /\ globals' = ExpandAll(all)
    BY DEF ResolveHeaders, Reject
<1>3. Layered(all, Outer) /\ all \in SUBSET Headers /\ \A h \in all : h.layer # "step"
    BY GlobalHeaders DEF HInv
<1>4. Layered(ExpandAll(all), Outer) /\ ExpandAll(all) \subseteq Headers
  <2> HIDE DEF all
  <2> QED BY <1>3, ExpandedLayers
<1>5. \A h \in ExpandAll(all) : h.layer # "step"
    BY <1>3, Expanded DEF ExpandAll
<1> HIDE DEF all
<1>6. HeaderTypes'
    BY <1>1, <1>2, <1>4, <1>5 DEF HInv, HeaderTypes, inputs
<1>7. GlobalsRight'
    BY <1>1, <1>2, <1>4, SameScenarios DEF GlobalsRight
<1>8. Place'
    BY <1>1, <1>2, SameScenarios DEF HInv, Place
<1>9. InheritedRight' /\ SentRight'
    BY <1>2 DEF InheritedRight, SentRight
<1>10. Inputs' /\ ResolvedRight'
    BY <1>1, SameScenarios DEF HInv
<1> QED BY <1>6, <1>7, <1>8, <1>9, <1>10 DEF HInv

\* A scenario inherits the merged headers and lays its own over them.
LEMMA ScenarioBegun ==
    ASSUME HInv, BeginScenario
    PROVE  HInv'
<1>1. /\ UNCHANGED <<inputs, globals, resolved>> /\ pc = "request" /\ pc' = "step" /\ ScenarioMode
      /\ Len(resolved) < Len(file.scenarios) /\ sent' = <<>>
      /\ inherited' \in Merges(globals, Current.headers)
    BY DEF BeginScenario
<1>2. /\ Len(resolved) \in Nat /\ Len(file.scenarios) \in Nat
      /\ Len(resolved) + 1 \in 1..Len(file.scenarios)
    BY <1>1, FileTypes, LenProperties DEF HInv, HeaderTypes
<1>3. /\ Current.headers \subseteq HeadersOf("scenario") /\ Len(Current.steps) \in Nat
    BY <1>2, FileTypes DEF HInv, Current
<1>4. Layered(inherited', Outer \cup Current.headers) /\ inherited' \subseteq globals \cup Current.headers
  <2>1. Layered(globals, Outer)
    BY <1>1 DEF HInv, GlobalsRight
  <2>2. \A h \in Current.headers : Rank(h) = 3
    BY <1>3, Ranks DEF HeadersOf
  <2>3. \A h \in Current.headers : \A g \in Outer \cup Current.headers : Rank(g) <= Rank(h)
    BY <2>2, OuterRanks DEF HInv
  <2>4. PICK merged : merged = inherited'
    OBVIOUS
  <2>5. merged \in Merges(globals, Current.headers)
    BY <1>1, <2>4
  <2> QED BY <2>1, <2>3, <2>4, <2>5, MergeLayers
<1>5. sent' \in Seq(SUBSET Headers) /\ Len(sent') = 0 /\ DOMAIN sent' = {}
    BY <1>1, EmptySeq
<1>6. HeaderTypes'
    BY <1>1, <1>3, <1>4, <1>5 DEF HInv, HeaderTypes, HeadersOf, inputs
<1>7. Place'
    BY <1>1, <1>3, <1>5, SameScenarios DEF HInv, Place, inputs
<1>8. GlobalsRight' /\ InheritedRight' /\ SentRight'
    BY <1>1, <1>4, <1>5, SameScenarios DEF HInv, GlobalsRight, InheritedRight, SentRight
<1>9. Inputs' /\ ResolvedRight'
    BY <1>1, SameScenarios DEF HInv
<1> QED BY <1>6, <1>7, <1>8, <1>9 DEF HInv

\* A step lays its headers over those of its scenario.
LEMMA StepResolved ==
    ASSUME HInv, ResolveStep
    PROVE  HInv'
<1> DEFINE n == Len(resolved) + 1
           i == Len(sent) + 1
           step == Current.steps[i]
<1>1. /\ UNCHANGED <<inputs, globals, inherited, resolved>> /\ pc = "step"
      /\ Len(sent) < Len(Current.steps)
    BY DEF ResolveStep
<1>2. /\ n \in 1..Len(file.scenarios) /\ Current = file.scenarios[n]
      /\ Len(sent) \in Nat /\ Len(Current.steps) \in Nat /\ i \in 1..Len(Current.steps)
  <2>1. Len(resolved) \in Nat /\ Len(sent) \in Nat /\ Len(file.scenarios) \in Nat
    BY LenProperties, FileTypes DEF HInv, HeaderTypes
  <2>2. n \in 1..Len(file.scenarios) /\ Current = file.scenarios[n]
    BY <1>1, <2>1 DEF HInv, Place, Current
  <2>3. Len(Current.steps) \in Nat
    BY <2>2, FileTypes DEF HInv
  <2> QED BY <1>1, <2>1, <2>2, <2>3
<1>3. step \in StepConfigs /\ step.headers \subseteq HeadersOf("step")
    BY <1>2, FileTypes DEF HInv
<1>4. Inputs' /\ ResolvedRight' /\ Current' = Current /\ Outer' = Outer
      /\ \A got, m, k : StepRight(got, m, k)' = StepRight(got, m, k)
    BY <1>1, SameScenarios DEF HInv
<1>5. \/ pc' = "rejected" /\ sent' = sent
      \/ /\ pc' = "step"
         /\ \E merged \in Merges(inherited, step.headers) : sent' = Append(sent, ExpandAll(merged))
    BY <1>1 DEF ResolveStep, Reject
<1>6. CASE pc' = "rejected" /\ sent' = sent
  <2>1. HeaderTypes'
    BY <1>1, <1>6 DEF HInv, HeaderTypes, inputs
  <2> QED BY <1>4, <1>6, <2>1 DEF HInv, Place, GlobalsRight, InheritedRight, SentRight
<1>7. ASSUME NEW merged \in Merges(inherited, step.headers), pc' = "step",
             sent' = Append(sent, ExpandAll(merged))
      PROVE  HInv'
  <2>1. Layered(merged, HeadersFor(n, i)) /\ merged \subseteq inherited \cup step.headers
    <3>1. Layered(inherited, Outer \cup Current.headers)
        BY <1>1 DEF HInv, InheritedRight
    <3>2. \A h \in step.headers : Rank(h) = 4
        BY <1>3, Ranks DEF HeadersOf
    <3>3. \A h \in Current.headers : Rank(h) = 3
        BY <1>2, FileTypes, Ranks DEF HInv, HeadersOf
    <3>4. \A h \in step.headers :
            \A g \in (Outer \cup Current.headers) \cup step.headers : Rank(g) <= Rank(h)
        BY <3>2, <3>3, OuterRanks DEF HInv
    <3>5. /\ Layered(merged, (Outer \cup Current.headers) \cup step.headers)
          /\ merged \subseteq inherited \cup step.headers
      <4> HIDE DEF step
      <4>1. merged \in Merges(inherited, step.headers)
        OBVIOUS
      <4> QED BY <3>1, <3>4, <4>1, MergeLayers
    <3>6. (Outer \cup Current.headers) \cup step.headers = HeadersFor(n, i)
        BY <1>2 DEF Outer, HeadersFor
    <3> QED BY <3>5, <3>6
  <2>2. merged \in SUBSET Headers
    BY <1>3, <2>1 DEF HInv, HeaderTypes, HeadersOf
  <2>3. Layered(ExpandAll(merged), HeadersFor(n, i)) /\ ExpandAll(merged) \subseteq Headers
    BY <2>1, <2>2, ExpandedLayers
  <2>4. ASSUME NEW h \in ExpandAll(merged), h.layer = "step"
        PROVE  \E g \in step.headers : h = Expand(g)
    <3>1. PICK g \in merged : h = Expand(g)
        BY DEF ExpandAll
    <3>2. g.layer = "step"
        BY <2>2, <2>4, <3>1, Expanded
    <3>3. g \in step.headers
        BY <2>1, <3>2 DEF HInv, HeaderTypes
    <3> QED BY <3>1, <3>3
  <2>5. StepRight(ExpandAll(merged), n, i)
    BY <1>2, <2>3, <2>4 DEF StepRight
  <2>6. /\ sent' \in Seq(SUBSET Headers) /\ Len(sent') = i /\ DOMAIN sent' = 1..i
        /\ sent'[i] = ExpandAll(merged) /\ \A k \in 1..Len(sent) : sent'[k] = sent[k]
    <3>1. sent \in Seq(SUBSET Headers) /\ ExpandAll(merged) \in SUBSET Headers
        BY <2>3 DEF HInv, HeaderTypes
    <3>2. /\ sent' \in Seq(SUBSET Headers) /\ Len(sent') = Len(sent) + 1
          /\ \A k \in 1..Len(sent) : sent'[k] = sent[k]
          /\ sent'[Len(sent) + 1] = ExpandAll(merged)
        BY <1>7, <3>1, AppendProperties
    <3> QED BY <3>2, LenProperties
  <2>7. HeaderTypes'
    BY <1>1, <2>6 DEF HInv, HeaderTypes, inputs
  <2>8. Place'
    BY <1>1, <1>2, <1>4, <1>7, <2>6, SameScenarios DEF HInv, Place, inputs
  <2>9. GlobalsRight' /\ InheritedRight'
    BY <1>1, <1>4 DEF HInv, GlobalsRight, InheritedRight
  <2>10. SentRight'
    <3>1. ASSUME NEW k \in 1..i PROVE StepRight(sent'[k], n, k)
      <4>1. CASE k = i
        BY <2>5, <2>6, <4>1
      <4>2. CASE k # i
        <5>1. k \in 1..Len(sent) /\ k \in DOMAIN sent
            BY <1>2, <4>2, LenProperties DEF HInv, HeaderTypes
        <5> QED BY <1>1, <2>6, <5>1 DEF HInv, SentRight
      <4> QED BY <4>1, <4>2
    <3> QED BY <1>1, <1>4, <2>6, <3>1 DEF SentRight
  <2> QED BY <1>4, <2>7, <2>8, <2>9, <2>10 DEF HInv
<1> QED BY <1>5, <1>6, <1>7

\* A scenario is resolved once all its steps are.
LEMMA ScenarioEnded ==
    ASSUME HInv, EndScenario
    PROVE  HInv'
<1> DEFINE n == Len(resolved) + 1
           Checked == \A i \in DOMAIN sent :
                        ScannedRefs(Current.steps[i]) \subseteq DefinedAliases(Current, i)
<1>1. /\ UNCHANGED <<inputs, globals, inherited, sent>> /\ pc = "step"
      /\ Len(sent) = Len(Current.steps)
      /\ \/ pc' = "rejected" /\ resolved' = resolved
         \/ Checked /\ pc' = "request" /\ resolved' = Append(resolved, sent)
    BY DEF EndScenario, Reject
<1>2. /\ Len(resolved) \in Nat /\ Len(file.scenarios) \in Nat
      /\ n \in 1..Len(file.scenarios) /\ Current = file.scenarios[n]
  <2>1. Len(resolved) \in Nat /\ Len(file.scenarios) \in Nat
    BY LenProperties, FileTypes DEF HInv, HeaderTypes
  <2> QED BY <1>1, <2>1 DEF HInv, Place, Current
<1>3. CASE pc' = "rejected" /\ resolved' = resolved
  <2>1. Place' /\ GlobalsRight'
    BY <1>3 DEF Place, GlobalsRight
  <2> QED BY <1>1, <1>3, <2>1, MoveOn
<1>4. CASE Checked /\ pc' = "request" /\ resolved' = Append(resolved, sent)
  <2>1. /\ Inputs' /\ Outer' = Outer /\ ParseConfig(file)' = ParseConfig(file)
        /\ \A got, m, k : StepRight(got, m, k)' = StepRight(got, m, k)
        /\ file' = file
    BY <1>1, SameScenarios DEF HInv, inputs
  <2>2. ParseConfig(file) /\ ScenarioMode
    BY <1>1 DEF HInv, Place
  <2>3. /\ sent \in Seq(SUBSET Headers) /\ resolved \in Seq(Seq(SUBSET Headers))
        /\ Len(resolved) + 1 <= Len(file.scenarios)
    BY <1>2 DEF HInv, HeaderTypes
  <2>4. /\ resolved' \in Seq(Seq(SUBSET Headers)) /\ Len(resolved') = n
        /\ resolved'[n] = sent
        /\ \A m \in 1..Len(resolved) : resolved'[m] = resolved[m]
    BY <1>4, <2>3, AppendProperties
  <2>5. HeaderTypes'
    BY <1>1, <2>1, <2>3, <2>4 DEF HInv, HeaderTypes
  <2>6. Place' /\ GlobalsRight' /\ InheritedRight' /\ SentRight'
    BY <1>1, <1>4, <2>1, <2>2 DEF HInv, Place, GlobalsRight, InheritedRight, SentRight
  <2>7. ASSUME NEW i \in DOMAIN sent
        PROVE  /\ StepRight(sent[i], n, i)
               /\ i \in DOMAIN file.scenarios[n].steps
               /\ file.scenarios[n].steps[i].body # "both"
               /\ ScannedRefs(file.scenarios[n].steps[i]) \subseteq Captured(file.scenarios[n], i)
    <3>1. StepRight(sent[i], n, i)
        BY <1>1 DEF HInv, SentRight
    <3>2. i \in DOMAIN file.scenarios[n].steps /\ n \in DOMAIN file.scenarios
        BY <1>1, <1>2, <2>3, LenProperties, FileTypes DEF HInv
    <3>3. ValidScenario(file.scenarios[n])
        BY <2>2, <3>2 DEF ParseConfig, ValidScenarios, ScenarioMode
    <3>4. file.scenarios[n].steps[i].body # "both"
        BY <3>2, <3>3 DEF ValidScenario, ValidStep
    <3>5. ScannedRefs(file.scenarios[n].steps[i]) \subseteq Captured(file.scenarios[n], i)
        BY <1>2, <1>4 DEF DefinedAliases
    <3> QED BY <3>1, <3>2, <3>4, <3>5
  <2>8. ResolvedRight'
    <3>1. ASSUME NEW m \in 1..n PROVE ScenarioRight(m)'
      <4>1. CASE m = n
        <5>1. resolved'[m] = sent /\ file' = file
            BY <2>1, <2>4, <4>1
        <5>2. ASSUME NEW i \in DOMAIN sent, NEW got, got = sent[i]
              PROVE  StepRight(got, m, i)'
            BY <2>1, <2>7, <4>1, <5>2
        <5>3. ASSUME NEW i \in DOMAIN sent
              PROVE  /\ i \in DOMAIN file.scenarios[m].steps
                     /\ file.scenarios[m].steps[i].body # "both"
                     /\ ScannedRefs(file.scenarios[m].steps[i]) \subseteq Captured(file.scenarios[m], i)
            BY <2>7, <4>1
        <5>4. \A i \in DOMAIN resolved'[m] : StepRight(resolved[m][i], m, i)'
            BY <5>1, <5>2
        <5> QED BY <5>1, <5>3, <5>4 DEF ScenarioRight, ScannedRefs, Captured
      <4>2. CASE m # n
        <5>1. m \in 1..Len(resolved) /\ m \in DOMAIN resolved
            BY <1>2, <2>3, <4>2, LenProperties
        <5>2. ScenarioRight(m) /\ resolved'[m] = resolved[m]
            BY <2>4, <5>1 DEF HInv, ResolvedRight
        <5> QED BY <2>1, <5>2 DEF ScenarioRight, ScannedRefs, Captured
      <4> QED BY <4>1, <4>2
    <3>2. DOMAIN resolved' = 1..n
        BY <2>4, LenProperties
    <3> QED BY <3>1, <3>2 DEF ResolvedRight
  <2> QED BY <2>1, <2>5, <2>6, <2>8 DEF HInv
<1> QED BY <1>1, <1>3, <1>4

\* One lemma per step of the resolution; the others leave the headers alone.
LEMMA HInvNext == HInv /\ [Next]_vars => HInv'
<1> SUFFICES ASSUME HInv, [Next]_vars PROVE HInv'
    OBVIOUS
<1>1. ASSUME UNCHANGED <<inputs, globals, inherited, sent, resolved>>,
             pc' \notin {"request", "step"},
             pc' \in {"execution", "headers", "request", "step", "publish", "ready"}
                => ParseConfig(file)
      PROVE  HInv'
  <2>1. Place'
    BY <1>1, SameScenarios DEF Place
  <2>2. GlobalsRight'
    BY <1>1 DEF GlobalsRight
  <2> QED BY <1>1, <2>1, <2>2, MoveOn
<1>2. CASE Parse
  <2>1. /\ UNCHANGED <<inputs, globals, inherited, sent, resolved>>
        /\ \/ pc' = "execution" /\ ParseConfig(file)
           \/ pc' = "rejected"
    BY <1>2 DEF Parse, Reject
  <2> QED BY <1>1, <2>1
<1>3. CASE ResolveExecution
  <2>1. /\ UNCHANGED <<inputs, globals, inherited, sent, resolved>>
        /\ pc = "execution" /\ pc' \in {"headers", "rejected"}
    BY <1>3 DEF ResolveExecution, Reject
  <2>2. ParseConfig(file)
    BY <2>1 DEF HInv, Place
  <2> QED BY <1>1, <2>1, <2>2
<1>4. CASE ResolveHeaders
    BY <1>4, HeadersMerged
<1>5. CASE SingleRequest
  <2>1. /\ UNCHANGED <<inputs, globals, inherited, sent, resolved>>
        /\ pc = "request" /\ pc' \in {"publish", "rejected"}
    BY <1>5 DEF SingleRequest, Reject
  <2>2. ParseConfig(file)
    BY <2>1 DEF HInv, Place
  <2> QED BY <1>1, <2>1, <2>2
<1>6. CASE BeginScenario
    BY <1>6, ScenarioBegun
<1>7. CASE ResolveStep
    BY <1>7, StepResolved
<1>8. CASE EndScenario
    BY <1>8, ScenarioEnded
<1>9. CASE EndScenarios
  <2>1. /\ UNCHANGED <<inputs, globals, inherited, sent, resolved>>
        /\ pc = "request" /\ pc' = "publish"
    BY <1>9 DEF EndScenarios
  <2>2. ParseConfig(file)
    BY <2>1 DEF HInv, Place
  <2> QED BY <1>1, <2>1, <2>2
<1>10. CASE ResolvePublish
  <2>1. /\ UNCHANGED <<inputs, globals, inherited, sent, resolved>>
        /\ pc = "publish" /\ pc' = "ready"
    BY <1>10 DEF ResolvePublish
  <2>2. ParseConfig(file)
    BY <2>1 DEF HInv, Place
  <2> QED BY <1>1, <2>1, <2>2
<1>11. CASE SpawnVU
  <2>1. UNCHANGED <<inputs, globals, inherited, sent, resolved>> /\ pc = "ready" /\ pc' = pc
    BY <1>11 DEF SpawnVU
  <2>2. ParseConfig(file)
    BY <2>1 DEF HInv, Place
  <2> QED BY <1>1, <2>1, <2>2
<1>12. CASE SpawnPanics
  <2>1. UNCHANGED <<inputs, globals, inherited, sent, resolved>> /\ pc' = "panicked"
    BY <1>12 DEF SpawnPanics
  <2> QED BY <1>1, <2>1
<1>13. CASE UNCHANGED vars
  <2>1. UNCHANGED <<inputs, globals, inherited, sent, resolved>> /\ pc' = pc
    BY <1>13 DEF vars, inputs
  <2>2. Outer' = Outer /\ Current' = Current /\ ScenarioMode' = ScenarioMode
        /\ ParseConfig(file)' = ParseConfig(file) /\ file' = file
    BY <2>1, SameScenarios DEF inputs
  <2>3. Place' /\ GlobalsRight'
    BY <2>1, <2>2 DEF HInv, Place, GlobalsRight
  <2> QED BY <2>1, <2>3, MoveOn
<1> QED BY <1>2, <1>3, <1>4, <1>5, <1>6, <1>7, <1>8, <1>9, <1>10, <1>11, <1>12, <1>13 DEF Next

\* What is sent has been through both merges.
LEMMA HInvInnermostWins == HInv => InnermostWins
<1> SUFFICES ASSUME HInv, NEW n \in DOMAIN resolved, NEW i \in DOMAIN resolved[n]
             PROVE  Layered(resolved[n][i], HeadersFor(n, i))
    BY DEF InnermostWins, Layered
<1> QED BY DEF HInv, ResolvedRight, ScenarioRight, StepRight

\* A step is scanned for references before it joins the resolved ones.
LEMMA HInvWrittenRefsDefined == HInv => WrittenRefsDefined
<1> SUFFICES ASSUME HInv, NEW n \in DOMAIN resolved, NEW i \in DOMAIN resolved[n],
                    NEW k \in RefsOf(resolved[n][i]) \cup file.scenarios[n].steps[i].refs,
                    k \notin Captured(file.scenarios[n], i)
             PROVE  \/ \E h \in resolved[n][i] : h.layer # "step" /\ k \in h.refs
                    \/ \E h \in file.scenarios[n].steps[i].headers :
                        k \in Expand(h).refs \ h.refs
                    \/ file.scenarios[n].steps[i].body = "template"
                        /\ k \in file.scenarios[n].steps[i].refs
    BY DEF WrittenRefsDefined
<1> DEFINE step == file.scenarios[n].steps[i]
<1>1. /\ StepRight(resolved[n][i], n, i) /\ step.body # "both"
      /\ ScannedRefs(step) \subseteq Captured(file.scenarios[n], i)
      /\ i \in DOMAIN file.scenarios[n].steps
    BY DEF HInv, ResolvedRight, ScenarioRight
<1>2. step \in StepConfigs
  <2>1. n \in 1..Len(file.scenarios)
    BY LenProperties, FileTypes DEF HInv, HeaderTypes
  <2>2. file.scenarios[n] \in ScenarioConfigs
    BY <2>1, InputsAssumption, ElementOfSeq DEF HInv, Inputs, ConfigFiles
  <2>3. file.scenarios[n].steps \in Seq(StepConfigs)
    BY <2>2 DEF ScenarioConfigs
  <2> QED BY <1>1, <2>3, LenProperties, ElementOfSeq
<1>3. CASE k \in RefsOf(resolved[n][i])
  <2>1. PICK h \in resolved[n][i] : k \in h.refs
    BY <1>3 DEF RefsOf
  <2>2. CASE h.layer = "step"
    <3>1. PICK g \in step.headers : h = Expand(g)
        BY <1>1, <2>2 DEF StepRight
    <3>2. k \notin g.refs
        BY <1>1 DEF ScannedRefs
    <3> QED BY <2>1, <3>1, <3>2
  <2> QED BY <2>1, <2>2
<1>4. CASE k \in step.refs
  <2>1. step.body \in {"inline", "template"}
    BY <1>1, <1>2, <1>4 DEF StepConfigs
  <2>2. step.body # "inline"
    BY <1>1, <1>4 DEF ScannedRefs
  <2> QED BY <1>4, <2>1, <2>2
<1> QED BY <1>3, <1>4

\* Every step sends each header of its layers once, as the innermost layer
\* has it.  About: the three calls of merge_headers_into, in whatever order
\* the maps are traversed.
THEOREM InnermostIsSent == Spec => []InnermostWins
<1>1. HInv => InnermostWins
    BY HInvInnermostWins
<1>2. HInv /\ [Next]_vars => HInv'
    BY HInvNext
<1> QED BY <1>1, <1>2, HInvInit, PTL DEF Spec

\* What a step writes itself refers to nothing that no earlier step captures:
\* a reference whose value a request can lack came with an inherited header,
\* out of a variable, or stood in a template file.
\* About: the check of references at startup.
THEOREM WrittenRefsAreDefined == Spec => []WrittenRefsDefined
<1>1. HInv => WrittenRefsDefined
    BY HInvWrittenRefsDefined
<1>2. HInv /\ [Next]_vars => HInv'
    BY HInvNext
<1> QED BY <1>1, <1>2, HInvInit, PTL DEF Spec

-----------------------------------------------------------------------------
(* Shares of the VUs *)

\* A number has one quotient and one remainder.
LEMMA Divided ==
    ASSUME NEW n \in Nat, NEW t \in Nat \ {0}, NEW q \in Nat, NEW r \in Nat,
           r < t, n = t * q + r
    PROVE  n \div t = q /\ n % t = r
<1>1. n \div t = q
    OBVIOUS
<1>2. n % t = r
    OBVIOUS
<1> QED BY <1>1, <1>2

\* The next number: the remainder goes up, or a round is complete.
LEMMA NextDivided ==
    ASSUME NEW n \in Nat, NEW t \in Nat \ {0}
    PROVE  /\ n \div t \in Nat /\ n % t \in Nat /\ n % t < t
           /\ (n % t) + 1 < t => (n + 1) \div t = n \div t /\ (n + 1) % t = (n % t) + 1
           /\ (n % t) + 1 = t => (n + 1) \div t = n \div t + 1 /\ (n + 1) % t = 0
<1>1. n \div t \in Nat /\ n % t \in Nat /\ n % t < t
    OBVIOUS
<1>2. n = t * (n \div t) + (n % t)
    BY SMTT(60)
<1>3. PICK q \in Nat, r \in Nat : q = n \div t /\ r = n % t
    BY <1>1
<1>4. r < t /\ n = t * q + r /\ t * q \in Nat
    BY <1>1, <1>2, <1>3
<1>5. ASSUME r + 1 < t PROVE (n + 1) \div t = q /\ (n + 1) % t = r + 1
  <2>1. n + 1 = t * q + (r + 1)
    BY <1>4
  <2> QED BY <1>5, <2>1, Divided
<1>6. ASSUME r + 1 = t PROVE (n + 1) \div t = q + 1 /\ (n + 1) % t = 0
  <2>1. t * (q + 1) = t * q + t
    OBVIOUS
  <2>2. n + 1 = t * (q + 1) + 0 /\ 0 < t
    BY <1>4, <1>6, <2>1
  <2> QED BY <2>2, Divided
<1> QED BY <1>1, <1>3, <1>5, <1>6

\* The weights of the first i scenarios.
WeightsUpTo(ws, i) == SumFunctionOnSet(ws, 1..i)

\* What the round in progress has given scenario i when it stands at r, and
\* all the scenario has had after n VUs.
InRound(ws, i, r) ==
    LET from == WeightsUpTo(ws, i - 1)
    IN  IF r <= from THEN 0 ELSE IF r <= from + ws[i] THEN r - from ELSE ws[i]

Share(ws, i, n) ==
    LET total == WeightsUpTo(ws, Len(ws))
    IN  (n \div total) * ws[i] + InRound(ws, i, n % total)

\* The running sums go up, by one weight at a time.
LEMMA RunningSums ==
    ASSUME NEW m \in Nat, NEW ws \in [1..m -> Nat]
    PROVE  /\ WeightsUpTo(ws, 0) = 0
           /\ \A i \in 0..m : WeightsUpTo(ws, i) \in Nat
           /\ \A i \in 1..m : WeightsUpTo(ws, i) = WeightsUpTo(ws, i - 1) + ws[i]
           /\ \A i, j \in 0..m : i <= j => WeightsUpTo(ws, i) <= WeightsUpTo(ws, j)
<1>1. WeightsUpTo(ws, 0) = 0
    BY SumPrefixEmpty DEF WeightsUpTo
<1>2. \A i \in 0..m : IsFiniteSet(1..i) /\ NatValued(ws, 1..i) /\ IntValued(ws, 1..i)
  <2>1. \A i \in 0..m : IsFiniteSet(1..i)
    BY FS_Interval
  <2>2. \A i \in 0..m : NatValued(ws, 1..i) /\ IntValued(ws, 1..i)
    BY DEF NatValued, IntValued
  <2> QED BY <2>1, <2>2
<1>3. \A i \in 0..m : WeightsUpTo(ws, i) \in Nat
    BY <1>2, SumNat DEF WeightsUpTo
<1>4. ASSUME NEW i \in 1..m PROVE WeightsUpTo(ws, i) = WeightsUpTo(ws, i - 1) + ws[i]
  <2>1. PICK k \in Nat : k = i - 1
    OBVIOUS
  <2>2. k + 1 = i /\ IntValued(ws, 1..(k + 1))
    BY <1>2, <2>1
  <2>3. SumFunctionOnSet(ws, 1..(k + 1)) = SumFunctionOnSet(ws, 1..k) + ws[k + 1]
    BY <2>2, SumPrefix
  <2> QED BY <2>1, <2>2, <2>3 DEF WeightsUpTo
<1>5. ASSUME NEW i \in 0..m, NEW j \in 0..m, i <= j PROVE WeightsUpTo(ws, i) <= WeightsUpTo(ws, j)
  <2> DEFINE S == 1..j
             T == 1..i
  <2>1. T \in SUBSET S /\ IsFiniteSet(S) /\ IntValued(ws, S)
    BY <1>2, <1>5
  <2>2. NatValued(ws, S \ T)
    BY DEF NatValued
  <2>3. WeightsUpTo(ws, i) = SumFunctionOnSet(ws, T) /\ WeightsUpTo(ws, j) = SumFunctionOnSet(ws, S)
    BY DEF WeightsUpTo
  <2> HIDE DEF S, T
  <2>4. SumFunctionOnSet(ws, S) = SumFunctionOnSet(ws, T) + SumFunctionOnSet(ws, S \ T)
    BY <2>1, SumParts
  <2>5. IsFiniteSet(S \ T)
    BY <2>1, FS_Subset
  <2>6. SumFunctionOnSet(ws, S \ T) \in Nat
    BY <2>2, <2>5, SumNat
  <2> QED BY <1>3, <2>3, <2>4, <2>6
<1> QED BY <1>1, <1>3, <1>4, <1>5

\* A scenario gets the slots between its running sum and the one before.
LEMMA SlotOf ==
    ASSUME NEW m \in Nat \ {0}, NEW ws \in [1..m -> Nat \ {0}], Len(ws) = m,
           WeightsUpTo(ws, m) <= U64Max, NEW n \in Nat
    PROVE  /\ WeightsUpTo(ws, m) \in Nat \ {0}
           /\ AssignScenario(n, ws) \in 1..m
           /\ \A i \in 1..m :
                AssignScenario(n, ws) = i
                    <=> WeightsUpTo(ws, i - 1) <= n % WeightsUpTo(ws, m) /\ n % WeightsUpTo(ws, m) < WeightsUpTo(ws, i)
<1> DEFINE t == WeightsUpTo(ws, m)
           r == n % t
           fits == {i \in DOMAIN ws : InSlot(n % Cumulative(ws, Len(ws)), ws, i)}
           a == Min(fits)
<1>1. ws \in [1..m -> Nat] /\ DOMAIN ws = 1..m
    OBVIOUS
<1>2. /\ WeightsUpTo(ws, 0) = 0
      /\ \A i \in 0..m : WeightsUpTo(ws, i) \in Nat
      /\ \A i \in 1..m : WeightsUpTo(ws, i) = WeightsUpTo(ws, i - 1) + ws[i]
      /\ \A i, j \in 0..m : i <= j => WeightsUpTo(ws, i) <= WeightsUpTo(ws, j)
    BY <1>1, RunningSums
<1>3. t \in Nat \ {0}
  <2>1. 1 \in 1..m /\ ws[1] \in Nat \ {0} /\ 0 \in 0..m /\ 1 \in 0..m /\ m \in 0..m
    OBVIOUS
  <2>2. WeightsUpTo(ws, 1) = WeightsUpTo(ws, 0) + ws[1]
    BY <1>2, <2>1
  <2>3. WeightsUpTo(ws, 1) <= WeightsUpTo(ws, m) /\ WeightsUpTo(ws, m) \in Nat
    BY <1>2, <2>1
  <2> QED BY <1>2, <2>1, <2>2, <2>3
<1>4. \A i \in 1..m : Cumulative(ws, i) = WeightsUpTo(ws, i)
  <2> SUFFICES ASSUME NEW i \in 1..m PROVE Cumulative(ws, i) = WeightsUpTo(ws, i)
    OBVIOUS
  <2>1. i \in 0..m /\ m \in 0..m /\ i <= m
    OBVIOUS
  <2>2. WeightsUpTo(ws, i) <= U64Max
    BY <1>2, <2>1, WidthAssumption
  <2>3. Cumulative(ws, i) = IF WeightsUpTo(ws, i) > U64Max THEN U64Max ELSE WeightsUpTo(ws, i)
    BY DEF Cumulative, Saturated, WeightsUpTo
  <2> QED BY <1>2, <2>1, <2>2, <2>3, WidthAssumption
<1>5. Cumulative(ws, Len(ws)) = t
    BY <1>4
<1>6. fits = {i \in 1..m : r < WeightsUpTo(ws, i)}
    BY <1>4, <1>5 DEF InSlot
<1>7. r \in Nat /\ r < t
    BY <1>3, NextDivided
<1>8. m \in fits /\ fits \in SUBSET Nat
    BY <1>6, <1>7
<1>9. AssignScenario(n, ws) = a
  <2>1. fits # {} /\ Cumulative(ws, Len(ws)) # 0
    BY <1>3, <1>5, <1>8
  <2> QED BY <2>1 DEF AssignScenario
<1> HIDE DEF t, r
<1>10. \A i \in 1..m : i \in fits <=> r < WeightsUpTo(ws, i)
    BY <1>6
<1> HIDE DEF fits
<1>11. a \in fits /\ \A i \in fits : a <= i
    BY <1>8, MinExists
<1>12. fits \in SUBSET (1..m)
    BY <1>6
<1> HIDE DEF a
<1>13. a \in 1..m
    BY <1>11, <1>12
<1>14. r < WeightsUpTo(ws, a)
    BY <1>10, <1>11, <1>13
<1>15. WeightsUpTo(ws, a - 1) <= r
  <2>1. CASE a = 1
    BY <1>2, <1>7, <2>1
  <2>2. CASE a # 1
    <3>1. a - 1 \in 1..m /\ a - 1 \in 0..m
        BY <1>13, <2>2
    <3>2. ~(r < WeightsUpTo(ws, a - 1))
        BY <1>10, <1>11, <1>13, <3>1
    <3> QED BY <1>2, <1>7, <3>1, <3>2
  <2> QED BY <2>1, <2>2
<1>16. ASSUME NEW i \in 1..m, WeightsUpTo(ws, i - 1) <= r, r < WeightsUpTo(ws, i) PROVE i = a
  <2>1. a <= i
    BY <1>10, <1>11, <1>16
  <2>2. ASSUME a < i PROVE FALSE
    <3>1. a \in 0..m /\ i - 1 \in 0..m /\ a <= i - 1
        BY <1>13, <2>2
    <3>2. WeightsUpTo(ws, a) <= WeightsUpTo(ws, i - 1) /\ WeightsUpTo(ws, a) \in Nat /\ WeightsUpTo(ws, i - 1) \in Nat
        BY <1>2, <3>1
    <3> QED BY <1>7, <1>14, <1>16, <3>2
  <2> QED BY <1>13, <2>1, <2>2
<1> QED BY <1>3, <1>9, <1>13, <1>14, <1>15, <1>16 DEF t, r

\* One more VU: the scenario it gets has had one more, the others as many.
LEMMA OneMoreVU ==
    ASSUME NEW m \in Nat \ {0}, NEW ws \in [1..m -> Nat \ {0}], Len(ws) = m,
           WeightsUpTo(ws, m) <= U64Max, NEW n \in Nat, NEW i \in 1..m
    PROVE  /\ Share(ws, i, n) \in Nat
           /\ Share(ws, i, n + 1)
                = Share(ws, i, n) + (IF AssignScenario(n, ws) = i THEN 1 ELSE 0)
<1> DEFINE t == WeightsUpTo(ws, m)
           q == n \div t
           r == n % t
           w == ws[i]
           from == WeightsUpTo(ws, i - 1)
           hit == AssignScenario(n, ws) = i
           part(k) == IF k <= from THEN 0 ELSE IF k <= from + w THEN k - from ELSE w
<1>1. t \in Nat \ {0} /\ w \in Nat \ {0}
    BY SlotOf
<1>2. /\ from \in Nat /\ from + w <= t
      /\ hit <=> from <= r /\ r < from + w
  <2>1. ws \in [1..m -> Nat]
    OBVIOUS
  <2>2. /\ WeightsUpTo(ws, i) = WeightsUpTo(ws, i - 1) + ws[i]
        /\ WeightsUpTo(ws, i - 1) \in Nat /\ WeightsUpTo(ws, i) <= WeightsUpTo(ws, m)
    <3>1. i \in 0..m /\ i - 1 \in 0..m /\ m \in 0..m /\ i <= m
        OBVIOUS
    <3> QED BY <2>1, <3>1, RunningSums
  <2>3. hit <=> WeightsUpTo(ws, i - 1) <= r /\ r < WeightsUpTo(ws, i)
    BY SlotOf
  <2> QED BY <2>2, <2>3
<1>3. /\ q \in Nat /\ r \in Nat /\ r < t
      /\ r + 1 < t => (n + 1) \div t = q /\ (n + 1) % t = r + 1
      /\ r + 1 = t => (n + 1) \div t = q + 1 /\ (n + 1) % t = 0
    BY <1>1, NextDivided
<1>4. /\ Share(ws, i, n) = q * w + part(r)
      /\ Share(ws, i, n + 1) = ((n + 1) \div t) * w + part((n + 1) % t)
    BY DEF Share, InRound
<1> HIDE DEF t, q, r, w, from, hit
<1>5. part(r) \in Nat /\ q * w \in Nat /\ (q + 1) * w = q * w + w
    BY <1>1, <1>2, <1>3
<1>6. part(r + 1) = part(r) + (IF hit THEN 1 ELSE 0)
    BY <1>1, <1>2, <1>3
<1>7. part(0) = 0 /\ part(t) = w
    BY <1>1, <1>2
<1>8. CASE r + 1 < t
  <2>1. Share(ws, i, n + 1) = q * w + part(r + 1)
    BY <1>3, <1>4, <1>8
  <2> HIDE DEF part
  <2> QED BY <1>4, <1>5, <1>6, <2>1 DEF hit
<1>9. CASE r + 1 = t
  <2>1. Share(ws, i, n + 1) = (q + 1) * w + part(0)
    BY <1>3, <1>4, <1>9
  <2>2. part(r + 1) = w
    BY <1>7, <1>9
  <2> HIDE DEF part
  <2> QED BY <1>1, <1>4, <1>5, <1>6, <1>7, <2>1, <2>2 DEF hit
<1> QED BY <1>1, <1>3, <1>4, <1>5, <1>8, <1>9

\* No VU, no share.
LEMMA NoVUYet ==
    ASSUME NEW m \in Nat \ {0}, NEW ws \in [1..m -> Nat \ {0}], Len(ws) = m,
           WeightsUpTo(ws, m) <= U64Max, NEW i \in 1..m
    PROVE  Share(ws, i, 0) = 0
<1> DEFINE t == WeightsUpTo(ws, m)
           from == WeightsUpTo(ws, i - 1)
<1>1. t \in Nat \ {0}
    BY SlotOf
<1>2. from \in Nat
  <2>1. ws \in [1..m -> Nat] /\ i - 1 \in 0..m
    OBVIOUS
  <2> QED BY <2>1, RunningSums
<1>3. Share(ws, i, 0) = (0 \div t) * ws[i] + (IF 0 % t <= from THEN 0 ELSE
            IF 0 % t <= from + ws[i] THEN (0 % t) - from ELSE ws[i])
    BY DEF Share, InRound
<1> HIDE DEF t, from
<1>4. 0 \div t = 0 /\ 0 % t = 0
  <2>1. 0 = t * 0 + 0 /\ 0 < t
    BY <1>1
  <2> QED BY <1>1, <2>1, Divided
<1>5. ws[i] \in Nat
    OBVIOUS
<1> QED BY <1>2, <1>3, <1>4, <1>5

\* What each scenario has had of the VUs there are, from the first one on.
SharesRight ==
    assigned # <<>> =>
        /\ pc = "ready" /\ ScenarioMode /\ resolved # <<>>
        /\ assigned \in Seq(DOMAIN resolved)
        /\ \A i \in DOMAIN resolved :
            Cardinality(Places(assigned, {i})) = Share(Weights, i, Len(assigned))

PInv == HInv /\ SharesRight

\* parse_config's caps keep the sum of the weights from saturating.
LEMMA WeightsValid ==
    ASSUME HInv, pc = "ready", ScenarioMode, resolved # <<>>
    PROVE  /\ Len(resolved) \in Nat \ {0} /\ DOMAIN resolved = 1..Len(resolved)
           /\ Weights \in [1..Len(resolved) -> Nat \ {0}] /\ Len(Weights) = Len(resolved)
           /\ WeightsUpTo(Weights, Len(resolved)) <= U64Max
<1> DEFINE m == Len(resolved)
           top == [i \in 1..m |-> MaxWeight]
<1>1. m \in Nat \ {0} /\ DOMAIN resolved = 1..m
    BY LenProperties, EmptySeq DEF HInv, HeaderTypes
<1>2. ParseConfig(file) /\ m <= Len(file.scenarios) /\ Len(file.scenarios) \in Nat
    BY FileTypes DEF HInv, Place, HeaderTypes
<1>3. m <= MaxScenarios
    BY <1>1, <1>2, ConfigAssumption DEF ParseConfig, ValidScenarios, ScenarioMode, CountOK
<1>4. \A i \in 1..m : file.scenarios[i].weight \in 1..MaxWeight
  <2> SUFFICES ASSUME NEW i \in 1..m PROVE file.scenarios[i].weight \in 1..MaxWeight
    OBVIOUS
  <2>1. i \in DOMAIN file.scenarios
    BY <1>1, <1>2, FileTypes DEF HInv
  <2>2. ValidScenario(file.scenarios[i])
    BY <1>2, <2>1 DEF ParseConfig, ValidScenarios, ScenarioMode
  <2> QED BY <2>2 DEF ValidScenario
<1>5. Weights = [i \in 1..m |-> file.scenarios[i].weight]
    BY <1>1 DEF Weights
<1>6. Weights \in [1..m -> Nat \ {0}] /\ \A i \in 1..m : Weights[i] <= MaxWeight
    BY <1>4, <1>5, ConfigAssumption
<1>7. Len(Weights) = m
  <2>1. Weights \in Seq(Nat \ {0}) /\ DOMAIN Weights = 1..m
    BY <1>1, <1>6, SeqDef
  <2>2. Len(Weights) \in Nat /\ 1..Len(Weights) = 1..m
    BY <2>1, LenProperties
  <2> QED BY <1>1, <2>2
<1>8. WeightsUpTo(Weights, m) <= U64Max
  <2> DEFINE S == 1..m
             ws == Weights
  <2>1. IsFiniteSet(S) /\ Cardinality(S) = m
    BY <1>1, FS_Interval
  <2>2. IntValued(ws, S)
    BY <1>6 DEF IntValued
  <2>3. IntValued(top, S)
    BY ConfigAssumption DEF IntValued
  <2>4. \A i \in S : ws[i] <= top[i] /\ top[i] = MaxWeight
    BY <1>6
  <2> HIDE DEF S, ws, top
  <2>5. SumFunctionOnSet(ws, S) <= SumFunctionOnSet(top, S)
    BY <2>1, <2>2, <2>3, <2>4, SumAtMost
  <2>6. SumFunctionOnSet(top, S) = MaxWeight * Cardinality(S)
    BY <2>1, <2>4, ConfigAssumption, SumConstant
  <2>7. MaxWeight * m <= MaxScenarios * MaxWeight
    <3>1. m \in Nat /\ MaxScenarios \in Nat /\ MaxWeight \in Nat
        BY <1>1, ConfigAssumption
    <3> HIDE DEF m
    <3> QED BY <1>3, <3>1
  <2>8. SumFunctionOnSet(ws, S) \in Int /\ MaxWeight * m \in Int /\ MaxScenarios * MaxWeight \in Int
    <3>1. m \in Nat /\ MaxScenarios \in Nat /\ MaxWeight \in Nat
        BY <1>1, ConfigAssumption
    <3>2. SumFunctionOnSet(ws, S) \in Int
        BY <2>1, <2>2, SumInt
    <3> HIDE DEF m
    <3> QED BY <3>1, <3>2
  <2>9. SumFunctionOnSet(ws, S) <= U64Max
    <3> HIDE DEF m
    <3> QED BY <2>1, <2>5, <2>6, <2>7, <2>8, CapsAssumption, WidthAssumption
  <2> QED BY <2>9 DEF WeightsUpTo, S, ws
<1> QED BY <1>1, <1>6, <1>7, <1>8

\* A VU is spawned.
LEMMA SharesAfterSpawn ==
    ASSUME PInv, SpawnVU
    PROVE  SharesRight'
<1> DEFINE m == Len(resolved)
           n == Len(assigned)
           a == AssignScenario(n, Weights)
<1>1. /\ pc = "ready" /\ ScenarioMode /\ resolved # <<>>
      /\ assigned' = Append(assigned, a)
      /\ UNCHANGED <<pc, inputs, resolved>>
    BY DEF SpawnVU
<1>2. /\ m \in Nat \ {0} /\ DOMAIN resolved = 1..m
      /\ Weights \in [1..m -> Nat \ {0}] /\ Len(Weights) = m /\ WeightsUpTo(Weights, m) <= U64Max
    BY <1>1, WeightsValid DEF PInv
<1>3. /\ assigned \in Seq(1..m) /\ n \in Nat
      /\ \A i \in 1..m : Cardinality(Places(assigned, {i})) = Share(Weights, i, n)
  <2>1. CASE assigned = <<>>
    <3>1. assigned \in Seq(1..m) /\ n = 0
        BY <2>1, EmptySeq
    <3>2. \A i \in 1..m : Cardinality(Places(assigned, {i})) = 0
        BY <2>1, PlacesOfNone
    <3>3. \A i \in 1..m : Share(Weights, i, 0) = 0
        BY <1>2, NoVUYet
    <3> QED BY <3>1, <3>2, <3>3
  <2>2. CASE assigned # <<>>
    <3>1. /\ assigned \in Seq(DOMAIN resolved)
          /\ \A i \in DOMAIN resolved : Cardinality(Places(assigned, {i})) = Share(Weights, i, n)
        BY <2>2 DEF PInv, SharesRight
    <3> QED BY <1>2, <3>1, LenProperties
  <2> QED BY <2>1, <2>2
<1>4. a \in 1..m
    BY <1>2, <1>3, SlotOf
<1>5. ScenarioMode' /\ Weights' = Weights /\ pc' = "ready" /\ resolved' = resolved
    BY <1>1 DEF ScenarioMode, Weights, inputs
<1> HIDE DEF a
<1>6. assigned' \in Seq(1..m) /\ Len(assigned') = n + 1
    BY <1>1, <1>3, <1>4, AppendProperties
<1>7. ASSUME NEW i \in 1..m
      PROVE  Cardinality(Places(assigned, {i})') = Share(Weights, i, n + 1)
  <2>1. Cardinality(Places(Append(assigned, a), {i}))
            = Cardinality(Places(assigned, {i})) + (IF a \in {i} THEN 1 ELSE 0)
    BY <1>3, <1>4, PlacesAppend
  <2>2. Share(Weights, i, n + 1) = Share(Weights, i, n) + (IF a = i THEN 1 ELSE 0)
    BY <1>2, <1>3, OneMoreVU DEF a
  <2>3. Places(assigned, {i})' = Places(Append(assigned, a), {i})
    BY <1>1 DEF Places
  <2>4. a \in {i} <=> a = i
    OBVIOUS
  <2> QED BY <1>3, <2>1, <2>2, <2>3, <2>4
<1> QED BY <1>1, <1>2, <1>5, <1>6, <1>7 DEF SharesRight

\* The other steps leave the VUs alone, and end where there are some.
LEMMA PInvNext == PInv /\ [Next]_vars => PInv'
<1> SUFFICES ASSUME PInv, [Next]_vars PROVE SharesRight'
    BY HInvNext DEF PInv
<1>1. CASE SpawnVU
    BY <1>1, SharesAfterSpawn
<1>2. CASE UNCHANGED vars
    BY <1>2 DEF vars, inputs, PInv, SharesRight, ScenarioMode, Weights
<1>3. ASSUME assigned' = assigned, pc # "ready" \/ resolved = <<>> PROVE SharesRight'
    BY <1>3 DEF PInv, SharesRight
<1>4. CASE Parse \/ ResolveExecution \/ ResolveHeaders
    BY <1>3, <1>4 DEF Parse, ResolveExecution, ResolveHeaders
<1>5. CASE SingleRequest \/ BeginScenario \/ ResolveStep
    BY <1>3, <1>5 DEF SingleRequest, BeginScenario, ResolveStep
<1>6. CASE EndScenario \/ EndScenarios \/ ResolvePublish \/ SpawnPanics
    BY <1>3, <1>6 DEF EndScenario, EndScenarios, ResolvePublish, SpawnPanics
<1> QED BY <1>1, <1>2, <1>4, <1>5, <1>6 DEF Next

\* Every VU gets a scenario there is, and each scenario its share of the VUs,
\* up to the round in progress.  About: assign_scenario under the caps of
\* parse_config, for an index that is never reset.
THEOREM SharesAreProportional == Spec => []Proportional
<1>1. ASSUME PInv PROVE Proportional
  <2> SUFFICES ASSUME assigned # <<>> PROVE Proportional
    BY DEF Proportional
  <2> DEFINE m == Len(resolved)
             n == Len(assigned)
             t == WeightsUpTo(Weights, m)
  <2>1. /\ assigned \in Seq(DOMAIN resolved)
        /\ \A i \in DOMAIN resolved : Cardinality(Places(assigned, {i})) = Share(Weights, i, n)
        /\ pc = "ready" /\ ScenarioMode /\ resolved # <<>> /\ HInv
    BY <1>1 DEF PInv, SharesRight
  <2>2. /\ m \in Nat \ {0} /\ DOMAIN resolved = 1..m
        /\ Weights \in [1..m -> Nat \ {0}] /\ Len(Weights) = m /\ t <= U64Max
    BY <2>1, WeightsValid
  <2>3. SumFunction(Weights) = t
    BY <2>2 DEF SumFunction, WeightsUpTo
  <2>4. Range(assigned) \subseteq DOMAIN resolved
    BY <2>1, RangeFinite
  <2>5. n \in Nat /\ t \in Nat \ {0}
    BY <2>1, <2>2, LenProperties, SlotOf
  <2>6. ASSUME NEW i \in 1..m
        PROVE  Cardinality({k \in DOMAIN assigned : assigned[k] = i})
                    \in ((n \div t) * Weights[i])..((n \div t + 1) * Weights[i])
    <3> DEFINE q == n \div t
               w == Weights[i]
               part == InRound(Weights, i, n % t)
    <3>1. Places(assigned, {i}) = {k \in DOMAIN assigned : assigned[k] = i}
      BY DEF Places
    <3>2. Cardinality(Places(assigned, {i})) = q * w + part
      BY <2>1, <2>2 DEF Share
    <3>3. q \in Nat /\ n % t \in Nat
      BY <2>5, NextDivided
    <3>4. w \in Nat
      BY <2>2
    <3>5. part \in 0..w
      <4>1. Weights \in [1..m -> Nat] /\ i - 1 \in 0..m
        BY <2>2
      <4>2. WeightsUpTo(Weights, i - 1) \in Nat
        BY <2>2, <4>1, RunningSums
      <4> QED BY <3>3, <3>4, <4>2 DEF InRound
    <3> HIDE DEF q, w, part
    <3>6. q * w \in Nat /\ (q + 1) * w = q * w + w
      BY <3>3, <3>4
    <3>7. q * w + part \in (q * w)..((q + 1) * w)
      BY <3>4, <3>5, <3>6
    <3> QED BY <3>1, <3>2, <3>7 DEF q, w
  <2> HIDE DEF t, m, n
  <2> QED BY <2>2, <2>3, <2>4, <2>6 DEF Proportional, n
<1>2. Init => PInv
  <2>1. Init => SharesRight
    BY DEF Init, SharesRight
  <2> QED BY <2>1, HInvInit DEF PInv
<1> QED BY <1>1, <1>2, PInvNext, PTL DEF Spec
=============================================================================
