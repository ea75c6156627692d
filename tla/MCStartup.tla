----------------------------- MODULE MCStartup -----------------------------
(* Startup over families of files that vary the settings, the headers and *)
(* references of a scenario of two steps, or the list of scenarios, and a *)
(* family of command lines.                                               *)
EXTENDS Startup

MCNames == {"auth", "trace"}
MCAliases == {"token"}

Header(spelling, text, refs, layer) ==
    [name |-> "auth", spelling |-> spelling, text |-> text, refs |-> refs,
     gains |-> {}, layer |-> layer]

\* A variable that is set to a reference.
Secretive(spelling, text, layer) ==
    [Header(spelling, text, {}, layer) EXCEPT !.gains = {"token"}]

TraceOf(layer) == [Header("lower", "plain", {}, layer) EXCEPT !.name = "trace"]

StepOf(name, body, refs, gives, headers) ==
    [name |-> name, wellFormed |-> TRUE, resolvable |-> TRUE,
     body |-> body, refs |-> refs, gives |-> gives, headers |-> headers]

ScenarioOf(name, weight, headers, steps) ==
    [name |-> name, wellFormed |-> TRUE, weight |-> weight,
     headers |-> headers, steps |-> steps]

FileOf(keys, bad, headers, scenarios) ==
    [keys |-> keys, bad |-> bad, headers |-> headers, scenarios |-> scenarios]

-----------------------------------------------------------------------------
\* Settings of every mode, each of them good or not.
SettingFiles ==
    {FileOf(k, k \cap b, {}, <<>>) :
        k \in SUBSET {"host", "method", "request_count", "stages",
                      "request_template", "response_template"},
        b \in {{}, {"method"}, {"stages"}, {"request_count"}}}

PublishFiles ==
    {FileOf({"host", "concurrency", "rps", "output", "output_file"} \cup k, b, {}, <<>>) :
        k \in SUBSET {"publish_url", "publish_enabled", "thresholds"},
        b \in SUBSET {"output", "concurrency"}}

-----------------------------------------------------------------------------
GlobalHeaders ==
    {{}, {Header("lower", "nested", {}, "file"), TraceOf("file")},
     {Header("lower", "plain", {}, "file"), Header("upper", "plain", {}, "file")},
     {Header("upper", "plain", {"token"}, "file")}, {Secretive("lower", "nested", "file")},
     {Header("lower", "unset", {}, "file")}}

ScenarioHeaders ==
    {{}, {Header("upper", "var", {}, "scenario")}, {Secretive("lower", "var", "scenario")},
     {Header("lower", "plain", {"token"}, "scenario"), TraceOf("scenario")},
     {Header("lower", "unset", {}, "scenario")}}

LoginSteps ==
    {StepOf("login", "none", {}, {"token"}, hs) :
        hs \in {{}, {Header("lower", "plain", {"token"}, "step")}}}

UseSteps ==
    {StepOf("use", b, IF b = "none" THEN {} ELSE {"token"}, {}, hs) :
        b \in {"none", "inline", "template"},
        hs \in {{}, {Header("upper", "plain", {"token"}, "step")},
                {Secretive("upper", "var", "step")},
                {Header("lower", "var", {}, "step"), Header("upper", "plain", {}, "step")}}}

\* In the order meant, and in the other.
HeaderFiles ==
    {FileOf({"scenarios"}, {}, g, <<ScenarioOf("session", 1, s, steps)>>) :
        g \in GlobalHeaders, s \in ScenarioHeaders,
        steps \in {<<l, u>> : l \in LoginSteps, u \in UseSteps}
                    \cup {<<u, l>> : l \in LoginSteps, u \in UseSteps}}

-----------------------------------------------------------------------------
Plain(name, weight) ==
    ScenarioOf(name, weight, {}, <<StepOf("get", "none", {}, {}, {})>>)

\* No scenario, several, two of one name, weights out of range, bad steps.
ScenarioLists ==
    {<<>>, <<Plain("a", 2), Plain("b", 1)>>, <<Plain("a", 1), Plain("b", 2)>>,
     <<Plain("a", 1), Plain("a", 1)>>, <<Plain("a", 0)>>, <<Plain("a", 3), Plain("b", 1)>>,
     <<Plain("a", 2), Plain("b", 2), Plain("c", 1)>>,
     <<[Plain("a", 1) EXCEPT !.steps = <<>>]>>,
     <<[Plain("a", 1) EXCEPT !.wellFormed = FALSE]>>,
     <<[Plain("a", 1) EXCEPT !.steps = @ \o @]>>,
     <<Plain("b", 1), [Plain("a", 1) EXCEPT !.steps[1].resolvable = FALSE]>>,
     <<[Plain("a", 1) EXCEPT !.steps[1].body = "both"]>>}

ListFiles ==
    {FileOf({"scenarios"} \cup k, {}, {}, list) :
        k \in SUBSET {"stages", "request_template", "host"}, list \in ScenarioLists}

MCFiles == SettingFiles \cup PublishFiles \cup HeaderFiles \cup ListFiles

-----------------------------------------------------------------------------
\* A few flags at a time; clap refuses some pairs.
FlagSets ==
    {f \in SUBSET {"host", "method", "request_count", "load_curve", "body",
                   "response_template", "publish_url"} : Cardinality(f) <= 2}
        \ {{"load_curve", "request_count"}}

FlagHeaders ==
    {<<Header("upper", "var", {}, "flag")>>,
     <<Header("lower", "plain", {"token"}, "flag"), Header("upper", "plain", {}, "flag")>>}

Line(flags, curveOk, headers) == [flags |-> flags, curveOk |-> curveOk, headers |-> headers]

MCCommandLines ==
    {Line(f, TRUE, <<>>) : f \in FlagSets}
        \cup {Line({"load_curve"}, FALSE, <<>>)}
        \cup {Line(f, TRUE, h) : f \in {{}, {"host"}}, h \in FlagHeaders}
=============================================================================
