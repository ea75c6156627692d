----------------------------- MODULE ConfigFile -----------------------------
(***************************************************************************)
(* What parse_config (lmn-core/src/config/lumen_config.rs) accepts.       *)
(*                                                                         *)
(* A file is the set of settings it has, those among them whose value is  *)
(* no good, its global headers and its scenarios.  Names are taken after  *)
(* case folding, as they are compared; every rule about the text of one   *)
(* item (not empty, length, characters) is the item's `wellFormed`.       *)
(***************************************************************************)
EXTENDS Naturals, Sequences, FiniteSets

CONSTANTS
    HeaderNames,  \* header names, without regard to case
    Aliases,      \* capture aliases
    MaxHeaders, MaxScenarios, MaxWeight, MaxSteps \* the caps, scaled

ASSUME ConfigAssumption ==
    /\ MaxHeaders \in Nat /\ MaxScenarios \in Nat
    /\ MaxWeight \in Nat /\ MaxSteps \in Nat

FileKeys ==
    {"host", "method", "output", "output_file", "request_template",
     "response_template", "request_count", "concurrency", "rps", "stages",
     "thresholds", "scenarios", "publish_url", "publish_enabled"}

\* Where a header comes from, outermost first.
Layers == <<"file", "flag", "scenario", "step">>

\* A header value without ${VAR}; with a variable that is set, to a text
\* without or with a ${VAR} of its own; with one that is not set.
Texts == {"plain", "var", "nested", "unset"}

\* A map of headers is a set of these; `spelling` tells keys of the map apart
\* that differ in case only, `refs` are the {{capture.KEY}} references of its
\* value, `gains` those in what a variable of the value is set to.
Headers == [name : HeaderNames, spelling : {"lower", "upper"}, text : Texts,
            refs : SUBSET Aliases, gains : SUBSET Aliases,
            layer : {"file", "flag", "scenario", "step"}]

HeadersOf(layer) == {h \in Headers : h.layer = layer}

\* `refs` are the references of the body, whichever kind it is; `resolvable`
\* says that method, host, paths and template files will do.
StepConfigs ==
    {step \in [name : STRING, wellFormed : BOOLEAN, resolvable : BOOLEAN,
               body : {"none", "inline", "template", "both"}, refs : SUBSET Aliases,
               gives : SUBSET Aliases, headers : SUBSET HeadersOf("step")] :
        step.body = "none" => step.refs = {}}

ScenarioConfigs ==
    [name : STRING, wellFormed : BOOLEAN, weight : Nat,
     headers : SUBSET HeadersOf("scenario"), steps : Seq(StepConfigs)]

ConfigFiles ==
    [keys : SUBSET FileKeys, bad : SUBSET FileKeys, headers : SUBSET HeadersOf("file"),
     scenarios : Seq(ScenarioConfigs)]

-----------------------------------------------------------------------------
Distinct(items) == \A i, j \in DOMAIN items : i # j => items[i].name # items[j].name

\* validate_headers_map
ValidHeaders(headers) == Cardinality(headers) <= MaxHeaders

ValidStep(step) ==
    step.wellFormed /\ step.body # "both" /\ ValidHeaders(step.headers)

ValidScenario(s) ==
    /\ s.wellFormed
    /\ s.weight \in 1..MaxWeight
    /\ ValidHeaders(s.headers)
    /\ Len(s.steps) \in 1..MaxSteps
    /\ Distinct(s.steps)
    /\ \A i \in DOMAIN s.steps : ValidStep(s.steps[i])

\* There is an upper bound on the number of scenarios, and no lower one.
CountOK(c) == Len(c.scenarios) <= MaxScenarios

ValidScenarios(c) ==
    "scenarios" \in c.keys =>
        /\ CountOK(c)
        /\ c.keys \cap {"host", "method", "request_template", "response_template"} = {}
        /\ Distinct(c.scenarios)
        /\ \A i \in DOMAIN c.scenarios : ValidScenario(c.scenarios[i])

ValidExecution(c) ==
    "stages" \in c.keys => c.keys \cap {"request_count", "concurrency"} = {}

ParseConfig(c) ==
    /\ ValidExecution(c)
    /\ ValidScenarios(c)
    /\ ValidHeaders(c.headers)
    /\ c.bad \cap {"thresholds", "request_count", "concurrency"} = {}
=============================================================================
