------------------------------ MODULE Startup ------------------------------
(***************************************************************************)
(* From a command line and a configuration file to the VUs of a run:      *)
(*                                                                         *)
(*   RunArgsResolved::try_from  (lmn-cli/src/cli/adapter.rs)              *)
(*   ScenarioResolver           (lmn-core/src/config/resolver.rs)         *)
(*   assign_scenario, called by both executors when they spawn a VU       *)
(*                                                                         *)
(* Of a value only its source is kept: a flag, the file, the environment  *)
(* or the default.  No file given is the same as an empty one.  Maps are  *)
(* hash maps: where the code iterates over one, any order may come up.    *)
(***************************************************************************)
EXTENDS ConfigFile, Assign

CONSTANTS
    CommandLines,  \* those clap accepts: [flags, curveOk, headers]
    Files,         \* configuration files
    MaxVUs         \* bound: VUs spawned

Flags == {"host", "method", "output", "output_file", "body", "request_template",
          "response_template", "request_count", "concurrency", "rps",
          "load_curve", "publish_url"}

\* conflicts_with of RunArgs.
ClapAccepts(flags) ==
    /\ "load_curve" \in flags => flags \cap {"request_count", "concurrency"} = {}
    /\ ~ {"body", "request_template"} \subseteq flags

ASSUME InputsAssumption ==
    /\ \A c \in CommandLines :
        /\ c.flags \subseteq Flags /\ ClapAccepts(c.flags)
        /\ c.headers \in Seq(HeadersOf("flag"))
    /\ Files \subseteq ConfigFiles

\* assign_scenario's documentation: the caps keep the total weight far below
\* what its sums can hold.
ASSUME CapsAssumption == MaxScenarios * MaxWeight <= U64Max

Settings == Flags
Sources == {"unused", "default", "env", "file", "flag"}

VARIABLES
    pc,        \* where try_from stands; "ready", "rejected" or "panicked"
    cli, file, \* the inputs
    env,       \* LUMEN_API_URL is set
    settings,  \* setting -> where its value comes from
    globals,   \* the merged headers of file and command line
    inherited, \* the headers of the scenario being resolved
    sent,      \* the headers of its steps resolved so far
    resolved,  \* the scenarios resolved so far: the headers of their steps
    assigned   \* VU -> its scenario

vars == <<pc, cli, file, env, settings, globals, inherited, sent, resolved, assigned>>
inputs == <<cli, file, env>>

Init ==
    /\ pc = "parse"
    /\ cli \in CommandLines /\ file \in Files /\ env \in BOOLEAN
    /\ settings = [s \in Settings |-> "unused"]
    /\ globals = {} /\ inherited = {}
    /\ sent = <<>> /\ resolved = <<>> /\ assigned = <<>>

-----------------------------------------------------------------------------
(* Settings *)

\* Mutant of Pick: the file wins over the command line.
PickFile(s) ==
    CASE s \in file.keys -> "file"
      [] s \notin file.keys /\ s \in cli.flags -> "flag"
      [] OTHER -> "default"

\* A flag that was given wins; then the file; then the default.
Pick(s) ==
    CASE s \in cli.flags -> "flag"
      [] s \notin cli.flags /\ s \in file.keys -> "file"
      [] OTHER -> "default"

\* The curve of the run, from --load-curve, else from execution.stages.
CurveSource ==
    CASE "load_curve" \in cli.flags -> "flag"
      [] "load_curve" \notin cli.flags /\ "stages" \in file.keys -> "file"
      [] OTHER -> "unused"

ExecutionSource(s) ==
    CASE s \in {"output", "output_file"} -> Pick(s)
      [] s = "rps" -> Pick(s)
      [] s = "load_curve" -> CurveSource
      [] s \in {"request_count", "concurrency"} ->
            IF CurveSource = "unused" THEN Pick(s) ELSE "unused"
      [] OTHER -> settings[s]

\* A value of the file is looked at when it is used, not before.
ExecutionRefused ==
    \/ \E s \in {"method", "output"} : Pick(s) = "file" /\ s \in file.bad
    \/ CurveSource = "flag" /\ ~cli.curveOk
    \/ CurveSource = "file" /\ "stages" \in file.bad

ScenarioMode == "scenarios" \in file.keys

\* Of a single request; the response template of the file is not asked for.
RequestSource(s) ==
    CASE s \in {"host", "method", "request_template"} -> Pick(s)
      [] s \in {"body", "response_template"} ->
            IF s \in cli.flags THEN "flag" ELSE "default"
      [] OTHER -> settings[s]

\* A flag enables publishing by itself, a URL in the file does not.
Publishes == "publish_url" \in cli.flags \/ "publish_enabled" \in file.keys

PublishSource ==
    CASE "publish_url" \in cli.flags -> "flag"
      [] "publish_url" \notin cli.flags /\ env -> "env"
      [] "publish_url" \notin cli.flags /\ ~env -> Pick("publish_url")

-----------------------------------------------------------------------------
(* Headers *)

\* Mutant of SameHeader: the names are compared with regard to case.
SameSpelling(h, g) == h.name = g.name /\ h.spelling = g.spelling

\* eq_ignore_ascii_case
SameHeader(h, g) == h.name = g.name

\* merge_headers_into: each header that comes in displaces those of its name,
\* so that one of every name remains, the last in the order of iteration.
Merges(base, incoming) ==
    {{b \in base : \A h \in incoming : ~SameHeader(b, h)} \cup last :
        last \in {some \in SUBSET incoming :
                    /\ \A h \in incoming : \E g \in some : SameHeader(h, g)
                    /\ \A g, h \in some : SameHeader(g, h) => g = h}}

\* The headers of the command line come in the order given.
LastFlags ==
    {cli.headers[i] : i \in {n \in DOMAIN cli.headers :
        \A m \in DOMAIN cli.headers : m > n => ~SameHeader(cli.headers[n], cli.headers[m])}}

\* resolve_env_placeholders: a variable is replaced by its text, and with it
\* come the references in there; refused when a variable is not set.
Expand(h) ==
    [h EXCEPT !.text = IF @ = "nested" THEN "var" ELSE "plain",
              !.refs = IF h.text \in {"var", "nested"} THEN @ \cup h.gains ELSE @]
Expandable(headers) == \A h \in headers : h.text # "unset"
ExpandAll(headers) == {Expand(h) : h \in headers}

-----------------------------------------------------------------------------
Reject == pc' = "rejected"

Parse ==
    /\ pc = "parse"
    /\ IF ParseConfig(file) THEN pc' = "execution" ELSE Reject
    /\ UNCHANGED <<inputs, settings, globals, inherited, sent, resolved, assigned>>

ResolveExecution ==
    /\ pc = "execution"
    /\ IF ExecutionRefused
         THEN Reject /\ settings' = settings
         ELSE /\ pc' = "headers"
              /\ settings' = [s \in Settings |-> ExecutionSource(s)]
    /\ UNCHANGED <<inputs, globals, inherited, sent, resolved, assigned>>

\* The merged map is checked against the cap of parse_config once more.
ResolveHeaders ==
    /\ pc = "headers"
    /\ LET last == LastFlags
           all == {h \in file.headers : \A g \in last : ~SameHeader(h, g)} \cup last
       IN  IF ValidHeaders(all) /\ Expandable(all)
             THEN pc' = "request" /\ globals' = ExpandAll(all)
             ELSE Reject /\ globals' = globals
    /\ UNCHANGED <<inputs, settings, inherited, sent, resolved, assigned>>

\* A single request needs a host from somewhere.
SingleRequest ==
    /\ pc = "request" /\ ~ScenarioMode
    /\ IF Pick("host") = "default"
         THEN Reject /\ settings' = settings
         ELSE /\ pc' = "publish"
              /\ settings' = [s \in Settings |-> RequestSource(s)]
    /\ UNCHANGED <<inputs, globals, inherited, sent, resolved, assigned>>

Current == file.scenarios[Len(resolved) + 1]

\* resolve_scenario, up to its first step ...
BeginScenario ==
    /\ pc = "request" /\ ScenarioMode
    /\ Len(resolved) < Len(file.scenarios)
    /\ inherited' \in Merges(globals, Current.headers)
    /\ sent' = <<>>
    /\ pc' = "step"
    /\ UNCHANGED <<inputs, settings, globals, resolved, assigned>>

\* ... resolve_step, which expands the merged headers, inherited or not ...
ResolveStep ==
    /\ pc = "step" /\ Len(sent) < Len(Current.steps)
    /\ LET step == Current.steps[Len(sent) + 1] IN
       \E merged \in Merges(inherited, step.headers) :
        IF Expandable(merged) /\ step.resolvable
          THEN sent' = Append(sent, ExpandAll(merged)) /\ pc' = pc
          ELSE Reject /\ sent' = sent
    /\ UNCHANGED <<inputs, settings, globals, inherited, resolved, assigned>>

\* What the steps of a scenario before step i capture.
Captured(scenario, i) == UNION {scenario.steps[j].gives : j \in 1..(i - 1)}

\* Mutant of DefinedAliases: a step may refer to what it captures itself.
DefinedWithOwn(scenario, i) == Captured(scenario, i + 1)

DefinedAliases(scenario, i) == Captured(scenario, i)

\* The references that are looked for: in a step's own headers as written,
\* and in an inline body.
ScannedRefs(step) ==
    (UNION {h.refs : h \in step.headers})
        \cup (IF step.body = "inline" THEN step.refs ELSE {})

\* ... and the check of the references.
EndScenario ==
    /\ pc = "step" /\ Len(sent) = Len(Current.steps)
    /\ IF \A i \in DOMAIN sent : ScannedRefs(Current.steps[i]) \subseteq DefinedAliases(Current, i)
         THEN resolved' = Append(resolved, sent) /\ pc' = "request"
         ELSE Reject /\ resolved' = resolved
    /\ UNCHANGED <<inputs, settings, globals, inherited, sent, assigned>>

EndScenarios ==
    /\ pc = "request" /\ ScenarioMode
    /\ Len(resolved) = Len(file.scenarios)
    /\ pc' = "publish"
    /\ UNCHANGED <<inputs, settings, globals, inherited, sent, resolved, assigned>>

ResolvePublish ==
    /\ pc = "publish"
    /\ settings' = IF Publishes THEN [settings EXCEPT !["publish_url"] = PublishSource]
                   ELSE settings
    /\ pc' = "ready"
    /\ UNCHANGED <<inputs, globals, inherited, sent, resolved, assigned>>

Weights == [i \in DOMAIN resolved |-> file.scenarios[i].weight]

\* An executor spawns its next scenario VU.
SpawnVU ==
    /\ pc = "ready" /\ ScenarioMode
    /\ resolved # <<>>
    /\ Len(assigned) < MaxVUs
    /\ assigned' = Append(assigned, AssignScenario(Len(assigned), Weights))
    /\ UNCHANGED <<pc, inputs, settings, globals, inherited, sent, resolved>>

\* assign_scenario divides by the number of scenarios when no weight is left.
SpawnPanics ==
    /\ pc = "ready" /\ ScenarioMode
    /\ resolved = <<>>
    /\ pc' = "panicked"
    /\ UNCHANGED <<inputs, settings, globals, inherited, sent, resolved, assigned>>

Next ==
    \/ Parse \/ ResolveExecution \/ ResolveHeaders \/ SingleRequest
    \/ BeginScenario \/ ResolveStep \/ EndScenario \/ EndScenarios
    \/ ResolvePublish \/ SpawnVU \/ SpawnPanics

Spec == Init /\ [][Next]_vars

-----------------------------------------------------------------------------
(* Properties *)

TypeOK ==
    /\ pc \in {"parse", "execution", "headers", "request", "step", "publish",
               "ready", "rejected", "panicked"}
    /\ settings \in [Settings -> Sources]
    /\ globals \subseteq Headers /\ inherited \subseteq Headers
    /\ \A i \in DOMAIN sent : sent[i] \subseteq Headers
    /\ Len(resolved) <= Len(file.scenarios)
    /\ \A i \in DOMAIN resolved : Len(resolved[i]) = Len(file.scenarios[i].steps)
    /\ assigned \in Seq(DOMAIN file.scenarios)

\* The headers that may reach step i of scenario n, and the refs of a set.
HeadersFor(n, i) ==
    file.headers \cup {cli.headers[k] : k \in DOMAIN cli.headers}
        \cup file.scenarios[n].headers \cup file.scenarios[n].steps[i].headers

RefsOf(headers) == UNION {h.refs : h \in headers}

Rank(h) == CHOOSE r \in DOMAIN Layers : Layers[r] = h.layer

\* A step sends every header that some layer names, as the innermost of these
\* layers has it, and once: only a global header that the file itself spells
\* in two ways goes out twice.  About: three merges, one after the other,
\* which compare names without regard to case.
InnermostWins ==
    \A n \in DOMAIN resolved : \A i \in DOMAIN resolved[n] : \A name \in HeaderNames :
        LET named == {h \in HeadersFor(n, i) : h.name = name}
            got   == {h \in resolved[n][i] : h.name = name}
        IN  /\ named # {} => got # {}
            /\ \A h \in got : \A g \in named : Rank(g) <= Rank(h)
            /\ \A g, h \in got : g = h \/ (g.layer = "file" /\ h.layer = "file")

\* In an accepted run whose captures all succeed, a request never lacks the
\* value of a reference that the step itself writes, in a header or an inline
\* body: what it may lack came with an inherited header, out of a variable,
\* or stood in a template file.  (docs/reference/config.md has all references
\* of headers and bodies checked; nothing is said here of these three.)
\* About: the static check of references, made on the step's headers as they
\* are written, against the merged and expanded headers that are injected into
\* at run time.
WrittenRefsDefined ==
    \A n \in DOMAIN resolved : \A i \in DOMAIN resolved[n] :
        LET step == file.scenarios[n].steps[i]
            lacking == (RefsOf(resolved[n][i]) \cup step.refs)
                            \ Captured(file.scenarios[n], i)
        IN  \A k \in lacking :
            \/ \E h \in resolved[n][i] : h.layer # "step" /\ k \in h.refs
            \/ \E h \in step.headers : k \in Expand(h).refs \ h.refs
            \/ step.body = "template" /\ k \in step.refs

\* The flags of a single request, and those of a fixed-count run.
RequestFlags == {"host", "method", "body", "request_template", "response_template"}
CountFlags == {"request_count", "concurrency"}

\* A flag is overruled by nothing but the mode the file selects, a setting of
\* the file by nothing but a flag, the environment or the mode; and a run has
\* counts or a curve.  About: the chains of or_else of try_from, and the three
\* places that choose a mode.
NothingLost ==
    pc = "ready" =>
        /\ \A f \in cli.flags :
            \/ settings[f] = "flag"
            \/ f \in CountFlags /\ "stages" \in file.keys
            \/ f \in RequestFlags /\ ScenarioMode
        /\ \A s \in file.keys \cap Settings :
            settings[s] = "default" => s = "response_template"
        /\ \A s \in CountFlags : settings[s] = "unused" <=> settings["load_curve"] # "unused"

\* Every VU gets a scenario there is, and at every moment each scenario has
\* had between the floor and the ceiling of its share in whole rounds: w VUs
\* for each complete round of as many VUs as the weights add up to, and at
\* most w more from the round in progress.  About: the caps of parse_config,
\* which keep the sums of assign_scenario from saturating, and its use over
\* an index that is never reset.
Proportional ==
    LET rounds == Len(assigned) \div SumFunction(Weights)
        had(i) == Cardinality({k \in DOMAIN assigned : assigned[k] = i})
    IN  assigned # <<>> =>
            /\ Range(assigned) \subseteq DOMAIN resolved
            /\ \A i \in DOMAIN resolved :
                had(i) \in (rounds * Weights[i])..((rounds + 1) * Weights[i])

\* lmn-core/src/execution/mod.rs: callers of assign_scenario must ensure that
\* there is at least one scenario.
CallersEnsureScenario == pc # "panicked"

\* lmn-core/src/config/secret.rs: placeholders are expanded in a single pass,
\* and what they expand to is not looked at again.
ExpandedOnce ==
    \A n \in DOMAIN resolved : \A i \in DOMAIN resolved[n] :
        \A h \in resolved[n][i] : \E g \in HeadersFor(n, i) : h = Expand(g)

\* docs/reference/config.md: the configuration may name a response template.
FileTemplateUsed ==
    (pc = "ready" /\ "response_template" \in file.keys) =>
        settings["response_template"] \in {"file", "flag"}
=============================================================================
