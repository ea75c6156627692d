------------------------------ MODULE Template ------------------------------
(***************************************************************************)
(* A request template, from its file to the bodies of a run               *)
(* (lmn-core/src/request_template/): Template::parse refuses the file or  *)
(* fixes the :global and ENV: values; generate_one then renders a body    *)
(* for each request, for several VUs at once.                             *)
(*                                                                         *)
(* A file is a set of placeholders in the body and a function from names  *)
(* to definitions.  The traversals of hash maps take any order.  Of a     *)
(* generated value only its node is kept: the placeholder of the body it  *)
(* is for, the definition it was generated from, and when: at startup (0) *)
(* or for which request.  Numbers of a string definition are in halves.   *)
(***************************************************************************)
EXTENDS Integers, Sequences, FiniteSets

CONSTANTS
    Names,      \* what placeholders may be called
    EnvNames,   \* names that begin with ENV:
    EnvSet,     \* those whose variable is named and set
    None, Malformed, \* no value; a composition value without {{ }}
    MaxLength,  \* MAX_STRING_LENGTH
    UsizeMax,   \* the largest usize (release builds wrap)
    Files,      \* the files of this model
    MaxRequests \* bound: bodies rendered

Placeholders == [name : Names \cup EnvNames, global : BOOLEAN]

\* A definition as serde reads it: an option is a number or None, counts are
\* usize, and `unit` is a power of ten.
Typed(raw) ==
    /\ raw.type \in {"string", "float", "object"}
    /\ raw.type \in {"string", "float"} =>
        \A x \in {raw.exact, raw.min, raw.max} : x # None => x \in Int
    /\ raw.type = "string" => raw.upper \in Nat /\ raw.lower \in Nat
    /\ raw.type = "float" => raw.unit \in Nat \ {0}

ASSUME TemplateAssumption ==
    /\ EnvSet \subseteq EnvNames /\ Names \cap EnvNames = {}
    /\ Malformed \notin Names \cup EnvNames
    /\ MaxLength \in Nat /\ UsizeMax \in Nat /\ MaxRequests \in Nat
    /\ \A f \in Files :
        /\ f.body \subseteq Placeholders /\ IsFiniteSet(DOMAIN f.defs)
        /\ \A n \in DOMAIN f.defs : Typed(f.defs[n])

VARIABLES
    file,     \* [wellFormed, body, defs]
    phase,    \* how far parse() has come
    error,    \* the TemplateError: [kind, path]
    roots,    \* names the cycle check has still to start from
    visiting, \* its stack: [name, todo], todo the references not yet followed
    resolved, \* nodes of the :global and ENV: values
    job       \* request -> [state, todo, out]; 0 is the resolution of :global

vars == <<file, phase, error, roots, visiting, resolved, job>>

Jobs == 0..MaxRequests
Requests == 1..MaxRequests

-----------------------------------------------------------------------------
(* Definitions and their validation *)

\* A number cast to usize: truncated, and never below zero.
ToUsize(x) ==
    IF x < 0 THEN 0 ELSE IF x \div 2 > UsizeMax THEN UsizeMax ELSE x \div 2

Or(x, default) == IF x = None THEN default ELSE ToUsize(x)

LengthSpec(raw) ==
    IF raw.exact # None
      THEN [min |-> ToUsize(raw.exact), max |-> ToUsize(raw.exact)]
      ELSE [min |-> Or(raw.min, 1), max |-> Or(raw.max, Or(raw.min, 1))]

CountSum(raw) == (raw.upper + raw.lower) % (UsizeMax + 1)

\* Mutant of RoomFor: the counts are held against the longest string.
RoomForLongest(raw, length) == CountSum(raw) <= length.max

RoomFor(raw, length) == CountSum(raw) <= length.min

ValidString(raw) ==
    \/ raw.choice = "some"
    \/ /\ raw.choice = "none"
       /\ LET length == LengthSpec(raw) IN
            /\ length.min <= length.max /\ length.max <= MaxLength
            /\ RoomFor(raw, length)

ValidFloat(raw) ==
    \/ raw.exact # None
    \/ raw.min # None /\ raw.max # None /\ raw.min <= raw.max

ValidDef(raw) ==
    CASE raw.type = "string" -> ValidString(raw)
      [] raw.type = "float"  -> ValidFloat(raw)
      [] raw.type = "object" -> Malformed \notin raw.composition

Defined == DOMAIN file.defs

\* The names a composition refers to, without :global.
Refs(n) ==
    IF n \in Defined /\ file.defs[n].type = "object"
      THEN {ref.name : ref \in file.defs[n].composition}
      ELSE {}

-----------------------------------------------------------------------------
(* What the generators produce *)

LengthsOf(raw) == LengthSpec(raw).min..LengthSpec(raw).max

\* Characters of a generated string for which `length` was drawn: the counts
\* are pushed whatever the length, the rest fills up.
Monus(a, b) == IF a > b THEN a - b ELSE 0

GeneratedLength(raw, length) ==
    raw.upper + raw.lower + Monus(length, CountSum(raw))

\* A float to its decimals, halves away from zero; `unit` is the weight of
\* the last decimal.
Rounded(x, unit) ==
    IF x >= 0 THEN ((x + unit \div 2) \div unit) * unit
              ELSE -(((unit \div 2 - x) \div unit) * unit)

FloatsOf(raw) ==
    {Rounded(x, raw.unit) : x \in IF raw.exact # None THEN {raw.exact} ELSE raw.min..raw.max}

-----------------------------------------------------------------------------
(* Template::parse *)

NoError == [kind |-> "none", path |-> <<>>]
Idle == [state |-> "idle", todo |-> {}, out |-> {}]

Init ==
    /\ file \in Files
    /\ phase = "validate"
    /\ error = NoError
    /\ roots = {} /\ visiting = <<>> /\ resolved = {}
    /\ job = [r \in Jobs |-> Idle]

Refuse(kind, path) == phase' = "refused" /\ error' = [kind |-> kind, path |-> path]

\* The file is read and parsed, and each definition is validated.
ValidateAll ==
    /\ phase = "validate"
    /\ IF ~file.wellFormed THEN Refuse("InvalidJson", <<>>)
       ELSE IF \A n \in Defined : ValidDef(file.defs[n])
         THEN phase' = "placeholders" /\ error' = error
         ELSE \E n \in Defined : /\ ~ValidDef(file.defs[n])
                                 /\ Refuse("InvalidConstraint", <<n>>)
    /\ UNCHANGED <<file, roots, visiting, resolved, job>>

\* Mutant of Unknown: a definition is only asked for without :global.
UnknownPlain == {p \in file.body : p.name \notin Defined \cup EnvNames /\ ~p.global}

Unknown == {p \in file.body : p.name \notin Defined \cup EnvNames}

ValidatePlaceholders ==
    /\ phase = "placeholders"
    /\ IF Unknown = {}
         THEN phase' = "references" /\ error' = error
         ELSE \E p \in Unknown : Refuse("UnknownPlaceholder", <<p.name>>)
    /\ UNCHANGED <<file, roots, visiting, resolved, job>>

MissingRefs == (UNION {Refs(n) : n \in Defined}) \ Defined

\* Mutant of Roots: only names no composition refers to are started from.
RootsUnreferenced == Defined \ (UNION {Refs(n) : n \in Defined})

Roots == Defined

\* check_circular_refs: every reference must have a definition first.
CheckReferences ==
    /\ phase = "references"
    /\ IF MissingRefs = {}
         THEN phase' = "cycles" /\ roots' = Roots /\ error' = error
         ELSE \E n \in MissingRefs : Refuse("MissingDefinition", <<n>>) /\ roots' = roots
    /\ UNCHANGED <<file, visiting, resolved, job>>

StackNames == [i \in DOMAIN visiting |-> visiting[i].name]

\* Mutant of OnStack: what an earlier start has been through counts as well.
SeenBefore(n) == n \notin roots \/ \E i \in DOMAIN visiting : visiting[i].name = n

OnStack(n) == \E i \in DOMAIN visiting : visiting[i].name = n

\* detect_cycle(n), called with the stack `below`: only objects are pushed.
Visit(n, below) ==
    IF OnStack(n)
      THEN Refuse("CircularReference", Append(StackNames, n)) /\ visiting' = visiting
      ELSE /\ visiting' = IF n \in Defined /\ file.defs[n].type = "object"
                            THEN Append(below, [name |-> n, todo |-> Refs(n)])
                            ELSE below
           /\ UNCHANGED <<phase, error>>

StartRoot(n) ==
    /\ phase = "cycles"
    /\ visiting = <<>>
    /\ n \in roots
    /\ roots' = roots \ {n}
    /\ Visit(n, visiting)
    /\ UNCHANGED <<file, resolved, job>>

Top == visiting[Len(visiting)]

Descend(n) ==
    /\ phase = "cycles"
    /\ visiting # <<>>
    /\ n \in Top.todo
    /\ Visit(n, [visiting EXCEPT ![Len(visiting)].todo = @ \ {n}])
    /\ UNCHANGED <<file, roots, resolved, job>>

Backtrack ==
    /\ phase = "cycles"
    /\ visiting # <<>>
    /\ Top.todo = {}
    /\ visiting' = SubSeq(visiting, 1, Len(visiting) - 1)
    /\ UNCHANGED <<file, phase, error, roots, resolved, job>>

-----------------------------------------------------------------------------
(* Values: fixed at startup, or generated for a request *)

Self(names) == {[top |-> n, name |-> n] : n \in names}

\* GlobalPlaceholderHandler::matches, by bare name.
Globals == {p.name : p \in {q \in file.body : q.global /\ q.name \notin EnvNames}}

\* EnvPlaceholderHandler::matches
EnvsOf == {p.name : p \in file.body} \cap EnvNames

CyclesChecked ==
    /\ phase = "cycles"
    /\ visiting = <<>> /\ roots = {}
    /\ phase' = "globals"
    /\ job' = [job EXCEPT ![0] = [state |-> "rendering", todo |-> Self(Globals), out |-> {}]]
    /\ UNCHANGED <<file, error, roots, visiting, resolved>>

\* generate_by_name for what is to be generated, one level of composition at
\* a time.  generate_object never looks at `resolved`.
Generate(r) ==
    /\ job[r].state = "rendering"
    /\ job[r].todo # {}
    /\ job' = [job EXCEPT
        ![r].out = @ \cup {[top |-> t.top, name |-> t.name, time |-> r] : t \in job[r].todo},
        ![r].todo = UNION {{[top |-> t.top, name |-> m] : m \in Refs(t.name)} : t \in @}]
    /\ UNCHANGED <<file, phase, error, roots, visiting, resolved>>

FinishJob(r) ==
    /\ job[r].state = "rendering"
    /\ job[r].todo = {}
    /\ job' = [job EXCEPT ![r].state = "done"]
    /\ phase' = IF r = 0 THEN "env" ELSE phase
    /\ UNCHANGED <<file, error, roots, visiting, resolved>>

\* The variables are read; then the body is compiled.
ResolveEnv ==
    /\ phase = "env"
    /\ IF EnvsOf \subseteq EnvSet
         THEN /\ phase' = "serving" /\ error' = error
              /\ resolved' = job[0].out
                    \cup {[top |-> n, name |-> n, time |-> 0] : n \in EnvsOf}
         ELSE \E n \in EnvsOf \ EnvSet : Refuse("MissingEnvVar", <<n>>) /\ resolved' = resolved
    /\ UNCHANGED <<file, roots, visiting, job>>

\* generate_one: of the names of the body, those in `resolved` are written as
\* they are, the others are generated.
StartRequest(r) ==
    /\ phase = "serving"
    /\ job[r].state = "idle"
    /\ LET names == {p.name : p \in file.body}
           known == {v \in resolved : v.top \in names}
       IN  job' = [job EXCEPT ![r] = [state |-> "rendering",
                       todo |-> Self(names \ {v.top : v \in known}), out |-> known]]
    /\ UNCHANGED <<file, phase, error, roots, visiting, resolved>>

-----------------------------------------------------------------------------
Parse ==
    \/ ValidateAll \/ ValidatePlaceholders \/ CheckReferences
    \/ \E n \in roots : StartRoot(n)
    \/ \E n \in Names : Descend(n)
    \/ Backtrack \/ CyclesChecked
    \/ Generate(0) \/ FinishJob(0)
    \/ ResolveEnv

GenerateOne(r) == StartRequest(r) \/ Generate(r) \/ FinishJob(r)

Finished ==
    /\ \/ phase = "refused"
       \/ phase = "serving" /\ \A r \in Requests : job[r].state = "done"
    /\ UNCHANGED vars

Next == Parse \/ (\E r \in Requests : GenerateOne(r)) \/ Finished

Spec == Init /\ [][Next]_vars

\* parse() is sequential and awaits nothing; a VU that renders runs on.
FairSpec == Spec /\ WF_vars(Parse) /\ \A r \in Requests : WF_vars(GenerateOne(r))

-----------------------------------------------------------------------------
(* Properties *)

\* Definitions can be ranked such that every reference leads downwards.
Acyclic ==
    \E rank \in [Defined -> 1..Cardinality(Defined)] :
        \A n \in Defined : \A m \in Refs(n) : rank[m] < rank[n]

Walk(path) == \A i \in 1..(Len(path) - 1) : path[i + 1] \in Refs(path[i])

\* A template is accepted only if every name used has a definition and no
\* composition contains itself; one that is refused for a cycle or a missing
\* definition has it, and the cycle that is reported is one: each name refers
\* to the next and the last is among those before it.
\* About: detect_cycle's stack, pushed and popped along any order of the maps.
VerdictIsRight ==
    /\ phase \in {"globals", "env", "serving"} =>
        /\ Acyclic
        /\ \A n \in Defined : Refs(n) \subseteq Defined
        /\ \A p \in file.body : p.name \in Defined \cup EnvNames
    /\ error.kind = "CircularReference" =>
        LET path == error.path IN
        /\ Walk(path)
        /\ \E i \in 1..(Len(path) - 1) : path[i] = path[Len(path)]
    /\ error.kind = "MissingDefinition" =>
        error.path[1] \notin Defined /\ \E n \in Defined : error.path[1] \in Refs(n)

\* The placeholders of the body whose value is fixed at startup; a name that
\* occurs with and without :global is stable in both places.
FixedName(n) == \E p \in file.body : p.name = n /\ (p.global \/ p.name \in EnvNames)

\* Some composition refers to a name with :global.
GlobalInside ==
    \E n \in Defined : /\ file.defs[n].type = "object"
                       /\ \E ref \in file.defs[n].composition : ref.global

\* A body that is sent has a value for each placeholder and no null: what the
\* body has as :global, or from the environment, has the value of startup in
\* every request, with all it is composed of, and any other placeholder one
\* of its own request.  So has what the latter is composed of, in a file that
\* knows these names without :global only.  (Otherwise nothing is said of it:
\* TEMPLATES.md has :global apply inside compositions, generate_object
\* generates anew.)
\* About: `resolved`, keyed by bare name, against generate_by_name.
BodyAsWritten ==
    \A r \in Requests : job[r].state = "done" =>
        /\ \A p \in file.body : \E v \in job[r].out : v.top = p.name /\ v.name = p.name
        /\ \A v \in job[r].out :
            /\ v.name \in Defined \cup EnvSet
            /\ FixedName(v.top) => v.time = 0
            /\ ~FixedName(v.top) /\ (v.name = v.top \/ ~(GlobalInside \/ FixedName(v.name)))
                => v.time = r

\* What an accepted definition generates keeps within it: a string has a
\* length of its range, of at most MaxLength (as long as its two counts
\* together fit a usize), a float lies between its bounds whenever these have
\* no more decimals than it is rounded to.
\* About: the validators against the generators, casts and rounding included.
ValuesInSpec ==
    phase \in {"globals", "env", "serving"} => \A n \in Defined :
        LET raw == file.defs[n] IN
        /\ (raw.type = "string" /\ raw.choice = "none" /\ raw.upper + raw.lower <= UsizeMax) =>
            \A length \in LengthsOf(raw) :
                /\ GeneratedLength(raw, length) = length
                /\ length <= MaxLength
        /\ (raw.type = "float" /\ raw.exact = None /\ raw.min % raw.unit = 0 /\ raw.max % raw.unit = 0) =>
            FloatsOf(raw) \subseteq raw.min..raw.max

\* Rendering a body of an accepted template comes to an end, and so does the
\* resolution of the :global values.
\* About: generate_object, which recurses without a bound of its own.
RenderingEnds ==
    \A r \in Jobs : (job[r].state = "rendering") ~> (job[r].state = "done")
=============================================================================
