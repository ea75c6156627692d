--------------------------- MODULE TemplateProofs ---------------------------
(***************************************************************************)
(* Proofs about request templates, for every file, every set of names and *)
(* any number of VUs that render at once: a body that is sent has a value *)
(* for each of its placeholders, fixed at startup or generated for this   *)
(* very request as the placeholder says; what a valid definition makes    *)
(* keeps within it; and the cycle check lets no file with a cycle pass and *)
(* reports none that is not there.                                        *)
(***************************************************************************)
EXTENDS Template, SumProofs, FiniteSetTheorems, SequenceTheorems, TLAPS

BodyNames == {p.name : p \in file.body}

\* The names a job can meet, its goals and what it has generated.
AllNames == Defined \cup EnvNames
Goals == [top : AllNames, name : AllNames]
Nodes == [top : AllNames, name : AllNames, time : Jobs]

\* What parse() has found out so far.
Checked ==
    /\ phase \in {"references", "cycles", "globals", "env", "serving"} => Unknown = {}
    /\ phase \in {"cycles", "globals", "env", "serving"} => MissingRefs = {}

JobTypes ==
    job \in [Jobs -> [state : {"idle", "rendering", "done"},
                      todo : SUBSET Goals, out : SUBSET Nodes]]

\* When the jobs run: that of startup in its own phase, the others at the end.
Order ==
    /\ phase \in {"validate", "placeholders", "references", "cycles"} => job[0].state = "idle"
    /\ job[0].state = "rendering" => phase = "globals"
    /\ phase \in {"env", "serving"} => job[0].state = "done"
    /\ \A r \in Requests : job[r].state # "idle" => phase = "serving"
    /\ \A r \in Jobs : job[r].state = "done" => job[r].todo = {}

\* The job of startup has what is fixed to generate, a request the rest.
RightTodo(j, r) ==
    \A t \in j.todo : t.name \in Defined /\ (FixedName(t.top) <=> r = 0)

RightOut(j, r) ==
    \A v \in j.out :
        /\ v.name \in Defined \cup EnvSet
        /\ r = 0 => FixedName(v.top)
        /\ v.time = IF FixedName(v.top) THEN 0 ELSE r

Wanted(r) == IF r = 0 THEN Globals ELSE BodyNames

\* Nothing that is wanted is forgotten: it is generated or still to be.
RightRest(j, r) ==
    j.state # "idle" => \A n \in Wanted(r) :
        \/ \E t \in j.todo : t.top = n /\ t.name = n
        \/ \E v \in j.out : v.top = n /\ v.name = n

RightJob(j, r) == RightTodo(j, r) /\ RightOut(j, r) /\ RightRest(j, r)

JobsRight == \A r \in Jobs : RightJob(job[r], r)

ResolvedRight ==
    phase = "serving" =>
        /\ \A v \in resolved :
            /\ v \in Nodes /\ v.name \in Defined \cup EnvSet
            /\ FixedName(v.top) /\ v.time = 0
        /\ \A n \in Globals \cup EnvsOf : \E v \in resolved : v.top = n /\ v.name = n

IInv == Checked /\ JobTypes /\ Order /\ JobsRight /\ ResolvedRight

-----------------------------------------------------------------------------
(* Names *)

\* Job 0 is that of startup, the others are the requests.
LEMMA JobNumbers == 0 \in Jobs /\ Requests = Jobs \ {0}
    BY TemplateAssumption DEF Jobs, Requests

\* Fixed at startup are the :global names and the variables.
LEMMA FixedNames == \A n : FixedName(n) <=> n \in Globals \cup EnvsOf
<1> SUFFICES ASSUME NEW n PROVE FixedName(n) <=> n \in Globals \cup EnvsOf
    OBVIOUS
<1>1. FixedName(n) => n \in Globals \cup EnvsOf
    BY Zenon DEF FixedName, Globals, EnvsOf
<1>2. n \in Globals => FixedName(n)
    BY Zenon DEF FixedName, Globals
<1>3. n \in EnvsOf => FixedName(n)
    BY Zenon DEF FixedName, EnvsOf
<1> QED BY <1>1, <1>2, <1>3

\* Once the placeholders are checked, a name that is not an ENV: one has a
\* definition, and so has what its definition refers to.
LEMMA KnownNames ==
    ASSUME Unknown = {}
    PROVE  \A n \in BodyNames : n \in EnvNames \/ n \in Defined
    BY DEF Unknown, BodyNames

\* After check_circular_refs has looked for them, all references are defined.
LEMMA KnownRefs ==
    ASSUME MissingRefs = {}, NEW n \in Defined
    PROVE  Refs(n) \subseteq Defined
<1> DEFINE all == {Refs(m) : m \in Defined}
<1>1. Refs(n) \in all
    OBVIOUS
<1>2. (UNION all) \ Defined = {}
    BY DEF MissingRefs
<1>3. ASSUME NEW m \in Refs(n) PROVE m \in Defined
  <2> HIDE DEF all
  <2>1. m \in UNION all
    BY <1>1
  <2> QED BY <1>2, <2>1
<1> QED BY <1>3

\* A :global name of the body has a definition and is fixed.
LEMMA GlobalNames ==
    ASSUME Unknown = {}
    PROVE  \A n \in Globals : n \in Defined /\ FixedName(n) /\ n \in BodyNames
<1> SUFFICES ASSUME NEW n \in Globals
             PROVE  n \in Defined /\ FixedName(n) /\ n \in BodyNames
    OBVIOUS
<1>1. n \in BodyNames /\ n \notin EnvNames
    BY DEF Globals, BodyNames
<1> QED BY <1>1, KnownNames, FixedNames

-----------------------------------------------------------------------------
\* No job has begun.
LEMMA IInvInit == Init => IInv
<1> SUFFICES ASSUME Init PROVE IInv
    OBVIOUS
<1>1. \A r \in Jobs : job[r] = Idle
    BY DEF Init
<1>2. Idle.state = "idle" /\ Idle.todo = {} /\ Idle.out = {}
    BY DEF Idle
<1>3. Checked /\ ResolvedRight
    BY DEF Init, Checked, ResolvedRight
<1>4. JobTypes
    BY DEF Init, JobTypes, Idle
<1>5. Order
    BY <1>1, <1>2, JobNumbers DEF Init, Order
<1>6. JobsRight
    BY <1>1, <1>2 DEF JobsRight, RightJob, RightTodo, RightOut, RightRest
<1> QED BY <1>3, <1>4, <1>5, <1>6 DEF IInv

\* Steps that touch neither the jobs nor the file: only the phase may go on.
LEMMA OtherSteps ==
    ASSUME IInv, UNCHANGED <<file, job>>, Checked', Order', ResolvedRight'
    PROVE  IInv'
<1>1. JobTypes'
    BY DEF IInv, JobTypes, Goals, Nodes, AllNames, Defined
<1>2. JobsRight'
    BY DEF IInv, JobsRight, RightJob, RightTodo, RightOut, RightRest, FixedName, Wanted,
           Globals, BodyNames, Defined
<1> QED BY <1>1, <1>2 DEF IInv

\* What is read off the file stays as the file stays.
LEMMA SameFile ==
    ASSUME file' = file
    PROVE  /\ Unknown' = Unknown /\ MissingRefs' = MissingRefs /\ Defined' = Defined
           /\ Globals' = Globals /\ EnvsOf' = EnvsOf /\ BodyNames' = BodyNames
           /\ Nodes' = Nodes /\ Goals' = Goals
           /\ \A n : FixedName(n)' = FixedName(n) /\ Refs(n)' = Refs(n)
    BY DEF Unknown, MissingRefs, Defined, Globals, EnvsOf, BodyNames, Nodes, Goals, AllNames,
           FixedName, Refs

\* The phases before the values are generated.
LEMMA ParsePhases ==
    ASSUME IInv,
           ValidateAll \/ ValidatePlaceholders \/ CheckReferences \/ Backtrack
             \/ (\E n \in roots : StartRoot(n)) \/ (\E n \in Names : Descend(n))
    PROVE  IInv'
<1>1. file' = file /\ job' = job /\ resolved' = resolved
    BY DEF ValidateAll, ValidatePlaceholders, CheckReferences, Backtrack, StartRoot, Descend
<1>2. \/ phase' = "refused" /\ phase \in {"validate", "placeholders", "references", "cycles"}
      \/ phase = "validate" /\ phase' = "placeholders"
      \/ phase = "placeholders" /\ phase' = "references" /\ Unknown = {}
      \/ phase = "references" /\ phase' = "cycles" /\ MissingRefs = {}
      \/ phase = "cycles" /\ phase' = "cycles"
  <2>1. ASSUME NEW n, NEW below, Visit(n, below) PROVE phase' = "refused" \/ phase' = phase
    BY <2>1 DEF Visit, Refuse
  <2>2. CASE ValidateAll
    BY <2>2 DEF ValidateAll, Refuse
  <2>3. CASE ValidatePlaceholders
    BY <2>3 DEF ValidatePlaceholders, Refuse
  <2>4. CASE CheckReferences
    BY <2>4 DEF CheckReferences, Refuse
  <2>5. CASE Backtrack
    BY <2>5 DEF Backtrack
  <2>6. CASE \E n \in roots : StartRoot(n)
    BY <2>1, <2>6 DEF StartRoot
  <2>7. CASE \E n \in Names : Descend(n)
    BY <2>1, <2>7 DEF Descend
  <2> QED BY <2>2, <2>3, <2>4, <2>5, <2>6, <2>7
<1>3. Checked'
    BY <1>1, <1>2, SameFile DEF IInv, Checked
<1>4. Order'
  <2>1. job[0].state = "idle" /\ \A r \in Requests : job[r].state = "idle"
    BY <1>2 DEF IInv, Order
  <2> QED BY <1>1, <1>2, <2>1 DEF IInv, Order
<1>5. ResolvedRight'
    BY <1>2 DEF ResolvedRight
<1> QED BY <1>1, <1>3, <1>4, <1>5, OtherSteps

-----------------------------------------------------------------------------
(* The jobs *)

\* One job changes, and the phase does not, or as its lemma says.
LEMMA OneJob ==
    ASSUME IInv, NEW r \in Jobs, NEW j, file' = file, job' = [job EXCEPT ![r] = j],
           j \in [state : {"idle", "rendering", "done"}, todo : SUBSET Goals, out : SUBSET Nodes],
           RightJob(j, r), Checked', Order', ResolvedRight'
    PROVE  IInv'
<1>1. /\ job'[r] = j /\ \A q \in Jobs \ {r} : job'[q] = job[q]
    BY DEF IInv, JobTypes
<1>2. JobTypes'
    BY SameFile DEF IInv, JobTypes
<1>3. ASSUME NEW q \in Jobs, RightJob(job'[q], q) PROVE RightJob(job[q], q)'
    BY <1>3, SameFile DEF RightJob, RightTodo, RightOut, RightRest, Wanted
<1>4. \A q \in Jobs : RightJob(job'[q], q)
    BY <1>1 DEF IInv, JobsRight
<1>5. JobsRight'
    BY <1>3, <1>4 DEF JobsRight
<1> QED BY <1>2, <1>5 DEF IInv

\* A level of definitions is generated: each gives a value, its references are
\* next.
LEMMA GenerateSteps ==
    ASSUME IInv, NEW r \in Jobs, Generate(r)
    PROVE  IInv'
<1> DEFINE made == {[top |-> t.top, name |-> t.name, time |-> r] : t \in job[r].todo}
           Next1(t) == {[top |-> t.top, name |-> m] : m \in Refs(t.name)}
           more == UNION {Next1(t) : t \in job[r].todo}
           j == [state |-> job[r].state, todo |-> more, out |-> job[r].out \cup made]
<1>1. /\ job[r].state = "rendering" /\ file' = file /\ phase' = phase /\ resolved' = resolved
      /\ job[r].todo \in SUBSET Goals /\ job[r].out \in SUBSET Nodes
    BY DEF Generate, IInv, JobTypes
<1>2. job' = [job EXCEPT ![r] = j]
  <2>1. job[r] \in [state : {"idle", "rendering", "done"}, todo : SUBSET Goals, out : SUBSET Nodes]
    BY DEF IInv, JobTypes
  <2>2. [job[r] EXCEPT !.out = @ \cup made, !.todo = more] = j
    <3> HIDE DEF made, more
    <3> DEFINE b == [state |-> job[r].state, todo |-> job[r].todo, out |-> job[r].out \cup made]
    <3>1. [job[r] EXCEPT !.out = @ \cup made] = b
        BY <2>1
    <3>2. [b EXCEPT !.todo = more] = j
        BY DEF j
    <3> QED BY <3>1, <3>2
  <2>3. job' = [job EXCEPT ![r] = [job[r] EXCEPT !.out = @ \cup made, !.todo = more]]
    BY DEF Generate, IInv, JobTypes
  <2> QED BY <2>2, <2>3
<1>3. Unknown = {} /\ MissingRefs = {} /\ phase \in {"globals", "env", "serving"}
  <2>1. phase \in {"globals", "serving"}
    BY <1>1, JobNumbers DEF IInv, Order
  <2> QED BY <2>1 DEF IInv, Checked
<1>4. \A t \in job[r].todo : /\ t.top \in AllNames /\ t.name \in Defined /\ t.name \in AllNames
                             /\ FixedName(t.top) <=> r = 0
    BY <1>1 DEF IInv, JobsRight, RightJob, RightTodo, Goals, AllNames
\* What is made, and what is to be made next.
<1>5. \A v \in made : /\ v \in Nodes /\ v.name \in Defined /\ v.time = r
                      /\ FixedName(v.top) <=> r = 0
    BY <1>4 DEF Nodes
<1>6. ASSUME NEW u \in more
      PROVE  u \in Goals /\ u.name \in Defined /\ (FixedName(u.top) <=> r = 0)
  <2>1. PICK t \in job[r].todo : u \in Next1(t)
    OBVIOUS
  <2>2. PICK m \in Refs(t.name) : u = [top |-> t.top, name |-> m]
    BY <2>1
  <2>3. t.name \in Defined
    BY <1>4
  <2>4. m \in Defined
    BY <1>3, <2>3, KnownRefs
  <2> QED BY <1>4, <2>2, <2>4 DEF Goals, AllNames
<1>7. ASSUME NEW t \in job[r].todo PROVE \E v \in made : v.top = t.top /\ v.name = t.name
  <2> DEFINE v == [top |-> t.top, name |-> t.name, time |-> r]
  <2>1. v \in made /\ v.top = t.top /\ v.name = t.name
    OBVIOUS
  <2> QED BY <2>1
<1> HIDE DEF made, more
<1>8. j \in [state : {"idle", "rendering", "done"}, todo : SUBSET Goals, out : SUBSET Nodes]
    BY <1>1, <1>5, <1>6
<1>9. RightJob(j, r)
  <2>1. RightTodo(j, r)
    BY <1>6 DEF RightTodo
  <2>2. RightOut(j, r)
    <3>1. RightOut(job[r], r)
        BY DEF IInv, JobsRight, RightJob
    <3>2. \A v \in made : /\ v.name \in Defined \cup EnvSet
                          /\ r = 0 => FixedName(v.top)
                          /\ v.time = IF FixedName(v.top) THEN 0 ELSE r
        BY <1>5
    <3>3. \A v \in job[r].out : /\ v.name \in Defined \cup EnvSet
                                /\ r = 0 => FixedName(v.top)
                                /\ v.time = IF FixedName(v.top) THEN 0 ELSE r
        BY <3>1, Zenon DEF RightOut
    <3>4. j.out = job[r].out \cup made
        OBVIOUS
    <3> HIDE DEF j
    <3>5. \A v \in j.out : v \in job[r].out \/ v \in made
        BY <3>4
    <3> QED BY <3>2, <3>3, <3>5, Zenon DEF RightOut
  <2>3. RightRest(j, r)
    <3>1. ASSUME NEW n \in Wanted(r)
          PROVE  \E v \in job[r].out \cup made : v.top = n /\ v.name = n
      <4>1. \/ \E t \in job[r].todo : t.top = n /\ t.name = n
            \/ \E v \in job[r].out : v.top = n /\ v.name = n
        BY <1>1 DEF IInv, JobsRight, RightJob, RightRest
      <4> QED BY <1>7, <4>1
    <3> QED BY <3>1 DEF RightRest
  <2> QED BY <2>1, <2>2, <2>3 DEF RightJob
<1>10. Checked' /\ ResolvedRight'
    BY <1>1, SameFile DEF IInv, Checked, ResolvedRight
<1>11. Order'
  <2>1. \A q \in Jobs : job'[q].state = job[q].state
    BY <1>2 DEF IInv, JobTypes
  <2>2. \A q \in Jobs : q # r => job'[q] = job[q]
    BY <1>2 DEF IInv, JobTypes
  <2>3. \A q \in Jobs : job'[q].state = "done" => job'[q].todo = {}
    BY <1>1, <2>1, <2>2 DEF IInv, Order
  <2>4. 0 \in Jobs /\ \A q \in Requests : q \in Jobs
    BY JobNumbers
  <2> QED BY <1>1, <2>1, <2>3, <2>4 DEF IInv, Order
<1> HIDE DEF j
<1> QED BY <1>1, <1>2, <1>8, <1>9, <1>10, <1>11, OneJob

\* A job with nothing left to generate ends.
LEMMA FinishSteps ==
    ASSUME IInv, NEW r \in Jobs, FinishJob(r)
    PROVE  IInv'
<1> DEFINE j == [state |-> "done", todo |-> {}, out |-> job[r].out]
<1>1. /\ job[r].state = "rendering" /\ job[r].todo = {} /\ file' = file /\ resolved' = resolved
      /\ job[r] \in [state : {"idle", "rendering", "done"}, todo : SUBSET Goals, out : SUBSET Nodes]
      /\ phase' = IF r = 0 THEN "env" ELSE phase
    BY DEF FinishJob, IInv, JobTypes
<1>2. job' = [job EXCEPT ![r] = j]
  <2>1. [job[r] EXCEPT !.state = "done"] = j
    BY <1>1
  <2>2. job' = [job EXCEPT ![r] = [job[r] EXCEPT !.state = "done"]]
    BY DEF FinishJob, IInv, JobTypes
  <2> QED BY <2>1, <2>2
<1>3. j \in [state : {"idle", "rendering", "done"}, todo : SUBSET Goals, out : SUBSET Nodes]
    BY <1>1
<1>4. RightJob(j, r)
    BY <1>1 DEF IInv, JobsRight, RightJob, RightTodo, RightOut, RightRest
<1>5. r = 0 => phase = "globals"
    BY <1>1 DEF IInv, Order
<1>6. Checked'
    BY <1>1, <1>5, SameFile DEF IInv, Checked
<1>7. ResolvedRight'
    BY <1>1, <1>5, SameFile DEF IInv, ResolvedRight
<1>8. Order'
  <2>1. /\ \A q \in Jobs : q # r => job'[q] = job[q]
        /\ job'[r].state = "done" /\ job'[r].todo = {}
    BY <1>2 DEF IInv, JobTypes
  <2>2. 0 \in Jobs /\ 0 \notin Requests /\ \A q \in Requests : q \in Jobs
    BY JobNumbers
  <2>3. \A q \in Jobs : job'[q].state = "done" => job'[q].todo = {}
    BY <2>1 DEF IInv, Order
  <2>4. CASE r = 0
    <3>1. phase' = "env" /\ phase = "globals"
        BY <1>1, <1>5, <2>4
    <3>2. \A q \in Requests : job'[q].state = "idle"
        BY <2>1, <2>2, <2>4, <3>1 DEF IInv, Order
    <3> QED BY <2>1, <2>3, <2>4, <3>1, <3>2 DEF Order
  <2>5. CASE r # 0
    <3>1. phase = "serving" /\ phase' = "serving"
        BY <1>1, <2>5, JobNumbers DEF IInv, Order
    <3>2. job'[0] = job[0]
        BY <2>1, <2>2, <2>5
    <3> QED BY <2>3, <3>1, <3>2 DEF IInv, Order
  <2> QED BY <2>4, <2>5
<1> HIDE DEF j
<1> QED BY <1>1, <1>2, <1>3, <1>4, <1>6, <1>7, <1>8, OneJob

\* The cycle check is over: the :global values are generated.
LEMMA GlobalsBegin ==
    ASSUME IInv, CyclesChecked
    PROVE  IInv'
<1> DEFINE j == [state |-> "rendering", todo |-> Self(Globals), out |-> {}]
<1>1. /\ phase = "cycles" /\ phase' = "globals" /\ file' = file /\ resolved' = resolved
      /\ job' = [job EXCEPT ![0] = j]
    BY DEF CyclesChecked
<1>2. Unknown = {} /\ 0 \in Jobs
    BY <1>1, JobNumbers DEF IInv, Checked
<1>3. \A t \in Self(Globals) : /\ t \in Goals /\ t.name \in Defined /\ FixedName(t.top)
    BY <1>2, GlobalNames DEF Self, Goals, AllNames
<1>4. ASSUME NEW n \in Globals PROVE \E t \in Self(Globals) : t.top = n /\ t.name = n
  <2> DEFINE t == [top |-> n, name |-> n]
  <2>1. t \in Self(Globals) /\ t.top = n /\ t.name = n
    BY DEF Self
  <2> QED BY <2>1
<1>5. j \in [state : {"idle", "rendering", "done"}, todo : SUBSET Goals, out : SUBSET Nodes]
    BY <1>3
<1>6. RightJob(j, 0)
    BY <1>3, <1>4 DEF RightJob, RightTodo, RightOut, RightRest, Wanted
<1>7. Checked' /\ ResolvedRight'
    BY <1>1, SameFile DEF IInv, Checked, ResolvedRight
<1>8. Order'
  <2>1. /\ \A q \in Jobs : q # 0 => job'[q] = job[q]
        /\ job'[0].state = "rendering"
    BY <1>1, <1>2 DEF IInv, JobTypes
  <2>2. 0 \notin Requests /\ \A q \in Requests : q \in Jobs
    BY JobNumbers
  <2>3. \A q \in Jobs : job'[q].state = "done" => job'[q].todo = {}
    BY <2>1 DEF IInv, Order
  <2>4. \A q \in Requests : job'[q].state = "idle"
    BY <1>1, <2>1, <2>2 DEF IInv, Order
  <2> QED BY <1>1, <2>1, <2>3, <2>4 DEF Order
<1> HIDE DEF j
<1> QED BY <1>1, <1>2, <1>5, <1>6, <1>7, <1>8, OneJob

\* The variables are read: all fixed values are there.
LEMMA EnvironmentRead ==
    ASSUME IInv, ResolveEnv
    PROVE  IInv'
<1>1. phase = "env" /\ file' = file /\ job' = job
    BY DEF ResolveEnv
<1>2. \/ phase' = "refused"
      \/ /\ phase' = "serving" /\ EnvsOf \subseteq EnvSet
         /\ resolved' = job[0].out \cup {[top |-> n, name |-> n, time |-> 0] : n \in EnvsOf}
    BY DEF ResolveEnv, Refuse
<1>3. Unknown = {} /\ MissingRefs = {} /\ job[0].state = "done" /\ job[0].todo = {}
      /\ \A r \in Requests : job[r].state = "idle"
    BY <1>1, JobNumbers DEF IInv, Checked, Order
<1>4. Checked' /\ Order'
    BY <1>1, <1>2, <1>3, SameFile DEF IInv, Checked, Order
<1>5. ASSUME phase' = "serving" PROVE ResolvedRight'
  <2> DEFINE values == {[top |-> n, name |-> n, time |-> 0] : n \in EnvsOf}
  <2>1. EnvsOf \subseteq EnvSet /\ resolved' = job[0].out \cup values
    BY <1>2, <1>5
  <2>2. \A v \in values : /\ v \in Nodes /\ v.name \in Defined \cup EnvSet
                         /\ FixedName(v.top) /\ v.time = 0
    BY <2>1, FixedNames, JobNumbers DEF Nodes, AllNames, EnvsOf
  <2>3. \A v \in job[0].out : /\ v \in Nodes /\ v.name \in Defined \cup EnvSet
                              /\ FixedName(v.top) /\ v.time = 0
    <3>1. job[0].out \in SUBSET Nodes
        BY JobNumbers DEF IInv, JobTypes
    <3>2. RightOut(job[0], 0)
        BY JobNumbers DEF IInv, JobsRight, RightJob
    <3> QED BY <3>1, <3>2 DEF RightOut
  <2>4. ASSUME NEW n \in Globals PROVE \E v \in job[0].out : v.top = n /\ v.name = n
    BY <1>3, JobNumbers DEF IInv, JobsRight, RightJob, RightRest, Wanted
  <2>5. ASSUME NEW n \in EnvsOf PROVE \E v \in values : v.top = n /\ v.name = n
    <3> DEFINE v == [top |-> n, name |-> n, time |-> 0]
    <3>1. v \in values /\ v.top = n /\ v.name = n
        OBVIOUS
    <3> QED BY <3>1
  <2> HIDE DEF values
  <2>6. \A v \in resolved' : /\ v \in Nodes /\ v.name \in Defined \cup EnvSet
                             /\ FixedName(v.top) /\ v.time = 0
    BY <2>1, <2>2, <2>3
  <2>7. \A n \in Globals \cup EnvsOf : \E v \in resolved' : v.top = n /\ v.name = n
    BY <2>1, <2>4, <2>5
  <2> QED BY <1>1, <2>6, <2>7, SameFile DEF ResolvedRight
<1>6. ResolvedRight'
    BY <1>2, <1>5 DEF ResolvedRight
<1> QED BY <1>1, <1>4, <1>6, OtherSteps

\* A request takes what is fixed and generates the rest.
LEMMA RequestBegins ==
    ASSUME IInv, NEW r \in Requests, StartRequest(r)
    PROVE  IInv'
<1> DEFINE known == {v \in resolved : v.top \in BodyNames}
           tops == {v.top : v \in known}
           rest == BodyNames \ tops
           j == [state |-> "rendering", todo |-> Self(rest), out |-> known]
<1>1. /\ phase = "serving" /\ phase' = phase /\ file' = file /\ resolved' = resolved
      /\ job[r].state = "idle" /\ job' = [job EXCEPT ![r] = j]
    BY DEF StartRequest, BodyNames
<1>2. Unknown = {} /\ r \in Jobs /\ r # 0 /\ 0 \in Jobs
    BY <1>1, JobNumbers DEF IInv, Checked
<1>3. \A v \in known : /\ v \in Nodes /\ v.name \in Defined \cup EnvSet
                       /\ FixedName(v.top) /\ v.time = 0
    BY <1>1 DEF IInv, ResolvedRight
<1>4. ASSUME NEW n \in rest PROVE ~FixedName(n) /\ n \in Defined
  <2>1. ASSUME FixedName(n) PROVE FALSE
    <3>1. PICK v \in resolved : v.top = n /\ v.name = n
        BY <1>1, <2>1, FixedNames DEF IInv, ResolvedRight
    <3>2. v \in known
        BY <3>1
    <3> QED BY <3>1, <3>2
  <2>2. n \notin EnvNames
    <3>1. n \in EnvNames => n \in EnvsOf
        BY DEF BodyNames, EnvsOf
    <3> QED BY <2>1, <3>1, FixedNames
  <2> QED BY <1>2, <2>1, <2>2, KnownNames
<1>5. ASSUME NEW n \in BodyNames, n \notin rest
      PROVE  \E v \in known : v.top = n /\ v.name = n
  <2>1. PICK w \in known : w.top = n
    BY <1>5
  <2>2. FixedName(n)
    BY <1>3, <2>1
  <2>3. PICK v \in resolved : v.top = n /\ v.name = n
    BY <1>1, <2>2, FixedNames DEF IInv, ResolvedRight
  <2> QED BY <2>3
<1> HIDE DEF known, rest
<1>6. \A t \in Self(rest) : t \in Goals /\ t.name \in Defined /\ ~FixedName(t.top)
    BY <1>4 DEF Self, Goals, AllNames
<1>7. ASSUME NEW n \in rest PROVE \E t \in Self(rest) : t.top = n /\ t.name = n
  <2> DEFINE t == [top |-> n, name |-> n]
  <2>1. t \in Self(rest) /\ t.top = n /\ t.name = n
    BY DEF Self
  <2> QED BY <2>1
<1>8. j \in [state : {"idle", "rendering", "done"}, todo : SUBSET Goals, out : SUBSET Nodes]
    BY <1>3, <1>6
<1>9. RightJob(j, r)
  <2>1. RightTodo(j, r) /\ RightOut(j, r)
    BY <1>2, <1>3, <1>6 DEF RightTodo, RightOut
  <2>2. RightRest(j, r)
    BY <1>2, <1>5, <1>7 DEF RightRest, Wanted
  <2> QED BY <2>1, <2>2 DEF RightJob
<1>10. Checked' /\ ResolvedRight'
    BY <1>1, SameFile DEF IInv, Checked, ResolvedRight
<1>11. Order'
  <2>1. /\ \A q \in Jobs : q # r => job'[q] = job[q]
        /\ job'[r].state = "rendering"
    BY <1>1, <1>2 DEF IInv, JobTypes
  <2>2. \A q \in Jobs : job'[q].state = "done" => job'[q].todo = {}
    BY <2>1 DEF IInv, Order
  <2> QED BY <1>1, <1>2, <2>1, <2>2 DEF IInv, Order
<1> HIDE DEF j
<1> QED BY <1>1, <1>2, <1>8, <1>9, <1>10, <1>11, OneJob

\* Every step keeps the invariant.
LEMMA IInvNext == IInv /\ [Next]_vars => IInv'
<1> SUFFICES ASSUME IInv, [Next]_vars PROVE IInv'
    OBVIOUS
<1>1. CASE Parse
  <2>1. CASE CyclesChecked
    BY <2>1, GlobalsBegin
  <2>2. CASE Generate(0) \/ FinishJob(0)
    BY <2>2, JobNumbers, GenerateSteps, FinishSteps
  <2>3. CASE ResolveEnv
    BY <2>3, EnvironmentRead
  <2> QED BY <1>1, <2>1, <2>2, <2>3, ParsePhases DEF Parse
<1>2. ASSUME NEW r \in Requests, GenerateOne(r) PROVE IInv'
    BY <1>2, JobNumbers, RequestBegins, GenerateSteps, FinishSteps DEF GenerateOne
<1>3. ASSUME UNCHANGED vars PROVE IInv'
  <2>1. UNCHANGED <<file, phase, job, resolved>>
    BY <1>3 DEF vars
  <2>2. Checked' /\ Order' /\ ResolvedRight'
    BY <2>1, SameFile DEF IInv, Checked, Order, ResolvedRight
  <2> QED BY <2>1, <2>2, OtherSteps
<1> QED BY <1>1, <1>2, <1>3 DEF Next, Finished

\* A finished job has nothing left to generate, so its values are all there.
LEMMA IInvBody == IInv => BodyAsWritten
<1> SUFFICES ASSUME IInv, NEW r \in Requests, job[r].state = "done"
             PROVE  /\ \A p \in file.body : \E v \in job[r].out : v.top = p.name /\ v.name = p.name
                    /\ \A v \in job[r].out :
                        /\ v.name \in Defined \cup EnvSet
                        /\ v.time = IF FixedName(v.top) THEN 0 ELSE r
    BY Zenon DEF BodyAsWritten
<1>1. r \in Jobs /\ r # 0 /\ job[r].todo = {}
    BY JobNumbers DEF IInv, Order
<1>2. RightJob(job[r], r)
    BY <1>1 DEF IInv, JobsRight
<1>3. \A n \in BodyNames : \E v \in job[r].out : v.top = n /\ v.name = n
    BY <1>1, <1>2 DEF RightJob, RightRest, Wanted
<1>4. \A p \in file.body : p.name \in BodyNames
    BY DEF BodyNames
<1> QED BY <1>2, <1>3, <1>4 DEF RightJob, RightOut

-----------------------------------------------------------------------------
\* Every body that is sent has a value for each placeholder and no null, those
\* that are :global or from the environment as they were at startup, the
\* others generated for this request, for all files and any number of VUs
\* that render at once.  (Of a value within a composition this is said unless
\* :global is used for it; see BodyAsWritten.)
\* About: `resolved`, keyed by bare name, the checks of Template::parse that
\* leave no name without a definition, and generate_by_name.
THEOREM BodiesAreAsWritten == Spec => []BodyAsWritten
<1>1. Init => IInv
    BY IInvInit
<1>2. IInv /\ [Next]_vars => IInv'
    BY IInvNext
<1>3. IInv => BodyAsWritten
    BY IInvBody
<1> QED BY <1>1, <1>2, <1>3, PTL DEF Spec

-----------------------------------------------------------------------------
(* Valid definitions *)

\* From here on every definition of the file has been found valid.
Valid == phase \notin {"validate", "refused"} => \A n \in Defined : ValidDef(file.defs[n])

VInv == file \in Files /\ Valid

\* The invariant holds initially.
LEMMA VInvInit == Init => VInv
    BY DEF Init, VInv, Valid

\* Only ValidateAll lets a file past "validate", and only a valid one.
LEMMA VInvNext == IInv /\ VInv /\ [Next]_vars => VInv'
<1> SUFFICES ASSUME IInv, VInv, [Next]_vars PROVE VInv'
    OBVIOUS
<1>1. /\ file' = file
      /\ \/ phase' = phase \/ phase' = "refused" \/ phase \notin {"validate", "refused"}
         \/ \A n \in Defined : ValidDef(file.defs[n])
  <2>1. CASE ValidateAll
    BY <2>1 DEF ValidateAll, Refuse
  <2>2. CASE ValidatePlaceholders \/ CheckReferences \/ ResolveEnv
    BY <2>2 DEF ValidatePlaceholders, CheckReferences, ResolveEnv, Refuse
  <2>3. CASE Backtrack \/ CyclesChecked
    BY <2>3 DEF Backtrack, CyclesChecked
  <2>4. ASSUME NEW n \in roots, StartRoot(n) PROVE file' = file /\ phase = "cycles"
    BY <2>4 DEF StartRoot
  <2>5. ASSUME NEW n \in Names, Descend(n) PROVE file' = file /\ phase = "cycles"
    BY <2>5 DEF Descend
  <2>6. ASSUME NEW r \in Jobs, Generate(r) PROVE file' = file /\ phase' = phase
    BY <2>6 DEF Generate
  <2>7. ASSUME NEW r \in Requests, StartRequest(r) PROVE file' = file /\ phase' = phase
    BY <2>7 DEF StartRequest
  <2>8. ASSUME NEW r \in Jobs, FinishJob(r)
        PROVE  file' = file /\ (phase' = phase \/ phase = "globals")
    BY <2>8 DEF FinishJob, IInv, Order
  <2>9. CASE UNCHANGED vars
    BY <2>9 DEF vars
  <2> QED
    BY <2>1, <2>2, <2>3, <2>4, <2>5, <2>6, <2>7, <2>9, <2>8, JobNumbers
       DEF Next, Parse, GenerateOne, Finished
<1>2. Valid'
    BY <1>1 DEF VInv, Valid, Defined
<1> QED BY <1>1, <1>2 DEF VInv

-----------------------------------------------------------------------------
(* Values *)

\* A cast number is a natural number.
LEMMA ToUsizeType ==
    ASSUME NEW x \in Int
    PROVE  ToUsize(x) \in Nat
    BY TemplateAssumption DEF ToUsize

\* The range of lengths is one of natural numbers.
LEMMA LengthSpecType ==
    ASSUME NEW raw, Typed(raw), raw.type = "string"
    PROVE  LengthSpec(raw).min \in Nat /\ LengthSpec(raw).max \in Nat
<1> DEFINE low == IF raw.min = None THEN 1 ELSE ToUsize(raw.min)
           high == IF raw.max = None THEN low ELSE ToUsize(raw.max)
           fixed == ToUsize(raw.exact)
<1>1. /\ raw.exact # None => raw.exact \in Int
      /\ raw.min # None => raw.min \in Int
      /\ raw.max # None => raw.max \in Int
    BY DEF Typed
<1>2. low \in Nat
    BY <1>1, ToUsizeType
<1>3. high \in Nat
  <2> HIDE DEF low
  <2> QED BY <1>1, <1>2, ToUsizeType
<1>4. raw.exact # None => fixed \in Nat
    BY <1>1, ToUsizeType
<1>5. LengthSpec(raw) = IF raw.exact # None THEN [min |-> fixed, max |-> fixed]
                                            ELSE [min |-> low, max |-> high]
  <2>1. Or(raw.min, 1) = low
    BY DEF Or, ToUsize
  <2>2. Or(raw.max, low) = high
    BY DEF Or
  <2> HIDE DEF low, high, fixed
  <2>3. ToUsize(raw.exact) = fixed
    BY DEF fixed
  <2> QED BY <2>1, <2>2, <2>3 DEF LengthSpec
<1> HIDE DEF low, high, fixed
<1> QED BY <1>2, <1>3, <1>4, <1>5

\* A string of a valid definition is as long as the length drawn for it.
LEMMA StringsInSpec ==
    ASSUME NEW raw, Typed(raw), raw.type = "string", raw.choice = "none", ValidString(raw),
           raw.upper + raw.lower <= UsizeMax, NEW length \in LengthsOf(raw)
    PROVE  GeneratedLength(raw, length) = length /\ length <= MaxLength
<1>1. /\ LengthSpec(raw).max <= MaxLength
      /\ CountSum(raw) <= LengthSpec(raw).min
    BY DEF ValidString, RoomFor
<1>2. LengthSpec(raw).min \in Nat /\ LengthSpec(raw).max \in Nat
    BY LengthSpecType
<1>3. /\ length \in Nat /\ LengthSpec(raw).min <= length /\ length <= LengthSpec(raw).max
    BY <1>2 DEF LengthsOf
<1>4. raw.upper \in Nat /\ raw.lower \in Nat /\ UsizeMax \in Nat /\ MaxLength \in Nat
    BY TemplateAssumption DEF Typed
<1>5. CountSum(raw) = raw.upper + raw.lower
  <2> DEFINE k == raw.upper + raw.lower
  <2>1. k \in Nat /\ k < UsizeMax + 1
    BY <1>4
  <2> HIDE DEF k
  <2>2. k % (UsizeMax + 1) = k
    BY <1>4, <2>1, SMTT(60)
  <2> QED BY <2>2 DEF CountSum, k
<1>6. GeneratedLength(raw, length) = length
    BY <1>1, <1>2, <1>3, <1>4, <1>5 DEF GeneratedLength, Monus
<1> QED BY <1>1, <1>2, <1>3, <1>4, <1>6

\* Rounding to multiples of `unit` does not leave an interval between two of
\* them.
LEMMA RoundedBetween ==
    ASSUME NEW unit \in Nat \ {0}, NEW x \in Int, NEW low \in Int, NEW high \in Int,
           low * unit <= x, x <= high * unit
    PROVE  /\ low * unit <= ((x + unit \div 2) \div unit) * unit
           /\ ((x + unit \div 2) \div unit) * unit <= high * unit
<1> DEFINE h == unit \div 2
           q == (x + h) \div unit
<1>1. h \in Nat /\ h < unit
    BY SMT
<1>2. q \in Int /\ q * unit <= x + h /\ x + h < q * unit + unit
  <2> HIDE DEF h
  <2>1. x + h \in Int
    BY <1>1
  <2> DEFINE s == x + h
  <2> HIDE DEF s
  <2>2. s \div unit \in Int /\ (s \div unit) * unit <= s /\ s < (s \div unit) * unit + unit
    BY <2>1, SMTT(60) DEF s
  <2> QED BY <2>2 DEF s
<1> HIDE DEF h, q
<1>3. low * unit < (q + 1) * unit /\ q * unit < (high + 1) * unit
    BY <1>1, <1>2, SMTT(60)
<1>4. low <= q /\ q <= high
  <2>1. ASSUME NEW a \in Int, NEW b \in Int, a * unit < b * unit PROVE a < b
    BY <2>1, SMTT(60)
  <2>2. low < q + 1
    BY <1>2, <1>3, <2>1
  <2>3. q < high + 1
    BY <1>2, <1>3, <2>1
  <2> QED BY <1>2, <2>2, <2>3
<1>5. low * unit <= q * unit /\ q * unit <= high * unit
    BY <1>2, <1>4, SMTT(60)
<1> QED BY <1>5 DEF h, q


\* A float of a valid definition, rounded, lies between its bounds if these
\* are multiples of what it is rounded to.
LEMMA FloatsInSpec ==
    ASSUME NEW raw, Typed(raw), raw.type = "float", raw.exact = None, ValidFloat(raw),
           raw.min % raw.unit = 0, raw.max % raw.unit = 0
    PROVE  FloatsOf(raw) \subseteq raw.min..raw.max
<1> DEFINE unit == raw.unit
           low == raw.min \div unit
           high == raw.max \div unit
<1>1. raw.min \in Int /\ raw.max \in Int /\ unit \in Nat \ {0}
    BY DEF Typed, ValidFloat
<1>2. low \in Int /\ high \in Int /\ raw.min = low * unit /\ raw.max = high * unit
  <2>1. ASSUME NEW v \in Int, NEW t \in Nat \ {0}, v % t = 0 PROVE v \div t \in Int /\ v = (v \div t) * t
    BY <2>1, SMTT(60)
  <2>2. low \in Int /\ raw.min = low * unit
    BY <1>1, <2>1
  <2>3. high \in Int /\ raw.max = high * unit
    BY <1>1, <2>1
  <2> QED BY <2>2, <2>3
<1> HIDE DEF unit, low, high
<1>3. ASSUME NEW x \in raw.min..raw.max
      PROVE  Rounded(x, unit) \in raw.min..raw.max
  <2>1. x \in Int /\ low * unit <= x /\ x <= high * unit
    BY <1>1, <1>2, <1>3
  <2> DEFINE h == unit \div 2
             up == ((x + h) \div unit) * unit
             down == ((h - x) \div unit) * unit
  <2>2. h \in Int /\ up \in Int /\ down \in Int
    BY <1>1, <2>1, SMTT(60)
  <2>3. low * unit <= up /\ up <= high * unit
    BY <1>1, <1>2, <2>1, RoundedBetween
  <2>4. low * unit <= -down /\ -down <= high * unit
    <3> DEFINE mx == -x
               mlow == -high
               mhigh == -low
    <3>1. mx \in Int /\ mlow \in Int /\ mhigh \in Int
        BY <1>2, <2>1
    <3>2. mlow * unit = -(high * unit) /\ mhigh * unit = -(low * unit)
        BY <1>1, <1>2, SMTT(60)
    <3>3. mlow * unit <= mx /\ mx <= mhigh * unit
        BY <1>1, <1>2, <2>1, <3>2
    <3> HIDE DEF mlow, mhigh
    <3>4. mx + h = h - x
        BY <2>1, <2>2
    <3> HIDE DEF mx
    <3>5. /\ mlow * unit <= ((mx + unit \div 2) \div unit) * unit
          /\ ((mx + unit \div 2) \div unit) * unit <= mhigh * unit
        BY <1>1, <3>1, <3>3, RoundedBetween
    <3>6. mlow * unit <= down /\ down <= mhigh * unit
        BY <3>4, <3>5
    <3> QED BY <1>1, <1>2, <2>2, <3>2, <3>6
  <2>5. Rounded(x, unit) = IF x >= 0 THEN up ELSE -down
    BY DEF Rounded
  <2> HIDE DEF up, down
  <2> QED BY <1>1, <1>2, <2>1, <2>2, <2>3, <2>4, <2>5
<1>4. FloatsOf(raw) = {Rounded(x, unit) : x \in raw.min..raw.max}
    BY DEF FloatsOf, unit
<1> QED BY <1>3, <1>4

\* The invariant implies the properties.
LEMMA VInvCorrect == VInv => ValuesInSpec
<1> SUFFICES ASSUME VInv, phase \in {"globals", "env", "serving"}, NEW n \in Defined
             PROVE  LET raw == file.defs[n] IN
        /\ (raw.type = "string" /\ raw.choice = "none" /\ raw.upper + raw.lower <= UsizeMax) =>
            \A length \in LengthsOf(raw) :
                /\ GeneratedLength(raw, length) = length
                /\ length <= MaxLength
        /\ (raw.type = "float" /\ raw.exact = None /\ raw.min % raw.unit = 0 /\ raw.max % raw.unit = 0) =>
            FloatsOf(raw) \subseteq raw.min..raw.max
    BY DEF ValuesInSpec
<1> DEFINE raw == file.defs[n]
<1>1. Typed(raw) /\ ValidDef(raw)
    BY TemplateAssumption DEF VInv, Valid, Defined
<1> HIDE DEF raw
<1>2. raw.type = "string" => ValidString(raw)
    BY <1>1 DEF ValidDef
<1>3. raw.type = "float" => ValidFloat(raw)
    BY <1>1 DEF ValidDef
<1>4. ASSUME raw.type = "string", raw.choice = "none", raw.upper + raw.lower <= UsizeMax,
             NEW length \in LengthsOf(raw)
      PROVE  GeneratedLength(raw, length) = length /\ length <= MaxLength
    BY <1>1, <1>2, <1>4, StringsInSpec
<1>5. ASSUME raw.type = "float", raw.exact = None, raw.min % raw.unit = 0, raw.max % raw.unit = 0
      PROVE  FloatsOf(raw) \subseteq raw.min..raw.max
    BY <1>1, <1>3, <1>5, FloatsInSpec
<1> QED BY <1>4, <1>5 DEF raw

\* A string that a valid definition makes has a length of its range and at
\* most MaxLength, a float lies between its bounds, for all definitions.
\* About: StringValidator and FloatValidator against the generators, casts and
\* rounding included.
THEOREM ValuesKeepToTheirSpec == Spec => []ValuesInSpec
<1>1. Init => IInv /\ VInv
    BY IInvInit, VInvInit
<1>2. IInv /\ VInv /\ [Next]_vars => (IInv /\ VInv)'
    BY IInvNext, VInvNext
<1>3. IInv /\ VInv => ValuesInSpec
    BY VInvCorrect
<1> QED BY <1>1, <1>2, <1>3, PTL DEF Spec

-----------------------------------------------------------------------------
(* The cycle check *)

\* A closed set of definitions in which every nonempty subset has a name that
\* refers to none of it.
Founded(G) ==
    /\ \A n \in G : Refs(n) \subseteq G
    /\ \A S \in SUBSET G : S # {} => \E n \in S : Refs(n) \cap S = {}

\* The names no chain of references from which comes back on itself.
Good == {n \in Defined : \E G \in SUBSET Defined : n \in G /\ Founded(G)}

\* What is on the stack of detect_cycle: each name refers to the next, and
\* what a name refers to is good, next on the stack or not yet followed; of
\* the last one's references those of `rest` may be none of this.
StackOK(w, rest) ==
    /\ w \in Seq([name : Defined, todo : SUBSET Defined])
    /\ \A i \in 1..Len(w) :
        /\ w[i].todo \subseteq Refs(w[i].name)
        /\ i < Len(w) => w[i + 1].name \in Refs(w[i].name)
        /\ \A m \in Refs(w[i].name) :
            \/ m \in w[i].todo \/ m \in Good
            \/ IF i < Len(w) THEN m = w[i + 1].name ELSE m \in rest

StackRight == StackOK(visiting, {})

\* A name it has started from is good, or still at the bottom of the stack.
RootsRight ==
    /\ roots \subseteq Defined
    /\ \A n \in Defined \ roots : n \in Good \/ (visiting # <<>> /\ n = visiting[1].name)

ErrorRight ==
    /\ error.kind = "CircularReference" =>
        LET path == error.path IN
        /\ Walk(path)
        /\ \E i \in 1..(Len(path) - 1) : path[i] = path[Len(path)]
    /\ error.kind = "MissingDefinition" =>
        error.path[1] \notin Defined /\ \E n \in Defined : error.path[1] \in Refs(n)

DInv ==
    /\ file \in Files
    /\ phase \in {"validate", "placeholders", "references"} => visiting = <<>>
    /\ phase = "cycles" => StackRight /\ RootsRight
    /\ phase \in {"globals", "env", "serving"} => Defined \subseteq Good
    /\ ErrorRight

-----------------------------------------------------------------------------
\* All good names together are closed and founded.
LEMMA GoodIsFounded == Founded(Good)
<1>1. ASSUME NEW n \in Good, NEW m \in Refs(n) PROVE m \in Good
  <2>1. PICK G \in SUBSET Defined : n \in G /\ Founded(G)
    BY DEF Good
  <2>2. m \in G
    BY <2>1 DEF Founded
  <2> QED BY <2>1, <2>2 DEF Good
<1>2. ASSUME NEW S \in SUBSET Good, S # {} PROVE \E n \in S : Refs(n) \cap S = {}
  <2>1. PICK x \in S : TRUE
    BY <1>2
  <2>2. PICK G \in SUBSET Defined : x \in G /\ Founded(G)
    BY DEF Good
  <2>3. S \cap G \in SUBSET G /\ S \cap G # {}
    BY <2>1, <2>2
  <2>4. PICK n \in S \cap G : Refs(n) \cap (S \cap G) = {}
    BY <2>2, <2>3 DEF Founded
  <2>5. Refs(n) \subseteq G
    BY <2>2 DEF Founded
  <2>6. Refs(n) \cap S = {}
    BY <2>4, <2>5
  <2> QED BY <2>4, <2>6
<1> QED BY <1>1, <1>2 DEF Founded

\* A name that refers to good names only is good.
LEMMA GoodGrows ==
    ASSUME NEW n \in Defined, Refs(n) \subseteq Good
    PROVE  n \in Good
<1> DEFINE G == Good \cup {n}
<1>1. G \in SUBSET Defined
    BY DEF Good
<1>2. ASSUME NEW m \in G PROVE Refs(m) \subseteq G
    BY GoodIsFounded DEF Founded
<1>3. ASSUME NEW S \in SUBSET G, S # {} PROVE \E m \in S : Refs(m) \cap S = {}
  <2>1. CASE S \cap Good = {}
    <3>1. S = {n} \/ n \in Good
        BY <1>3, <2>1
    <3>2. n \in S /\ Refs(n) \cap S = {}
        BY <1>3, <2>1
    <3> QED BY <3>2
  <2>2. CASE S \cap Good # {}
    <3>1. PICK m \in S \cap Good : Refs(m) \cap (S \cap Good) = {}
        BY <2>2, GoodIsFounded DEF Founded
    <3>2. Refs(m) \subseteq Good
        BY GoodIsFounded DEF Founded
    <3> QED BY <3>1, <3>2
  <2> QED BY <2>1, <2>2
<1>4. Founded(G)
    BY <1>2, <1>3 DEF Founded
<1> QED BY <1>1, <1>4 DEF Good

\* Where every set of definitions has a name that refers to none of it, they
\* can be ranked.
LEMMA GoodAreAcyclic ==
    ASSUME Defined \subseteq Good, IsFiniteSet(Defined)
    PROVE  Acyclic
<1> DEFINE Ranked(S, k) ==
        \E rank \in [S -> 1..k] : \A n \in S : \A m \in Refs(n) \cap S : rank[m] < rank[n]
    P == {k \in Nat : \A S \in SUBSET Defined : Cardinality(S) = k => Ranked(S, k)}
<1>1. \A S \in SUBSET Defined : IsFiniteSet(S)
    BY FS_Subset
<1>2. 0 \in P
  <2>1. ASSUME NEW S \in SUBSET Defined, Cardinality(S) = 0 PROVE Ranked(S, 0)
    <3>1. S = {}
        BY <1>1, <2>1, FS_EmptySet
    <3>2. [n \in S |-> 1] \in [S -> 1..0]
        BY <3>1
    <3> QED BY <3>1, <3>2
  <2> QED BY <2>1
<1>3. ASSUME NEW k \in Nat, k \in P PROVE k + 1 \in P
  <2>1. ASSUME NEW S \in SUBSET Defined, Cardinality(S) = k + 1 PROVE Ranked(S, k + 1)
    <3>1. S # {} /\ \A n \in S : Cardinality(S \ {n}) = k
        BY <1>1, <2>1, OneLess
    <3>2. PICK n \in S : Refs(n) \cap S = {}
        BY <3>1, GoodIsFounded DEF Founded
    <3> DEFINE rest == S \ {n}
    <3>3. rest \in SUBSET Defined /\ Cardinality(rest) = k
        BY <3>1
    <3>4. PICK low \in [rest -> 1..k] :
              \A x \in rest : \A m \in Refs(x) \cap rest : low[m] < low[x]
      <4> HIDE DEF rest
      <4> QED BY <1>3, <3>3
    <3> DEFINE rank == [x \in S |-> IF x = n THEN 1 ELSE low[x] + 1]
    <3>5. \A x \in rest : low[x] \in 1..k
        BY <3>4
    <3>6. rank \in [S -> 1..(k + 1)]
        BY <3>5
    <3>7. ASSUME NEW x \in S, NEW m \in Refs(x) \cap S PROVE rank[m] < rank[x]
      <4>1. x # n /\ x \in rest
        BY <3>2
      <4>2. low[x] \in 1..k /\ rank[x] = low[x] + 1
        BY <3>5, <4>1
      <4>3. CASE m = n
        BY <4>2, <4>3
      <4>4. CASE m # n
        <5>1. m \in Refs(x) \cap rest
            BY <4>4
        <5>2. low[m] < low[x] /\ low[m] \in 1..k
            BY <3>4, <3>5, <4>1, <5>1
        <5>3. rank[m] = low[m] + 1
            BY <4>4
        <5> QED BY <4>2, <5>2, <5>3
      <4> QED BY <4>3, <4>4
    <3> HIDE DEF rank
    <3> QED BY <3>6, <3>7
  <2> QED BY <2>1
<1> HIDE DEF P
<1>4. Nat \subseteq P
    BY <1>2, <1>3, NatBySteps
<1>5. Cardinality(Defined) \in Nat
    BY FS_CardinalityType
<1>6. Ranked(Defined, Cardinality(Defined))
    BY <1>4, <1>5 DEF P
<1>7. ASSUME NEW rank \in [Defined -> 1..Cardinality(Defined)],
             \A n \in Defined : \A m \in Refs(n) \cap Defined : rank[m] < rank[n]
      PROVE  Acyclic
  <2>1. \A n \in Defined : Refs(n) \subseteq Defined
    BY GoodIsFounded DEF Founded, Good
  <2>2. \A n \in Defined : \A m \in Refs(n) : rank[m] < rank[n]
    BY <1>7, <2>1
  <2> QED BY <2>2 DEF Acyclic
<1> QED BY <1>6, <1>7


-----------------------------------------------------------------------------
\* A file has finitely many definitions.
LEMMA FiniteDefined ==
    ASSUME file \in Files
    PROVE  IsFiniteSet(Defined)
    BY TemplateAssumption DEF Defined

\* A function on 1..n is a sequence of length n.
LEMMA SeqOfLength ==
    ASSUME NEW S, NEW n \in Nat, NEW f \in [1..n -> S]
    PROVE  f \in Seq(S) /\ Len(f) = n
<1>1. f \in Seq(S)
    BY SeqDef
<1>2. Len(f) \in Nat /\ 1..Len(f) = 1..n
    BY <1>1, LenProperties
<1> QED BY <1>1, <1>2, SMT

\* A walk goes on.
LEMMA WalkOn ==
    ASSUME StackRight, NEW n, visiting # <<>>, n \in Refs(Top.name)
    PROVE  /\ Walk(Append(StackNames, n))
           /\ Len(Append(StackNames, n)) = Len(visiting) + 1
           /\ Append(StackNames, n)[Len(visiting) + 1] = n
           /\ \A i \in 1..Len(visiting) : Append(StackNames, n)[i] = visiting[i].name
<1> DEFINE path == Append(StackNames, n)
           last == Len(visiting)
<1>1. visiting \in Seq([name : Defined, todo : SUBSET Defined]) /\ last \in Nat
    BY LenProperties DEF StackRight, StackOK
<1>2. last > 0 /\ DOMAIN visiting = 1..last
    BY <1>1, EmptySeq, LenProperties
<1>3. StackNames = [i \in 1..last |-> visiting[i].name]
    BY <1>2 DEF StackNames
<1>4. StackNames \in Seq(Defined) /\ Len(StackNames) = last
  <2>1. ASSUME NEW i \in 1..last PROVE visiting[i].name \in Defined
    <3>1. visiting[i] \in [name : Defined, todo : SUBSET Defined]
        BY <1>1, ElementOfSeq
    <3> QED BY <3>1
  <2>2. StackNames \in [1..last -> Defined]
    BY <1>3, <2>1
  <2> HIDE DEF last
  <2> QED BY <1>1, <2>2, SeqOfLength
<1>5. /\ Len(path) = last + 1 /\ path[last + 1] = n
      /\ \A i \in 1..last : path[i] = visiting[i].name
  <2>1. StackNames \in Seq(Defined \cup {n}) /\ n \in Defined \cup {n}
    BY <1>1, <1>3, <1>4, SeqDef
  <2> HIDE DEF last
  <2>2. /\ Len(path) = last + 1 /\ path[last + 1] = n
        /\ \A i \in 1..last : path[i] = StackNames[i]
    BY <1>4, <2>1, AppendProperties
  <2> QED BY <1>3, <2>2
<1>6. ASSUME NEW i \in 1..(Len(path) - 1) PROVE path[i + 1] \in Refs(path[i])
  <2>1. i \in 1..last
    BY <1>1, <1>5, <1>6
  <2>2. CASE i = last
    BY <1>1, <1>5, <2>1, <2>2 DEF Top
  <2>3. CASE i # last
    <3>1. i < last /\ i + 1 \in 1..last
        BY <1>1, <2>1, <2>3
    <3>2. visiting[i + 1].name \in Refs(visiting[i].name)
        BY <2>1, <3>1 DEF StackRight, StackOK
    <3> QED BY <1>5, <2>1, <3>1, <3>2
  <2> QED BY <2>2, <2>3
<1>7. Walk(path)
    BY <1>6 DEF Walk
<1> HIDE DEF path, last
<1> QED BY <1>5, <1>7 DEF path, last

\* What is good is a matter of the file alone.
LEMMA SameGood ==
    ASSUME file' = file
    PROVE  /\ Defined' = Defined /\ Good' = Good
           /\ \A n : Refs(n)' = Refs(n)
<1>1. Defined' = Defined /\ \A n : Refs(n)' = Refs(n)
    BY DEF Defined, Refs
<1>2. ASSUME NEW G PROVE Founded(G)' <=> Founded(G)
    BY <1>1 DEF Founded
<1>3. Good' = {n \in Defined : \E G \in SUBSET Defined : n \in G /\ Founded(G)}
    BY <1>1, <1>2 DEF Good
<1> QED BY <1>1, <1>3 DEF Good

\* An error once reported stays right.
LEMMA SameErrors ==
    ASSUME ErrorRight, file' = file, error' = error
    PROVE  ErrorRight'
    BY SameGood DEF ErrorRight, Walk

\* The other errors report neither a cycle nor a missing definition.
LEMMA OtherErrors ==
    ASSUME error'.kind \notin {"CircularReference", "MissingDefinition"}
    PROVE  ErrorRight'
    BY DEF ErrorRight

\* The invariant holds initially.
LEMMA DInvInit == Init => DInv
    BY DEF Init, DInv, ErrorRight, NoError

-----------------------------------------------------------------------------
(* The stack *)

Entries == [name : Defined, todo : SUBSET Defined]

\* A stack that is not empty has a last entry.
LEMMA StackLast ==
    ASSUME NEW w \in Seq(Entries), w # <<>>
    PROVE  Len(w) \in Nat \ {0} /\ Len(w) \in 1..Len(w) /\ w[Len(w)] \in Entries
<1>1. Len(w) \in Nat \ {0}
    BY EmptySeq
<1>2. Len(w) \in 1..Len(w)
    BY <1>1
<1> QED BY <1>1, <1>2, ElementOfSeq

\* A stack is a sequence of entries.
LEMMA StackType ==
    ASSUME NEW w, NEW rest, StackOK(w, rest)
    PROVE  w \in Seq(Entries)
    BY DEF StackOK, Entries

\* A reference of the last name that turns out to be good is done with.
LEMMA StackDone ==
    ASSUME NEW w, NEW n \in Good, StackOK(w, {n})
    PROVE  StackOK(w, {})
    BY DEF StackOK

\* One that is an object goes on the stack.
LEMMA StackPush ==
    ASSUME NEW w, NEW n \in Defined, StackOK(w, {n}), Refs(n) \subseteq Defined,
           w # <<>> => n \in Refs(w[Len(w)].name)
    PROVE  StackOK(Append(w, [name |-> n, todo |-> Refs(n)]), {})
<1> DEFINE e == [name |-> n, todo |-> Refs(n)]
           v == Append(w, e)
           last == Len(w)
<1>1. w \in Seq(Entries) /\ e \in Entries
    BY DEF StackOK, Entries
<1>2. last \in Nat
    BY <1>1, LenProperties
<1>3. e.name = n /\ e.todo = Refs(n)
    OBVIOUS
<1> HIDE DEF e
<1>4. /\ v \in Seq(Entries) /\ Len(v) = last + 1 /\ v[last + 1] = e
      /\ \A i \in 1..last : v[i] = w[i]
  <2> HIDE DEF last
  <2>1. v \in Seq(Entries) /\ Len(v) = last + 1
    BY <1>1, AppendProperties DEF last
  <2>2. v[last + 1] = e /\ \A i \in 1..last : v[i] = w[i]
    BY <1>1, AppendProperties DEF last
  <2> QED BY <2>1, <2>2
<1> HIDE DEF v
<1>5. ASSUME NEW i \in 1..Len(v)
      PROVE  /\ v[i].todo \subseteq Refs(v[i].name)
             /\ i < Len(v) => v[i + 1].name \in Refs(v[i].name)
             /\ \A m \in Refs(v[i].name) :
                 \/ m \in v[i].todo \/ m \in Good
                 \/ IF i < Len(v) THEN m = v[i + 1].name ELSE m \in {}
  <2>1. CASE i = last + 1
    <3>1. v[i] = e /\ ~(i < Len(v))
        BY <1>2, <1>4, <2>1
    <3> QED BY <1>3, <3>1
  <2>2. CASE i # last + 1
    <3>1. i \in 1..last /\ i < Len(v) /\ v[i] = w[i]
        BY <1>2, <1>4, <2>2
    <3>2. /\ w[i].todo \subseteq Refs(w[i].name)
          /\ i < last => w[i + 1].name \in Refs(w[i].name)
          /\ \A m \in Refs(w[i].name) :
              \/ m \in w[i].todo \/ m \in Good
              \/ IF i < last THEN m = w[i + 1].name ELSE m \in {n}
        BY <3>1 DEF StackOK
    <3>3. CASE i = last
      <4>1. v[i + 1].name = n /\ w # <<>>
        BY <1>2, <1>3, <1>4, <2>2, <3>1, <3>3, EmptySeq
      <4>2. ~(i < last)
        BY <1>2, <3>3
      <4>3. n \in Refs(w[i].name)
        BY <3>3, <4>1
      <4> QED BY <3>1, <3>2, <4>1, <4>2, <4>3
    <3>4. CASE i # last
      <4>1. i < last /\ i + 1 \in 1..last
        BY <1>2, <3>1, <3>4
      <4>2. v[i + 1] = w[i + 1]
        BY <1>4, <4>1
      <4> QED BY <3>1, <3>2, <4>1, <4>2
    <3> QED BY <3>3, <3>4
  <2> QED BY <2>1, <2>2
<1>6. StackOK(v, {})
    BY <1>4, <1>5 DEF StackOK, Entries
<1> QED BY <1>6 DEF v, e

\* A reference of the last name is followed.
LEMMA StackFollow ==
    ASSUME NEW w, StackOK(w, {}), w # <<>>, NEW n \in w[Len(w)].todo
    PROVE  /\ StackOK([w EXCEPT ![Len(w)].todo = @ \ {n}], {n})
           /\ n \in Refs(w[Len(w)].name) /\ n \in Defined
           /\ Len([w EXCEPT ![Len(w)].todo = @ \ {n}]) = Len(w)
           /\ \A i \in 1..Len(w) : [w EXCEPT ![Len(w)].todo = @ \ {n}][i].name = w[i].name
<1> DEFINE last == Len(w)
           e == [name |-> w[last].name, todo |-> w[last].todo \ {n}]
           v == [w EXCEPT ![last] = e]
<1>1. w \in Seq(Entries)
    BY StackType
<1>2. last \in Nat \ {0} /\ last \in 1..last /\ w[last] \in Entries
    BY <1>1, StackLast
<1>3. e \in Entries /\ e.name = w[last].name /\ e.todo = w[last].todo \ {n}
    BY <1>2 DEF Entries
<1>4. [w EXCEPT ![last].todo = @ \ {n}] = v
  <2>1. [w[last] EXCEPT !.todo = @ \ {n}] = e
    <3>1. ASSUME NEW x \in Entries, NEW t
          PROVE  [x EXCEPT !.todo = t] = [name |-> x.name, todo |-> t]
        BY DEF Entries
    <3> QED BY <1>2, <3>1
  <2>2. [w EXCEPT ![last].todo = @ \ {n}] = [w EXCEPT ![last] = [w[last] EXCEPT !.todo = @ \ {n}]]
    BY <1>1, <1>2, LenProperties
  <2> QED BY <2>1, <2>2
<1>5. n \in Refs(w[last].name) /\ n \in Defined
    BY <1>2 DEF StackOK, Entries
<1> HIDE DEF e
<1>6. /\ v \in Seq(Entries) /\ Len(v) = last
      /\ \A i \in 1..last : v[i] = IF i = last THEN e ELSE w[i]
    BY <1>1, <1>2, <1>3, ExceptSeq
<1> HIDE DEF v, last
<1>7. ASSUME NEW i \in 1..Len(v)
      PROVE  /\ v[i].todo \subseteq Refs(v[i].name)
             /\ i < Len(v) => v[i + 1].name \in Refs(v[i].name)
             /\ \A m \in Refs(v[i].name) :
                 \/ m \in v[i].todo \/ m \in Good
                 \/ IF i < Len(v) THEN m = v[i + 1].name ELSE m \in {n}
  <2>1. /\ w[i].todo \subseteq Refs(w[i].name)
        /\ i < last => w[i + 1].name \in Refs(w[i].name)
        /\ \A m \in Refs(w[i].name) :
            \/ m \in w[i].todo \/ m \in Good
            \/ IF i < last THEN m = w[i + 1].name ELSE m \in {}
    BY <1>6 DEF StackOK, last
  <2>2. CASE i = last
    <3>1. v[i] = e /\ ~(i < last)
        BY <1>2, <1>6, <2>2
    <3> QED BY <1>3, <1>6, <2>1, <2>2, <3>1
  <2>3. CASE i # last
    <3>1. v[i] = w[i] /\ i < last /\ i + 1 \in 1..last
        BY <1>2, <1>6, <2>3
    <3>2. v[i + 1].name = w[i + 1].name
        BY <1>3, <1>6, <3>1
    <3> QED BY <1>6, <2>1, <3>1, <3>2
  <2> QED BY <2>2, <2>3
<1>8. StackOK(v, {n})
    BY <1>6, <1>7 DEF StackOK, Entries
<1>9. \A i \in 1..last : v[i].name = w[i].name
    BY <1>3, <1>6
<1> QED BY <1>4, <1>5, <1>6, <1>8, <1>9 DEF last

\* The last name has nothing left to follow: it is good.
LEMMA StackPop ==
    ASSUME NEW w, StackOK(w, {}), w # <<>>, w[Len(w)].todo = {}
    PROVE  /\ w[Len(w)].name \in Good
           /\ StackOK(SubSeq(w, 1, Len(w) - 1), {})
           /\ SubSeq(w, 1, Len(w) - 1) # <<>> => SubSeq(w, 1, Len(w) - 1)[1] = w[1]
           /\ SubSeq(w, 1, Len(w) - 1) = <<>> => w[1].name \in Good
<1> DEFINE last == Len(w)
           v == SubSeq(w, 1, last - 1)
<1>1. w \in Seq(Entries)
    BY StackType
<1>2. last \in Nat \ {0} /\ last \in 1..last /\ w[last] \in Entries
    BY <1>1, StackLast
<1>3. w[last].name \in Good
  <2>1. w[last].name \in Defined
    BY <1>2 DEF Entries
  <2>2. Refs(w[last].name) \subseteq Good
    BY <1>2 DEF StackOK
  <2> QED BY <2>1, <2>2, GoodGrows
<1> HIDE DEF last
<1>4. /\ v \in Seq(Entries) /\ Len(v) = last - 1
      /\ \A i \in 1..(last - 1) : v[i] = w[i]
  <2>1. \A i \in 1..(last - 1) : w[i] \in Entries
    BY <1>1, <1>2, ElementOfSeq DEF last
  <2>2. /\ v \in Seq(Entries)
        /\ Len(v) = IF 1 <= last - 1 THEN last - 1 - 1 + 1 ELSE 0
        /\ \A i \in 1..(last - 1 - 1 + 1) : v[i] = w[1 + i - 1]
    BY <1>2, <2>1, SubSeqProperties
  <2> HIDE DEF v
  <2> QED BY <1>2, <2>2
<1> HIDE DEF v
<1>5. ASSUME NEW i \in 1..Len(v)
      PROVE  /\ v[i].todo \subseteq Refs(v[i].name)
             /\ i < Len(v) => v[i + 1].name \in Refs(v[i].name)
             /\ \A m \in Refs(v[i].name) :
                 \/ m \in v[i].todo \/ m \in Good
                 \/ IF i < Len(v) THEN m = v[i + 1].name ELSE m \in {}
  <2>1. i \in 1..last /\ i < last /\ v[i] = w[i]
    BY <1>2, <1>4
  <2>2. /\ w[i].todo \subseteq Refs(w[i].name)
        /\ w[i + 1].name \in Refs(w[i].name)
        /\ \A m \in Refs(w[i].name) :
            m \in w[i].todo \/ m \in Good \/ m = w[i + 1].name
    BY <2>1 DEF StackOK, last
  <2>3. CASE i = last - 1
    <3>1. i + 1 = last /\ ~(i < Len(v))
        BY <1>2, <1>4, <2>3
    <3> QED BY <1>3, <2>1, <2>2, <3>1
  <2>4. CASE i # last - 1
    <3>1. i < Len(v) /\ v[i + 1] = w[i + 1]
        BY <1>2, <1>4, <2>1, <2>4
    <3> QED BY <2>1, <2>2, <3>1
  <2> QED BY <2>3, <2>4
<1>6. StackOK(v, {})
    BY <1>4, <1>5 DEF StackOK, Entries
<1>7. v # <<>> => v[1] = w[1]
  <2>1. v # <<>> => Len(v) \in Nat \ {0}
    BY <1>4, EmptySeq
  <2> QED BY <1>2, <1>4, <2>1
<1>8. v = <<>> => w[1].name \in Good
  <2>1. v = <<>> => Len(v) = 0
    BY EmptySeq
  <2>2. v = <<>> => last = 1
    BY <1>2, <1>4, <2>1
  <2> QED BY <1>3, <2>2
<1> QED BY <1>3, <1>6, <1>7, <1>8 DEF v, last


-----------------------------------------------------------------------------
(* Steps of the check *)

\* A cycle is reported: the stack leads to a name that is on it.
LEMMA CycleReported ==
    ASSUME StackRight, NEW n, OnStack(n), visiting # <<>> => n \in Refs(Top.name),
           file' = file, Refuse("CircularReference", Append(StackNames, n))
    PROVE  ErrorRight'
<1> DEFINE path == Append(StackNames, n)
<1>1. PICK i \in DOMAIN visiting : visiting[i].name = n
    BY DEF OnStack
<1>2. visiting \in Seq(Entries) /\ DOMAIN visiting = 1..Len(visiting) /\ Len(visiting) \in Nat
    BY StackType, LenProperties DEF StackRight
<1>3. visiting # <<>> /\ i \in 1..Len(visiting)
  <2>1. i \in 1..Len(visiting)
    BY <1>1, <1>2
  <2>2. visiting = <<>> => Len(visiting) = 0
    BY EmptySeq
  <2> QED BY <1>2, <2>1, <2>2
<1>4. /\ Walk(path) /\ Len(path) = Len(visiting) + 1 /\ path[Len(visiting) + 1] = n
      /\ path[i] = n
    BY <1>1, <1>3, WalkOn
<1>5. error'.kind = "CircularReference" /\ error'.path = path
    BY DEF Refuse
<1> HIDE DEF path
<1>6. \A k \in 1..(Len(path) - 1) : path[k + 1] \in Refs(path[k])
    BY <1>4 DEF Walk
<1>7. i \in 1..(Len(path) - 1) /\ path[i] = path[Len(path)]
    BY <1>2, <1>3, <1>4
<1> QED BY <1>5, <1>6, <1>7, SameGood DEF ErrorRight, Walk

\* A stack that is right is right after a step, the file being the same.
LEMMA StackStays ==
    ASSUME file' = file, NEW w, visiting' = w, StackOK(w, {})
    PROVE  StackRight'
<1>1. w \in Seq(Entries)
    BY StackType
<1>2. Entries' = Entries
    BY SameGood DEF Entries
<1>3. \A i \in 1..Len(w) :
        /\ w[i].todo \subseteq Refs(w[i].name)
        /\ i < Len(w) => w[i + 1].name \in Refs(w[i].name)
        /\ \A m \in Refs(w[i].name) :
            \/ m \in w[i].todo \/ m \in Good
            \/ IF i < Len(w) THEN m = w[i + 1].name ELSE m \in {}
    BY DEF StackOK
<1> QED BY <1>1, <1>2, <1>3, SameGood DEF StackRight, StackOK, Entries

\* detect_cycle(n) with the stack `below`, whose last name refers to n.
LEMMA VisitStep ==
    ASSUME StackRight, NEW n \in Defined, visiting # <<>> => n \in Refs(Top.name),
           Refs(n) \subseteq Defined, file' = file, NEW below, StackOK(below, {n}),
           below # <<>> => n \in Refs(below[Len(below)].name),
           ErrorRight, phase = "cycles", Visit(n, below)
    PROVE  /\ ErrorRight'
           /\ \/ phase' = "refused"
              \/ /\ phase' = "cycles" /\ StackRight'
                 /\ \/ n \in Good /\ visiting' = below
                    \/ visiting' = Append(below, [name |-> n, todo |-> Refs(n)])
<1>1. CASE OnStack(n)
  <2>1. Refuse("CircularReference", Append(StackNames, n))
    BY <1>1 DEF Visit
  <2> QED BY <1>1, <2>1, CycleReported DEF Refuse
<1>2. CASE ~OnStack(n)
  <2>1. phase' = "cycles" /\ error' = error
    BY <1>2 DEF Visit
  <2>2. ErrorRight'
    BY <2>1, SameErrors
  <2>3. CASE file.defs[n].type = "object"
    <3> DEFINE pushed == Append(below, [name |-> n, todo |-> Refs(n)])
    <3>1. visiting' = pushed
        BY <1>2, <2>3 DEF Visit
    <3>2. StackOK(pushed, {})
        BY StackPush
    <3> HIDE DEF pushed
    <3>3. StackRight'
        BY <3>1, <3>2, StackStays
    <3> QED BY <2>1, <2>2, <3>1, <3>3 DEF pushed
  <2>4. CASE file.defs[n].type # "object"
    <3>1. visiting' = below
        BY <1>2, <2>4 DEF Visit
    <3>2. n \in Good
        BY <2>4, GoodGrows DEF Refs
    <3>3. StackRight'
        BY <3>1, <3>2, StackDone, StackStays
    <3> QED BY <2>1, <2>2, <3>1, <3>2, <3>3
  <2> QED BY <2>3, <2>4
<1> QED BY <1>1, <1>2

\* The root of the search is still at the bottom of the stack, or it is good.
LEMMA RootsStay ==
    ASSUME file' = file, NEW n \in Defined, roots' = roots \/ roots' = roots \ {n},
           RootsRight, roots' # roots => n \in Good \/ (visiting' # <<>> /\ n = visiting'[1].name),
           visiting # <<>> => \/ visiting[1].name \in Good
                              \/ visiting' # <<>> /\ visiting'[1].name = visiting[1].name
    PROVE  RootsRight'
    BY SameGood DEF RootsRight

\* One more name on a stack.
LEMMA Pushed ==
    ASSUME NEW w \in Seq(Entries), NEW e \in Entries
    PROVE  /\ Append(w, e) # <<>>
           /\ Append(w, e)[1] = IF w = <<>> THEN e ELSE w[1]
<1> DEFINE v == Append(w, e)
<1>1. /\ v \in Seq(Entries) /\ Len(v) = Len(w) + 1 /\ v[Len(w) + 1] = e
      /\ \A i \in 1..Len(w) : v[i] = w[i]
    BY AppendProperties
<1>2. Len(w) \in Nat
    BY LenProperties
<1>3. v # <<>>
  <2>1. v = <<>> => Len(v) = 0
    BY EmptySeq
  <2> QED BY <1>1, <1>2, <2>1
<1>4. w = <<>> => Len(w) = 0
    BY EmptySeq
<1>5. w # <<>> => Len(w) \in Nat \ {0}
    BY EmptySeq
<1> HIDE DEF v
<1>6. w = <<>> => v[1] = e
    BY <1>1, <1>4
<1>7. w # <<>> => v[1] = w[1]
    BY <1>1, <1>5
<1> QED BY <1>3, <1>6, <1>7 DEF v

\* What the invariant says during the cycle check.
LEMMA InCycles ==
    ASSUME IInv, DInv, phase = "cycles"
    PROVE  /\ StackRight /\ RootsRight /\ ErrorRight
           /\ \A n \in Defined : Refs(n) \subseteq Defined
<1>1. MissingRefs = {}
    BY DEF IInv, Checked
<1> QED BY <1>1, KnownRefs DEF DInv

\* What a step of the check has to show.
LEMMA CyclesStep ==
    ASSUME DInv, file' = file, ErrorRight',
           phase' = "refused" \/ (phase' = "cycles" /\ StackRight' /\ RootsRight')
    PROVE  DInv'
    BY DEF DInv

\* The search starts from a name: it is good, or alone on the stack.
LEMMA StartSteps ==
    ASSUME IInv, DInv, NEW n \in roots, StartRoot(n)
    PROVE  DInv'
<1>1. /\ phase = "cycles" /\ visiting = <<>> /\ roots' = roots \ {n} /\ file' = file
      /\ Visit(n, visiting)
    BY DEF StartRoot
<1>2. /\ StackRight /\ RootsRight /\ ErrorRight /\ n \in Defined /\ Refs(n) \subseteq Defined
    BY <1>1, InCycles DEF RootsRight
<1>3. visiting \in Seq(Entries) /\ StackOK(visiting, {n})
  <2>1. visiting \in Seq(Entries) /\ Len(visiting) = 0
    BY <1>1, EmptySeq
  <2> QED BY <2>1 DEF StackOK, Entries
<1> DEFINE e == [name |-> n, todo |-> Refs(n)]
<1>4. /\ ErrorRight'
      /\ \/ phase' = "refused"
         \/ /\ phase' = "cycles" /\ StackRight'
            /\ (n \in Good /\ visiting' = visiting) \/ visiting' = Append(visiting, e)
  <2> DEFINE w == visiting
  <2>1. w = <<>>
    BY <1>1
  <2> QED BY <1>1, <1>2, <1>3, VisitStep
<1>5. e \in Entries /\ e.name = n
    BY <1>2 DEF Entries
<1> HIDE DEF e
<1>6. ASSUME phase' = "cycles" PROVE RootsRight'
  <2>1. n \in Good \/ (visiting' # <<>> /\ n = visiting'[1].name)
    BY <1>1, <1>3, <1>4, <1>5, <1>6, Pushed
  <2> QED BY <1>1, <1>2, <2>1, RootsStay
<1> QED BY <1>1, <1>4, <1>6, CyclesStep

\* A reference of the last name on the stack is followed.
LEMMA DescendSteps ==
    ASSUME IInv, DInv, NEW n, Descend(n)
    PROVE  DInv'
<1> DEFINE below == [visiting EXCEPT ![Len(visiting)].todo = @ \ {n}]
           e == [name |-> n, todo |-> Refs(n)]
<1>1. /\ phase = "cycles" /\ visiting # <<>> /\ n \in Top.todo /\ roots' = roots /\ file' = file
      /\ Visit(n, below)
    BY DEF Descend
<1>2. /\ StackRight /\ RootsRight /\ ErrorRight
      /\ \A m \in Defined : Refs(m) \subseteq Defined
    BY <1>1, InCycles
<1>3. /\ StackOK(below, {n}) /\ n \in Refs(Top.name) /\ n \in Defined
      /\ Len(below) = Len(visiting)
      /\ \A i \in 1..Len(visiting) : below[i].name = visiting[i].name
    BY <1>1, <1>2, StackFollow DEF Top, StackRight
<1>4. below \in Seq(Entries) /\ visiting \in Seq(Entries)
    BY <1>2, <1>3, StackType DEF StackRight
<1>5. e \in Entries /\ Refs(n) \subseteq Defined
    BY <1>2, <1>3 DEF Entries
<1> HIDE DEF below, e
<1>6. /\ Len(visiting) \in Nat \ {0} /\ below # <<>>
      /\ below[1].name = visiting[1].name
      /\ below[Len(below)].name = Top.name
  <2>1. Len(visiting) \in Nat \ {0}
    BY <1>1, <1>4, EmptySeq
  <2>2. below = <<>> => Len(below) = 0
    BY EmptySeq
  <2>3. 1 \in 1..Len(visiting) /\ Len(visiting) \in 1..Len(visiting)
    BY <2>1
  <2> QED BY <1>3, <2>1, <2>2, <2>3 DEF Top
<1>7. /\ ErrorRight'
      /\ \/ phase' = "refused"
         \/ /\ phase' = "cycles" /\ StackRight'
            /\ (n \in Good /\ visiting' = below) \/ visiting' = Append(below, e)
    BY <1>1, <1>2, <1>3, <1>5, <1>6, VisitStep DEF e
<1>8. ASSUME phase' = "cycles" PROVE RootsRight'
  <2>1. visiting' # <<>> /\ visiting'[1].name = visiting[1].name
    BY <1>4, <1>5, <1>6, <1>7, <1>8, Pushed
  <2> QED BY <1>1, <1>2, <1>3, <2>1, RootsStay
<1> QED BY <1>1, <1>7, <1>8, CyclesStep

\* A name all of whose references are good leaves the stack, good itself.
LEMMA BacktrackSteps ==
    ASSUME IInv, DInv, Backtrack
    PROVE  DInv'
<1> DEFINE v == SubSeq(visiting, 1, Len(visiting) - 1)
<1>1. /\ phase = "cycles" /\ visiting # <<>> /\ Top.todo = {} /\ roots' = roots
      /\ file' = file /\ phase' = phase /\ error' = error /\ visiting' = v
    BY DEF Backtrack
<1>2. StackRight /\ RootsRight /\ ErrorRight
    BY <1>1, InCycles
<1>3. /\ StackOK(v, {})
      /\ v # <<>> => v[1] = visiting[1]
      /\ v = <<>> => visiting[1].name \in Good
    BY <1>1, <1>2, StackPop DEF Top, StackRight
<1> HIDE DEF v
<1>4. StackRight'
    BY <1>1, <1>3, StackStays
<1>5. RootsRight'
    BY <1>1, <1>2, <1>3, SameGood DEF RootsRight
<1>6. ErrorRight'
    BY <1>1, <1>2, SameErrors
<1> QED BY <1>1, <1>4, <1>5, <1>6, CyclesStep

\* All references have definitions, or one that has none is reported.
LEMMA ReferencesChecked ==
    ASSUME IInv, DInv, CheckReferences
    PROVE  DInv'
<1>1. phase = "references" /\ file' = file /\ visiting' = <<>>
    BY DEF CheckReferences, DInv
<1>2. CASE MissingRefs = {}
  <2>1. phase' = "cycles" /\ roots' = Defined /\ error' = error
    BY <1>2 DEF CheckReferences, Roots
  <2>2. StackOK(<<>>, {})
    <3>1. <<>> \in Seq(Entries) /\ Len(<<>>) = 0
        BY EmptySeq
    <3> QED BY <3>1 DEF StackOK, Entries
  <2>3. StackRight'
    BY <1>1, <2>2, StackStays
  <2>4. RootsRight'
    BY <1>1, <2>1, SameGood DEF RootsRight
  <2>5. ErrorRight'
    BY <1>1, <2>1, SameErrors DEF DInv
  <2> QED BY <1>1, <2>1, <2>3, <2>4, <2>5, CyclesStep
<1>3. CASE MissingRefs # {}
  <2>1. PICK n \in MissingRefs : Refuse("MissingDefinition", <<n>>)
    BY <1>3 DEF CheckReferences
  <2>2. phase' = "refused" /\ error'.kind = "MissingDefinition" /\ error'.path = <<n>>
    BY <2>1 DEF Refuse
  <2>3. n \notin Defined /\ \E m \in Defined : n \in Refs(m)
    BY DEF MissingRefs
  <2>4. ErrorRight'
    BY <1>1, <2>2, <2>3, SameGood DEF ErrorRight
  <2> QED BY <1>1, <2>2, <2>4, CyclesStep
<1> QED BY <1>2, <1>3

\* The check is over and has started from every definition.
LEMMA CyclesEnd ==
    ASSUME IInv, DInv, CyclesChecked
    PROVE  DInv'
<1>1. /\ phase = "cycles" /\ visiting = <<>> /\ roots = {} /\ phase' = "globals"
      /\ file' = file /\ error' = error
    BY DEF CyclesChecked
<1>2. RootsRight /\ ErrorRight
    BY <1>1, InCycles
<1>3. Defined \subseteq Good
    BY <1>1, <1>2 DEF RootsRight
<1>4. ErrorRight'
    BY <1>1, <1>2, SameErrors
<1> QED BY <1>1, <1>3, <1>4, SameGood DEF DInv

\* Steps before and after the check: what is good is not touched, and what is
\* reported is no cycle.
LEMMA OutsideCheck ==
    ASSUME DInv, file' = file,
           error' = error \/ error'.kind \notin {"CircularReference", "MissingDefinition"},
           \/ phase' = "refused"
           \/ /\ phase \in {"validate", "placeholders"} /\ visiting' = visiting
              /\ phase' \in {"validate", "placeholders", "references"}
           \/ phase \in {"globals", "env", "serving"} /\ phase' \in {"globals", "env", "serving"}
    PROVE  DInv'
<1>1. ErrorRight'
    BY SameErrors, OtherErrors DEF DInv
<1>2. file' \in Files
    BY DEF DInv
<1>3. Defined \subseteq Good => Defined' \subseteq Good'
    BY SameGood
<1> QED BY <1>1, <1>2, <1>3 DEF DInv

\* Every step keeps the invariant.
LEMMA DInvNext == IInv /\ DInv /\ [Next]_vars => DInv'
<1> SUFFICES ASSUME IInv, DInv, [Next]_vars PROVE DInv'
    OBVIOUS
<1>1. CASE ValidateAll
    BY <1>1, OutsideCheck DEF ValidateAll, Refuse
<1>2. CASE ValidatePlaceholders
    BY <1>2, OutsideCheck DEF ValidatePlaceholders, Refuse
<1>3. CASE ResolveEnv
    BY <1>3, OutsideCheck DEF ResolveEnv, Refuse
<1>4. ASSUME NEW r \in Jobs, Generate(r) PROVE DInv'
  <2>1. file' = file /\ error' = error /\ phase' = phase /\ phase \in {"globals", "serving"}
    BY <1>4, JobNumbers DEF Generate, IInv, Order
  <2> QED BY <2>1, OutsideCheck
<1>5. ASSUME NEW r \in Jobs, FinishJob(r) PROVE DInv'
  <2>1. /\ file' = file /\ error' = error /\ phase \in {"globals", "serving"}
        /\ phase' \in {phase, "env"}
    BY <1>5, JobNumbers DEF FinishJob, IInv, Order
  <2> QED BY <2>1, OutsideCheck
<1>6. ASSUME NEW r \in Requests, StartRequest(r) PROVE DInv'
  <2>1. file' = file /\ error' = error /\ phase' = phase /\ phase = "serving"
    BY <1>6 DEF StartRequest
  <2> QED BY <2>1, OutsideCheck
<1>7. CASE UNCHANGED vars
  <2>1. /\ file' = file /\ error' = error /\ phase' = phase /\ visiting' = visiting
        /\ roots' = roots
    BY <1>7 DEF vars
  <2>2. phase = "cycles" => StackRight' /\ RootsRight'
    <3>1. ASSUME phase = "cycles" PROVE StackRight'
        BY <2>1, <3>1, StackStays DEF DInv, StackRight
    <3>2. ASSUME phase = "cycles" PROVE RootsRight'
        BY <2>1, <3>2, SameGood DEF DInv, RootsRight
    <3> QED BY <3>1, <3>2
  <2>3. ErrorRight'
    BY <2>1, SameErrors DEF DInv
  <2>4. file' \in Files
    BY <2>1 DEF DInv
  <2>5. Defined \subseteq Good => Defined' \subseteq Good'
    BY <2>1, SameGood
  <2> QED BY <2>1, <2>2, <2>3, <2>4, <2>5 DEF DInv
<1>8. ASSUME Parse PROVE DInv'
    BY <1>1, <1>2, <1>3, <1>4, <1>5, <1>8, JobNumbers, StartSteps, DescendSteps, BacktrackSteps,
       ReferencesChecked, CyclesEnd DEF Parse
<1>9. ASSUME NEW r \in Requests, GenerateOne(r) PROVE DInv'
    BY <1>4, <1>5, <1>6, <1>9, JobNumbers DEF GenerateOne
<1> QED BY <1>7, <1>8, <1>9 DEF Next, Finished

\* The invariant implies the properties.
LEMMA DInvCorrect == IInv /\ DInv => VerdictIsRight
<1> SUFFICES ASSUME IInv, DInv PROVE VerdictIsRight
    OBVIOUS
<1>1. ASSUME phase \in {"globals", "env", "serving"}
      PROVE  /\ Acyclic
             /\ \A n \in Defined : Refs(n) \subseteq Defined
             /\ \A p \in file.body : p.name \in Defined \cup EnvNames
  <2>1. Acyclic
    BY <1>1, FiniteDefined, GoodAreAcyclic DEF DInv
  <2>2. Unknown = {} /\ MissingRefs = {}
    BY <1>1 DEF IInv, Checked
  <2>3. \A n \in Defined : Refs(n) \subseteq Defined
    BY <2>2, KnownRefs
  <2>4. \A p \in file.body : p.name \in Defined \cup EnvNames
    BY <2>2 DEF Unknown
  <2> QED BY <2>1, <2>3, <2>4
<1> QED BY <1>1 DEF DInv, ErrorRight, VerdictIsRight

-----------------------------------------------------------------------------
\* A template is accepted only if all its names have definitions and none
\* contains itself; one refused for a cycle or a missing definition has it,
\* and the path in the error is that cycle, for all files, in whatever order
\* the maps are gone through.
\* About: check_circular_refs and detect_cycle, which keeps no record of the
\* names it is done with: the invariant shows it needs none.
THEOREM VerdictsAreRight == Spec => []VerdictIsRight
<1>1. Init => IInv /\ DInv
    BY IInvInit, DInvInit
<1>2. IInv /\ DInv /\ [Next]_vars => (IInv /\ DInv)'
    BY IInvNext, DInvNext
<1>3. IInv /\ DInv => VerdictIsRight
    BY DInvCorrect
<1> QED BY <1>1, <1>2, <1>3, PTL DEF Spec
=============================================================================
