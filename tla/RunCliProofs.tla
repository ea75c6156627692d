---------------------------- MODULE RunCliProofs ----------------------------
(***************************************************************************)
(* Proofs about `lmn run`: what an exit code promises, when a run may be  *)
(* published, and what the result of publishing means, for every set of   *)
(* rules and URLs, every number of attempts and every network.            *)
(***************************************************************************)
EXTENDS RunCli, SequenceTheorems, TLAPS

-----------------------------------------------------------------------------
(* The publishing client *)

Transient == {"Network", "ServerError"}

\* What post_once may return.
Errors == Transient \cup {"AuthFailed", "PayloadTooLarge", "BadRequest", "UnexpectedStatus"}

\* Attempts are numbered from 1; only those made can be on their way, stored or
\* answered, and a success is only answered to what has been stored.
Delivery ==
    /\ client \in {"idle", "posting", "waiting", "sleeping", "returned"}
    /\ attempt \in Nat
    /\ network \subseteq 1..attempt /\ stored \subseteq 1..attempt
    /\ \A a \in answers : a[2] = "success" => a[1] \in stored
    /\ client = "idle" => attempt = 0
    /\ client \in {"posting", "waiting", "sleeping"} => attempt > 0
    /\ outcome.kind = "ok" =>
        client = "returned" /\ outcome.attempts = attempt /\ attempt \in stored

\* One error per attempt that ended, all of them transient but perhaps the
\* last; the last attempt is not followed by a sleep.
Attempts ==
    /\ seen \in Seq(Errors)
    /\ client = "idle" => seen = <<>>
    /\ client \in {"posting", "waiting"} =>
        /\ Len(seen) = attempt - 1
        /\ \A i \in DOMAIN seen : seen[i] \in Transient
    /\ client = "sleeping" =>
        /\ Len(seen) = attempt
        /\ \A i \in DOMAIN seen : seen[i] \in Transient
    /\ client = "returned" =>
        /\ \A i \in 1..(Len(seen) - 1) : seen[i] \in Transient
        /\ outcome.kind \in Transient => Len(seen) = MaxAttempts

PubInv == Delivery /\ Attempts

\* No request has been made.
LEMMA PubInit == Publication!Init => PubInv
BY EmptySeq DEF Publication!Init, Publication!Failed, PubInv, Delivery, Attempts, Transient

\* An attempt that failed leaves one more error, and another attempt follows
\* only if it was transient and not the last.
LEMMA PubError ==
    ASSUME PubInv, NEW error \in Errors,
           client = "waiting", Publication!HandleError(error)
    PROVE  PubInv'
<1>1. Delivery'
    BY DEF PubInv, Delivery, Publication!HandleError, Publication!Failed, Errors, Transient
<1>2. seen \in Seq(Errors) /\ attempt \in Nat /\ Len(seen) = attempt - 1
    BY DEF PubInv, Delivery, Attempts
<1>3. /\ seen' \in Seq(Errors) /\ Len(seen') = attempt
      /\ \A i \in 1..(attempt - 1) : seen'[i] = seen[i]
      /\ seen'[attempt] = error
    BY <1>2, AppendProperties DEF Publication!HandleError
<1>4. \A i \in 1..(attempt - 1) : seen'[i] \in Transient
    BY <1>2, <1>3 DEF PubInv, Attempts
<1>5. DOMAIN seen' = 1..attempt
    BY <1>3, LenProperties
<1>6. CASE Publication!IsRetryable(error) /\ attempt # MaxAttempts
  <2>1. client' = "sleeping" /\ attempt' = attempt
    BY <1>6 DEF Publication!HandleError, Publication!LastAttempt
  <2>2. \A i \in 1..attempt : seen'[i] \in Transient
    BY <1>2, <1>3, <1>4, <1>6 DEF Publication!IsRetryable, Transient
  <2> QED
    BY <1>1, <1>3, <1>5, <2>1, <2>2 DEF PubInv, Attempts
<1>7. CASE ~(Publication!IsRetryable(error) /\ attempt # MaxAttempts)
  <2>1. client' = "returned" /\ attempt' = attempt /\ outcome'.kind = error
    BY <1>7 DEF Publication!HandleError, Publication!LastAttempt, Publication!Failed
  <2>2. error \in Transient => attempt = MaxAttempts
    BY <1>7 DEF Publication!IsRetryable, Transient
  <2> QED
    BY <1>1, <1>3, <1>4, <1>5, <2>1, <2>2 DEF PubInv, Attempts
<1> QED
    BY <1>6, <1>7

\* Every step of the client, of the network and of the platform keeps it.
LEMMA PubNext == PubInv /\ [Publication!Next]_pubVars => PubInv'
<1> SUFFICES ASSUME PubInv, [Publication!Next]_pubVars PROVE PubInv'
    OBVIOUS
<1>1. CASE Publication!Serialize
    BY <1>1 DEF Publication!Serialize, Publication!Failed, PubInv, Delivery, Attempts, Transient
<1>2. CASE Publication!Post
  <2>1. attempt \in 1..attempt
    BY <1>2 DEF Publication!Post, PubInv, Delivery
  <2>2. Delivery'
    BY <1>2, <2>1 DEF Publication!Post, PubInv, Delivery
  <2>3. Attempts'
    BY <1>2 DEF Publication!Post, PubInv, Attempts
  <2> QED
    BY <2>2, <2>3 DEF PubInv
<1>3. CASE Publication!Succeed
  <2>1. attempt \in stored
    BY <1>3 DEF Publication!Succeed, Publication!Answered, PubInv, Delivery
  <2> QED
    BY <1>3, <2>1 DEF Publication!Succeed, Publication!Published, PubInv, Delivery, Attempts, Transient
<1>4. CASE Publication!TransportError
    BY <1>4, PubError DEF Publication!TransportError, Publication!ErrorOf, Errors, Transient
<1>5. CASE Publication!Retry
    BY <1>5 DEF Publication!Retry, PubInv, Delivery, Attempts
<1>6. ASSUME NEW status \in Publication!Statuses, Publication!Rejected(status) PROVE PubInv'
  <2>1. Publication!ErrorOf(status) \in Errors
    BY DEF Publication!ErrorOf, Publication!Statuses, Errors, Transient
  <2> QED
    BY <1>6, <2>1, PubError DEF Publication!Rejected
<1>7. ASSUME NEW n \in network, Publication!Lose(n) PROVE PubInv'
    BY <1>7 DEF Publication!Lose, PubInv, Delivery, Attempts
<1>8. ASSUME NEW n \in network, NEW status \in Publication!Statuses, Publication!Handle(n, status)
      PROVE  PubInv'
  <2>1. network' \subseteq 1..attempt /\ stored' \subseteq 1..attempt /\ stored \subseteq stored'
    BY <1>8 DEF Publication!Handle, PubInv, Delivery
  <2>2. \A a \in answers' : a[2] = "success" => a[1] \in stored'
    BY <1>8, <2>1 DEF Publication!Handle, PubInv, Delivery
  <2> QED
    BY <1>8, <2>1, <2>2 DEF Publication!Handle, PubInv, Delivery, Attempts
<1>9. CASE UNCHANGED pubVars
    BY <1>9 DEF pubVars, PubInv, Delivery, Attempts
<1> QED
    BY <1>1, <1>2, <1>3, <1>4, <1>5, <1>6, <1>7, <1>8, <1>9
    DEF Publication!Next, Publication!ClientStep, Publication!PlatformStep

-----------------------------------------------------------------------------
(* main() *)

Shown == printed /\ (args.file => file = "complete")

Early == {"parse", "resolve", "execute", "write_file", "print"}

\* What main() has done when it gets to a place, and how it leaves.
MainOrder ==
    /\ pc \in Early => ~printed
    /\ pc = "print" => (args.file => file = "complete")
    /\ pc \in {"publish", "publishing"} => Shown
    /\ pc \in {"write_file", "print", "publish", "publishing"} =>
        failed = ~AllPassed(args.rules, run)
    /\ (pc = "exited" /\ code = 0) => Shown /\ AllPassed(args.rules, run)

\* Somebody asked for the publication, and the address is fit for it.
Fit ==
    /\ Shown
    /\ Enabled(args.publish) /\ ValidUrl(Target(args.publish))
    /\ endpoint = Normalized(Target(args.publish))

\* The client is not heard of before main() starts it, and of how it ended
\* main() says so.
ClientOrder ==
    /\ args \in Args
    /\ pc = "publishing" => Fit
    /\ client # "idle" => Fit /\ pc \in {"publishing", "exited"}
    /\ (pc = "exited" /\ printed /\ Enabled(args.publish) /\ outcome.kind # "ok") => warned

Inv == PubInv /\ MainOrder /\ ClientOrder

\* The invariant holds initially.
LEMMA InvInit == Init => Inv
<1> SUFFICES ASSUME Init PROVE Inv
    OBVIOUS
<1>1. PubInv
    BY PubInit DEF Init
<1>2. MainOrder
    BY DEF Init, MainOrder, Early
<1>3. ClientOrder
    BY DEF Init, ClientOrder, Publication!Init
<1> QED
    BY <1>1, <1>2, <1>3 DEF Inv

\* A step that leaves the client alone keeps what is known of it.
LEMMA PubKept == PubInv /\ UNCHANGED pubVars => PubInv'
BY PubNext

\* The last exit code is 0 only if the thresholds held.
LEMMA FinalCodeTells ==
    ASSUME MainOrder, pc \in {"publish", "publishing"}, FinalCode = 0
    PROVE  AllPassed(args.rules, run)
<1> SUFFICES ASSUME ~AllPassed(args.rules, run) PROVE FALSE
    OBVIOUS
<1>1. failed = TRUE
    BY DEF MainOrder
<1> QED
    BY <1>1 DEF FinalCode

\* The run command and its publication keep to their orders together.
LEMMA InvNext == Inv /\ [Next]_vars => Inv'
<1> SUFFICES ASSUME Inv, [Next]_vars PROVE Inv'
    OBVIOUS
<1> USE DEF Inv
<1>1. CASE Parse
  <2>1. MainOrder'
    BY <1>1 DEF Parse, Exit, MainOrder, Early
  <2>2. ClientOrder'
    BY <1>1 DEF Parse, Exit, MainOrder, ClientOrder, Early, pubVars
  <2> QED
    BY <1>1, <2>1, <2>2, PubKept DEF Parse
<1>2. CASE Resolve
  <2>1. MainOrder'
    BY <1>2 DEF Resolve, Exit, MainOrder, Early
  <2>2. ClientOrder'
    BY <1>2 DEF Resolve, Exit, MainOrder, ClientOrder, Early, pubVars
  <2> QED
    BY <1>2, <2>1, <2>2, PubKept DEF Resolve
<1>3. CASE Execute
  <2>1. MainOrder'
    BY <1>3 DEF Execute, MainOrder, Early
  <2>2. ClientOrder'
    BY <1>3 DEF Execute, ClientOrder, pubVars
  <2> QED
    BY <1>3, <2>1, <2>2, PubKept DEF Execute
<1>4. CASE ExecuteFails
  <2>1. MainOrder'
    BY <1>4 DEF ExecuteFails, Exit, MainOrder, Early
  <2>2. ClientOrder'
    BY <1>4 DEF ExecuteFails, Exit, MainOrder, ClientOrder, Early, pubVars
  <2> QED
    BY <1>4, <2>1, <2>2, PubKept DEF ExecuteFails
<1>5. CASE WriteFile
  <2>1. MainOrder'
    BY <1>5 DEF WriteFile, AfterFileError, Exit, MainOrder, Early
  <2>2. ClientOrder'
    BY <1>5 DEF WriteFile, AfterFileError, Exit, MainOrder, ClientOrder, Early, pubVars
  <2> QED
    BY <1>5, <2>1, <2>2, PubKept DEF WriteFile
<1>6. CASE PrintReport
  <2>1. MainOrder'
    BY <1>6 DEF PrintReport, Exit, MainOrder, Early, Shown
  <2>2. ClientOrder'
    BY <1>6 DEF PrintReport, Exit, MainOrder, ClientOrder, Early, pubVars
  <2> QED
    BY <1>6, <2>1, <2>2, PubKept DEF PrintReport
<1>7. CASE SkipPublish
  <2>1. MainOrder'
    BY <1>7, FinalCodeTells DEF SkipPublish, Exit, MainOrder, Early, Shown
  <2>2. ClientOrder'
    BY <1>7 DEF SkipPublish, Exit, ClientOrder, Enabled, pubVars
  <2> QED
    BY <1>7, <2>1, <2>2, PubKept DEF SkipPublish
<1>8. CASE StartPublish
  <2>1. MainOrder'
    BY <1>8 DEF StartPublish, MainOrder, Early, Shown
  <2>2. ClientOrder'
    BY <1>8 DEF StartPublish, MainOrder, ClientOrder, Fit, Shown, pubVars
  <2> QED
    BY <1>8, <2>1, <2>2, PubKept DEF StartPublish
<1>9. CASE PublishStep \/ Platform
  <2>1. UNCHANGED cliVars /\ Publication!Next
    BY <1>9 DEF PublishStep, Platform, Publication!Next
  <2>2. MainOrder' /\ Fit' = Fit /\ args' \in Args
    BY <2>1 DEF cliVars, MainOrder, ClientOrder, Shown, Fit
  <2>3. PublishStep => pc = "publishing"
    BY DEF PublishStep
  <2>4. Platform => client' = client /\ outcome' = outcome
    BY DEF Platform, Publication!PlatformStep, Publication!Handle, Publication!Lose
  <2>5. ClientOrder'
    BY <1>9, <2>1, <2>2, <2>3, <2>4 DEF cliVars, ClientOrder
  <2> QED
    BY <2>1, <2>2, <2>5, PubNext
<1>10. CASE EndPublish
  <2>1. MainOrder'
    BY <1>10, FinalCodeTells DEF EndPublish, Exit, MainOrder, Early, Shown
  <2>2. ClientOrder'
    BY <1>10 DEF EndPublish, Exit, ClientOrder, Fit, Shown, pubVars
  <2> QED
    BY <1>10, <2>1, <2>2, PubKept DEF EndPublish
<1>11. CASE Gone \/ UNCHANGED vars
  <2>1. UNCHANGED cliVars /\ UNCHANGED pubVars
    BY <1>11 DEF Gone, vars
  <2>2. MainOrder' /\ ClientOrder'
    BY <2>1 DEF cliVars, pubVars, MainOrder, ClientOrder, Fit, Shown
  <2> QED
    BY <2>1, <2>2, PubKept
<1> QED
    BY <1>1, <1>2, <1>3, <1>4, <1>5, <1>6, <1>7, <1>8, <1>9, <1>10, <1>11
    DEF Next, MainStep

-----------------------------------------------------------------------------
(* What follows *)

\* The invariant implies the properties.
LEMMA InvHolds == Spec => []Inv
BY InvInit, InvNext, PTL DEF Spec

\* Exit code 0 means that all rules held, and that the report is where it was
\* asked for.  About: the order of the early returns of main().
THEOREM ZeroIsSuccess == Spec => []ZeroMeansReported
<1>1. Inv => ZeroMeansReported
    BY DEF Inv, MainOrder, Shown, ZeroMeansReported, AllPassed
<1> QED
    BY <1>1, InvHolds, PTL

\* Nothing leaves the machine before the report was shown, unasked for, or to
\* an address that is neither https nor local; and a failure is announced.
\* About: main() up to try_publish, and normalize_and_validate_url.
THEOREM PublishedLastAndSafely == Spec => []PublishedLast
<1>1. Inv => PublishedLast
  <2> SUFFICES ASSUME Inv PROVE PublishedLast
    OBVIOUS
  <2>1. ASSUME network \cup stored # {} PROVE Fit
    <3>1. client # "idle"
      <4> SUFFICES ASSUME attempt = 0 PROVE FALSE
        BY DEF Inv, PubInv, Delivery
      <4>1. network \subseteq 1..0 /\ stored \subseteq 1..0
        BY DEF Inv, PubInv, Delivery
      <4>2. PICK n \in network \cup stored : TRUE
        BY <2>1
      <4>3. n \in 1..0
        BY <4>1, <4>2
      <4> QED
        BY <4>3
    <3> QED
      BY <3>1 DEF Inv, ClientOrder
  <2>2. ASSUME Fit
        PROVE  /\ args.publish # None /\ args.publish.enabled = TRUE
               /\ endpoint.extra = {}
               /\ endpoint.scheme # "https" => (endpoint.scheme = "http" /\ endpoint.host = "loopback")
    <3>1. Target(args.publish) \in Url
      BY <2>2, RunCliAssumption DEF Inv, ClientOrder, Args, Fit, Enabled, Target, DefaultUrl, Url
    <3> QED
      BY <2>2, <3>1 DEF Fit, Enabled, ValidUrl, SecureEnough, Normalized, Url
  <2> QED
    BY <2>1, <2>2 DEF Inv, ClientOrder, Fit, Shown, PublishedLast
<1> QED
    BY <1>1, InvHolds, PTL

\* A success that is reported is the platform's: it stored the run in that
\* attempt, and no attempt followed.  About: the Ok branch of publish().
THEOREM SuccessIsReal == Spec => []SuccessIsStored
<1>1. Inv => SuccessIsStored
    BY DEF Inv, PubInv, Delivery, SuccessIsStored, Publication!SuccessIsStored
<1> QED
    BY <1>1, InvHolds, PTL

\* The client gives up on the first error that is not transient, and on a
\* transient one exactly when its attempts are used up.
\* About: the break condition of the retry loop.
THEOREM RetriesAreBounded == Spec => []GivesUpInTime
<1>1. Inv => GivesUpInTime
  <2> SUFFICES ASSUME Inv PROVE GivesUpInTime
    OBVIOUS
  <2>1. seen \in Seq(Errors) /\ DOMAIN seen = 1..Len(seen) /\ Len(seen) \in Nat
    BY LenProperties DEF Inv, PubInv, Attempts
  <2> QED
    BY <2>1 DEF Inv, PubInv, Delivery, Attempts, GivesUpInTime, Publication!GivesUpInTime, Transient
<1> QED
    BY <1>1, InvHolds, PTL
=============================================================================
