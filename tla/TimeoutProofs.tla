---------------------------- MODULE TimeoutProofs ----------------------------
(***************************************************************************)
(* The two components that count time.                                     *)
(*                                                                         *)
(* For any workers, revisions, pages, leases and backoff: a translation    *)
(* job is published once each time it is done.                             *)
(*                                                                         *)
(* For any keys, window, limit and number of requests in flight: a login   *)
(* is refused exactly when its key has reached the limit, and the failures *)
(* of a key are limited.                                                   *)
(***************************************************************************)
EXTENDS Localization, LoginLimiter, FiniteSetTheorems, TLAPS

\* A worker that is not idle works on a revision.
BusyHasJob == \A w \in Workers : worker[w].pc # "idle" => worker[w].revision \in Revisions

Inv == TypeOK /\ BusyHasJob /\ PublishedOnce

LEMMA StatesOfWorkers ==
  /\ Idle \in WorkerStates
  /\ \A r \in Revisions : [pc |-> "translating", revision |-> r] \in WorkerStates
  /\ \A s \in WorkerStates, pc \in {"translated", "failed"} : [s EXCEPT !.pc = pc] \in WorkerStates
BY LocalizationAssumption DEF Idle, WorkerStates, Revisions

LEMMA InitInv == Init => Inv
<1> SUFFICES ASSUME Init PROVE Inv
  OBVIOUS
<1>1. TypeOK
  BY StatesOfWorkers, LocalizationAssumption DEF Init, TypeOK
<1>2. BusyHasJob /\ PublishedOnce
  BY DEF Init, BusyHasJob, PublishedOnce, Idle
<1>3. QED
  BY <1>1, <1>2 DEF Inv

LEMMA ImportKeeps ==
  ASSUME Inv, NEW r \in Revisions, Import(r)
  PROVE  Inv'
<1>1. created' \in 0 .. LastRevision /\ current' \in [Pages -> 0 .. LastRevision]
  BY LocalizationAssumption DEF Inv, TypeOK, Import, Revisions
<1>2. TypeOK'
  BY <1>1 DEF Inv, TypeOK, Import, jobs
<1>3. BusyHasJob' /\ PublishedOnce'
  BY DEF Inv, BusyHasJob, PublishedOnce, Import, jobs
<1>4. QED
  BY <1>2, <1>3 DEF Inv

LEMMA RequeueKeeps ==
  ASSUME Inv, NEW r \in Revisions, Requeue(r)
  PROVE  Inv'
<1>1. /\ rounds' \in [Revisions -> 0 .. MaxRounds]
      /\ attempts' \in [Revisions -> 0 .. MaxAttempts]
  BY LocalizationAssumption DEF Inv, TypeOK, Requeue
<1>2. TypeOK'
  BY <1>1 DEF Inv, TypeOK, Requeue
<1>3. BusyHasJob'
  BY DEF Inv, BusyHasJob, Requeue
<1>4. PublishedOnce'
  BY DEF Inv, TypeOK, PublishedOnce, Requeue
<1>5. QED
  BY <1>2, <1>3, <1>4 DEF Inv

LEMMA ClaimKeeps ==
  ASSUME Inv, NEW w \in Workers, ClaimLocalization(w)
  PROVE  Inv'
<1>1. PICK r \in Candidates :
        /\ lease' = [lease EXCEPT ![r] = w]
        /\ attempts' = [attempts EXCEPT ![r] = @ + 1]
        /\ wait' = [wait EXCEPT ![r] = LeaseTime]
        /\ worker' = [worker EXCEPT ![w] = [pc |-> "translating", revision |-> r]]
  BY DEF ClaimLocalization
<1>2. r \in 1 .. created /\ attempts[r] < MaxAttempts
  BY DEF Candidates
<1>3. r \in Revisions
  BY <1>2, LocalizationAssumption DEF Inv, TypeOK, Revisions
<1>4. attempts[r] + 1 \in 0 .. MaxAttempts
  BY <1>2, <1>3, LocalizationAssumption DEF Inv, TypeOK
<1>5. worker' \in [Workers -> WorkerStates]
  BY <1>1, <1>3, StatesOfWorkers DEF Inv, TypeOK
<1>6. TypeOK'
  BY <1>1, <1>3, <1>4, <1>5, LocalizationAssumption DEF Inv, TypeOK, ClaimLocalization
<1>7. BusyHasJob'
  BY <1>1, <1>3 DEF Inv, TypeOK, BusyHasJob
<1>8. PublishedOnce'
  BY DEF Inv, PublishedOnce, ClaimLocalization
<1>9. QED
  BY <1>6, <1>7, <1>8 DEF Inv

\* The one step that publishes finds the job not completed, and completes it.
LEMMA CompleteKeeps ==
  ASSUME Inv, NEW w \in Workers, CompleteLocalization(w)
  PROVE  Inv'
<1> DEFINE r == worker[w].revision
<1>1. r \in Revisions
  BY DEF Inv, BusyHasJob, CompleteLocalization
<1>2. worker' = [worker EXCEPT ![w] = Idle] /\ worker' \in [Workers -> WorkerStates]
  BY StatesOfWorkers DEF Inv, TypeOK, CompleteLocalization
<1>3. BusyHasJob'
  BY <1>2 DEF Inv, TypeOK, BusyHasJob, Idle
<1>4. CASE Owned(w)
  <2>1. /\ completed[r] = FALSE
        /\ completed' = [completed EXCEPT ![r] = TRUE]
        /\ lease' = [lease EXCEPT ![r] = Nobody]
        /\ versions' = [versions EXCEPT ![r] = @ + 1]
        /\ UNCHANGED <<created, current, attempts, wait, rounds>>
    BY <1>1, <1>4 DEF CompleteLocalization, Owned, Inv, TypeOK
  <2>2. TypeOK'
    BY <1>1, <1>2, <2>1 DEF Inv, TypeOK
  <2>3. PublishedOnce'
    BY <1>1, <2>1 DEF Inv, TypeOK, PublishedOnce
  <2>4. QED
    BY <1>3, <2>2, <2>3 DEF Inv
<1>5. CASE ~Owned(w)
  <2>1. UNCHANGED <<created, current, jobs, versions, rounds>>
    BY <1>5 DEF CompleteLocalization, jobs
  <2>2. TypeOK' /\ PublishedOnce'
    BY <1>2, <2>1 DEF Inv, TypeOK, PublishedOnce, jobs
  <2>3. QED
    BY <1>3, <2>2 DEF Inv
<1>6. QED
  BY <1>4, <1>5

LEMMA FailKeeps ==
  ASSUME Inv, NEW w \in Workers, FailLocalization(w)
  PROVE  Inv'
<1>1. /\ lease' \in [Revisions -> Workers \union {Nobody}]
      /\ wait' \in [Revisions -> Nat]
  BY LocalizationAssumption DEF Inv, TypeOK, FailLocalization
<1>2. worker' = [worker EXCEPT ![w] = Idle] /\ worker' \in [Workers -> WorkerStates]
  BY StatesOfWorkers DEF Inv, TypeOK, FailLocalization
<1>3. TypeOK'
  BY <1>1, <1>2 DEF Inv, TypeOK, FailLocalization
<1>4. BusyHasJob'
  BY <1>2 DEF Inv, TypeOK, BusyHasJob, Idle
<1>5. PublishedOnce'
  BY DEF Inv, PublishedOnce, FailLocalization
<1>6. QED
  BY <1>3, <1>4, <1>5 DEF Inv

LEMMA WorkerKeeps ==
  ASSUME Inv, NEW w \in Workers, Translate(w) \/ Stop(w)
  PROVE  Inv'
<1>1. UNCHANGED <<created, current, jobs, versions, rounds>>
  BY DEF Translate, Stop
<1>2. PICK s \in WorkerStates :
        /\ worker' = [worker EXCEPT ![w] = s]
        /\ \/ s.pc = "idle"
           \/ worker[w].pc # "idle" /\ s.revision = worker[w].revision
  <2>1. CASE Translate(w)
    <3>1. PICK pc \in {"translated", "failed"} : worker' = [worker EXCEPT ![w].pc = pc]
      BY <2>1 DEF Translate
    <3> DEFINE s == [worker[w] EXCEPT !.pc = pc]
    <3>2. s \in WorkerStates /\ s.revision = worker[w].revision
      BY StatesOfWorkers DEF Inv, TypeOK, WorkerStates
    <3>3. worker[w].pc # "idle" /\ worker' = [worker EXCEPT ![w] = s]
      BY <2>1, <3>1 DEF Translate
    <3> HIDE DEF s
    <3>4. QED
      BY <3>2, <3>3
  <2>2. CASE Stop(w)
    BY <2>2, StatesOfWorkers DEF Stop, Idle
  <2>3. QED
    BY <2>1, <2>2
<1>3. TypeOK'
  BY <1>1, <1>2 DEF Inv, TypeOK, jobs
<1>4. BusyHasJob' /\ PublishedOnce'
  BY <1>1, <1>2 DEF Inv, TypeOK, BusyHasJob, PublishedOnce, jobs
<1>5. QED
  BY <1>3, <1>4 DEF Inv

LEMMA TickKeeps ==
  ASSUME Inv, Tick
  PROVE  Inv'
BY DEF Inv, TypeOK, BusyHasJob, PublishedOnce, Tick

LEMMA StepInv == Inv /\ [Next]_vars => Inv'
<1> SUFFICES ASSUME Inv, [Next]_vars PROVE Inv'
  OBVIOUS
<1>1. CASE Next
  BY <1>1, ImportKeeps, RequeueKeeps, ClaimKeeps, CompleteKeeps, FailKeeps, WorkerKeeps, TickKeeps
     DEF Next, Step
<1>2. CASE UNCHANGED vars
  BY <1>2 DEF Inv, TypeOK, BusyHasJob, PublishedOnce, vars, jobs
<1>3. QED
  BY <1>1, <1>2

\* A busy worker has a job, and the translations are as many as the jobs done.
THEOREM Invariance == Spec => []Inv
BY InitInv, StepInv, PTL DEF Spec

\* The jobs and the workers have their types: no job is tried more often than it
\* may be, whoever claims it.
THEOREM TypeCorrect == Spec => []TypeOK
BY Invariance, PTL DEF Inv

\* A translation is published once for each time its job is done, however late a
\* worker answers whose lease has run out.
THEOREM PublishedCorrectly == Spec => []PublishedOnce
BY Invariance, PTL DEF Inv

-----------------------------------------------------------------------------
(***************************************************************************)
(* LoginLimiter.                                                           *)
(***************************************************************************)

\* The requests that were let through and have not been counted yet.
Pending(k) == {r \in Requests : request[r].pc = "verifying" /\ request[r].key = k}

\* Pruning has lost no failure that still counts.
WindowKept == \A k \in Keys : LastFailures(k) \subseteq limiter[k]

Bounded(k) ==
  /\ IsFiniteSet(limiter[k])
  /\ Cardinality(limiter[k]) + Cardinality(Pending(k)) <= Limit - 1 + Cardinality(Requests)

LoginInv == LoginTypeOK /\ WindowKept /\ \A k \in Keys : Bounded(k)

LEMMA PendingIsFinite ==
  ASSUME LoginAssumption, NEW k
  PROVE  /\ IsFiniteSet(Pending(k)) /\ Cardinality(Pending(k)) \in Nat
         /\ Cardinality(Pending(k)) <= Cardinality(Requests)
         /\ Cardinality(Requests) \in Nat
<1>1. Pending(k) \in SUBSET Requests
  BY DEF Pending
<1>2. QED
  BY <1>1, FS_Subset, FS_CardinalityType DEF LoginAssumption

LEMMA OneMore ==
  ASSUME NEW S, NEW x, IsFiniteSet(S)
  PROVE  /\ IsFiniteSet(S \union {x}) /\ Cardinality(S \union {x}) \in Nat
         /\ Cardinality(S \union {x}) <= Cardinality(S) + 1
<1>1. /\ IsFiniteSet(S \union {x}) /\ Cardinality(S) \in Nat
      /\ Cardinality(S \union {x}) = IF x \in S THEN Cardinality(S) ELSE Cardinality(S) + 1
  BY FS_AddElement, FS_CardinalityType
<1>2. QED
  BY <1>1

LEMMA RecentIsKept ==
  ASSUME LoginAssumption, LoginInv, NEW k \in Keys
  PROVE  /\ Recent(k) = LastFailures(k)
         /\ IsFiniteSet(Recent(k)) /\ Cardinality(Recent(k)) \in Nat
         /\ Cardinality(Recent(k)) <= Cardinality(limiter[k])
<1>1. /\ now \in Nat /\ limiter[k] \subseteq failed[k]
      /\ \A a \in failed[k] : a.time \in Nat
  BY DEF LoginInv, LoginTypeOK
<1>2. \A a \in failed[k] : a.time > now - Window <=> a.time + Window > now
  BY <1>1 DEF LoginAssumption
<1>3. Recent(k) = LastFailures(k)
  BY <1>1, <1>2 DEF LoginInv, WindowKept, Recent, LastFailures
<1>4. Recent(k) \in SUBSET limiter[k] /\ IsFiniteSet(limiter[k])
  BY DEF Recent, LoginInv, Bounded
<1>5. QED
  BY <1>3, <1>4, FS_Subset, FS_CardinalityType

LEMMA LoginInitInv ==
  ASSUME LoginAssumption
  PROVE  LoginInit => LoginInv
<1> SUFFICES ASSUME LoginInit PROVE LoginInv
  OBVIOUS
<1>1. LoginTypeOK
  BY DEF LoginInit, LoginTypeOK, RequestStates, Unused, LoginAssumption
<1>2. WindowKept
  BY DEF LoginInit, WindowKept, LastFailures
<1>3. \A k \in Keys : limiter[k] = {} /\ IsFiniteSet({}) /\ Cardinality({}) = 0
  BY FS_EmptySet DEF LoginInit
<1>4. ASSUME NEW k \in Keys PROVE Bounded(k)
  <2>1. limiter[k] = {} /\ IsFiniteSet(limiter[k]) /\ Cardinality(limiter[k]) = 0
    BY <1>3
  <2>2. QED
    BY <2>1, PendingIsFinite DEF Bounded, LoginAssumption
<1>5. QED
  BY <1>1, <1>2, <1>4 DEF LoginInv

\* A step that moves a request on and counts nothing.
LEMMA RequestKeeps ==
  ASSUME LoginAssumption, LoginInv, NEW r \in Requests, NEW pc \in {"idle", "created"},
         request' = [request EXCEPT ![r].pc = pc],
         UNCHANGED <<now, limiter, failed, made>>
  PROVE  LoginInv'
<1>1. LoginTypeOK'
  BY DEF LoginInv, LoginTypeOK, RequestStates
<1>2. WindowKept'
  BY DEF LoginInv, WindowKept, LastFailures
<1>3. ASSUME NEW k \in Keys PROVE Bounded(k)'
  <2>1. Pending(k)' \in SUBSET Pending(k)
    BY DEF LoginInv, LoginTypeOK, RequestStates, Pending
  <2>2. Cardinality(Pending(k)') \in Nat /\ Cardinality(Pending(k)') <= Cardinality(Pending(k))
    BY <2>1, PendingIsFinite, FS_Subset, FS_CardinalityType
  <2>3. Bounded(k) /\ limiter'[k] = limiter[k] /\ Cardinality(limiter[k]) \in Nat
    BY FS_CardinalityType DEF LoginInv, Bounded
  <2>4. QED
    BY <2>2, <2>3, PendingIsFinite DEF Bounded, LoginAssumption
<1>4. QED
  BY <1>1, <1>2, <1>3 DEF LoginInv

\* A request that is let through finds fewer failures than the limit, and all
\* requests together may be pending with it.
LEMMA AllowKeeps ==
  ASSUME LoginAssumption, LoginInv, NEW r \in Requests, NEW k \in Keys, Allow(r, k)
  PROVE  LoginInv'
<1> DEFINE pc == IF Cardinality(Recent(k)) < Limit THEN "verifying" ELSE "refused"
<1>1. /\ limiter' = [limiter EXCEPT ![k] = Recent(k)]
      /\ request' = [request EXCEPT ![r] = [pc |-> pc, key |-> k]]
      /\ UNCHANGED <<now, failed, made>>
  BY DEF Allow
<1>2. Recent(k) \subseteq limiter[k]
  BY DEF Recent
<1>3. LoginTypeOK'
  <2>1. request' \in [Requests -> RequestStates]
    BY <1>1 DEF LoginInv, LoginTypeOK, RequestStates
  <2>2. QED
    BY <1>1, <1>2, <2>1 DEF LoginInv, LoginTypeOK
<1>4. WindowKept'
  BY <1>1, RecentIsKept DEF LoginInv, LoginTypeOK, WindowKept, LastFailures
<1>5. ASSUME NEW q \in Keys PROVE Bounded(q)'
  <2>1. Bounded(q) /\ Cardinality(limiter[q]) \in Nat
    BY FS_CardinalityType DEF LoginInv, Bounded
  <2>2. CASE q = k /\ pc = "verifying"
    <3>1. limiter'[q] = Recent(k) /\ Cardinality(Recent(k)) < Limit
      BY <1>1, <2>2 DEF LoginInv, LoginTypeOK
    <3>2. /\ Cardinality(Pending(q)') \in Nat
          /\ Cardinality(Pending(q)') <= Cardinality(Requests)
          /\ Cardinality(Requests) \in Nat
      <4>1. Pending(q)' \in SUBSET Requests
        BY DEF Pending
      <4>2. QED
        BY <4>1, FS_Subset, FS_CardinalityType DEF LoginAssumption
    <3>3. QED
      BY <3>1, <3>2, RecentIsKept DEF Bounded, LoginAssumption
  <2>3. CASE ~(q = k /\ pc = "verifying")
    <3>1. Pending(q)' \in SUBSET Pending(q)
      BY <1>1, <2>3 DEF LoginInv, LoginTypeOK, RequestStates, Pending
    <3>2. Cardinality(Pending(q)') \in Nat /\ Cardinality(Pending(q)') <= Cardinality(Pending(q))
      BY <3>1, PendingIsFinite, FS_Subset, FS_CardinalityType
    <3>3. /\ IsFiniteSet(limiter'[q]) /\ Cardinality(limiter'[q]) \in Nat
          /\ Cardinality(limiter'[q]) <= Cardinality(limiter[q])
      BY <1>1, <2>1, RecentIsKept DEF LoginInv, LoginTypeOK, Bounded
    <3>4. QED
      BY <2>1, <3>2, <3>3, PendingIsFinite DEF Bounded, LoginAssumption
  <2>4. QED
    BY <2>2, <2>3
<1>6. QED
  BY <1>3, <1>4, <1>5 DEF LoginInv

\* The failure that is counted is no longer pending.
LEMMA FailLoginKeeps ==
  ASSUME LoginAssumption, LoginInv, NEW r \in Requests, Fail(r)
  PROVE  LoginInv'
<1> DEFINE k == request[r].key
           a == [id |-> made + 1, time |-> now]
<1>1. /\ request[r].pc = "verifying" /\ made < MaxFailures
      /\ limiter' = [limiter EXCEPT ![k] = @ \union {a}]
      /\ failed' = [failed EXCEPT ![k] = @ \union {a}]
      /\ made' = made + 1 /\ now' = now
      /\ request' = [request EXCEPT ![r].pc = "idle"]
  BY DEF Fail, Answered
<1>2. k \in Keys /\ request \in [Requests -> RequestStates]
  BY DEF LoginInv, LoginTypeOK, RequestStates
<1>3. LoginTypeOK'
  <2>1. request' \in [Requests -> RequestStates]
    BY <1>1, <1>2 DEF RequestStates
  <2>2. now' \in 0 .. MaxTime /\ made' \in 0 .. MaxFailures
    BY <1>1 DEF LoginInv, LoginTypeOK, LoginAssumption
  <2> DEFINE Failures == [id : 1 .. made, time : 0 .. now]
             More == [id : 1 .. made', time : 0 .. now']
  <2>3. Failures \subseteq More /\ a \in More
    BY <1>1 DEF LoginInv, LoginTypeOK, LoginAssumption
  <2>4. /\ limiter \in [Keys -> SUBSET Failures] /\ failed \in [Keys -> SUBSET Failures]
        /\ \A q \in Keys : limiter[q] \subseteq failed[q]
    BY DEF LoginInv, LoginTypeOK
  <2> HIDE DEF a, k, Failures, More
  <2>5. limiter' \in [Keys -> SUBSET More] /\ failed' \in [Keys -> SUBSET More]
    BY <1>1, <1>2, <2>3, <2>4
  <2>6. \A q \in Keys : limiter'[q] \subseteq failed'[q]
    BY <1>1, <1>2, <2>4
  <2>7. QED
    BY <2>1, <2>2, <2>5, <2>6 DEF LoginTypeOK, More
<1>4. WindowKept'
  BY <1>1, <1>2 DEF LoginInv, LoginTypeOK, WindowKept, LastFailures
<1>5. ASSUME NEW q \in Keys PROVE Bounded(q)'
  <2>1. Bounded(q) /\ Cardinality(limiter[q]) \in Nat
    BY FS_CardinalityType DEF LoginInv, Bounded
  <2>2. CASE q = k
    <3>1. r \in Pending(q) /\ Pending(q)' = Pending(q) \ {r}
      BY <1>1, <1>2, <2>2 DEF Pending, RequestStates
    <3>2. Cardinality(Pending(q)') = Cardinality(Pending(q)) - 1
      BY <3>1, PendingIsFinite, FS_RemoveElement
    <3>3. limiter'[q] = limiter[q] \union {a}
      BY <1>1, <1>2, <2>2 DEF LoginInv, LoginTypeOK
    <3> HIDE DEF a
    <3>4. /\ IsFiniteSet(limiter'[q]) /\ Cardinality(limiter'[q]) \in Nat
          /\ Cardinality(limiter'[q]) <= Cardinality(limiter[q]) + 1
      BY <2>1, <3>3, OneMore DEF Bounded
    <3>5. QED
      BY <2>1, <3>2, <3>4, PendingIsFinite DEF Bounded, LoginAssumption
  <2>3. CASE q # k
    <3>1. Pending(q)' = Pending(q) /\ limiter'[q] = limiter[q]
      BY <1>1, <1>2, <2>3 DEF Pending, RequestStates, LoginInv, LoginTypeOK
    <3>2. QED
      BY <2>1, <3>1 DEF Bounded
  <2>4. QED
    BY <2>2, <2>3
<1>6. QED
  BY <1>3, <1>4, <1>5 DEF LoginInv

\* A success forgets the failures of its key.
LEMMA SuccessKeeps ==
  ASSUME LoginAssumption, LoginInv, NEW r \in Requests, Success(r)
  PROVE  LoginInv'
<1> DEFINE k == request[r].key
<1>1. /\ limiter' = [limiter EXCEPT ![k] = {}] /\ failed' = [failed EXCEPT ![k] = {}]
      /\ request' = [request EXCEPT ![r].pc = "idle"]
      /\ UNCHANGED <<now, made>>
  BY DEF Success, Answered
<1>2. k \in Keys /\ request \in [Requests -> RequestStates]
  BY DEF LoginInv, LoginTypeOK, RequestStates
<1>3. LoginTypeOK'
  <2>1. request' \in [Requests -> RequestStates]
    BY <1>1, <1>2 DEF RequestStates
  <2>2. QED
    BY <1>1, <1>2, <2>1 DEF LoginInv, LoginTypeOK
<1>4. WindowKept'
  BY <1>1, <1>2 DEF LoginInv, LoginTypeOK, WindowKept, LastFailures
<1>5. ASSUME NEW q \in Keys PROVE Bounded(q)'
  <2>1. Bounded(q) /\ Cardinality(limiter[q]) \in Nat
    BY FS_CardinalityType DEF LoginInv, Bounded
  <2>2. Pending(q)' \in SUBSET Pending(q)
    BY <1>1, <1>2 DEF Pending, RequestStates
  <2>3. Cardinality(Pending(q)') \in Nat /\ Cardinality(Pending(q)') <= Cardinality(Pending(q))
    BY <2>2, PendingIsFinite, FS_Subset, FS_CardinalityType
  <2>4. limiter'[q] = limiter[q] \/ limiter'[q] = {}
    BY <1>1, <1>2 DEF LoginInv, LoginTypeOK
  <2>5. /\ IsFiniteSet(limiter'[q]) /\ Cardinality(limiter'[q]) \in Nat
        /\ Cardinality(limiter'[q]) <= Cardinality(limiter[q])
    <3>1. CASE limiter'[q] = limiter[q]
      BY <2>1, <3>1 DEF Bounded
    <3>2. CASE limiter'[q] = {}
      BY <2>1, <3>2, FS_EmptySet
    <3>3. QED
      BY <2>4, <3>1, <3>2
  <2>6. QED
    BY <2>1, <2>3, <2>5, PendingIsFinite DEF Bounded, LoginAssumption
<1>6. QED
  BY <1>3, <1>4, <1>5 DEF LoginInv

\* What has left the window does not come back.
LEMMA TimeKeeps ==
  ASSUME LoginAssumption, LoginInv, TimePasses
  PROVE  LoginInv'
<1>1. /\ now \in 0 .. MaxTime /\ now' \in 0 .. MaxTime /\ now' = now + 1
      /\ UNCHANGED <<limiter, request, failed, made>>
  BY DEF LoginInv, LoginTypeOK, TimePasses, LoginAssumption
<1>2. LoginTypeOK'
  <2>1. [id : 1 .. made, time : 0 .. now] \subseteq [id : 1 .. made, time : 0 .. now']
    BY <1>1 DEF LoginAssumption
  <2>2. QED
    BY <1>1, <2>1 DEF LoginInv, LoginTypeOK
<1>3. WindowKept'
  <2>1. ASSUME NEW k \in Keys PROVE LastFailures(k)' \subseteq LastFailures(k)
    BY <1>1 DEF LastFailures, LoginInv, LoginTypeOK, LoginAssumption
  <2>2. QED
    BY <1>1, <2>1 DEF LoginInv, WindowKept
<1>4. \A k \in Keys : Bounded(k)'
  BY <1>1 DEF LoginInv, Bounded, Pending
<1>5. QED
  BY <1>2, <1>3, <1>4 DEF LoginInv

LEMMA LoginStepInv ==
  ASSUME LoginAssumption
  PROVE  LoginInv /\ [LoginNext]_loginVars => LoginInv'
<1> SUFFICES ASSUME LoginInv, [LoginNext]_loginVars PROVE LoginInv'
  OBVIOUS
<1>1. CASE UNCHANGED loginVars
  BY <1>1 DEF loginVars, LoginInv, LoginTypeOK, WindowKept, LastFailures, Bounded, Pending
<1>2. CASE TimePasses
  BY <1>2, TimeKeeps
<1>3. ASSUME NEW r \in Requests, NEW k \in Keys, Allow(r, k) PROVE LoginInv'
  BY <1>3, AllowKeeps
<1>4. ASSUME NEW r \in Requests,
             Refused(r) \/ Fail(r) \/ CreateSession(r) \/ SessionError(r) \/ Success(r)
      PROVE  LoginInv'
  <2>1. CASE Fail(r)
    BY <2>1, FailLoginKeeps
  <2>2. CASE Success(r)
    BY <2>2, SuccessKeeps
  <2>3. CASE Refused(r) \/ CreateSession(r) \/ SessionError(r)
    BY <2>3, RequestKeeps DEF Refused, CreateSession, SessionError, Answered
  <2>4. QED
    BY <1>4, <2>1, <2>2, <2>3
<1>5. QED
  BY <1>1, <1>2, <1>3, <1>4 DEF LoginNext

\* What is remembered of a key covers the window, and with the attempts that were
\* let through and not yet counted it stays under the limit.
THEOREM LoginInvariance ==
  ASSUME LoginAssumption
  PROVE  LoginSpec => []LoginInv
BY LoginInitInv, LoginStepInv, PTL DEF LoginSpec

\* The failures that are remembered are failures of the key since its last success.
THEOREM LoginTypeCorrect ==
  ASSUME LoginAssumption
  PROVE  LoginSpec => []LoginTypeOK
BY LoginInvariance, PTL DEF LoginInv

LEMMA BoundsFromLoginInv ==
  ASSUME LoginAssumption
  PROVE  LoginInv => FailuresAreLimited /\ AttemptsAreBounded
<1> SUFFICES ASSUME LoginInv, NEW k \in Keys
             PROVE  /\ Cardinality(LastFailures(k)) <= Limit - 1 + Cardinality(Requests)
                    /\ Cardinality(limiter[k]) <= Limit - 1 + Cardinality(Requests)
  BY DEF FailuresAreLimited, AttemptsAreBounded
<1>1. Bounded(k) /\ Cardinality(limiter[k]) \in Nat
  BY FS_CardinalityType DEF LoginInv, Bounded
<1>2. Cardinality(limiter[k]) <= Limit - 1 + Cardinality(Requests)
  BY <1>1, PendingIsFinite DEF Bounded, LoginAssumption
<1>3. /\ Cardinality(LastFailures(k)) \in Nat
      /\ Cardinality(LastFailures(k)) <= Cardinality(limiter[k])
  BY RecentIsKept
<1>4. Limit - 1 + Cardinality(Requests) \in Int
  <2>1. Cardinality(Requests) \in Nat
    BY PendingIsFinite
  <2>2. QED
    BY <2>1 DEF LoginAssumption
<1>5. QED
  BY <1>1, <1>2, <1>3, <1>4

\* However requests overlap, the logins with a key fail at most as often in a window
\* as the limit and the requests in flight allow.
THEOREM LimitedCorrectly ==
  ASSUME LoginAssumption
  PROVE  LoginSpec => []FailuresAreLimited
BY LoginInvariance, BoundsFromLoginInv, PTL

\* What is remembered of a key does not grow with the failures.
THEOREM BoundedCorrectly ==
  ASSUME LoginAssumption
  PROVE  LoginSpec => []AttemptsAreBounded
BY LoginInvariance, BoundsFromLoginInv, PTL

LEMMA StepAllowsByFailures ==
  ASSUME LoginAssumption, LoginInv, LoginNext, NEW r \in Requests,
         request[r].pc = "idle", request'[r].pc # "idle"
  PROVE  request'[r].pc = "refused" <=> Cardinality(LastFailures(request'[r].key)) >= Limit
<1>1. request \in [Requests -> RequestStates]
  BY DEF LoginInv, LoginTypeOK
<1>2. ASSUME NEW q \in Requests, NEW pc,
             request[q].pc # "idle", request' = [request EXCEPT ![q].pc = pc]
      PROVE  FALSE
  <2>1. q # r
    BY <1>2
  <2>2. request'[r] = request[r]
    BY <1>1, <1>2, <2>1
  <2>3. QED
    BY <2>2
<1>3. ~TimePasses
  BY DEF TimePasses
<1>4. ASSUME NEW q \in Requests,
             Refused(q) \/ Fail(q) \/ CreateSession(q) \/ SessionError(q) \/ Success(q)
      PROVE  FALSE
  <2>1. request[q].pc # "idle" /\ \E pc : request' = [request EXCEPT ![q].pc = pc]
    BY <1>4 DEF Refused, Fail, CreateSession, SessionError, Success, Answered
  <2>2. QED
    BY <1>2, <2>1
<1>5. PICK q \in Requests, k \in Keys : Allow(q, k)
  BY <1>3, <1>4 DEF LoginNext
<1> DEFINE pc == IF Cardinality(Recent(k)) < Limit THEN "verifying" ELSE "refused"
<1>6. request' = [request EXCEPT ![q] = [pc |-> pc, key |-> k]]
  BY <1>5 DEF Allow
<1>7. q = r
  BY <1>1, <1>6
<1>8. request'[r].pc = pc /\ request'[r].key = k
  BY <1>1, <1>6, <1>7
<1>9. Recent(k) = LastFailures(k) /\ Cardinality(Recent(k)) \in Nat
  BY RecentIsKept
<1>10. QED
  BY <1>8, <1>9 DEF LoginAssumption

LEMMA StepLogin ==
  ASSUME LoginAssumption
  PROVE
  LoginInv /\ [LoginNext]_loginVars =>
    [\A r \in Requests :
       request[r].pc = "idle" /\ request'[r].pc # "idle" =>
         (request'[r].pc = "refused" <=>
            Cardinality(LastFailures(request'[r].key)) >= Limit)]_loginVars
BY StepAllowsByFailures

\* Although what has left the window is dropped, a login is refused exactly when the
\* failures of the window since the last success have reached the limit.
THEOREM AllowedCorrectly ==
  ASSUME LoginAssumption
  PROVE  LoginSpec => AllowedByFailures
BY LoginInvariance, StepLogin, PTL DEF LoginSpec, AllowedByFailures
=============================================================================
