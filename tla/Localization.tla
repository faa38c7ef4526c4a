---------------------------- MODULE Localization ----------------------------
(***************************************************************************)
(* The durable translation jobs: every business revision of the mirrored   *)
(* catalogue has a job, a background worker leases one at a time, has the  *)
(* translation provider translate it and publishes the complete result.    *)
(*                                                                         *)
(* A worker may be slow, fail or vanish at any point; the lease then runs  *)
(* out and another worker takes the job.  Time is counted in steps of the  *)
(* backoff, and only what is left until available_at is kept.              *)
(***************************************************************************)
EXTENDS Integers

CONSTANTS
  LastRevision,  \* bound: the business revisions, numbered as they are created
  Pages,
  PageOf,        \* the page of each revision
  Workers,
  Nobody,        \* the lease of a job that is not leased
  MaxAttempts,   \* how often a job is tried
  Backoff,       \* how long a failed job waits
  LeaseTime,     \* how long a lease lasts
  MaxRounds      \* bound: how often a job is requeued by an operator

Revisions == 1 .. LastRevision

ASSUME LocalizationAssumption ==
  /\ LastRevision \in Nat
  /\ PageOf \in [Revisions -> Pages]
  /\ Nobody \notin Workers
  /\ MaxAttempts \in Nat /\ MaxRounds \in Nat
  /\ Backoff \in Nat \ {0} /\ LeaseTime \in Nat \ {0}

VARIABLES
  created,    \* the revisions 1 .. created are in repository_revisions
  current,    \* repository_pages.current_revision_id, 0 for no page
  attempts,   \* repository_localization_jobs: each revision has a row before
  lease,      \*   the first claim; lease is the worker whose claim it is
  wait,       \*   the time until available_at, 0 when it has passed
  completed,
  versions,   \* how many translations of the revision were published
  rounds,     \* how often its completed job was requeued
  worker      \* what each worker does

jobs == <<attempts, lease, wait, completed>>
vars == <<created, current, jobs, versions, rounds, worker>>

Idle == [pc |-> "idle", revision |-> 0]

\* An import shows a revision, a new one or one the page had before.
Import(r) ==
  /\ r \in 1 .. created + 1
  /\ created' = IF r > created THEN r ELSE created
  /\ current' = [current EXCEPT ![PageOf[r]] = r]
  /\ UNCHANGED <<jobs, versions, rounds, worker>>

(***************************************************************************)
(* postgres/localization.go: each function is one statement.               *)
(***************************************************************************)
IsCurrent(r) == current[PageOf[r]] = r

\* The order of the claims: what readers see now comes first.
Before(q, r) == IF IsCurrent(q) = IsCurrent(r) THEN q < r ELSE IsCurrent(q)

\* Mutant: a leased job is not offered again, whatever became of its worker.
UnleasedCandidates ==
  {r \in 1 .. created : ~completed[r] /\ attempts[r] < MaxAttempts /\ wait[r] = 0
                          /\ lease[r] = Nobody}

Candidates ==
  {r \in 1 .. created : ~completed[r] /\ attempts[r] < MaxAttempts /\ wait[r] = 0}

ClaimLocalization(w) ==
  /\ worker[w] = Idle
  /\ \E r \in Candidates :
       /\ \A q \in Candidates \ {r} : Before(r, q)
       /\ lease' = [lease EXCEPT ![r] = w]
       /\ attempts' = [attempts EXCEPT ![r] = @ + 1]
       /\ wait' = [wait EXCEPT ![r] = LeaseTime]
       /\ worker' = [worker EXCEPT ![w] = [pc |-> "translating", revision |-> r]]
  /\ UNCHANGED <<created, current, completed, versions, rounds>>

\* Mutant: whoever has translated the revision publishes it.
OwnedByAny(w) == wait[worker[w].revision] > 0

Owned(w) ==
  LET r == worker[w].revision IN lease[r] = w /\ ~completed[r] /\ wait[r] > 0

CompleteLocalization(w) ==
  LET r == worker[w].revision IN
  /\ worker[w].pc = "translated"
  /\ IF Owned(w)
     THEN /\ completed' = [completed EXCEPT ![r] = TRUE]
          /\ lease' = [lease EXCEPT ![r] = Nobody]
          /\ versions' = [versions EXCEPT ![r] = @ + 1]
     ELSE UNCHANGED <<completed, lease, versions>>
  /\ worker' = [worker EXCEPT ![w] = Idle]
  /\ UNCHANGED <<created, current, attempts, wait, rounds>>

FailLocalization(w) ==
  LET r == worker[w].revision IN
  /\ worker[w].pc = "failed"
  /\ IF lease[r] = w /\ ~completed[r]
     THEN /\ lease' = [lease EXCEPT ![r] = Nobody]
          /\ wait' = [wait EXCEPT ![r] = Backoff]
     ELSE UNCHANGED <<lease, wait>>
  /\ worker' = [worker EXCEPT ![w] = Idle]
  /\ UNCHANGED <<created, current, attempts, completed, versions, rounds>>

(***************************************************************************)
(* localize.go Step: the provider's answer is valid, or it is a failure.   *)
(***************************************************************************)
Translate(w) ==
  /\ worker[w].pc = "translating"
  /\ \E pc \in {"translated", "failed"} : worker' = [worker EXCEPT ![w].pc = pc]
  /\ UNCHANGED <<created, current, jobs, versions, rounds>>

\* The worker is cancelled or restarted, or its statement fails.
Stop(w) ==
  /\ worker[w] # Idle
  /\ worker' = [worker EXCEPT ![w] = Idle]
  /\ UNCHANGED <<created, current, jobs, versions, rounds>>

Tick ==
  /\ \E r \in Revisions : wait[r] > 0
  /\ wait' = [r \in Revisions |-> IF wait[r] > 0 THEN wait[r] - 1 ELSE 0]
  /\ UNCHANGED <<created, current, attempts, lease, completed, versions, rounds, worker>>

\* docs/repository-sync.md:75-77: an operator requeues a revision (there, after
\* stopping the workers; here at any time).
Requeue(r) ==
  /\ completed[r] /\ rounds[r] < MaxRounds
  /\ completed' = [completed EXCEPT ![r] = FALSE]
  /\ attempts' = [attempts EXCEPT ![r] = 0]
  /\ wait' = [wait EXCEPT ![r] = 0]
  /\ lease' = [lease EXCEPT ![r] = Nobody]
  /\ rounds' = [rounds EXCEPT ![r] = @ + 1]
  /\ UNCHANGED <<created, current, versions, worker>>

Init ==
  /\ created = 0
  /\ current = [p \in Pages |-> 0]
  /\ attempts = [r \in Revisions |-> 0]
  /\ lease = [r \in Revisions |-> Nobody]
  /\ wait = [r \in Revisions |-> 0]
  /\ completed = [r \in Revisions |-> FALSE]
  /\ versions = [r \in Revisions |-> 0]
  /\ rounds = [r \in Revisions |-> 0]
  /\ worker = [w \in Workers |-> Idle]

Step(w) ==
  ClaimLocalization(w) \/ Translate(w) \/ CompleteLocalization(w) \/ FailLocalization(w)

Next ==
  \/ \E r \in Revisions : Import(r) \/ Requeue(r)
  \/ \E w \in Workers : Step(w) \/ Stop(w)
  \/ Tick

Spec == Init /\ [][Next]_vars

\* localize.go Run: a worker never stops for good, and time passes.
FairSpec == Spec /\ WF_vars(Tick) /\ \A w \in Workers : WF_vars(Step(w))

-----------------------------------------------------------------------------
WorkerStates ==
  [pc : {"idle", "translating", "translated", "failed"}, revision : 0 .. LastRevision]

TypeOK ==
  /\ created \in 0 .. LastRevision
  /\ current \in [Pages -> 0 .. LastRevision]
  /\ attempts \in [Revisions -> 0 .. MaxAttempts]
  /\ lease \in [Revisions -> Workers \union {Nobody}]
  /\ wait \in [Revisions -> Nat]
  /\ completed \in [Revisions -> BOOLEAN]
  /\ versions \in [Revisions -> Nat]
  /\ rounds \in [Revisions -> 0 .. MaxRounds]
  /\ worker \in [Workers -> WorkerStates]

\* A job that is done has exactly one translation more than before, however many
\* workers translated the revision after each other's leases had run out.
PublishedOnce ==
  \A r \in Revisions : versions[r] = rounds[r] + (IF completed[r] THEN 1 ELSE 0)

\* Every job ends: it is completed or it has been tried as often as it may be.  A
\* worker that vanishes with a lease does not keep the job for ever.
EveryJobEnds ==
  \A r \in Revisions :
    r <= created ~> (completed[r] \/ attempts[r] = MaxAttempts)
=============================================================================
