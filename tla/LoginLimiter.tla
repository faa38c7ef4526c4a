---------------------------- MODULE LoginLimiter ----------------------------
(***************************************************************************)
(* How often a login may fail: the requests of one address and e-mail      *)
(* share a key, the server remembers when attempts with a key failed, and  *)
(* a request is refused while Limit of them are more recent than Window.   *)
(*                                                                         *)
(* What is remembered is locked for one operation at a time, not for a     *)
(* request: while one verifies its password, others are allowed, fail and  *)
(* succeed.  It is kept in memory, so a restart is LoginInit again.        *)
(***************************************************************************)
EXTENDS Integers, FiniteSets

CONSTANTS
  Keys,         \* an address and an e-mail
  Requests,     \* what is in flight at a time, each handled concurrently
  Limit,        \* 5
  Window,       \* five minutes
  MaxTime,      \* bound: the clock
  MaxFailures   \* bound: the failures of a behaviour

\* Of the constants the theorems ask no more than this.
LoginAssumption ==
  /\ Keys # {} /\ IsFiniteSet(Requests)
  /\ Limit \in Nat \ {0} /\ Window \in Nat \ {0}
  /\ MaxTime \in Nat /\ MaxFailures \in Nat

VARIABLES
  now,
  limiter,  \* loginLimiter.attempts; a set, as the order is not used
  request,  \* what each request does, and for which key
  failed,   \* all failures of a key since its last success, for the properties
  made      \* how many failures there were, to tell those of one moment apart

loginVars == <<now, limiter, request, failed, made>>

Unused(k) == [pc |-> "idle", key |-> k]

Recent(k) == {a \in limiter[k] : a.time > now - Window}

Allow(r, k) ==
  /\ request[r].pc = "idle"
  /\ limiter' = [limiter EXCEPT ![k] = Recent(k)]
  /\ request' = [request EXCEPT ![r] =
       [pc |-> IF Cardinality(Recent(k)) < Limit THEN "verifying" ELSE "refused", key |-> k]]
  /\ UNCHANGED <<now, failed, made>>

\* The request has its answer, and a client may send the next.
Answered(r) == request' = [request EXCEPT ![r].pc = "idle"]

Refused(r) ==
  /\ request[r].pc = "refused"
  /\ Answered(r)
  /\ UNCHANGED <<now, limiter, failed, made>>

\* An unknown, inactive or wrong credential, or one that could not be read.
Fail(r) ==
  LET k == request[r].key
      a == [id |-> made + 1, time |-> now]
  IN
  /\ request[r].pc = "verifying"
  /\ made < MaxFailures
  /\ limiter' = [limiter EXCEPT ![k] = @ \union {a}]
  /\ failed' = [failed EXCEPT ![k] = @ \union {a}]
  /\ made' = made + 1
  /\ Answered(r)
  /\ UNCHANGED now

\* The password is right; the tokens are made and the session is stored, ...
CreateSession(r) ==
  /\ request[r].pc = "verifying"
  /\ request' = [request EXCEPT ![r].pc = "created"]
  /\ UNCHANGED <<now, limiter, failed, made>>

\* ... or one of the three fails, which counts neither for nor against the key.
SessionError(r) ==
  /\ request[r].pc = "verifying"
  /\ Answered(r)
  /\ UNCHANGED <<now, limiter, failed, made>>

Success(r) ==
  LET k == request[r].key IN
  /\ request[r].pc = "created"
  /\ limiter' = [limiter EXCEPT ![k] = {}]
  /\ failed' = [failed EXCEPT ![k] = {}]
  /\ Answered(r)
  /\ UNCHANGED <<now, made>>

TimePasses ==
  /\ now < MaxTime
  /\ now' = now + 1
  /\ UNCHANGED <<limiter, request, failed, made>>

LoginInit ==
  /\ now = 0
  /\ limiter = [k \in Keys |-> {}]
  /\ request \in [Requests -> {Unused(k) : k \in Keys}]
  /\ failed = [k \in Keys |-> {}]
  /\ made = 0

LoginNext ==
  \/ \E r \in Requests :
       \/ \E k \in Keys : Allow(r, k)
       \/ Refused(r) \/ Fail(r) \/ CreateSession(r) \/ SessionError(r) \/ Success(r)
  \/ TimePasses

LoginSpec == LoginInit /\ [][LoginNext]_loginVars

-----------------------------------------------------------------------------
RequestStates == [pc : {"idle", "refused", "verifying", "created"}, key : Keys]

\* What is remembered for a key are failures since its last success, none of them
\* later than now.
LoginTypeOK ==
  /\ now \in 0 .. MaxTime /\ made \in 0 .. MaxFailures
  /\ request \in [Requests -> RequestStates]
  /\ failed \in [Keys -> SUBSET [id : 1 .. made, time : 0 .. now]]
  /\ limiter \in [Keys -> SUBSET [id : 1 .. made, time : 0 .. now]]
  /\ \A k \in Keys : limiter[k] \subseteq failed[k]

LastFailures(k) == {a \in failed[k] : a.time + Window > now}

\* Within a window a key never has more failures than the limit and the requests
\* that were let through before the last of them was counted.
FailuresAreLimited ==
  \A k \in Keys : Cardinality(LastFailures(k)) <= Limit - 1 + Cardinality(Requests)

\* The memory a key takes is bounded however long its client goes on failing: every
\* failure was allowed first, and that drops what has left the window.
AttemptsAreBounded ==
  \A k \in Keys : Cardinality(limiter[k]) <= Limit - 1 + Cardinality(Requests)

\* The list is pruned again and again, a request before the one that counts, and
\* emptied by a success between; still a request is refused exactly when the limit
\* was reached by the failures of the window since the last success.
AllowedByFailures ==
  [][\A r \in Requests :
       request[r].pc = "idle" /\ request'[r].pc # "idle" =>
         (request'[r].pc = "refused" <=>
            Cardinality(LastFailures(request'[r].key)) >= Limit)]_loginVars
=============================================================================
