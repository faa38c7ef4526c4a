---------------------------- MODULE RemoteCalls ----------------------------
(***************************************************************************)
(* What a call of Hermes promises its caller: Hermes runs it once at most, *)
(* an answer is the answer to this call, given after it was run, and a     *)
(* failure says nothing of whether it was or will be run.                  *)
(* HermesClient.tla implements this over connections that break.           *)
(***************************************************************************)
CONSTANT Calls

VARIABLES
  state,     \* of the caller: idle, open, answered or failed
  executed   \* the calls Hermes has run

vars == <<state, executed>>

Init ==
  /\ state = [k \in Calls |-> "idle"]
  /\ executed = {}

Start(k) ==
  /\ state[k] = "idle"
  /\ state' = [state EXCEPT ![k] = "open"]
  /\ UNCHANGED executed

\* Also after the caller has given up.
Execute(k) ==
  /\ state[k] \in {"open", "failed"}
  /\ k \notin executed
  /\ executed' = executed \union {k}
  /\ UNCHANGED state

Answer(k) ==
  /\ state[k] = "open"
  /\ k \in executed
  /\ state' = [state EXCEPT ![k] = "answered"]
  /\ UNCHANGED executed

Fail(k) ==
  /\ state[k] \in {"idle", "open"}
  /\ state' = [state EXCEPT ![k] = "failed"]
  /\ UNCHANGED executed

Next == \E k \in Calls : Start(k) \/ Execute(k) \/ Answer(k) \/ Fail(k)

Spec == Init /\ [][Next]_vars
=============================================================================
