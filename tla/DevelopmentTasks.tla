------------------------- MODULE DevelopmentTasks -------------------------
(***************************************************************************)
(* What the development queue promises: a queued scenario revision is      *)
(* taken by one Hermes turn, only that turn has it implemented and         *)
(* finishes it, and what is finished stays so.  The target is asked to     *)
(* implement a revision at most once, and before it counts as developed.   *)
(* Development.tla implements this with a row lock and leased claims.      *)
(***************************************************************************)
CONSTANTS
  Revisions,   \* the scenario revisions that may be approved
  Turns,       \* the Hermes turns of the developer profile
  Nobody       \* the owner of a task no turn has taken, not in Turns

VARIABLES
  row,     \* scenario_developments.status, "absent" before the approval
  owner,   \* the turn that took each task
  sent     \* how often the implementation of each was sent to the target

vars == <<row, owner, sent>>

Init ==
  /\ row = [r \in Revisions |-> "absent"]
  /\ owner = [r \in Revisions |-> Nobody]
  /\ sent = [r \in Revisions |-> 0]

Queue(r) ==
  /\ row[r] = "absent"
  /\ row' = [row EXCEPT ![r] = "queued"]
  /\ UNCHANGED <<owner, sent>>

Take(r, t) ==
  /\ row[r] = "queued"
  /\ row' = [row EXCEPT ![r] = "running"]
  /\ owner' = [owner EXCEPT ![r] = t]
  /\ UNCHANGED sent

\* Sent to the target, also for a task blocked by a call whose answer was lost.
Send(r, t) ==
  /\ owner[r] = t
  /\ sent[r] = 0
  /\ sent' = [sent EXCEPT ![r] = 1]
  /\ UNCHANGED <<row, owner>>

Finish(r, t, s) ==
  /\ row[r] = "running" /\ owner[r] = t
  /\ s = "developed" => sent[r] = 1
  /\ row' = [row EXCEPT ![r] = s]
  /\ UNCHANGED <<owner, sent>>

Next ==
  \E r \in Revisions :
    \/ Queue(r)
    \/ \E t \in Turns :
         \/ Take(r, t)
         \/ Send(r, t)
         \/ \E s \in {"developed", "blocked"} : Finish(r, t, s)

Spec == Init /\ [][Next]_vars
=============================================================================
