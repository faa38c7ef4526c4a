---------------------------- MODULE Development ----------------------------
(***************************************************************************)
(* The development queue: the scenario revisions handed to development,    *)
(* the claims of the Viki server on them, and the tool calls of the Hermes *)
(* turns that process them.                                                *)
(*                                                                         *)
(* A turn claims the oldest queued revision, gets a lease with the answer, *)
(* and sends that lease with its request to complete or to block the task. *)
(* The claims live in the memory of the server, the leases in the memory   *)
(* of the Hermes plugin, the rows in the database; any answer may come too *)
(* late, any call of the server may fail, and each process may restart.    *)
(***************************************************************************)
EXTENDS Integers, Sequences

CONSTANTS
  Revisions,   \* the scenario revisions that may be approved
  NoRevision,
  Sessions,    \* the Hermes sessions of the developer profile
  Tasks,       \* the Hermes tasks (cron runs) of a session
  Nobody,      \* the claimant of a revision nobody claimed
  Calls,       \* the tool calls that may be in flight at once
  MaxLease     \* bound: the leases the server may issue

Turns  == Sessions \X Tasks
Leases == 1 .. MaxLease        \* random and distinct in the code; 0: none

ASSUME DevelopmentAssumption ==
  /\ NoRevision \notin Revisions
  /\ Nobody \notin Turns
  /\ MaxLease \in Nat

VARIABLES
  row,        \* scenario_developments.status, "absent" without a row
  line,       \* the revisions in the order of approved_at
  claims,     \* the server's claims: bySession
  issued,     \* how many leases the server has made
  held,       \* the plugin's leases: _development_leases
  call,       \* the tool calls in flight
  sent,       \* how often the target was asked to implement each revision
  claimant    \* history: the turn whose call set the row to running

rowVars == <<row, line, claimant>>
vars    == <<rowVars, claims, issued, held, call, sent>>

NoClaim == [task |-> Nobody, lease |-> 0, revision |-> NoRevision, finishing |-> FALSE]
NoCall  == [pc |-> "free", turn |-> Nobody, lease |-> 0, revision |-> NoRevision,
            heard |-> FALSE]

Finishing == {"apply", "complete", "block"}   \* the call has the claim to finish
Answered  == {"claimed", "finished"}          \* the answer is on its way

InUse(k) == call[k].pc # "free"
Session(k) == call[k].turn[1]
At(k, pc) == InUse(k) /\ call[k].pc = pc
Goto(k, pc) == call' = [call EXCEPT ![k].pc = pc]

\* The answer is an error: neither side keeps anything of the call.
Drop(k) == call' = [call EXCEPT ![k] = NoCall]

(***************************************************************************)
(* development_claim.go: each function runs under the mutex of the store.  *)
(***************************************************************************)
\* Mutant: a claim is bound to the session only.
HoldsSession(k) == claims[Session(k)] # NoClaim

Holds(k) ==
  /\ call[k].lease # 0
  /\ claims[Session(k)].task = call[k].turn[2]
  /\ claims[Session(k)].lease = call[k].lease

\* Mutant: another call may be finishing under the same claim.
MayBeginAgain(k) == Holds(k) /\ claims[Session(k)].revision # NoRevision

MayBegin(k) ==
  /\ Holds(k)
  /\ claims[Session(k)].revision # NoRevision
  /\ ~claims[Session(k)].finishing

Release(k) ==
  claims' = IF Holds(k) THEN [claims EXCEPT ![Session(k)] = NoClaim] ELSE claims

\* Mutant: a call that failed keeps the claim in the finishing state.
RetryNever(k) == UNCHANGED claims

Retry(k) ==
  claims' = IF Holds(k) THEN [claims EXCEPT ![Session(k)].finishing = FALSE] ELSE claims

(***************************************************************************)
(* A turn calls a tool; the plugin adds the lease it has for the turn.     *)
(***************************************************************************)
CallClaim(k, t) ==
  /\ ~InUse(k)
  /\ call' = [call EXCEPT ![k] = [NoCall EXCEPT !.pc = "claim", !.turn = t, !.heard = TRUE]]
  /\ UNCHANGED <<rowVars, claims, issued, held, sent>>

CallFinish(k, t, tool) ==
  /\ ~InUse(k)
  /\ held[t] # 0
  /\ call' = [call EXCEPT ![k] = [pc |-> tool, turn |-> t, lease |-> held[t],
                                  revision |-> NoRevision, heard |-> TRUE]]
  /\ UNCHANGED <<rowVars, claims, issued, held, sent>>

\* urlopen gives up after 30 seconds; the server may go on with the call.
Timeout(k) ==
  /\ call[k].heard
  /\ call' = [call EXCEPT ![k].heard = FALSE]
  /\ UNCHANGED <<rowVars, claims, issued, held, sent>>

Answer(k) ==
  /\ call[k].pc \in Answered
  /\ held' = IF ~call[k].heard THEN held
             ELSE [held EXCEPT ![call[k].turn] =
                     IF call[k].pc = "claimed" THEN call[k].lease ELSE 0]
  /\ Drop(k)
  /\ UNCHANGED <<rowVars, claims, issued, sent>>

(***************************************************************************)
(* claim_next_scenario                                                     *)
(***************************************************************************)
\* Mutant: no random bytes, and no error for it.
EmptyLease == 0

NewLease == issued + 1

Reserve(k) ==
  /\ At(k, "claim")
  /\ issued < MaxLease
  /\ issued' = issued + 1
  /\ IF claims[Session(k)] = NoClaim
     THEN /\ claims' = [claims EXCEPT ![Session(k)] =
                          [NoClaim EXCEPT !.task = call[k].turn[2], !.lease = NewLease]]
          /\ call' = [call EXCEPT ![k].pc = "select", ![k].lease = NewLease]
     ELSE UNCHANGED claims /\ Drop(k)
  /\ UNCHANGED <<rowVars, held, sent>>

\* FOR UPDATE ... SKIP LOCKED: a row another call has locked is passed over.
\* Mutant: it is not, and the row is read without its lock.
ClaimableTwice(r) == row[r] = "queued"

Claimable(r) ==
  row[r] = "queued" /\ \A k \in Calls : ~(At(k, "locked") /\ call[k].revision = r)

SelectRow(k) ==
  /\ At(k, "select")
  /\ \E i \in DOMAIN line :
       /\ Claimable(line[i])
       /\ \A j \in 1 .. i - 1 : ~Claimable(line[j])
       /\ call' = [call EXCEPT ![k].pc = "locked", ![k].revision = line[i]]
  /\ UNCHANGED <<rowVars, claims, issued, held, sent>>

CommitRow(k) ==
  /\ At(k, "locked")
  /\ row' = [row EXCEPT ![call[k].revision] = "running"]
  /\ claimant' = [claimant EXCEPT ![call[k].revision] = call[k].turn]
  /\ Goto(k, "load")
  /\ UNCHANGED <<line, claims, issued, held, sent>>

\* No random bytes for a lease, nothing to claim, a failed statement, a failed
\* commit, a cancelled request; or, at "load", the commit was done and
\* loadRevision failed: then the row stays running.
ClaimFails(k) ==
  /\ call[k].pc \in {"claim", "select", "locked", "load"}
  /\ Release(k)
  /\ Drop(k)
  /\ UNCHANGED <<rowVars, issued, held, sent>>

Bind(k) ==
  /\ At(k, "load")
  /\ IF Holds(k) /\ claims[Session(k)].revision = NoRevision
     THEN /\ claims' = [claims EXCEPT ![Session(k)].revision = call[k].revision]
          /\ Goto(k, "claimed")
     ELSE Release(k) /\ Drop(k)
  /\ UNCHANGED <<rowVars, issued, held, sent>>

(***************************************************************************)
(* complete_scenario_development and block_scenario_development            *)
(***************************************************************************)
Begin(k) ==
  /\ call[k].pc \in {"askComplete", "askBlock"}
  /\ IF MayBegin(k)
     THEN /\ claims' = [claims EXCEPT ![Session(k)].finishing = TRUE]
          /\ call' = [call EXCEPT
               ![k].pc = IF @ = "askComplete" THEN "apply" ELSE "block",
               ![k].revision = claims[Session(k)].revision]
     ELSE UNCHANGED claims /\ Drop(k)
  /\ UNCHANGED <<rowVars, issued, held, sent>>

Apply(k) ==
  /\ At(k, "apply")
  /\ sent' = [sent EXCEPT ![call[k].revision] = @ + 1]
  /\ Goto(k, "complete")
  /\ UNCHANGED <<rowVars, claims, issued, held>>

\* The target refused, could not be reached, or did it and the answer was lost.
ApplyFails(k) ==
  /\ At(k, "apply")
  /\ sent' \in {sent, [sent EXCEPT ![call[k].revision] = @ + 1]}
  /\ Release(k)
  /\ Drop(k)
  /\ UNCHANGED <<rowVars, issued, held>>

\* UPDATE ... WHERE revision_id = r AND status = 'running'
\* Mutant: without the condition on the status.
FinishableAlways(r) == TRUE

Finishable(r) == row[r] = "running"

FinishRow(r, s) ==
  /\ row' = [row EXCEPT ![r] = s]
  /\ UNCHANGED <<line, claimant>>

Complete(k) ==
  /\ At(k, "complete")
  /\ Finishable(call[k].revision)
  /\ FinishRow(call[k].revision, "developed")
  /\ Release(k)
  /\ Goto(k, "finished")
  /\ UNCHANGED <<issued, held, sent>>

\* The row is not running any more, or the statement failed, before or after
\* it took effect.
CompleteFails(k) ==
  /\ At(k, "complete")
  /\ \/ UNCHANGED rowVars
     \/ Finishable(call[k].revision) /\ FinishRow(call[k].revision, "developed")
  /\ Release(k)
  /\ Drop(k)
  /\ UNCHANGED <<issued, held, sent>>

Block(k) ==
  /\ At(k, "block")
  /\ Finishable(call[k].revision)
  /\ FinishRow(call[k].revision, "blocked")
  /\ Release(k)
  /\ Goto(k, "finished")
  /\ UNCHANGED <<issued, held, sent>>

BlockFails(k) ==
  /\ At(k, "block")
  /\ \/ UNCHANGED rowVars
     \/ Finishable(call[k].revision) /\ FinishRow(call[k].revision, "blocked")
  /\ Retry(k)
  /\ Drop(k)
  /\ UNCHANGED <<issued, held, sent>>

(***************************************************************************)
(* The approval of a scenario revision, and restarts.                      *)
(***************************************************************************)
\* approved_at is when the approving transaction began, not when it committed.
Approve(r) ==
  /\ row[r] = "absent"
  /\ row' = [row EXCEPT ![r] = "queued"]
  /\ \E i \in 0 .. Len(line) :
       line' = SubSeq(line, 1, i) \o <<r>> \o SubSeq(line, i + 1, Len(line))
  /\ UNCHANGED <<claimant, claims, issued, held, call, sent>>

RestartServer ==
  /\ claims' = [s \in Sessions |-> NoClaim]
  /\ call' = [k \in Calls |-> NoCall]
  /\ UNCHANGED <<rowVars, issued, held, sent>>

RestartHermes ==
  /\ held' = [t \in Turns |-> 0]
  /\ call' = [k \in Calls |-> [call[k] EXCEPT !.heard = FALSE]]
  /\ UNCHANGED <<rowVars, claims, issued, sent>>

Init ==
  /\ row = [r \in Revisions |-> "absent"]
  /\ line = <<>>
  /\ claimant = [r \in Revisions |-> Nobody]
  /\ claims = [s \in Sessions |-> NoClaim]
  /\ issued = 0
  /\ held = [t \in Turns |-> 0]
  /\ call = [k \in Calls |-> NoCall]
  /\ sent = [r \in Revisions |-> 0]

\* What the server does for a call that has arrived.
Serve(k) ==
  \/ Reserve(k) \/ SelectRow(k) \/ CommitRow(k) \/ ClaimFails(k) \/ Bind(k)
  \/ Begin(k)
  \/ Apply(k) \/ ApplyFails(k) \/ Complete(k) \/ CompleteFails(k)
  \/ Block(k) \/ BlockFails(k)
  \/ Answer(k)

Next ==
  \/ \E r \in Revisions : Approve(r)
  \/ \E k \in Calls :
       \/ \E t \in Turns :
            \/ CallClaim(k, t)
            \/ CallFinish(k, t, "askComplete")
            \/ CallFinish(k, t, "askBlock")
       \/ Timeout(k)
       \/ Serve(k)
  \/ RestartServer
  \/ RestartHermes

Spec == Init /\ [][Next]_vars

-----------------------------------------------------------------------------
Pcs == {"free", "claim", "select", "locked", "load", "claimed", "askComplete", "askBlock",
        "apply", "complete", "block", "finished"}

Rows == {"absent", "queued", "running", "developed", "blocked"}

Claim == [task : Tasks, lease : Leases,
          revision : Revisions \union {NoRevision}, finishing : BOOLEAN]

CallStates ==
  [pc : Pcs, turn : Turns \union {Nobody}, lease : 0 .. MaxLease,
   revision : Revisions \union {NoRevision}, heard : BOOLEAN]

TypeOK ==
  /\ row \in [Revisions -> Rows]
  /\ line \in Seq(Revisions)
  /\ claimant \in [Revisions -> Turns \union {Nobody}]
  /\ claims \in [Sessions -> Claim \union {NoClaim}]
  /\ issued \in 0 .. MaxLease
  /\ held \in [Turns -> 0 .. MaxLease]
  /\ call \in [Calls -> CallStates]
  /\ sent \in [Revisions -> Nat]

\* A call that is completing or blocking a task has the session's claim for
\* itself until it is done: no other call finishes under the same claim, and
\* none replaces or releases it.
FinisherHasTheClaim ==
  \A k \in Calls : call[k].pc \in Finishing =>
    /\ Holds(k)
    /\ claims[Session(k)].finishing
    /\ claims[Session(k)].revision = call[k].revision
    /\ \A j \in Calls \ {k} :
         call[j].pc \in Finishing => call[j].revision # call[k].revision

\* README.md:80 "Developer claims are bound to the Hermes turn that acquired
\* them": a task is completed or blocked by a call of the turn that claimed it,
\* and a lease the plugin has for another turn, or an old one, opens nothing.
BoundToItsTurn ==
  \A k \in Calls : call[k].pc \in Finishing =>
    claimant[call[k].revision] = call[k].turn

\* However the calls of several turns interleave, and whichever answers are
\* lost: no revision is in two claims, and a queued one is in none and was
\* never sent to the target.
OneClaimPerTask ==
  /\ \A s, u \in Sessions :
       claims[s].revision = claims[u].revision /\ s # u => claims[s].revision = NoRevision
  /\ \A s \in Sessions, r \in Revisions :
       row[r] \in {"absent", "queued"} => claims[s].revision # r /\ sent[r] = 0

\* The target is asked to implement a revision at most once (a real target has
\* to bring its own idempotency, README.md:80), and a revision counts as
\* developed only after it was asked.
SentOnce ==
  \A r \in Revisions : sent[r] <= 1 /\ (row[r] = "developed" => sent[r] = 1)

\* A claim that is being finished has a call that is finishing it, whatever
\* failed: no request to complete or to block leaves the claim of its session
\* unusable. (The server may forget both when it restarts.)
FinishingIsServed ==
  \A s \in Sessions : claims[s].finishing =>
    \E k \in Calls : call[k].pc \in Finishing /\ Session(k) = s

Contract == INSTANCE DevelopmentTasks WITH owner <- claimant

\* The claims and leases implement the queue's contract: see DevelopmentTasks.
ImplementsContract == Contract!Spec
=============================================================================
