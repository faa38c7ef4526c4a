------------------------- MODULE DevelopmentProofs -------------------------
(***************************************************************************)
(* For any revisions, sessions, tasks, calls and leases: the claims and    *)
(* leases of the development queue keep its tasks apart and implement      *)
(* DevelopmentTasks.                                                       *)
(***************************************************************************)
EXTENDS Development, TLAPS

Claiming == {"select", "locked", "load"}      \* the call has a claim without a task
Fresh    == Claiming \union {"claimed"}       \* nobody else knows the lease yet
Tasked   == {"locked", "load"} \union Finishing

CallsAreSane ==
  /\ \A k \in Calls : /\ InUse(k) => call[k].turn \in Turns
                      /\ call[k].pc = "claim" => call[k].lease = 0
                      /\ call[k].pc \in Tasked => call[k].revision \in Revisions
                      /\ call[k].lease <= issued
  /\ \A t \in Turns : held[t] <= issued

FreshIsSecret ==
  \A k \in Calls : call[k].pc \in Fresh =>
    /\ call[k].lease # 0
    /\ \A j \in Calls : call[j].lease = call[k].lease => j = k
    /\ \A t \in Turns : held[t] # call[k].lease

ClaimerHolds ==
  \A k \in Calls : call[k].pc \in Claiming =>
    /\ Holds(k)
    /\ claims[Session(k)].revision = NoRevision
    /\ ~claims[Session(k)].finishing

LockedIsQueued ==
  \A k \in Calls : call[k].pc = "locked" =>
    /\ row[call[k].revision] = "queued"
    /\ \A j \in Calls :
         call[j].pc = "locked" /\ call[j].revision = call[k].revision => j = k

LoadedIsTaken ==
  \A k \in Calls : call[k].pc = "load" =>
    /\ row[call[k].revision] \notin {"absent", "queued"}
    /\ claimant[call[k].revision] = call[k].turn
    /\ sent[call[k].revision] = 0

ClaimIsTaken ==
  \A s \in Sessions : claims[s].revision # NoRevision =>
    /\ row[claims[s].revision] \notin {"absent", "queued"}
    /\ claimant[claims[s].revision] = <<s, claims[s].task>>
    /\ ~claims[s].finishing => sent[claims[s].revision] = 0

FinisherHolds ==
  \A k \in Calls : call[k].pc \in Finishing =>
    /\ Holds(k)
    /\ claims[Session(k)].finishing
    /\ claims[Session(k)].revision = call[k].revision
    /\ \A j \in Calls : call[j].pc \in Finishing /\ Session(j) = Session(k) => j = k
    /\ sent[call[k].revision] = IF call[k].pc = "complete" THEN 1 ELSE 0

SentOfRows ==
  \A r \in Revisions : /\ sent[r] <= 1
                       /\ row[r] \in {"absent", "queued"} => sent[r] = 0
                       /\ row[r] = "developed" => sent[r] = 1

Safe ==
  /\ CallsAreSane /\ FreshIsSecret /\ ClaimerHolds /\ LockedIsQueued /\ LoadedIsTaken
  /\ ClaimIsTaken /\ FinisherHolds /\ SentOfRows /\ FinishingIsServed

Inv == TypeOK /\ Safe

(***************************************************************************)
(* What the parts of the invariant say together                            *)
(***************************************************************************)
Types ==
  /\ row \in [Revisions -> Rows]
  /\ claimant \in [Revisions -> Turns \union {Nobody}]
  /\ claims \in [Sessions -> Claim \union {NoClaim}]
  /\ issued \in Nat
  /\ held \in [Turns -> Nat]
  /\ call \in [Calls -> CallStates]
  /\ sent \in [Revisions -> Nat]

LEMMA TypesHold == TypeOK => Types
BY DevelopmentAssumption DEF TypeOK, Types

LEMMA TurnsOfCalls ==
  ASSUME Inv, NEW k \in Calls, InUse(k)
  PROVE  /\ Session(k) \in Sessions /\ call[k].turn[2] \in Tasks
         /\ call[k].turn = <<Session(k), call[k].turn[2]>>
BY DEF Inv, Safe, CallsAreSane, Turns, Session

\* A call that is claiming or finishing has the claim of its session, and it is
\* the only one that has.
LEMMA Alone ==
  ASSUME Inv, NEW j \in Calls, NEW k \in Calls,
         call[j].pc \in Claiming \union Finishing,
         call[k].pc \in Claiming \union Finishing,
         Session(j) = Session(k)
  PROVE  j = k
<1>1. Holds(j) /\ Holds(k)
  BY DEF Inv, Safe, ClaimerHolds, FinisherHolds
<1>2. call[j].lease = call[k].lease
  BY <1>1 DEF Holds
<1>3. CASE call[j].pc \in Claiming \/ call[k].pc \in Claiming
  BY <1>2, <1>3 DEF Inv, Safe, FreshIsSecret, Fresh
<1>4. CASE call[j].pc \in Finishing /\ call[k].pc \in Finishing
  BY <1>4 DEF Inv, Safe, FinisherHolds
<1>5. QED
  BY <1>3, <1>4

\* A revision is in one claim, and not while a call has just taken its row.
LEMMA OneClaim ==
  ASSUME Inv, NEW s \in Sessions, claims[s].revision # NoRevision
  PROVE  /\ claims[s] \in Claim /\ claims[s].revision \in Revisions
         /\ \A u \in Sessions : claims[u].revision = claims[s].revision => u = s
         /\ \A k \in Calls : call[k].pc \in {"locked", "load"} =>
              call[k].revision # claims[s].revision
<1>1. claims[s] \in Claim /\ claims[s].revision \in Revisions
  BY TypesHold DEF Inv, Types, Claim, NoClaim
<1>2. \A u \in Sessions : claims[u].revision = claims[s].revision => u = s
  BY DEF Inv, Safe, ClaimIsTaken
<1>3. ASSUME NEW k \in Calls, call[k].pc \in {"locked", "load"},
             call[k].revision = claims[s].revision
      PROVE  FALSE
  <2>1. call[k].pc = "load"
    BY <1>3 DEF Inv, Safe, LockedIsQueued, ClaimIsTaken
  <2>2. call[k].turn = <<s, claims[s].task>>
    BY <2>1, <1>3 DEF Inv, Safe, LoadedIsTaken, ClaimIsTaken
  <2>3. Session(k) = s
    BY <2>2 DEF Session
  <2>4. QED
    BY <2>1, <2>3 DEF Inv, Safe, ClaimerHolds, Claiming
<1>4. QED
  BY <1>1, <1>2, <1>3

(***************************************************************************)
(* Calls that come and answers that go                                     *)
(***************************************************************************)
SameCall(k) ==
  /\ call'[k].pc = call[k].pc /\ call'[k].turn = call[k].turn
  /\ call'[k].lease = call[k].lease /\ call'[k].revision = call[k].revision

NewCall(k) ==
  /\ call[k].pc = "free" \/ call[k].pc \in Answered
  /\ call'[k].pc \in {"free", "claim", "askComplete", "askBlock"}
  /\ call'[k].pc # "free" => call'[k].turn \in Turns
  /\ call'[k].pc \in {"free", "claim"} => call'[k].lease = 0
  /\ call'[k].lease = 0 \/ \E t \in Turns : call'[k].lease = held[t]

LEMMA CallerStep ==
  ASSUME Inv,
         UNCHANGED <<row, claimant, claims, issued, sent>>,
         \A k \in Calls : SameCall(k) \/ NewCall(k),
         \A t \in Turns : \/ held'[t] \in {0, held[t]}
                          \/ \E k \in Calls : call[k].pc = "claimed" /\ call'[k].pc = "free"
                                              /\ held'[t] = call[k].lease
  PROVE  Safe'
<1>1. Types
  BY TypesHold DEF Inv
<1>2. \A k \in Calls : call'[k].pc \in Fresh \union Tasked => SameCall(k)
  BY DEF NewCall, Fresh, Claiming, Tasked, Finishing
<1>3. \A k \in Calls : call[k].pc \in Claiming \union Finishing => SameCall(k)
  BY DEF NewCall, Fresh, Claiming, Finishing, Answered
<1>4. \A k \in Calls : call[k].lease \in Nat
  BY DevelopmentAssumption, <1>1 DEF Types, CallStates
<1>5. CallsAreSane'
  <2>1. \A k \in Calls : InUse(k)' => call'[k].turn \in Turns
    BY DEF Inv, Safe, CallsAreSane, InUse, SameCall, NewCall
  <2>2. \A k \in Calls : /\ call'[k].pc = "claim" => call'[k].lease = 0
                         /\ call'[k].pc \in Tasked => call'[k].revision \in Revisions
    BY <1>2 DEF Inv, Safe, CallsAreSane, SameCall, NewCall
  <2>3. \A k \in Calls : call'[k].lease <= issued
    BY <1>1 DEF Inv, Safe, CallsAreSane, SameCall, NewCall, Types
  <2>4. \A t \in Turns : held'[t] <= issued
    BY <1>1 DEF Inv, Safe, CallsAreSane, Types
  <2>5. QED
    BY <2>1, <2>2, <2>3, <2>4 DEF CallsAreSane
<1>6. FreshIsSecret'
  <2>1. SUFFICES ASSUME NEW k \in Calls, call'[k].pc \in Fresh
                 PROVE  /\ call'[k].lease # 0
                        /\ \A j \in Calls : call'[j].lease = call'[k].lease => j = k
                        /\ \A t \in Turns : held'[t] # call'[k].lease
    BY DEF FreshIsSecret
  <2>2. SameCall(k) /\ call[k].pc \in Fresh
    BY <1>2, <2>1 DEF SameCall
  <2>3. call'[k].lease = call[k].lease /\ call[k].lease # 0
    BY <2>2 DEF Inv, Safe, FreshIsSecret, SameCall
  <2>4. \A j \in Calls : call'[j].lease = call'[k].lease => j = k
    BY <2>2, <2>3 DEF Inv, Safe, FreshIsSecret, SameCall, NewCall
  <2>5. \A j \in Calls : call[j].pc = "claimed" /\ call'[j].pc = "free" => j # k
    BY <2>1 DEF Fresh, Claiming
  <2>6. \A t \in Turns : held'[t] # call'[k].lease
    BY <2>2, <2>3, <2>5 DEF Inv, Safe, FreshIsSecret
  <2>7. QED
    BY <2>3, <2>4, <2>6
<1>7. ClaimerHolds'
  BY <1>2 DEF Inv, Safe, ClaimerHolds, SameCall, Fresh, Holds, Session
<1>8. LockedIsQueued' /\ LoadedIsTaken'
  BY <1>2 DEF Inv, Safe, LockedIsQueued, LoadedIsTaken, SameCall, Tasked
<1>9. ClaimIsTaken' /\ SentOfRows'
  BY DEF Inv, Safe, ClaimIsTaken, SentOfRows
<1>10. FinisherHolds'
  BY <1>2 DEF Inv, Safe, FinisherHolds, SameCall, Tasked, Holds, Session
<1>11. FinishingIsServed'
  BY <1>3 DEF Inv, Safe, FinishingIsServed, SameCall, Session
<1>12. QED
  BY <1>5, <1>6, <1>7, <1>8, <1>9, <1>10, <1>11 DEF Safe

(***************************************************************************)
(* A call is over, whether it failed or has its answer under way: the      *)
(* claim it had, if it had one, is released or open again.                 *)
(***************************************************************************)
Over(k) ==
  /\ call'[k].pc \in {"free", "finished"}
  /\ call'[k].lease \in {0, call[k].lease}
  /\ call'[k].pc # "free" => call'[k].turn = call[k].turn
  /\ \A j \in Calls : j # k => call'[j] = call[j]

ClaimOver(k) ==
  \/ claims' = claims /\ call[k].pc \notin Finishing
  \/ Release(k) /\ call[k].pc \in Claiming \union Finishing \union {"claim"}
  \/ Retry(k) /\ call[k].pc = "block"

RowOver(k) ==
  \/ row' = row
  \/ /\ call[k].pc \in {"complete", "block"} /\ Finishable(call[k].revision)
     /\ row' = [row EXCEPT ![call[k].revision] =
                  IF call[k].pc = "complete" THEN "developed" ELSE "blocked"]

SentOver(k) ==
  \/ sent' = sent
  \/ call[k].pc = "apply" /\ sent' = [sent EXCEPT ![call[k].revision] = @ + 1]

LEMMA OverStep ==
  ASSUME Inv, NEW k \in Calls, InUse(k),
         Over(k), ClaimOver(k), RowOver(k), SentOver(k),
         issued' \in {issued, issued + 1},
         UNCHANGED <<claimant, held>>
  PROVE  Safe'
<1>1. Types
  BY TypesHold DEF Inv
<1>2. call[k] \in CallStates /\ call[k].lease \in Nat
  BY <1>1, DevelopmentAssumption DEF Types, CallStates
<1>3. Session(k) \in Sessions
  BY TurnsOfCalls
<1>4. /\ \A s \in Sessions : s # Session(k) => claims'[s] = claims[s]
      /\ claims' # claims => Holds(k)
      /\ claims' # claims =>
           \/ claims'[Session(k)] = NoClaim
           \/ /\ claims'[Session(k)].revision = claims[Session(k)].revision
              /\ claims'[Session(k)].task = claims[Session(k)].task
              /\ claims'[Session(k)].finishing = FALSE
              /\ call[k].pc = "block"
  <2>1. CASE claims' = claims
    BY <2>1
  <2>2. CASE Release(k)
    BY <1>1, <1>3, <2>2 DEF Release, Types
  <2>3. CASE Retry(k) /\ call[k].pc = "block"
    <3>1. CASE ~Holds(k)
      BY <2>3, <3>1 DEF Retry
    <3>2. CASE Holds(k)
      <4>1. claims[Session(k)] \in Claim
        BY <1>1, <1>3, <3>2 DEF Types, Holds, NoClaim
      <4>2. claims' = [claims EXCEPT ![Session(k)].finishing = FALSE]
        BY <2>3, <3>2 DEF Retry
      <4>3. QED
        BY <1>1, <1>3, <2>3, <3>2, <4>1, <4>2 DEF Types, Claim
    <3>3. QED
      BY <3>1, <3>2
  <2>4. QED
    BY <2>1, <2>2, <2>3 DEF ClaimOver
<1>5. call[k].pc \in Finishing => claims' # claims /\ ~claims'[Session(k)].finishing
  <2>1. SUFFICES ASSUME call[k].pc \in Finishing
                 PROVE  claims' # claims /\ ~claims'[Session(k)].finishing
    OBVIOUS
  <2>2. Holds(k) /\ claims[Session(k)].finishing
    BY <2>1 DEF Inv, Safe, FinisherHolds
  <2>3. ~claims'[Session(k)].finishing
    BY <1>1, <1>3, <2>1, <2>2 DEF ClaimOver, Release, Retry, Types, Claim, NoClaim, Holds
  <2>4. QED
    BY <2>2, <2>3
<1>6. ASSUME NEW j \in Calls, j # k, call[j].pc \in Claiming \union Finishing
      PROVE  /\ Session(j) \in Sessions
             /\ claims'[Session(j)] = claims[Session(j)]
  <2>1. Session(j) \in Sessions
    BY <1>6, TurnsOfCalls DEF InUse, Claiming, Finishing
  <2>2. CASE Session(j) # Session(k)
    BY <1>4, <2>1, <2>2
  <2>3. CASE Session(j) = Session(k)
    <3>1. call[k].pc \notin Claiming \union Finishing
      BY <1>6, <2>3, Alone
    <3>2. claims' = claims \/ call[k].pc = "claim"
      BY <3>1 DEF ClaimOver, Finishing
    <3>3. call[k].pc = "claim" => ~Holds(k)
      BY DEF Inv, Safe, CallsAreSane, Holds
    <3>4. claims' = claims
      BY <1>4, <3>2, <3>3
    <3>5. QED
      BY <2>1, <3>4
  <2>4. QED
    BY <2>1, <2>2, <2>3
<1>7. /\ \A r \in Revisions : \/ row'[r] = row[r]
                             \/ /\ call[k].pc \in {"complete", "block"} /\ r = call[k].revision
                                /\ row[r] = "running"
                                /\ row'[r] = IF call[k].pc = "complete" THEN "developed" ELSE "blocked"
      /\ \A r \in Revisions : \/ sent'[r] = sent[r]
                             \/ /\ call[k].pc = "apply" /\ r = call[k].revision
                                /\ sent'[r] = sent[r] + 1
  BY <1>1 DEF RowOver, SentOver, Types, Finishable
<1>8. call[k].pc \in Finishing =>
        /\ call[k].revision \in Revisions
        /\ claims[Session(k)].revision = call[k].revision
        /\ call[k].revision # NoRevision
        /\ sent[call[k].revision] = IF call[k].pc = "complete" THEN 1 ELSE 0
  BY DevelopmentAssumption DEF Inv, Safe, FinisherHolds, CallsAreSane, Tasked
<1>9. \A j \in Calls : j # k => call'[j] = call[j]
  BY DEF Over
<1>10. call'[k].pc \notin Fresh \union Tasked \union Claiming \union Finishing \union {"locked", "load"}
  BY DEF Over, Fresh, Claiming, Tasked, Finishing
<1>11. CallsAreSane'
  <2>1. \A j \in Calls : InUse(j)' => call'[j].turn \in Turns
    BY <1>9 DEF Inv, Safe, CallsAreSane, InUse, Over
  <2>2. \A j \in Calls : /\ call'[j].pc = "claim" => call'[j].lease = 0
                         /\ call'[j].pc \in Tasked => call'[j].revision \in Revisions
    BY <1>9, <1>10 DEF Inv, Safe, CallsAreSane, Over
  <2>3. \A j \in Calls : call[j].lease \in Nat /\ call'[j].lease <= issued'
    BY <1>1, <1>2, <1>9, DevelopmentAssumption DEF Inv, Safe, CallsAreSane, Over, Types, CallStates
  <2>4. \A t \in Turns : held'[t] <= issued'
    BY <1>1 DEF Inv, Safe, CallsAreSane, Types
  <2>5. QED
    BY <2>1, <2>2, <2>3, <2>4 DEF CallsAreSane
<1>12. FreshIsSecret'
  BY <1>9, <1>10 DEF Inv, Safe, FreshIsSecret, Over
<1>13. ClaimerHolds'
  BY <1>6, <1>9, <1>10 DEF Inv, Safe, ClaimerHolds, Holds, Session
<1>14. LockedIsQueued'
  <2>1. \A j \in Calls : call'[j].pc = "locked" => j # k
    BY <1>10
  <2>2. \A j \in Calls : call[j].pc = "locked" => call[j].revision \in Revisions
    BY DEF Inv, Safe, CallsAreSane, Tasked
  <2>3. QED
    BY <1>7, <1>9, <2>1, <2>2 DEF Inv, Safe, LockedIsQueued
<1>15. LoadedIsTaken'
  <2>1. SUFFICES ASSUME NEW j \in Calls, call'[j].pc = "load"
                 PROVE  /\ row'[call[j].revision] \notin {"absent", "queued"}
                        /\ claimant[call[j].revision] = call[j].turn
                        /\ sent'[call[j].revision] = 0
    BY <1>9, <1>10 DEF LoadedIsTaken
  <2>2. call[j].pc = "load" /\ call[j].revision \in Revisions
    BY <1>9, <1>10, <2>1 DEF Inv, Safe, CallsAreSane, Tasked
  <2>3. call[k].pc \in Finishing => call[k].revision # call[j].revision
    BY <1>3, <1>8, <2>2, OneClaim
  <2>4. QED
    BY <1>7, <2>2, <2>3 DEF Inv, Safe, LoadedIsTaken, Finishing
<1>16. ClaimIsTaken'
  <2>1. SUFFICES ASSUME NEW s \in Sessions, claims'[s].revision # NoRevision
                 PROVE  /\ row'[claims'[s].revision] \notin {"absent", "queued"}
                        /\ claimant[claims'[s].revision] = <<s, claims'[s].task>>
                        /\ ~claims'[s].finishing => sent'[claims'[s].revision] = 0
    BY DEF ClaimIsTaken
  <2>2. /\ claims'[s].revision = claims[s].revision /\ claims'[s].task = claims[s].task
        /\ claims'[s] = claims[s] \/ (s = Session(k) /\ call[k].pc = "block")
    BY <1>4, <2>1 DEF NoClaim
  <2>3. /\ claims[s].revision \in Revisions
        /\ row[claims[s].revision] \notin {"absent", "queued"}
        /\ claimant[claims[s].revision] = <<s, claims[s].task>>
        /\ ~claims[s].finishing => sent[claims[s].revision] = 0
    BY <2>1, <2>2, OneClaim DEF Inv, Safe, ClaimIsTaken
  <2>4. row'[claims'[s].revision] \notin {"absent", "queued"}
    BY <1>7, <2>2, <2>3
  <2>5. ~claims'[s].finishing => sent'[claims'[s].revision] = 0
    <3>1. CASE call[k].pc = "block" /\ s = Session(k)
      BY <1>7, <1>8, <2>2, <2>3, <3>1 DEF Finishing
    <3>2. CASE claims'[s] = claims[s] /\ s # Session(k)
      BY <1>3, <1>7, <1>8, <2>1, <2>2, <2>3, <3>2, OneClaim DEF Finishing
    <3>3. CASE claims'[s] = claims[s] /\ s = Session(k)
      <4>1. call[k].pc \notin Finishing
        BY <1>4, <1>5, <1>8, <2>1, <3>3 DEF NoClaim, Inv, Safe, FinisherHolds
      <4>2. QED
        BY <1>7, <2>3, <3>3, <4>1 DEF Finishing
    <3>4. QED
      BY <2>2, <3>1, <3>2, <3>3
  <2>6. QED
    BY <2>2, <2>3, <2>4, <2>5
<1>17. FinisherHolds'
  <2>1. SUFFICES ASSUME NEW j \in Calls, call'[j].pc \in Finishing
                 PROVE  /\ Holds(j)'
                        /\ claims'[Session(j)'].finishing
                        /\ claims'[Session(j)'].revision = call'[j].revision
                        /\ \A i \in Calls : call'[i].pc \in Finishing /\ Session(i)' = Session(j)' => i = j
                        /\ sent'[call'[j].revision] = IF call'[j].pc = "complete" THEN 1 ELSE 0
    BY DEF FinisherHolds
  <2>2. j # k /\ call'[j] = call[j] /\ Session(j)' = Session(j)
    BY <1>9, <1>10, <2>1 DEF Session
  <2>3. claims'[Session(j)] = claims[Session(j)] /\ Session(j) \in Sessions
    BY <1>6, <2>1, <2>2
  <2>4. /\ Holds(j) /\ claims[Session(j)].finishing
        /\ claims[Session(j)].revision = call[j].revision
        /\ call[j].revision \in Revisions /\ call[j].revision # NoRevision
        /\ sent[call[j].revision] = IF call[j].pc = "complete" THEN 1 ELSE 0
    BY <2>1, <2>2, DevelopmentAssumption DEF Inv, Safe, FinisherHolds, CallsAreSane, Tasked
  <2>5. Holds(j)'
    BY <2>2, <2>3, <2>4 DEF Holds, Session
  <2>6. \A i \in Calls : call'[i].pc \in Finishing /\ Session(i)' = Session(j)' => i = j
    BY <1>9, <1>10, <2>1, <2>2, Alone DEF Session
  <2>7. call[k].pc \in Finishing => call[k].revision # call[j].revision
    BY <1>3, <1>8, <2>1, <2>2, <2>3, <2>4, OneClaim, Alone
  <2>8. sent'[call[j].revision] = sent[call[j].revision]
    BY <1>7, <2>4, <2>7 DEF Finishing
  <2>9. QED
    BY <2>2, <2>3, <2>4, <2>5, <2>6, <2>8
<1>18. SentOfRows'
  <2>1. SUFFICES ASSUME NEW r \in Revisions
                 PROVE  /\ sent'[r] <= 1
                        /\ row'[r] \in {"absent", "queued"} => sent'[r] = 0
                        /\ row'[r] = "developed" => sent'[r] = 1
    BY DEF SentOfRows
  <2>2. /\ sent[r] \in Nat /\ sent[r] <= 1
        /\ row[r] \in {"absent", "queued"} => sent[r] = 0
        /\ row[r] = "developed" => sent[r] = 1
    BY <1>1 DEF Inv, Safe, SentOfRows, Types
  <2>3. CASE call[k].pc = "apply" /\ r = call[k].revision
    <3>1. sent[r] = 0 /\ row[r] \notin {"absent", "queued"}
      BY <1>3, <1>8, <2>3 DEF Inv, Safe, ClaimIsTaken, Finishing
    <3>2. row'[r] = row[r]
      BY <1>7, <2>3
    <3>3. QED
      BY <1>7, <2>2, <2>3, <3>1, <3>2
  <2>4. CASE ~(call[k].pc = "apply" /\ r = call[k].revision)
    <3>1. sent'[r] = sent[r]
      BY <1>7, <2>4
    <3>2. row'[r] = "developed" /\ row[r] # "developed" => sent[r] = 1
      BY <1>7, <1>8 DEF Finishing
    <3>3. QED
      BY <1>7, <2>2, <3>1, <3>2
  <2>5. QED
    BY <2>3, <2>4
<1>19. FinishingIsServed'
  <2>1. SUFFICES ASSUME NEW s \in Sessions, claims'[s].finishing
                 PROVE  \E j \in Calls : call'[j].pc \in Finishing /\ Session(j)' = s
    BY DEF FinishingIsServed
  <2>2. claims'[s] = claims[s]
    BY <1>4, <2>1 DEF NoClaim
  <2>3. PICK j \in Calls : call[j].pc \in Finishing /\ Session(j) = s
    BY <2>1, <2>2 DEF Inv, Safe, FinishingIsServed
  <2>4. j # k
    BY <1>5, <2>1, <2>3
  <2>5. QED
    BY <1>9, <2>3, <2>4 DEF Session
<1>20. QED
  BY <1>11, <1>12, <1>13, <1>14, <1>15, <1>16, <1>17, <1>18, <1>19 DEF Safe

(***************************************************************************)
(* A call goes on, with its turn and its lease as they were, and nothing   *)
(* of other calls changes.                                                 *)
(***************************************************************************)
Goes(k) ==
  /\ call'[k].turn = call[k].turn /\ call'[k].lease = call[k].lease
  /\ \A j \in Calls : j # k => call'[j] = call[j]

LEMMA GoesSane ==
  ASSUME Inv, NEW k \in Calls, InUse(k), Goes(k), UNCHANGED <<issued, held>>,
         call'[k].pc # "claim",
         call'[k].pc \in Tasked => call'[k].revision \in Revisions,
         call'[k].pc \in Fresh => call[k].pc \in Fresh
  PROVE  /\ CallsAreSane' /\ FreshIsSecret'
         /\ \A j \in Calls : Session(j)' = Session(j)
         /\ claims' = claims => \A j \in Calls : Holds(j)' = Holds(j)
<1>1. CallsAreSane'
  BY DEF Inv, Safe, CallsAreSane, InUse, Goes
<1>2. FreshIsSecret'
  BY DEF Inv, Safe, FreshIsSecret, Goes
<1>3. \A j \in Calls : Session(j)' = Session(j)
  BY DEF Session, Goes
<1>4. claims' = claims => \A j \in Calls : Holds(j)' = Holds(j)
  BY DEF Holds, Session, Goes
<1>5. QED
  BY <1>1, <1>2, <1>3, <1>4

LEMMA SelectRowStep == ASSUME Inv, NEW k \in Calls, SelectRow(k) PROVE Safe'
<1>1. PICK r \in Revisions : Claimable(r) /\ call' = [call EXCEPT ![k].pc = "locked", ![k].revision = r]
  <2>1. \A i \in DOMAIN line : line[i] \in Revisions
    BY DEF Inv, TypeOK
  <2>2. QED
    BY <2>1 DEF SelectRow
<1>2. /\ call[k].pc = "select" /\ InUse(k)
      /\ UNCHANGED <<row, claimant, claims, issued, held, sent>>
  BY DEF SelectRow, At, rowVars
<1>3. Goes(k) /\ call'[k].pc = "locked" /\ call'[k].revision = r
  BY <1>1, TypesHold DEF Inv, Types, CallStates, Goes
<1>4. /\ CallsAreSane' /\ FreshIsSecret'
      /\ \A j \in Calls : Session(j)' = Session(j) /\ Holds(j)' = Holds(j)
  BY <1>2, <1>3, GoesSane DEF Fresh, Claiming
<1>5. ClaimerHolds'
  BY <1>2, <1>3, <1>4 DEF Inv, Safe, ClaimerHolds, Goes, Claiming
<1>6. LockedIsQueued'
  <2>1. row[r] = "queued" /\ \A j \in Calls : call[j].pc = "locked" => call[j].revision # r
    BY <1>1 DEF Claimable, At, InUse
  <2>2. \A j \in Calls : j # k => call'[j] = call[j]
    BY <1>3 DEF Goes
  <2>3. \A j \in Calls : call'[j].pc = "locked" => row[call'[j].revision] = "queued"
    BY <1>3, <2>1, <2>2 DEF Inv, Safe, LockedIsQueued
  <2>4. \A i, j \in Calls : /\ call'[i].pc = "locked" /\ call'[j].pc = "locked"
                            /\ call'[i].revision = call'[j].revision
                            => i = j
    BY <1>2, <1>3, <2>1, <2>2 DEF Inv, Safe, LockedIsQueued
  <2>5. QED
    BY <1>2, <2>3, <2>4 DEF LockedIsQueued
<1>7. LoadedIsTaken'
  BY <1>2, <1>3 DEF Inv, Safe, LoadedIsTaken, Goes
<1>8. ClaimIsTaken' /\ SentOfRows'
  BY <1>2 DEF Inv, Safe, ClaimIsTaken, SentOfRows
<1>9. FinisherHolds' /\ FinishingIsServed'
  BY <1>2, <1>3, <1>4 DEF Inv, Safe, FinisherHolds, FinishingIsServed, Goes, Finishing
<1>10. QED
  BY <1>4, <1>5, <1>6, <1>7, <1>8, <1>9 DEF Safe

LEMMA CommitRowStep == ASSUME Inv, NEW k \in Calls, CommitRow(k) PROVE Safe'
<1> DEFINE r == call[k].revision
<1>1. /\ call[k].pc = "locked" /\ InUse(k) /\ r \in Revisions
      /\ row[r] = "queued" /\ sent[r] = 0
      /\ UNCHANGED <<claims, issued, held, sent>>
  BY DEF CommitRow, At, Inv, Safe, CallsAreSane, Tasked, LockedIsQueued, SentOfRows
<1>2. /\ row'[r] = "running" /\ claimant'[r] = call[k].turn
      /\ \A q \in Revisions : q # r => row'[q] = row[q] /\ claimant'[q] = claimant[q]
  BY <1>1, TypesHold DEF CommitRow, Inv, Types
<1>3. Goes(k) /\ call'[k].pc = "load" /\ call'[k].revision = r
  BY TypesHold DEF CommitRow, Goto, Inv, Types, CallStates, Goes
<1> HIDE DEF r
<1>4. /\ CallsAreSane' /\ FreshIsSecret'
      /\ \A j \in Calls : Session(j)' = Session(j) /\ Holds(j)' = Holds(j)
  BY <1>1, <1>3, GoesSane DEF Fresh, Claiming
<1>5. ClaimerHolds'
  BY <1>1, <1>3, <1>4 DEF Inv, Safe, ClaimerHolds, Goes, Claiming
<1>6. \A j \in Calls : call[j].pc = "locked" /\ j # k => call[j].revision # r
  BY <1>1 DEF Inv, Safe, LockedIsQueued, r
<1>7. \A j \in Calls : call[j].pc \in {"locked", "load"} => call[j].revision \in Revisions
  BY DEF Inv, Safe, CallsAreSane, Tasked
<1>8. LockedIsQueued'
  <2>1. \A j \in Calls : call'[j].pc = "locked" => j # k /\ call'[j] = call[j]
    BY <1>3 DEF Goes
  <2>2. \A j \in Calls : call'[j].pc = "locked" => row'[call'[j].revision] = row[call[j].revision]
    BY <1>2, <1>6, <1>7, <2>1
  <2>3. QED
    BY <2>1, <2>2 DEF Inv, Safe, LockedIsQueued
<1>9. LoadedIsTaken'
  BY <1>1, <1>2, <1>3, <1>7 DEF Inv, Safe, LoadedIsTaken, Goes
<1>10. \A s \in Sessions : claims[s].revision # NoRevision =>
         claims[s].revision \in Revisions /\ claims[s].revision # r
  BY <1>1, OneClaim DEF r
<1>11. ClaimIsTaken'
  BY <1>1, <1>2, <1>10 DEF Inv, Safe, ClaimIsTaken
<1>12. FinisherHolds' /\ FinishingIsServed'
  BY <1>1, <1>3, <1>4 DEF Inv, Safe, FinisherHolds, FinishingIsServed, Goes, Finishing
<1>13. SentOfRows'
  BY <1>1, <1>2 DEF Inv, Safe, SentOfRows
<1>14. QED
  BY <1>4, <1>5, <1>8, <1>9, <1>11, <1>12, <1>13 DEF Safe

LEMMA ApplyStep == ASSUME Inv, NEW k \in Calls, Apply(k) PROVE Safe'
<1> DEFINE r == call[k].revision
<1>1. /\ call[k].pc = "apply" /\ InUse(k) /\ r \in Revisions
      /\ UNCHANGED <<row, claimant, claims, issued, held>>
  BY DEF Apply, At, Inv, Safe, CallsAreSane, Tasked, Finishing, rowVars
<1>2. /\ Holds(k) /\ claims[Session(k)].finishing
      /\ claims[Session(k)].revision = r /\ sent[r] = 0
      /\ Session(k) \in Sessions /\ r # NoRevision
  BY <1>1, TurnsOfCalls, DevelopmentAssumption DEF Inv, Safe, FinisherHolds, Finishing
<1>3. row[r] \notin {"absent", "queued"} /\ row[r] # "developed"
  BY <1>1, <1>2 DEF Inv, Safe, ClaimIsTaken, SentOfRows
<1>4. sent'[r] = 1 /\ \A q \in Revisions : q # r => sent'[q] = sent[q]
  BY <1>1, <1>2, TypesHold DEF Apply, Inv, Types
<1>5. Goes(k) /\ call'[k].pc = "complete" /\ call'[k].revision = r
  BY TypesHold DEF Apply, Goto, Inv, Types, CallStates, Goes
<1> HIDE DEF r
<1>6. /\ CallsAreSane' /\ FreshIsSecret'
      /\ \A j \in Calls : Session(j)' = Session(j) /\ Holds(j)' = Holds(j)
  BY <1>1, <1>5, GoesSane DEF Fresh, Claiming
<1>7. ClaimerHolds' /\ LockedIsQueued'
  BY <1>1, <1>5, <1>6 DEF Inv, Safe, ClaimerHolds, LockedIsQueued, Goes, Claiming
<1>8. LoadedIsTaken'
  <2>1. \A j \in Calls : call[j].pc = "load" => call[j].revision \in Revisions /\ call[j].revision # r
    BY <1>2, OneClaim DEF Inv, Safe, CallsAreSane, Tasked
  <2>2. QED
    BY <1>1, <1>4, <1>5, <2>1 DEF Inv, Safe, LoadedIsTaken, Goes
<1>9. ClaimIsTaken'
  <2>1. \A s \in Sessions : claims[s].revision # NoRevision =>
          claims[s].revision \in Revisions /\ (claims[s].revision = r => s = Session(k))
    BY <1>2, OneClaim
  <2>2. QED
    BY <1>1, <1>2, <1>4, <2>1 DEF Inv, Safe, ClaimIsTaken
<1>10. FinisherHolds'
  <2>1. \A j \in Calls : call[j].pc \in Finishing /\ j # k =>
          /\ call[j].revision \in Revisions /\ call[j].revision # r
    <3>1. SUFFICES ASSUME NEW j \in Calls, call[j].pc \in Finishing, j # k
                   PROVE  call[j].revision \in Revisions /\ call[j].revision # r
      OBVIOUS
    <3>2. InUse(j) /\ call[j].revision \in Revisions /\ call[j].revision = claims[Session(j)].revision
      BY <3>1 DEF Inv, Safe, CallsAreSane, FinisherHolds, Tasked, InUse, Finishing
    <3>3. Session(j) \in Sessions /\ Session(j) # Session(k)
      BY <1>1, <3>1, <3>2, Alone, TurnsOfCalls DEF Finishing
    <3>4. QED
      BY <1>2, <3>2, <3>3, OneClaim
  <2>2. \A j \in Calls : call'[j].pc \in Finishing => call[j].pc \in Finishing
    BY <1>1, <1>5 DEF Goes, Finishing
  <2>3. ASSUME NEW i \in Calls, NEW j \in Calls, call'[i].pc \in Finishing,
               call'[j].pc \in Finishing, Session(i)' = Session(j)'
        PROVE  i = j
    <3>1. Session(i) = Session(j)
      BY <1>6, <2>3
    <3>2. QED
      BY <2>2, <2>3, <3>1, Alone
  <2>4. \A j \in Calls : call'[j].pc \in Finishing /\ j # k =>
          /\ Holds(j) /\ claims[Session(j)].finishing
          /\ claims[Session(j)].revision = call'[j].revision
          /\ sent'[call'[j].revision] = IF call'[j].pc = "complete" THEN 1 ELSE 0
    BY <1>4, <1>5, <2>1 DEF Inv, Safe, FinisherHolds, Goes
  <2>5. \A j \in Calls : call'[j].pc \in Finishing =>
          /\ Holds(j)' /\ claims'[Session(j)'].finishing
          /\ claims'[Session(j)'].revision = call'[j].revision
          /\ sent'[call'[j].revision] = IF call'[j].pc = "complete" THEN 1 ELSE 0
    BY <1>1, <1>2, <1>4, <1>5, <1>6, <2>4
  <2>6. QED
    BY <2>3, <2>5 DEF FinisherHolds
<1>11. FinishingIsServed'
  BY <1>1, <1>5, <1>6 DEF Inv, Safe, FinishingIsServed, Goes, Finishing
<1>12. SentOfRows'
  BY <1>1, <1>3, <1>4 DEF Inv, Safe, SentOfRows
<1>13. QED
  BY <1>6, <1>7, <1>8, <1>9, <1>10, <1>11, <1>12 DEF Safe

(***************************************************************************)
(* The claim of the session changes with the call: Reserve, Bind and Begin *)
(* when they succeed.                                                      *)
(***************************************************************************)
LEMMA ReserveStep ==
  ASSUME Inv, NEW k \in Calls, Reserve(k), claims[Session(k)] = NoClaim
  PROVE  Safe'
<1>1. Types
  BY TypesHold DEF Inv
<1>2. /\ call[k].pc = "claim" /\ InUse(k) /\ issued' = issued + 1
      /\ UNCHANGED <<row, claimant, held, sent>>
  BY DEF Reserve, At, rowVars
<1>3. Session(k) \in Sessions
  BY <1>2, TurnsOfCalls
<1>4. /\ call'[k].pc = "select" /\ call'[k].lease = issued + 1 /\ call'[k].turn = call[k].turn
      /\ \A j \in Calls : j # k => call'[j] = call[j]
  BY <1>1, <1>2 DEF Reserve, NewLease, Types, CallStates
<1>5. /\ claims'[Session(k)] = [NoClaim EXCEPT !.task = call[k].turn[2], !.lease = issued + 1]
      /\ \A s \in Sessions : s # Session(k) => claims'[s] = claims[s]
  BY <1>1, <1>3 DEF Reserve, NewLease, Types
<1>6. /\ claims'[Session(k)].task = call[k].turn[2] /\ claims'[Session(k)].lease = issued + 1
      /\ claims'[Session(k)].revision = NoRevision /\ ~claims'[Session(k)].finishing
  BY <1>5 DEF NoClaim
<1>7. \A j \in Calls : Session(j)' = Session(j)
  BY <1>4 DEF Session
<1>8. \A j \in Calls : call[j].pc \in Claiming \union Finishing =>
        Session(j) \in Sessions /\ Session(j) # Session(k) /\ j # k
  <2>1. \A j \in Calls : call[j].pc \in Claiming \union Finishing => Holds(j) /\ InUse(j) /\ j # k
    BY <1>2 DEF Inv, Safe, ClaimerHolds, FinisherHolds, InUse, Claiming, Finishing
  <2>2. QED
    BY <2>1, TurnsOfCalls DEF Holds, NoClaim
<1>9. \A j \in Calls : j # k /\ call'[j].pc \in Claiming \union Finishing =>
        /\ call[j].pc \in Claiming \union Finishing
        /\ claims'[Session(j)] = claims[Session(j)] /\ Holds(j)' = Holds(j)
  <2>1. \A j \in Calls : j # k /\ call'[j].pc \in Claiming \union Finishing =>
          call[j].pc \in Claiming \union Finishing /\ claims'[Session(j)] = claims[Session(j)]
    BY <1>4, <1>5, <1>8
  <2>2. QED
    BY <1>4, <1>7, <2>1 DEF Holds
<1>10. CallsAreSane'
  <2>1. issued \in Nat /\ \A j \in Calls : call[j].lease \in Nat
    BY <1>1, DevelopmentAssumption DEF Types, CallStates
  <2>2. \A t \in Turns : held[t] \in Nat
    BY <1>1 DEF Types
  <2>3. QED
    BY <1>2, <1>4, <2>1, <2>2 DEF Inv, Safe, CallsAreSane, InUse, Tasked, Finishing
<1>11. FreshIsSecret'
  <2>1. issued \in Nat /\ \A j \in Calls : call[j].lease \in Nat /\ call[j].lease # issued + 1
    BY <1>1, DevelopmentAssumption DEF Types, CallStates, Inv, Safe, CallsAreSane
  <2>2. \A t \in Turns : held[t] # issued + 1
    BY <1>1 DEF Types, Inv, Safe, CallsAreSane
  <2>3. QED
    BY <1>2, <1>4, <2>1, <2>2 DEF Inv, Safe, FreshIsSecret
<1>12. ClaimerHolds'
  <2>1. Holds(k)'
    BY <1>1, <1>4, <1>6, <1>7 DEF Holds, Types
  <2>2. QED
    BY <1>4, <1>6, <1>7, <1>9, <2>1 DEF Inv, Safe, ClaimerHolds
<1>13. LockedIsQueued' /\ LoadedIsTaken' /\ SentOfRows'
  BY <1>2, <1>4 DEF Inv, Safe, LockedIsQueued, LoadedIsTaken, SentOfRows
<1>14. ClaimIsTaken'
  BY <1>2, <1>5, <1>6 DEF Inv, Safe, ClaimIsTaken
<1>15. FinisherHolds'
  BY <1>2, <1>4, <1>7, <1>9 DEF Inv, Safe, FinisherHolds, Finishing
<1>16. FinishingIsServed'
  <2>1. ASSUME NEW s \in Sessions, claims'[s].finishing
        PROVE  \E j \in Calls : call'[j].pc \in Finishing /\ Session(j)' = s
    <3>1. s # Session(k) /\ claims[s].finishing
      BY <1>5, <1>6, <2>1
    <3>2. PICK j \in Calls : call[j].pc \in Finishing /\ Session(j) = s
      BY <3>1 DEF Inv, Safe, FinishingIsServed
    <3>3. j # k
      BY <3>1, <3>2
    <3> QED  BY <1>4, <1>7, <3>2, <3>3
  <2> QED  BY <2>1 DEF FinishingIsServed
<1>17. QED
  BY <1>10, <1>11, <1>12, <1>13, <1>14, <1>15, <1>16 DEF Safe

LEMMA BindStep ==
  ASSUME Inv, NEW k \in Calls, Bind(k), Holds(k), claims[Session(k)].revision = NoRevision
  PROVE  Safe'
<1> DEFINE r == call[k].revision
<1>1. Types
  BY TypesHold DEF Inv
<1>2. /\ call[k].pc = "load" /\ InUse(k) /\ r \in Revisions /\ r # NoRevision
      /\ UNCHANGED <<row, claimant, issued, held, sent>>
  BY DevelopmentAssumption DEF Bind, At, Inv, Safe, CallsAreSane, Tasked, rowVars
<1>3. /\ Session(k) \in Sessions /\ call[k].turn = <<Session(k), claims[Session(k)].task>>
      /\ ~claims[Session(k)].finishing
  BY <1>2, TurnsOfCalls DEF Holds, Inv, Safe, ClaimerHolds, Claiming
<1>4. claims[Session(k)] \in Claim
  BY <1>1, <1>3 DEF Types, Holds, NoClaim
<1>5. /\ claims'[Session(k)].revision = r /\ ~claims'[Session(k)].finishing
      /\ claims'[Session(k)].task = claims[Session(k)].task
      /\ claims'[Session(k)].lease = claims[Session(k)].lease
      /\ \A s \in Sessions : s # Session(k) => claims'[s] = claims[s]
  BY <1>1, <1>3, <1>4 DEF Bind, Types, Claim
<1>6. Goes(k) /\ call'[k].pc = "claimed"
  BY <1>1 DEF Bind, Goto, Types, CallStates, Goes
<1>7. row[r] \notin {"absent", "queued"} /\ claimant[r] = call[k].turn /\ sent[r] = 0
  BY <1>2 DEF Inv, Safe, LoadedIsTaken
<1> HIDE DEF r
<1>8. /\ CallsAreSane' /\ FreshIsSecret'
      /\ \A j \in Calls : Session(j)' = Session(j)
  BY <1>2, <1>6, GoesSane DEF Fresh, Claiming, Tasked, Finishing
<1>9. \A j \in Calls : j # k /\ call[j].pc \in Claiming \union Finishing =>
        /\ claims'[Session(j)] = claims[Session(j)] /\ Holds(j)' = Holds(j)
  <2>1. \A j \in Calls : j # k /\ call[j].pc \in Claiming \union Finishing =>
          Session(j) \in Sessions /\ Session(j) # Session(k)
    BY <1>2, Alone, TurnsOfCalls DEF InUse, Claiming, Finishing
  <2>2. \A j \in Calls : j # k /\ call[j].pc \in Claiming \union Finishing =>
          claims'[Session(j)] = claims[Session(j)]
    BY <1>5, <2>1
  <2>3. QED
    BY <1>6, <1>8, <2>2 DEF Holds, Goes
<1>10. \A j \in Calls : call'[j].pc \in Claiming \union Finishing \union {"locked", "load"} =>
         j # k /\ call'[j] = call[j] /\ call[j].pc \in Claiming \union Finishing
  BY <1>6 DEF Goes, Claiming, Finishing
<1>11. ClaimerHolds'
  BY <1>8, <1>9, <1>10 DEF Inv, Safe, ClaimerHolds
<1>12. LockedIsQueued' /\ LoadedIsTaken' /\ SentOfRows'
  BY <1>2, <1>10 DEF Inv, Safe, LockedIsQueued, LoadedIsTaken, SentOfRows
<1>13. ClaimIsTaken'
  BY <1>2, <1>3, <1>5, <1>7 DEF Inv, Safe, ClaimIsTaken
<1>14. FinisherHolds'
  BY <1>2, <1>8, <1>9, <1>10 DEF Inv, Safe, FinisherHolds
<1>15. FinishingIsServed'
  <2>1. SUFFICES ASSUME NEW s \in Sessions, claims'[s].finishing
                 PROVE  \E j \in Calls : call'[j].pc \in Finishing /\ Session(j)' = s
    BY DEF FinishingIsServed
  <2>2. PICK j \in Calls : call[j].pc \in Finishing /\ Session(j) = s
    BY <1>5, <2>1 DEF Inv, Safe, FinishingIsServed
  <2>3. j # k
    BY <1>2, <2>2 DEF Finishing
  <2>4. QED
    BY <1>6, <1>8, <2>2, <2>3 DEF Goes
<1>16. QED
  BY <1>8, <1>11, <1>12, <1>13, <1>14, <1>15 DEF Safe

LEMMA BeginStep ==
  ASSUME Inv, NEW k \in Calls, Begin(k), MayBegin(k)
  PROVE  Safe'
<1> DEFINE r == claims[Session(k)].revision
<1>1. Types
  BY TypesHold DEF Inv
<1>2. /\ call[k].pc \in {"askComplete", "askBlock"} /\ InUse(k)
      /\ Holds(k) /\ r # NoRevision /\ ~claims[Session(k)].finishing
      /\ UNCHANGED <<row, claimant, issued, held, sent>>
  BY DEF Begin, MayBegin, InUse, rowVars
<1>3. Session(k) \in Sessions
  BY <1>2, TurnsOfCalls
<1>4. claims[Session(k)] \in Claim /\ r \in Revisions /\ sent[r] = 0
  BY <1>2, <1>3, OneClaim DEF Inv, Safe, ClaimIsTaken
<1>5. claims' = [claims EXCEPT ![Session(k)].finishing = TRUE]
  BY DEF Begin
<1>6. /\ claims'[Session(k)].revision = r /\ claims'[Session(k)].finishing
      /\ claims'[Session(k)].task = claims[Session(k)].task
      /\ claims'[Session(k)].lease = claims[Session(k)].lease
      /\ \A s \in Sessions : s # Session(k) => claims'[s] = claims[s]
  BY <1>1, <1>3, <1>4, <1>5 DEF Types, Claim
<1>7. Goes(k) /\ call'[k].pc \in {"apply", "block"} /\ call'[k].revision = r
  BY <1>1, <1>2 DEF Begin, Types, CallStates, Goes
<1> HIDE DEF r
<1>8. /\ CallsAreSane' /\ FreshIsSecret'
      /\ \A j \in Calls : Session(j)' = Session(j)
  BY <1>2, <1>4, <1>7, GoesSane DEF Fresh, Claiming
<1>9. \A j \in Calls : call[j].pc \in Claiming \union Finishing =>
        Session(j) \in Sessions /\ Session(j) # Session(k) /\ j # k
  <2>1. SUFFICES ASSUME NEW j \in Calls, call[j].pc \in Claiming \union Finishing
                 PROVE  Session(j) \in Sessions /\ Session(j) # Session(k) /\ j # k
    OBVIOUS
  <2>2. Session(j) \in Sessions
    BY <2>1, TurnsOfCalls DEF InUse, Claiming, Finishing
  <2>3. j # k
    BY <1>2, <2>1 DEF Claiming, Finishing
  <2>4. CASE call[j].pc \in Claiming
    BY <1>2, <2>2, <2>3, <2>4 DEF Inv, Safe, ClaimerHolds, r
  <2>5. CASE call[j].pc \in Finishing
    BY <1>2, <2>2, <2>3, <2>5 DEF Inv, Safe, FinisherHolds
  <2>6. QED
    BY <2>1, <2>4, <2>5
<1>10. \A j \in Calls : j # k /\ call'[j].pc \in Claiming \union Finishing =>
         /\ call'[j] = call[j] /\ call[j].pc \in Claiming \union Finishing
         /\ claims'[Session(j)] = claims[Session(j)] /\ Holds(j)' = Holds(j)
  <2>1. \A j \in Calls : j # k /\ call'[j].pc \in Claiming \union Finishing =>
          /\ call'[j] = call[j] /\ call[j].pc \in Claiming \union Finishing
          /\ claims'[Session(j)] = claims[Session(j)]
    BY <1>6, <1>7, <1>9 DEF Goes
  <2>2. QED
    BY <1>8, <2>1 DEF Holds
<1>11. Holds(k)'
  BY <1>2, <1>6, <1>7, <1>8 DEF Holds, Goes
<1>12. call'[k].pc \in Finishing /\ call'[k].pc \notin Claiming \union {"complete", "locked", "load"}
  BY <1>7 DEF Finishing, Claiming
<1>13. ClaimerHolds'
  BY <1>8, <1>10, <1>12 DEF Inv, Safe, ClaimerHolds
<1>14. LockedIsQueued' /\ LoadedIsTaken' /\ SentOfRows'
  BY <1>2, <1>7, <1>12 DEF Inv, Safe, LockedIsQueued, LoadedIsTaken, SentOfRows, Goes
<1>15. ClaimIsTaken'
  BY <1>2, <1>3, <1>6 DEF Inv, Safe, ClaimIsTaken, r
<1>16. FinisherHolds'
  <2>1. \A i, j \in Calls : /\ call'[i].pc \in Finishing /\ call'[j].pc \in Finishing
                            /\ Session(i)' = Session(j)'
                            => i = j
    <3>1. SUFFICES ASSUME NEW i \in Calls, NEW j \in Calls, call'[i].pc \in Finishing,
                          call'[j].pc \in Finishing, Session(i)' = Session(j)'
                   PROVE  i = j
      OBVIOUS
    <3>2. Session(i) = Session(j)
      BY <1>8, <3>1
    <3>3. CASE i = k \/ j = k
      BY <1>9, <1>10, <3>1, <3>2, <3>3
    <3>4. CASE i # k /\ j # k
      BY <1>10, <3>1, <3>2, <3>4, Alone
    <3>5. QED
      BY <3>3, <3>4
  <2>2. \A j \in Calls : j # k /\ call'[j].pc \in Finishing =>
          /\ Holds(j)' /\ claims'[Session(j)].finishing
          /\ claims'[Session(j)].revision = call'[j].revision
          /\ sent'[call'[j].revision] = IF call'[j].pc = "complete" THEN 1 ELSE 0
    BY <1>2, <1>10 DEF Inv, Safe, FinisherHolds, Finishing
  <2>3. QED
    BY <1>2, <1>4, <1>6, <1>7, <1>8, <1>11, <1>12, <2>1, <2>2 DEF FinisherHolds
<1>17. FinishingIsServed'
  <2>1. SUFFICES ASSUME NEW s \in Sessions, claims'[s].finishing, s # Session(k)
                 PROVE  \E j \in Calls : call'[j].pc \in Finishing /\ Session(j)' = s
    BY <1>8, <1>12 DEF FinishingIsServed
  <2>2. PICK j \in Calls : call[j].pc \in Finishing /\ Session(j) = s
    BY <1>6, <2>1 DEF Inv, Safe, FinishingIsServed
  <2>3. QED
    BY <1>7, <1>8, <2>1, <2>2 DEF Goes
<1>18. QED
  BY <1>8, <1>13, <1>14, <1>15, <1>16, <1>17 DEF Safe

(***************************************************************************)
(* Every step                                                              *)
(***************************************************************************)
LEMMA ApproveStep == ASSUME Inv, NEW r \in Revisions, Approve(r) PROVE Safe'
<1>1. /\ row[r] = "absent" /\ row'[r] = "queued"
      /\ \A q \in Revisions : q # r => row'[q] = row[q]
      /\ UNCHANGED <<claimant, claims, issued, held, call, sent>>
  BY TypesHold DEF Approve, Inv, Types
<1>2. CallsAreSane' /\ FreshIsSecret' /\ ClaimerHolds' /\ FinisherHolds' /\ FinishingIsServed'
  BY <1>1 DEF Inv, Safe, CallsAreSane, FreshIsSecret, ClaimerHolds, FinisherHolds, FinishingIsServed,
              InUse, Holds, Session
<1>3. \A k \in Calls : call[k].pc \in {"locked", "load"} => call[k].revision \in Revisions
  BY DEF Inv, Safe, CallsAreSane, Tasked
<1>4. LockedIsQueued' /\ LoadedIsTaken'
  BY <1>1, <1>3 DEF Inv, Safe, LockedIsQueued, LoadedIsTaken
<1>5. \A s \in Sessions : claims[s].revision # NoRevision => claims[s].revision \in Revisions
  BY OneClaim
<1>6. ClaimIsTaken'
  BY <1>1, <1>5 DEF Inv, Safe, ClaimIsTaken
<1>7. SentOfRows'
  BY <1>1 DEF Inv, Safe, SentOfRows
<1>8. QED
  BY <1>2, <1>4, <1>6, <1>7 DEF Safe

LEMMA RestartServerStep == ASSUME Inv, RestartServer PROVE Safe'
<1>1. /\ \A s \in Sessions : claims'[s] = NoClaim
      /\ \A k \in Calls : call'[k].pc = "free" /\ call'[k].lease = 0
      /\ UNCHANGED <<row, claimant, issued, held, sent>>
  BY DEF RestartServer, NoCall, rowVars
<1>2. CallsAreSane'
  BY <1>1, TypesHold DEF Inv, Safe, CallsAreSane, InUse, Tasked, Finishing, Types
<1>3. FreshIsSecret' /\ ClaimerHolds' /\ LockedIsQueued' /\ LoadedIsTaken' /\ FinisherHolds'
  BY <1>1 DEF FreshIsSecret, ClaimerHolds, LockedIsQueued, LoadedIsTaken, FinisherHolds, Fresh, Claiming,
              Finishing
<1>4. ClaimIsTaken' /\ FinishingIsServed'
  BY <1>1 DEF ClaimIsTaken, FinishingIsServed, NoClaim
<1>5. SentOfRows'
  BY <1>1 DEF Inv, Safe, SentOfRows
<1>6. QED
  BY <1>2, <1>3, <1>4, <1>5 DEF Safe

\* The steps that end a call.
LEMMA EndingStep ==
  ASSUME Inv, NEW k \in Calls,
         \/ Reserve(k) /\ claims[Session(k)] # NoClaim
         \/ Bind(k) /\ ~(Holds(k) /\ claims[Session(k)].revision = NoRevision)
         \/ Begin(k) /\ ~MayBegin(k)
         \/ ClaimFails(k) \/ ApplyFails(k)
         \/ Complete(k) \/ CompleteFails(k) \/ Block(k) \/ BlockFails(k)
  PROVE  Safe'
<1>1. Types
  BY TypesHold DEF Inv
<1>2. Drop(k) \/ Goto(k, "finished")
  BY DEF Reserve, Bind, Begin, ClaimFails, ApplyFails, Complete, CompleteFails, Block, BlockFails
<1>3. Over(k)
  BY <1>1, <1>2 DEF Drop, Goto, NoCall, Over, Types, CallStates
<1>4. InUse(k)
  BY DEF InUse, At, Reserve, Bind, Begin, ClaimFails, ApplyFails, Complete, CompleteFails, Block, BlockFails
<1>5. ClaimOver(k)
  BY DEF ClaimOver, At, Claiming, Finishing, Reserve, Bind, Begin, ClaimFails, ApplyFails, Complete,
         CompleteFails, Block, BlockFails
<1>6. RowOver(k) /\ UNCHANGED <<claimant, held>>
  BY DEF RowOver, FinishRow, rowVars, At, Reserve, Bind, Begin, ClaimFails, ApplyFails, Complete,
         CompleteFails, Block, BlockFails
<1>7. SentOver(k) /\ issued' \in {issued, issued + 1}
  BY DEF SentOver, At, Reserve, Bind, Begin, ClaimFails, ApplyFails, Complete, CompleteFails, Block,
         BlockFails
<1>8. QED
  BY <1>3, <1>4, <1>5, <1>6, <1>7, OverStep

\* The steps of the turns and of Hermes.
LEMMA TurnStep ==
  ASSUME Inv,
         \/ \E k \in Calls, t \in Turns : \/ CallClaim(k, t)
                                        \/ CallFinish(k, t, "askComplete")
                                        \/ CallFinish(k, t, "askBlock")
         \/ \E k \in Calls : Timeout(k) \/ Answer(k)
         \/ RestartHermes
  PROVE  Safe'
<1>1. Types
  BY TypesHold DEF Inv
<1>2. UNCHANGED <<row, claimant, claims, issued, sent>>
  BY DEF CallClaim, CallFinish, Timeout, Answer, RestartHermes, rowVars
<1>3. CASE \E k \in Calls, t \in Turns : \/ CallClaim(k, t)
                                       \/ CallFinish(k, t, "askComplete")
                                       \/ CallFinish(k, t, "askBlock")
  <2>1. PICK k \in Calls, t \in Turns : \/ CallClaim(k, t)
                                       \/ CallFinish(k, t, "askComplete")
                                       \/ CallFinish(k, t, "askBlock")
    BY <1>3
  <2>2. held' = held /\ NewCall(k)
    <3>1. CASE CallClaim(k, t)
      BY <1>1, <3>1 DEF CallClaim, NewCall, InUse, NoCall, Types
    <3>2. ASSUME NEW tool \in {"askComplete", "askBlock"}, CallFinish(k, t, tool)
          PROVE  held' = held /\ NewCall(k)
      <4>1. /\ call'[k].pc = tool /\ call'[k].turn = t /\ call'[k].lease = held[t]
            /\ call[k].pc = "free" /\ held' = held
        BY <1>1, <3>2 DEF CallFinish, InUse, Types
      <4>2. QED
        BY <4>1 DEF NewCall
    <3>3. QED
      BY <2>1, <3>1, <3>2
  <2>3. \A j \in Calls : j # k => SameCall(j)
    BY <1>1, <2>1 DEF CallClaim, CallFinish, SameCall, Types
  <2>4. QED
    BY <1>2, <2>2, <2>3, CallerStep
<1>4. CASE RestartHermes \/ \E k \in Calls : Timeout(k)
  <2>1. \A j \in Calls : SameCall(j)
    BY <1>1, <1>4 DEF RestartHermes, Timeout, SameCall, Types, CallStates
  <2>2. \A t \in Turns : held'[t] \in {0, held[t]}
    BY <1>4 DEF RestartHermes, Timeout
  <2>3. QED
    BY <1>2, <2>1, <2>2, CallerStep
<1>5. ASSUME NEW k \in Calls, Answer(k) PROVE Safe'
  <2>1. call'[k].pc = "free" /\ NewCall(k)
    BY <1>1, <1>5 DEF Answer, Drop, NewCall, NoCall, Types
  <2>2. \A j \in Calls : j # k => SameCall(j)
    BY <1>1, <1>5 DEF Answer, Drop, SameCall, Types
  <2>3. \A t \in Turns : \/ held'[t] \in {0, held[t]}
                         \/ call[k].pc = "claimed" /\ held'[t] = call[k].lease
    BY <1>1, <1>5 DEF Answer, Types
  <2>4. QED
    BY <1>2, <2>1, <2>2, <2>3, CallerStep
<1>6. QED
  BY <1>3, <1>4, <1>5

LEMMA StepSafe == ASSUME Inv, [Next]_vars PROVE Safe'
<1>1. CASE UNCHANGED vars
  BY <1>1, CallerStep DEF vars, rowVars, SameCall
<1>2. ASSUME NEW k \in Calls, Reserve(k) \/ Bind(k) \/ Begin(k) PROVE Safe'
  BY <1>2, EndingStep, ReserveStep, BindStep, BeginStep
<1>3. QED
  BY <1>1, <1>2, EndingStep, TurnStep, ApproveStep, RestartServerStep, SelectRowStep, CommitRowStep,
     ApplyStep DEF Next, Serve

(***************************************************************************)
(* Types                                                                   *)
(***************************************************************************)
LEMMA CallTypes ==
  ASSUME TypeOK, NEW k \in Calls
  PROVE  /\ NoCall \in CallStates
         /\ Drop(k) => call' \in [Calls -> CallStates]
         /\ \A pc \in Pcs : Goto(k, pc) => call' \in [Calls -> CallStates]
<1>1. NoCall \in CallStates
  BY DevelopmentAssumption DEF NoCall, CallStates, Pcs
<1>2. call \in [Calls -> CallStates] /\ call[k] \in CallStates
  BY DEF TypeOK
<1>3. \A pc \in Pcs : [call[k] EXCEPT !.pc = pc] \in CallStates
  BY <1>2 DEF CallStates
<1>4. QED
  BY <1>1, <1>2, <1>3 DEF Drop, Goto

LEMMA ClaimTypes ==
  ASSUME TypeOK, NEW k \in Calls, Release(k) \/ Retry(k)
  PROVE  claims' \in [Sessions -> Claim \union {NoClaim}]
<1>1. claims \in [Sessions -> Claim \union {NoClaim}]
  BY DEF TypeOK
<1>2. CASE Release(k)
  BY <1>1, <1>2 DEF Release
<1>3. CASE Retry(k)
  <2>1. \A c \in Claim : [c EXCEPT !.finishing = FALSE] \in Claim
    BY DEF Claim
  <2>2. Holds(k) /\ Session(k) \in Sessions => claims[Session(k)] \in Claim
    BY <1>1 DEF Holds, NoClaim
  <2>3. QED
    BY <1>1, <1>3, <2>1, <2>2 DEF Retry
<1>4. QED
  BY <1>2, <1>3

LEMMA RowTypes ==
  ASSUME TypeOK, NEW r, NEW s \in Rows
  PROVE  FinishRow(r, s) => /\ row' \in [Revisions -> Rows] /\ line' \in Seq(Revisions)
                            /\ claimant' \in [Revisions -> Turns \union {Nobody}]
BY DEF TypeOK, FinishRow

LEMMA SameRowTypes ==
  ASSUME TypeOK, UNCHANGED rowVars
  PROVE  /\ row' \in [Revisions -> Rows] /\ line' \in Seq(Revisions)
         /\ claimant' \in [Revisions -> Turns \union {Nobody}]
BY DEF TypeOK, rowVars

LEMMA SentTypes ==
  ASSUME TypeOK, NEW r, sent' = [sent EXCEPT ![r] = @ + 1]
  PROVE  sent' \in [Revisions -> Nat]
<1>1. sent \in [Revisions -> Nat]
  BY DEF TypeOK
<1>2. \A q \in Revisions : (IF q = r THEN sent[q] + 1 ELSE sent[q]) \in Nat
  BY <1>1
<1>3. sent' = [q \in Revisions |-> IF q = r THEN sent[q] + 1 ELSE sent[q]]
  BY <1>1
<1>4. QED
  BY <1>2, <1>3

LEMMA StepTypes == ASSUME Inv, [Next]_vars PROVE TypeOK'
<1>1. TypeOK
  BY DEF Inv
<1>2. Types /\ issued \in 0 .. MaxLease /\ MaxLease \in Nat
  BY <1>1, TypesHold, DevelopmentAssumption DEF TypeOK
<1>3. ASSUME NEW r \in Revisions, Approve(r) PROVE TypeOK'
  <2>1. line' \in Seq(Revisions)
    BY <1>1, <1>3 DEF Approve, TypeOK
  <2>2. row' \in [Revisions -> Rows]
    BY <1>1, <1>3 DEF Approve, TypeOK, Rows
  <2>3. QED
    BY <1>1, <1>3, <2>1, <2>2 DEF Approve, TypeOK
<1>4. CASE RestartServer \/ RestartHermes
  <2>1. call' \in [Calls -> CallStates]
    <3>1. CASE RestartServer
      <4>1. NoCall \in CallStates
        BY DevelopmentAssumption DEF NoCall, CallStates, Pcs
      <4>2. QED
        BY <3>1, <4>1 DEF RestartServer
    <3>2. CASE RestartHermes
      <4>1. \A k \in Calls : [call[k] EXCEPT !.heard = FALSE] \in CallStates
        BY <1>2 DEF Types, CallStates
      <4>2. QED
        BY <3>2, <4>1 DEF RestartHermes
    <3>3. QED
      BY <1>4, <3>1, <3>2
  <2>2. claims' \in [Sessions -> Claim \union {NoClaim}] /\ held' \in [Turns -> 0 .. MaxLease]
    BY <1>1, <1>2, <1>4 DEF RestartServer, RestartHermes, TypeOK
  <2>3. UNCHANGED rowVars /\ issued' = issued /\ sent' = sent
    BY <1>4 DEF RestartServer, RestartHermes
  <2>4. QED
    BY <1>1, <2>1, <2>2, <2>3 DEF TypeOK, rowVars
<1>5. ASSUME NEW k \in Calls, NEW t \in Turns,
             \/ CallClaim(k, t)
             \/ CallFinish(k, t, "askComplete")
             \/ CallFinish(k, t, "askBlock")
      PROVE  TypeOK'
  <2>1. [NoCall EXCEPT !.pc = "claim", !.turn = t, !.heard = TRUE] \in CallStates
    <3>1. \A c \in CallStates :
            [c EXCEPT !.pc = "claim", !.turn = t, !.heard = TRUE] \in CallStates
      BY DEF CallStates, Pcs
    <3>2. QED
      BY <1>1, <3>1, CallTypes
  <2>2. \A tool \in {"askComplete", "askBlock"} :
          [pc |-> tool, turn |-> t, lease |-> held[t], revision |-> NoRevision, heard |-> TRUE]
            \in CallStates
    BY <1>1 DEF CallStates, Pcs, TypeOK
  <2>3. call' \in [Calls -> CallStates]
    BY <1>2, <1>5, <2>1, <2>2 DEF CallClaim, CallFinish, Types
  <2>4. UNCHANGED <<rowVars, claims, issued, held, sent>>
    BY <1>5 DEF CallClaim, CallFinish
  <2>5. QED
    BY <1>1, <2>3, <2>4 DEF TypeOK, rowVars
<1>6. ASSUME NEW k \in Calls, Timeout(k) PROVE TypeOK'
  <2>1. [call[k] EXCEPT !.heard = FALSE] \in CallStates
    BY <1>2 DEF Types, CallStates
  <2>2. call' \in [Calls -> CallStates]
    BY <1>2, <1>6, <2>1 DEF Timeout, Types
  <2>3. QED
    BY <1>1, <1>6, <2>2 DEF Timeout, TypeOK, rowVars
<1>7. ASSUME NEW k \in Calls, Answer(k) PROVE TypeOK'
  <2>1. held' \in [Turns -> 0 .. MaxLease]
    <3>1. call[k].lease \in 0 .. MaxLease /\ 0 \in 0 .. MaxLease
      BY <1>2 DEF Types, CallStates
    <3>2. QED
      BY <1>1, <1>7, <3>1 DEF Answer, TypeOK
  <2>2. QED
    BY <1>1, <1>7, <2>1, CallTypes DEF Answer, TypeOK, rowVars
<1>8. ASSUME NEW k \in Calls, Reserve(k) PROVE TypeOK'
  <2>1. issued + 1 \in Leases /\ issued' = issued + 1 /\ issued' \in 0 .. MaxLease
    BY <1>2, <1>8 DEF Reserve, Leases
  <2>2. call[k].turn[2] \in Tasks /\ Session(k) \in Sessions
    BY <1>8, TurnsOfCalls DEF Reserve, At
  <2>3. [NoClaim EXCEPT !.task = call[k].turn[2], !.lease = issued + 1] \in Claim
    BY <2>1, <2>2 DEF NoClaim, Claim
  <2>4. claims' \in [Sessions -> Claim \union {NoClaim}]
    BY <1>2, <1>8, <2>3 DEF Reserve, NewLease, Types
  <2>5. [call[k] EXCEPT !.pc = "select", !.lease = issued + 1] \in CallStates
    BY <1>2, <2>1 DEF Types, CallStates, Pcs, Leases
  <2>6. call' \in [Calls -> CallStates]
    <3>1. CASE Drop(k)
      BY <1>1, <3>1, CallTypes
    <3>2. CASE call' = [call EXCEPT ![k].pc = "select", ![k].lease = NewLease]
      BY <1>2, <2>5, <3>2 DEF NewLease, Types
    <3>3. QED
      BY <1>8, <3>1, <3>2 DEF Reserve
  <2>7. UNCHANGED <<rowVars, held, sent>>
    BY <1>8 DEF Reserve
  <2>8. QED
    BY <1>1, <2>1, <2>4, <2>6, <2>7 DEF TypeOK, rowVars
<1>9. ASSUME NEW k \in Calls, SelectRow(k) PROVE TypeOK'
  <2>1. \A r \in Revisions : [call[k] EXCEPT !.pc = "locked", !.revision = r] \in CallStates
    BY <1>2 DEF Types, CallStates, Pcs
  <2>2. \A i \in DOMAIN line : line[i] \in Revisions
    BY <1>1 DEF TypeOK
  <2>3. call' \in [Calls -> CallStates]
    <3>1. PICK r \in Revisions : call' = [call EXCEPT ![k].pc = "locked", ![k].revision = r]
      BY <1>9, <2>2 DEF SelectRow
    <3>2. QED
      BY <1>2, <2>1, <3>1 DEF Types
  <2>4. QED
    BY <1>1, <1>9, <2>3 DEF SelectRow, TypeOK, rowVars
<1>10. ASSUME NEW k \in Calls, CommitRow(k) PROVE TypeOK'
  <2>1. call[k].turn \in Turns \union {Nobody}
    BY <1>2 DEF Types, CallStates
  <2>2. /\ row' \in [Revisions -> Rows]
        /\ claimant' \in [Revisions -> Turns \union {Nobody}]
    BY <1>1, <1>10, <2>1 DEF CommitRow, TypeOK, Rows
  <2>3. call' \in [Calls -> CallStates]
    BY <1>1, <1>10, CallTypes DEF CommitRow, Pcs
  <2>4. QED
    BY <1>1, <1>10, <2>2, <2>3 DEF CommitRow, TypeOK
<1>11. ASSUME NEW k \in Calls, ClaimFails(k) PROVE TypeOK'
  BY <1>1, <1>11, CallTypes, ClaimTypes DEF ClaimFails, TypeOK, rowVars
<1>12. ASSUME NEW k \in Calls, Bind(k) PROVE TypeOK'
  <2>1. call' \in [Calls -> CallStates]
    BY <1>1, <1>12, CallTypes DEF Bind, Pcs
  <2>2. claims' \in [Sessions -> Claim \union {NoClaim}]
    <3>1. CASE Holds(k) /\ claims' = [claims EXCEPT ![Session(k)].revision = call[k].revision]
      <4>1. Session(k) \in Sessions
        BY <1>12, TurnsOfCalls DEF Bind, At
      <4>2. claims[Session(k)] \in Claim /\ call[k].revision \in Revisions \union {NoRevision}
        BY <1>2, <3>1, <4>1 DEF Types, Holds, NoClaim, CallStates
      <4>3. [claims[Session(k)] EXCEPT !.revision = call[k].revision] \in Claim
        BY <4>2 DEF Claim
      <4>4. QED
        BY <1>2, <3>1, <4>3 DEF Types
    <3>2. CASE Release(k)
      BY <1>1, <3>2, ClaimTypes
    <3>3. QED
      BY <1>12, <3>1, <3>2 DEF Bind
  <2>3. QED
    BY <1>1, <1>12, <2>1, <2>2 DEF Bind, TypeOK, rowVars
<1>13. ASSUME NEW k \in Calls, Begin(k) PROVE TypeOK'
  <2>1. CASE ~MayBegin(k)
    BY <1>1, <1>13, <2>1, CallTypes DEF Begin, TypeOK, rowVars
  <2>2. CASE MayBegin(k)
    <3>1. Session(k) \in Sessions /\ claims[Session(k)] \in Claim
      BY <1>13, <2>2, TurnsOfCalls, OneClaim DEF Begin, MayBegin, InUse
    <3>2. [claims[Session(k)] EXCEPT !.finishing = TRUE] \in Claim
      BY <3>1 DEF Claim
    <3>3. claims' \in [Sessions -> Claim \union {NoClaim}]
      BY <1>2, <1>13, <2>2, <3>2 DEF Begin, Types
    <3>4. claims[Session(k)].revision \in Revisions \union {NoRevision}
      BY <3>1 DEF Claim
    <3>5. \A pc \in {"apply", "block"} :
            [call[k] EXCEPT !.pc = pc, !.revision = claims[Session(k)].revision] \in CallStates
      BY <1>2, <3>4 DEF Types, CallStates, Pcs
    <3>6. call' \in [Calls -> CallStates]
      BY <1>2, <1>13, <2>2, <3>5 DEF Begin, Types
    <3>7. QED
      BY <1>1, <1>13, <3>3, <3>6 DEF Begin, TypeOK, rowVars
  <2>3. QED
    BY <2>1, <2>2
<1>14. ASSUME NEW k \in Calls, Apply(k) PROVE TypeOK'
  BY <1>1, <1>14, CallTypes, SentTypes DEF Apply, TypeOK, rowVars, Pcs
<1>15. ASSUME NEW k \in Calls, ApplyFails(k) PROVE TypeOK'
  <2>1. sent' \in [Revisions -> Nat]
    BY <1>1, <1>15, SentTypes DEF ApplyFails, TypeOK
  <2>2. QED
    BY <1>1, <1>15, <2>1, CallTypes, ClaimTypes DEF ApplyFails, TypeOK, rowVars
<1>16. ASSUME NEW k \in Calls, Complete(k) \/ CompleteFails(k) \/ Block(k) \/ BlockFails(k)
       PROVE  TypeOK'
  <2>1. /\ row' \in [Revisions -> Rows] /\ line' \in Seq(Revisions)
        /\ claimant' \in [Revisions -> Turns \union {Nobody}]
    BY <1>1, <1>16, RowTypes, SameRowTypes DEF Complete, CompleteFails, Block, BlockFails, Rows
  <2>2. claims' \in [Sessions -> Claim \union {NoClaim}]
    BY <1>1, <1>16, ClaimTypes DEF Complete, CompleteFails, Block, BlockFails
  <2>3. call' \in [Calls -> CallStates]
    BY <1>1, <1>16, CallTypes DEF Complete, CompleteFails, Block, BlockFails, Pcs
  <2>4. UNCHANGED <<issued, held, sent>>
    BY <1>16 DEF Complete, CompleteFails, Block, BlockFails
  <2>5. QED
    BY <1>1, <2>1, <2>2, <2>3, <2>4 DEF TypeOK
<1>17. CASE UNCHANGED vars
  BY <1>1, <1>17 DEF vars, rowVars, TypeOK
<1>18. QED
  BY <1>3, <1>4, <1>5, <1>6, <1>7, <1>8, <1>9, <1>10, <1>11, <1>12, <1>13, <1>14, <1>15, <1>16, <1>17
     DEF Next, Serve

(***************************************************************************)
(* The theorems                                                            *)
(***************************************************************************)
LEMMA InitInv == Init => Inv
<1> SUFFICES ASSUME Init PROVE Inv
  OBVIOUS
<1>1. TypeOK
  <2>1. NoCall \in CallStates
    BY DevelopmentAssumption DEF NoCall, CallStates, Pcs
  <2>2. line \in Seq(Revisions) /\ 0 \in 0 .. MaxLease
    BY DevelopmentAssumption DEF Init
  <2>3. QED
    BY <2>1, <2>2 DEF Init, TypeOK, Rows
<1>2. \A k \in Calls : call[k].pc = "free" /\ call[k].lease = 0
  BY DEF Init, NoCall
<1>3. CallsAreSane
  BY <1>2 DEF Init, CallsAreSane, InUse, Tasked, Finishing
<1>4. FreshIsSecret /\ ClaimerHolds /\ LockedIsQueued /\ LoadedIsTaken /\ FinisherHolds
  BY <1>2 DEF FreshIsSecret, ClaimerHolds, LockedIsQueued, LoadedIsTaken, FinisherHolds, Fresh, Claiming,
              Finishing
<1>5. ClaimIsTaken /\ FinishingIsServed /\ SentOfRows
  BY DEF Init, ClaimIsTaken, FinishingIsServed, SentOfRows, NoClaim
<1>6. QED
  BY <1>1, <1>3, <1>4, <1>5 DEF Inv, Safe

\* The invariant above holds in every reachable state, for any number of sessions,
\* tasks, calls and leases: each of the properties below follows from it.
THEOREM Invariance == Spec => []Inv
<1>1. Inv /\ [Next]_vars => Inv'
  BY StepSafe, StepTypes DEF Inv
<1>2. QED
  BY InitInv, <1>1, PTL DEF Spec

\* Every variable of the queue, the claims and the leases keeps its type.
THEOREM TypeCorrect == Spec => []TypeOK
BY Invariance, PTL DEF Inv

\* The call that completes or blocks a task has the claim of its session for
\* itself until it is over (development_claim.go:57).
THEOREM ClaimKept == Spec => []FinisherHasTheClaim
<1>1. Inv => FinisherHasTheClaim
  <2>1. SUFFICES ASSUME Inv, NEW k \in Calls, call[k].pc \in Finishing
                 PROVE  /\ Holds(k) /\ claims[Session(k)].finishing
                        /\ claims[Session(k)].revision = call[k].revision
                        /\ \A j \in Calls \ {k} :
                             call[j].pc \in Finishing => call[j].revision # call[k].revision
    BY DEF FinisherHasTheClaim
  <2>2. \A j \in Calls : call[j].pc \in Finishing =>
          /\ Session(j) \in Sessions /\ claims[Session(j)].revision = call[j].revision
          /\ call[j].revision # NoRevision
    BY <2>1, TurnsOfCalls, DevelopmentAssumption
       DEF Inv, Safe, FinisherHolds, CallsAreSane, Tasked, InUse, Finishing
  <2>3. \A j \in Calls : call[j].pc \in Finishing /\ call[j].revision = call[k].revision => j = k
    BY <2>1, <2>2, OneClaim, Alone
  <2>4. QED
    BY <2>1, <2>3 DEF Inv, Safe, FinisherHolds
<1>2. QED
  BY <1>1, Invariance, PTL

\* It belongs to the turn that took the row: a lease of another turn, or an old
\* one, opens nothing (development_claim.go:89 and README.md:80).
THEOREM TurnsKept == Spec => []BoundToItsTurn
<1>1. Inv => BoundToItsTurn
  <2>1. SUFFICES ASSUME Inv, NEW k \in Calls, call[k].pc \in Finishing
                 PROVE  claimant[call[k].revision] = call[k].turn
    BY DEF BoundToItsTurn
  <2>2. /\ InUse(k) /\ Holds(k) /\ claims[Session(k)].revision = call[k].revision
        /\ call[k].revision # NoRevision
    BY <2>1, DevelopmentAssumption
       DEF Inv, Safe, FinisherHolds, CallsAreSane, Tasked, InUse, Finishing
  <2>3. Session(k) \in Sessions /\ call[k].turn = <<Session(k), claims[Session(k)].task>>
    BY <2>1, <2>2, TurnsOfCalls DEF Holds
  <2>4. QED
    BY <2>1, <2>2, <2>3 DEF Inv, Safe, ClaimIsTaken
<1>2. QED
  BY <1>1, Invariance, PTL

\* A revision is in one claim at most, and in none before its row is taken
\* (development.go:39: FOR UPDATE ... SKIP LOCKED).
THEOREM TasksKept == Spec => []OneClaimPerTask
<1>1. Inv => OneClaimPerTask
  <2>1. SUFFICES ASSUME Inv PROVE OneClaimPerTask
    OBVIOUS
  <2>2. \A s, u \in Sessions :
          claims[s].revision = claims[u].revision /\ s # u => claims[s].revision = NoRevision
    BY <2>1, OneClaim
  <2>3. \A s \in Sessions, r \in Revisions :
          row[r] \in {"absent", "queued"} => claims[s].revision # r /\ sent[r] = 0
    BY <2>1, DevelopmentAssumption DEF Inv, Safe, ClaimIsTaken, SentOfRows
  <2>4. QED
    BY <2>2, <2>3 DEF OneClaimPerTask
<1>2. QED
  BY <1>1, Invariance, PTL

\* The target is asked to implement a revision once at most, and before the
\* revision counts as developed, whatever fails in between.
THEOREM SendingKept == Spec => []SentOnce
<1>1. Inv => SentOnce
  BY DEF Inv, Safe, SentOfRows, SentOnce
<1>2. QED
  BY <1>1, Invariance, PTL

\* A claim that is being finished has a call that will release it or open it
\* again: no failure leaves a session with a claim nobody can use.
THEOREM FinishingKept == Spec => []FinishingIsServed
BY Invariance, PTL DEF Inv, Safe

(***************************************************************************)
(* Refinement: only the calls that take, send or finish a task do          *)
(* something the contract speaks of.                                       *)
(***************************************************************************)
LEMMA FinisherOwns ==
  ASSUME Inv, NEW k \in Calls, call[k].pc \in Finishing
  PROVE  /\ call[k].revision \in Revisions /\ call[k].turn \in Turns
         /\ claimant[call[k].revision] = call[k].turn
         /\ sent[call[k].revision] = IF call[k].pc = "complete" THEN 1 ELSE 0
<1>1. /\ InUse(k) /\ Holds(k) /\ claims[Session(k)].revision = call[k].revision
      /\ call[k].revision \in Revisions /\ call[k].revision # NoRevision /\ call[k].turn \in Turns
      /\ sent[call[k].revision] = IF call[k].pc = "complete" THEN 1 ELSE 0
  BY DevelopmentAssumption
     DEF Inv, Safe, FinisherHolds, CallsAreSane, Tasked, InUse, Finishing
<1>2. Session(k) \in Sessions /\ call[k].turn = <<Session(k), claims[Session(k)].task>>
  BY <1>1, TurnsOfCalls DEF Holds
<1>3. QED
  BY <1>1, <1>2 DEF Inv, Safe, ClaimIsTaken

LEMMA FinishRefines ==
  ASSUME Inv, NEW k \in Calls, call[k].pc \in {"complete", "block"},
         NEW s \in {"developed", "blocked"}, s = "developed" => call[k].pc = "complete",
         Finishable(call[k].revision), FinishRow(call[k].revision, s), sent' = sent
  PROVE  Contract!Next
<1> DEFINE r == call[k].revision
<1>1. /\ r \in Revisions /\ call[k].turn \in Turns /\ claimant[r] = call[k].turn
      /\ s = "developed" => sent[r] = 1
  BY FinisherOwns DEF Finishing
<1>2. Contract!Finish(r, call[k].turn, s)
  BY <1>1 DEF Finishable, FinishRow, Contract!Finish
<1>3. QED
  BY <1>1, <1>2 DEF Contract!Next

LEMMA SendRefines ==
  ASSUME Inv, NEW k \in Calls, call[k].pc = "apply", UNCHANGED rowVars,
         sent' = [sent EXCEPT ![call[k].revision] = @ + 1]
  PROVE  Contract!Next
<1> DEFINE r == call[k].revision
<1>1. r \in Revisions /\ call[k].turn \in Turns /\ claimant[r] = call[k].turn /\ sent[r] = 0
  BY FinisherOwns DEF Finishing
<1>2. Contract!Send(r, call[k].turn)
  <2>1. sent[r] + 1 = 1
    BY <1>1
  <2>2. sent' = [sent EXCEPT ![r] = 1]
    BY <2>1
  <2>3. QED
    BY <1>1, <2>2 DEF Contract!Send, rowVars
<1>3. QED
  BY <1>1, <1>2 DEF Contract!Next

LEMMA StepRefines == ASSUME Inv, [Next]_vars PROVE [Contract!Next]_Contract!vars
<1>1. UNCHANGED <<rowVars, sent>> => UNCHANGED Contract!vars
  BY DEF rowVars, Contract!vars
<1>2. ASSUME NEW r \in Revisions, Approve(r) PROVE Contract!Next
  <2>1. Contract!Queue(r)
    BY <1>2 DEF Approve, Contract!Queue
  <2>2. QED
    BY <2>1 DEF Contract!Next
<1>3. CASE \/ RestartServer \/ RestartHermes \/ UNCHANGED vars
           \/ \E k \in Calls, t \in Turns : \/ CallClaim(k, t)
                                          \/ CallFinish(k, t, "askComplete")
                                          \/ CallFinish(k, t, "askBlock")
           \/ \E k \in Calls : \/ Timeout(k) \/ Reserve(k) \/ SelectRow(k) \/ ClaimFails(k)
                             \/ Bind(k) \/ Begin(k) \/ Answer(k)
  <2>1. UNCHANGED <<rowVars, sent>>
    BY <1>3 DEF RestartServer, RestartHermes, vars, CallClaim, CallFinish, Timeout, Reserve, SelectRow,
                ClaimFails, Bind, Begin, Answer
  <2>2. QED
    BY <1>1, <2>1
<1>4. ASSUME NEW k \in Calls, CommitRow(k) PROVE Contract!Next
  <2>1. /\ call[k].revision \in Revisions /\ row[call[k].revision] = "queued"
        /\ call[k].turn \in Turns
    BY <1>4 DEF CommitRow, At, Inv, Safe, CallsAreSane, LockedIsQueued, Tasked
  <2>2. Contract!Take(call[k].revision, call[k].turn)
    BY <1>4, <2>1 DEF CommitRow, Contract!Take
  <2>3. QED
    BY <2>1, <2>2 DEF Contract!Next
<1>5. ASSUME NEW k \in Calls, Apply(k) \/ ApplyFails(k) PROVE [Contract!Next]_Contract!vars
  <2>1. call[k].pc = "apply" /\ UNCHANGED rowVars
    BY <1>5 DEF Apply, ApplyFails, At
  <2>2. sent' = sent \/ sent' = [sent EXCEPT ![call[k].revision] = @ + 1]
    BY <1>5 DEF Apply, ApplyFails
  <2>3. QED
    BY <1>1, <2>1, <2>2, SendRefines
<1>6. ASSUME NEW k \in Calls, Complete(k) \/ CompleteFails(k) \/ Block(k) \/ BlockFails(k)
      PROVE  [Contract!Next]_Contract!vars
  <2>1. CASE UNCHANGED rowVars
    BY <1>1, <1>6, <2>1 DEF Complete, CompleteFails, Block, BlockFails
  <2>2. CASE (Complete(k) \/ CompleteFails(k)) /\ Finishable(call[k].revision)
             /\ FinishRow(call[k].revision, "developed")
    BY <2>2, FinishRefines DEF Complete, CompleteFails, At
  <2>3. CASE (Block(k) \/ BlockFails(k)) /\ Finishable(call[k].revision)
             /\ FinishRow(call[k].revision, "blocked")
    BY <2>3, FinishRefines DEF Block, BlockFails, At
  <2>4. QED
    BY <1>6, <2>1, <2>2, <2>3 DEF Complete, CompleteFails, Block, BlockFails
<1>7. QED
  BY <1>2, <1>3, <1>4, <1>5, <1>6 DEF Next, Serve

\* The claims, leases and row locks implement DevelopmentTasks: a task is taken
\* by one turn, and sent and finished by that turn only.
THEOREM Refinement == Spec => ImplementsContract
<1>1. Init => Contract!Init
  BY DEF Init, Contract!Init
<1>2. Inv /\ [Next]_vars => [Contract!Next]_Contract!vars
  BY StepRefines
<1>3. QED
  BY <1>1, <1>2, Invariance, PTL DEF Spec, ImplementsContract, Contract!Spec
=============================================================================
