---------------------------- MODULE Governance ----------------------------
(***************************************************************************)
(* The human-governed page store: pages, their revisions, objections and   *)
(* step definitions, and the database transactions that change them.       *)
(*                                                                         *)
(* Saving, approving and applying an assistant change set each run in one  *)
(* SERIALIZABLE transaction of PostgreSQL.  Its first statement takes the  *)
(* snapshot every later statement reads; SELECT ... FOR UPDATE then locks  *)
(* each page row it is about to change and fails when another transaction  *)
(* has changed the row since the snapshot.  The writes become visible      *)
(* together, at commit.  Objections are written by READ COMMITTED          *)
(* transactions, which the snapshot of a running approval does not see.    *)
(***************************************************************************)
EXTENDS Integers, FiniteSets

CONSTANTS
  Pages,        \* the slugs a page may be created under (page = its slug)
  NoPage,       \* NULL parent
  Clients,      \* the requests that may be in the database at once
  Objections,   \* bound: the objections that may be raised
  Definitions,  \* the step definitions a scenario may use
  MaxNumber     \* bound: the revisions a page may reach

ASSUME GovernanceAssumption ==
  /\ NoPage \notin Pages
  /\ MaxNumber \in Nat \ {0}

Kinds   == {"concept", "feature", "scenario"}
Numbers == 1 .. MaxNumber
Pointer == 0 .. MaxNumber          \* a revision number of the page, 0 for NULL
Revs    == Pages \X Numbers

VARIABLES
  kind, parent,       \* pages.kind ("none": no such page), pages.parent_id
  count,              \* how many revisions the page has: max(revisions.number)
  draft, approved,    \* pages.latest_draft_revision_id, approved_revision_id
  status,             \* revisions.status, "none" for a number not in use
  base,               \* revisions.base_revision_id
  approvedAt,         \* the revisions whose approved_at is set
  steps,              \* the step definitions each revision uses
  vetted,             \* the step definitions whose approved_at is set
  developments,       \* the revisions with a row in scenario_developments
  against, resolved,  \* the page of each objection, the objections resolved
  tx                  \* the transaction each client has open

pageVars      == <<kind, parent, count, draft, approved>>
revisionVars  == <<status, base, approvedAt, steps>>
objectionVars == <<against, resolved>>
vars == <<pageVars, revisionVars, vetted, developments, objectionVars, tx>>

Existing == {p \in Pages : kind[p] # "none"}
Open     == {o \in Objections : against[o] # NoPage /\ o \notin resolved}

(***************************************************************************)
(* Transactions.  plan[p] is the revision of p the request names (the one  *)
(* to approve, or the base of the one to save), 0 for a page it leaves     *)
(* alone; snap is the part of the database the transaction reads.          *)
(***************************************************************************)
NoPlan == [p \in Pages |-> 0]

Snapshot == [count |-> count, draft |-> draft, approved |-> approved,
             exists |-> Existing, open |-> Open]

EmptySnapshot == [count |-> NoPlan, draft |-> NoPlan, approved |-> NoPlan,
                  exists |-> {}, open |-> {}]

Idle == [op |-> "idle", plan |-> NoPlan, locked |-> {}, snap |-> EmptySnapshot]

Planned(t) == {p \in Pages : t.plan[p] # 0}

\* Mutant: the row is read without FOR UPDATE.
LockedByNobody(p) == FALSE

Locked(p) == \E c \in Clients : p \in tx[c].locked

\* The revision a save must be based on: the draft, else the approved one.
CurrentIn(snap, p) == IF snap.draft[p] # 0 THEN snap.draft[p] ELSE snap.approved[p]

Begin(c, op, plan) ==
  /\ tx[c] = Idle
  /\ tx' = [tx EXCEPT ![c] = [op |-> op, plan |-> plan, locked |-> {}, snap |-> Snapshot]]
  /\ UNCHANGED <<pageVars, revisionVars, vetted, developments, objectionVars>>

BeginSave(c, p, b) ==
  /\ b \in 1 .. count[p]
  /\ Begin(c, "save", [NoPlan EXCEPT ![p] = b])

BeginApprove(c, p, n) ==
  /\ n \in 1 .. count[p]
  /\ Begin(c, "approve", [NoPlan EXCEPT ![p] = n])

BeginChangeSet(c, plan) ==
  /\ \A p \in Pages : plan[p] <= count[p]
  /\ Begin(c, "changeset", plan)

(***************************************************************************)
(* SELECT ... FOR UPDATE on page p and the checks that follow it.          *)
(***************************************************************************)
\* Mutant: the row is locked without the serialization failure.
RowUnchangedOrNot(snap, p) == TRUE

RowUnchanged(snap, p) == snap.draft[p] = draft[p] /\ snap.approved[p] = approved[p]

\* Mutants: one of the three checks of an approval is missing.
MayApproveAny(snap, p, n) ==
  /\ kind[p] = "scenario" => snap.approved[parent[p]] # 0
  /\ \A o \in snap.open : against[o] # p

MayApproveOrphan(snap, p, n) ==
  snap.draft[p] = n /\ \A o \in snap.open : against[o] # p

MayApproveContested(snap, p, n) ==
  snap.draft[p] = n /\ (kind[p] = "scenario" => snap.approved[parent[p]] # 0)

MayApprove(snap, p, n) ==
  /\ snap.draft[p] = n
  /\ kind[p] = "scenario" => snap.approved[parent[p]] # 0
  /\ \A o \in snap.open : against[o] # p

MayRevise(snap, p, b) ==
  /\ CurrentIn(snap, p) = b
  /\ snap.count[p] < MaxNumber

LockPage(c, p) ==
  /\ p \in Planned(tx[c]) \ tx[c].locked
  /\ ~Locked(p)
  /\ RowUnchanged(tx[c].snap, p)
  /\ IF tx[c].op = "approve" THEN MayApprove(tx[c].snap, p, tx[c].plan[p])
                             ELSE MayRevise(tx[c].snap, p, tx[c].plan[p])
  /\ tx' = [tx EXCEPT ![c].locked = @ \union {p}]
  /\ UNCHANGED <<pageVars, revisionVars, vetted, developments, objectionVars>>

\* A conflict, a failed check, a serialization failure, a deadlock victim, a
\* lost connection or a crash of the server: nothing of the request remains.
Rollback(c) ==
  /\ tx[c].op # "idle"
  /\ tx' = [tx EXCEPT ![c] = Idle]
  /\ UNCHANGED <<pageVars, revisionVars, vetted, developments, objectionVars>>

Commit(c) ==
  /\ tx[c].op # "idle"
  /\ tx[c].locked = Planned(tx[c])
  /\ tx' = [tx EXCEPT ![c] = Idle]

(***************************************************************************)
(* The writes of a transaction, from what it read in its snapshot: one new *)
(* draft for every page of Revised, superseding the draft it replaces.     *)
(***************************************************************************)
\* Mutant: numbers with a gap.
NextNumberSkips(snap, p) == snap.count[p] + 2

NextNumber(snap, p) == snap.count[p] + 1

ScenarioSteps(k) == IF k = "scenario" THEN SUBSET Definitions \ {{}} ELSE {{}}

SaveDrafts(snap, plan, Revised, content) ==
  LET Added(r) == r[1] \in Revised /\ r[2] = NextNumber(snap, r[1]) IN
  /\ count' = [p \in Pages |-> IF p \in Revised THEN NextNumber(snap, p) ELSE count[p]]
  /\ draft' = [p \in Pages |-> IF p \in Revised THEN NextNumber(snap, p) ELSE draft[p]]
  /\ status' = [r \in Revs |->
       IF Added(r) THEN "draft"
       ELSE IF r[1] \in Revised /\ r[2] = snap.draft[r[1]] /\ status[r] = "draft"
            THEN "superseded" ELSE status[r]]
  /\ base' = [r \in Revs |-> IF Added(r) THEN plan[r[1]] ELSE base[r]]
  /\ steps' = [r \in Revs |-> IF Added(r) THEN content[r[1]] ELSE steps[r]]
  /\ UNCHANGED <<approved, approvedAt, vetted, developments, objectionVars>>

CommitSave(c) ==
  /\ tx[c].op = "save"
  /\ Commit(c)
  /\ \E content \in [Planned(tx[c]) -> SUBSET Definitions] :
       /\ \A p \in Planned(tx[c]) : content[p] \in ScenarioSteps(kind[p])
       /\ SaveDrafts(tx[c].snap, tx[c].plan, Planned(tx[c]), content)
  /\ UNCHANGED <<kind, parent>>

(***************************************************************************)
(* New pages: New are their slugs, k and q their kinds and parents.  Only  *)
(* a scenario has a parent, which is a feature the transaction can see,    *)
(* and every new feature comes with a scenario.                            *)
(***************************************************************************)
ParentsVisible(New, k, q, visible) ==
  \A p \in New :
    IF k[p] = "scenario"
    THEN \/ q[p] \in New /\ k[q[p]] = "feature"
         \/ q[p] \in visible /\ kind[q[p]] = "feature"
    ELSE q[p] = NoPage

\* Mutant: a feature may come without a scenario.
ValidBatchOfAny(New, k, q, visible) ==
  New \subseteq Pages \ Existing /\ ParentsVisible(New, k, q, visible)

ValidBatch(New, k, q, visible) ==
  /\ New \subseteq Pages \ Existing
  /\ ParentsVisible(New, k, q, visible)
  /\ \A f \in New : k[f] = "feature" =>
       \E s \in New : k[s] = "scenario" /\ q[s] = f

InsertPages(New, k, q) ==
  /\ kind'   = [p \in Pages |-> IF p \in New THEN k[p] ELSE kind[p]]
  /\ parent' = [p \in Pages |-> IF p \in New THEN q[p] ELSE parent[p]]

\* POST /pages: a concept, a scenario, or a feature with its first scenario.
CreatePage(New, k, q) ==
  /\ ValidBatch(New, k, q, Existing)
  /\ \/ \E p \in New : New = {p}
     \/ \E f, s \in New : New = {f, s} /\ k[f] = "feature" /\ q[s] = f
  /\ InsertPages(New, k, q)
  /\ \E content \in [New -> SUBSET Definitions] :
       /\ \A p \in New : content[p] \in ScenarioSteps(k[p])
       /\ SaveDrafts(Snapshot, NoPlan, New, content)
  /\ UNCHANGED tx

CommitChangeSet(c, New, k, q) ==
  /\ tx[c].op = "changeset"
  /\ Commit(c)
  /\ ValidBatch(New, k, q, tx[c].snap.exists)
  /\ Planned(tx[c]) \union New # {}
  /\ InsertPages(New, k, q)
  /\ \E content \in [Planned(tx[c]) \union New -> SUBSET Definitions] :
       /\ \A p \in Planned(tx[c]) : content[p] \in ScenarioSteps(kind[p])
       /\ \A p \in New : content[p] \in ScenarioSteps(k[p])
       /\ SaveDrafts(tx[c].snap, tx[c].plan, Planned(tx[c]) \union New, content)

\* Mutant: the scenario is queued, its step definitions are not marked.
QueueOnly(p, n) ==
  /\ developments' = IF kind[p] = "scenario" THEN developments \union {<<p, n>>} ELSE developments
  /\ UNCHANGED vetted

VetAndQueue(p, n) ==
  IF kind[p] = "scenario"
  THEN /\ vetted' = vetted \union steps[<<p, n>>]
       /\ developments' = developments \union {<<p, n>>}
  ELSE UNCHANGED <<vetted, developments>>

CommitApprove(c, p) ==
  LET n   == tx[c].plan[p]
      old == tx[c].snap.approved[p]
  IN
  /\ tx[c].op = "approve"
  /\ Commit(c)
  /\ p \in tx[c].locked
  /\ status' = [r \in Revs |-> IF r = <<p, n>> THEN "approved"
                               ELSE IF r = <<p, old>> THEN "superseded" ELSE status[r]]
  /\ approvedAt' = approvedAt \union {<<p, n>>}
  /\ approved' = [approved EXCEPT ![p] = n]
  /\ draft' = [draft EXCEPT ![p] = 0]
  /\ VetAndQueue(p, n)
  /\ UNCHANGED <<kind, parent, count, base, steps, objectionVars>>

(***************************************************************************)
(* Objections.  Inserting one takes a KEY SHARE lock on the page through   *)
(* its foreign key, so it waits for a transaction that has the row FOR     *)
(* UPDATE, but it does not change the row.                                 *)
(***************************************************************************)
AddObjection(o, p) ==
  /\ against[o] = NoPage
  /\ count[p] # 0
  /\ ~Locked(p)
  /\ against' = [against EXCEPT ![o] = p]
  /\ UNCHANGED <<pageVars, revisionVars, vetted, developments, resolved, tx>>

ResolveObjection(o) ==
  /\ o \in Open
  /\ resolved' = resolved \union {o}
  /\ UNCHANGED <<pageVars, revisionVars, vetted, developments, against, tx>>

Init ==
  /\ kind = [p \in Pages |-> "none"]
  /\ parent = [p \in Pages |-> NoPage]
  /\ count = NoPlan /\ draft = NoPlan /\ approved = NoPlan
  /\ status = [r \in Revs |-> "none"]
  /\ base = [r \in Revs |-> 0]
  /\ steps = [r \in Revs |-> {}]
  /\ approvedAt = {} /\ vetted = {} /\ developments = {}
  /\ against = [o \in Objections |-> NoPage]
  /\ resolved = {}
  /\ tx = [c \in Clients |-> Idle]

Next ==
  \/ \E New \in SUBSET (Pages \ Existing) :
       \E k \in [New -> Kinds], q \in [New -> Pages \union {NoPage}] :
         \/ CreatePage(New, k, q)
         \/ \E c \in Clients : CommitChangeSet(c, New, k, q)
  \/ \E c \in Clients :
       \/ \E p \in Pages, n \in Numbers : BeginSave(c, p, n) \/ BeginApprove(c, p, n)
       \/ \E plan \in [Pages -> Pointer] : BeginChangeSet(c, plan)
       \/ \E p \in Pages : LockPage(c, p) \/ CommitApprove(c, p)
       \/ CommitSave(c)
       \/ Rollback(c)
  \/ \E o \in Objections :
       \/ \E p \in Pages : AddObjection(o, p)
       \/ ResolveObjection(o)

Spec == Init /\ [][Next]_vars

-----------------------------------------------------------------------------
PointerMap == [Pages -> Pointer]

Transaction ==
  [op : {"idle", "save", "approve", "changeset"}, plan : PointerMap, locked : SUBSET Pages,
   snap : [count : PointerMap, draft : PointerMap, approved : PointerMap,
           exists : SUBSET Pages, open : SUBSET Objections]]

TypeOK ==
  /\ kind \in [Pages -> Kinds \union {"none"}]
  /\ parent \in [Pages -> Pages \union {NoPage}]
  /\ count \in PointerMap /\ draft \in PointerMap /\ approved \in PointerMap
  /\ status \in [Revs -> {"none", "draft", "approved", "superseded"}]
  /\ base \in [Revs -> Pointer]
  /\ steps \in [Revs -> SUBSET Definitions]
  /\ approvedAt \subseteq Revs /\ developments \subseteq Revs
  /\ vetted \subseteq Definitions
  /\ against \in [Objections -> Pages \union {NoPage}]
  /\ resolved \subseteq Objections
  /\ tx \in [Clients -> Transaction]

\* The pointers of the pages row and the statuses of the revisions rows, which
\* different statements write, tell the same story: one draft and one approved
\* revision at most, the ones the page points at, and none beyond the last.
PointersMatchStatuses ==
  \A p \in Pages, n \in Numbers :
    /\ status[<<p, n>>] = "none"     <=> n > count[p]
    /\ status[<<p, n>>] = "draft"    <=> n = draft[p]
    /\ status[<<p, n>>] = "approved" <=> n = approved[p]

\* No lost update: the revisions of a page are one chain, each saved on top of
\* the one before it, however many editors and assistants save at once.
LinearHistory ==
  \A p \in Pages : \A n \in 1 .. count[p] : base[<<p, n>>] = n - 1

\* A scenario has an approved revision only under a feature that has one.
ApprovedUnderApprovedFeature ==
  \A p \in Pages : kind[p] = "scenario" /\ approved[p] # 0 =>
    kind[parent[p]] = "feature" /\ approved[parent[p]] # 0

\* No request leaves a feature behind without any scenario.
FeatureHasScenario ==
  \A f \in Pages : kind[f] = "feature" =>
    \E s \in Pages : kind[s] = "scenario" /\ parent[s] = f

\* Development has a row for every scenario revision that was ever approved and
\* for no other, and a step definition is offered as approved exactly when such
\* a revision uses it, also after the revision has been superseded.
ApprovalOutputs ==
  /\ developments = {r \in approvedAt : kind[r[1]] = "scenario"}
  /\ vetted = UNION {steps[r] : r \in approvedAt}
  /\ \A p \in Pages, n \in Numbers :
       /\ status[<<p, n>>] \in {"none", "draft"} => <<p, n>> \notin approvedAt
       /\ status[<<p, n>>] = "approved" => <<p, n>> \in approvedAt

\* The last revision of a page is the one to work on: its draft if there is
\* one, else its approved revision.
LastIsCurrent ==
  \A p \in Pages : CurrentIn(Snapshot, p) = count[p]

\* What a transaction read before it got its locks still holds while it has
\* them: a locked row is as in the snapshot, the revision the request named is
\* still the one to save on or to approve, its feature is still approved, and
\* no other transaction has the row.
LockedRowsAreFresh ==
  \A c \in Clients : \A p \in tx[c].locked :
    /\ tx[c].snap.count[p] = count[p]
    /\ tx[c].snap.draft[p] = draft[p] /\ tx[c].snap.approved[p] = approved[p]
    /\ tx[c].op = "approve" =>
         /\ tx[c].plan[p] = draft[p]
         /\ kind[p] = "scenario" => approved[parent[p]] # 0
    /\ tx[c].op # "approve" => tx[c].plan[p] = count[p] /\ count[p] < MaxNumber
    /\ \A d \in Clients \ {c} : p \notin tx[d].locked

\* What a reader was shown as approved is never withdrawn, only replaced by a
\* later revision, and a superseded revision never comes back.
ApprovalIsForward ==
  [][\A p \in Pages :
       /\ approved'[p] >= approved[p]
       /\ \A n \in Numbers :
            /\ status[<<p, n>>] = "superseded" => status'[<<p, n>>] = "superseded"
            /\ status[<<p, n>>] = "approved" => status'[<<p, n>>] # "draft"]_vars

\* An objection that was there when the approval began stops it, unless it was
\* resolved since.
ObjectionsSeenBlock ==
  [][\A c \in Clients, p \in Pages :
       tx[c].op = "approve" /\ p \in tx[c].locked /\ approved'[p] # approved[p] =>
         \A o \in Open : against[o] = p => o \notin tx[c].snap.open]_vars

\* README.md:18 "Unresolved objections block approval": no page is approved
\* while an objection to it is recorded and unresolved.
UnresolvedObjectionsBlockApproval ==
  [][\A p \in Pages : approved'[p] # approved[p] =>
       \A o \in Open : against[o] # p]_vars

(***************************************************************************)
(* The transactions implement single atomic steps.                         *)
(***************************************************************************)
Lifecycle == INSTANCE PageLifecycle WITH latest <- count, queue <- developments

ImplementsLifecycle == Lifecycle!Spec
=============================================================================
