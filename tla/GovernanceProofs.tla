------------------------- MODULE GovernanceProofs -------------------------
(***************************************************************************)
(* Proofs about Governance, for any number of pages, requests, objections  *)
(* and revisions.                                                          *)
(***************************************************************************)
EXTENDS Governance, TLAPS

(***************************************************************************)
(* The inductive invariant: the properties themselves, what snapshots say  *)
(* of the past (SnapshotsLag), and that a page exists exactly when it has  *)
(* a revision and that scenarios hang under features (Hierarchy).          *)
(***************************************************************************)
Hierarchy ==
  /\ \A p \in Pages : kind[p] = "none" <=> count[p] = 0
  /\ \A p \in Pages : kind[p] = "scenario" =>
       parent[p] \in Pages /\ kind[parent[p]] = "feature"

SnapshotsLag ==
  \A c \in Clients :
    /\ tx[c].snap.exists \subseteq Existing
    /\ tx[c].locked \subseteq Planned(tx[c])
    /\ \A p \in Pages :
         /\ tx[c].snap.count[p] <= count[p]
         /\ CurrentIn(tx[c].snap, p) = tx[c].snap.count[p]
         /\ tx[c].snap.approved[p] # 0 => approved[p] # 0

IInv ==
  /\ TypeOK
  /\ PointersMatchStatuses
  /\ LastIsCurrent
  /\ LinearHistory
  /\ Hierarchy
  /\ ApprovedUnderApprovedFeature
  /\ SnapshotsLag
  /\ LockedRowsAreFresh

-----------------------------------------------------------------------------
LEMMA PointerFacts ==
  /\ Pointer = Numbers \union {0}
  /\ 0 \in Pointer /\ 0 \notin Numbers /\ 1 \in Numbers
  /\ Pointer \subseteq Int
  /\ NoPlan \in PointerMap
BY GovernanceAssumption DEF Pointer, Numbers, NoPlan, PointerMap

LEMMA MapFacts ==
  ASSUME NEW f \in PointerMap, NEW p \in Pages
  PROVE  f[p] \in Pointer /\ f[p] \in Int /\ f[p] >= 0 /\ f[p] <= MaxNumber
BY GovernanceAssumption DEF PointerMap, Pointer

LEMMA TransactionFacts ==
  ASSUME NEW t \in Transaction
  PROVE  /\ t.plan \in PointerMap /\ t.locked \subseteq Pages
         /\ t.snap.count \in PointerMap /\ t.snap.draft \in PointerMap
         /\ t.snap.approved \in PointerMap
BY DEF Transaction

LEMMA IdleType == Idle \in Transaction
<1>1. EmptySnapshot \in [count : PointerMap, draft : PointerMap, approved : PointerMap,
                         exists : SUBSET Pages, open : SUBSET Objections]
  BY PointerFacts DEF EmptySnapshot
<1> QED  BY <1>1, PointerFacts DEF Idle, Transaction

LEMMA BeginType ==
  ASSUME TypeOK, NEW c \in Clients, NEW op \in {"save", "approve", "changeset"},
         NEW plan \in PointerMap, Begin(c, op, plan)
  PROVE  TypeOK'
<1>1. Snapshot \in [count : PointerMap, draft : PointerMap, approved : PointerMap,
                    exists : SUBSET Pages, open : SUBSET Objections]
  BY DEF TypeOK, Snapshot, Existing, Open
<1>2. [op |-> op, plan |-> plan, locked |-> {}, snap |-> Snapshot] \in Transaction
  BY <1>1 DEF Transaction
<1>3. tx' \in [Clients -> Transaction]
  BY <1>2 DEF TypeOK, Begin
<1> QED  BY <1>3 DEF TypeOK, Begin, pageVars, revisionVars, objectionVars

LEMMA DraftsType ==
  ASSUME TypeOK, NEW snap, snap.count \in PointerMap, NEW plan \in PointerMap,
         NEW Revised \in SUBSET Pages, NEW content \in [Revised -> SUBSET Definitions],
         \A p \in Revised : snap.count[p] < MaxNumber,
         SaveDrafts(snap, plan, Revised, content)
  PROVE  /\ count' \in PointerMap /\ draft' \in PointerMap
         /\ status' \in [Revs -> {"none", "draft", "approved", "superseded"}]
         /\ base' \in [Revs -> Pointer]
         /\ steps' \in [Revs -> SUBSET Definitions]
<1>1. \A p \in Revised : snap.count[p] + 1 \in Pointer
  BY GovernanceAssumption DEF Pointer, PointerMap
<1>2. count' \in PointerMap /\ draft' \in PointerMap
  BY <1>1 DEF TypeOK, NextNumber, SaveDrafts, PointerMap
<1>3. status' \in [Revs -> {"none", "draft", "approved", "superseded"}]
  BY DEF TypeOK, NextNumber, SaveDrafts
<1>4. \A r \in Revs : r[1] \in Pages
  BY DEF Revs
<1>5. base' \in [Revs -> Pointer]
  BY <1>4 DEF TypeOK, NextNumber, SaveDrafts, PointerMap
<1>6. steps' \in [Revs -> SUBSET Definitions]
  BY <1>4 DEF TypeOK, NextNumber, SaveDrafts
<1> QED  BY <1>2, <1>3, <1>5, <1>6

-----------------------------------------------------------------------------
(***************************************************************************)
(* Steps that change only the transactions.                                *)
(***************************************************************************)
storeVars == <<pageVars, revisionVars, vetted, developments, objectionVars>>

LEMMA InitInv == Init => IInv
<1> SUFFICES ASSUME Init PROVE IInv
  OBVIOUS
<1>1. TypeOK
  BY IdleType, PointerFacts DEF Init, TypeOK, NoPlan, PointerMap, Revs
<1>2. PointersMatchStatuses
  BY PointerFacts DEF Init, PointersMatchStatuses, NoPlan, Numbers, Revs
<1>3. LastIsCurrent
  BY DEF Init, LastIsCurrent, CurrentIn, Snapshot, NoPlan
<1>4. LinearHistory /\ Hierarchy /\ ApprovedUnderApprovedFeature
  BY DEF Init, LinearHistory, Hierarchy, ApprovedUnderApprovedFeature, NoPlan
<1>5. SnapshotsLag /\ LockedRowsAreFresh
  BY DEF Init, SnapshotsLag, LockedRowsAreFresh, Idle, EmptySnapshot, NoPlan, CurrentIn
<1> QED  BY <1>1, <1>2, <1>3, <1>4, <1>5 DEF IInv

\* While the tables stand still, so do the parts of the invariant about them.
LEMMA StoreFrame ==
  ASSUME IInv, UNCHANGED storeVars
  PROVE  /\ PointersMatchStatuses' /\ LastIsCurrent' /\ LinearHistory'
         /\ Hierarchy' /\ ApprovedUnderApprovedFeature'
BY DEF IInv, storeVars, pageVars, revisionVars, objectionVars, PointersMatchStatuses,
       LastIsCurrent, LinearHistory, Hierarchy, ApprovedUnderApprovedFeature,
       CurrentIn, Snapshot

LEMMA BeginInv ==
  ASSUME IInv, NEW c \in Clients, NEW op \in {"save", "approve", "changeset"},
         NEW plan \in PointerMap, Begin(c, op, plan)
  PROVE  IInv'
<1>1. TypeOK'
  BY BeginType DEF IInv
<1>2. UNCHANGED storeVars
  BY DEF Begin, storeVars
<1>3. tx' = [tx EXCEPT ![c] = [op |-> op, plan |-> plan, locked |-> {}, snap |-> Snapshot]]
  BY DEF Begin
<1>4. SnapshotsLag'
  <2> SUFFICES ASSUME NEW d \in Clients
               PROVE  /\ tx'[d].snap.exists \subseteq Existing'
                      /\ tx'[d].locked \subseteq Planned(tx'[d])
                      /\ \A p \in Pages :
                           /\ tx'[d].snap.count[p] <= count'[p]
                           /\ CurrentIn(tx'[d].snap, p) = tx'[d].snap.count[p]
                           /\ tx'[d].snap.approved[p] # 0 => approved'[p] # 0
    BY DEF SnapshotsLag, Planned, CurrentIn, Existing
  <2>1. count' = count /\ approved' = approved /\ kind' = kind
    BY <1>2 DEF storeVars, pageVars
  <2>2. CASE d = c
    <3>1. tx'[d].snap = Snapshot /\ tx'[d].locked = {}
      BY <1>3, <2>2 DEF IInv, TypeOK
    <3>2. \A p \in Pages : count[p] <= count[p]
      BY MapFacts DEF IInv, TypeOK
    <3> QED  BY <2>1, <3>1, <3>2
               DEF IInv, LastIsCurrent, Snapshot, Existing, CurrentIn
  <2>3. CASE d # c
    <3>1. tx'[d] = tx[d]
      BY <1>3, <2>3 DEF IInv, TypeOK
    <3> QED  BY <2>1, <3>1 DEF IInv, SnapshotsLag, Existing, Planned, CurrentIn
  <2> QED  BY <2>2, <2>3
<1>5. LockedRowsAreFresh'
  <2>1. \A d \in Clients : tx'[d].locked # {} => tx'[d] = tx[d] /\ d # c
    BY <1>3 DEF IInv, TypeOK
  <2>2. \A d \in Clients : tx'[d].locked = IF d = c THEN {} ELSE tx[d].locked
    BY <1>3 DEF IInv, TypeOK
  <2> QED  BY <1>2, <2>1, <2>2 DEF IInv, LockedRowsAreFresh, storeVars, pageVars
<1> QED  BY <1>1, <1>2, <1>4, <1>5, StoreFrame DEF IInv

(***************************************************************************)
(* Steps that end transactions: each one is over or is left as it was.     *)
(***************************************************************************)
LEMMA IdleFacts ==
  /\ Idle.locked = {} /\ Idle.op = "idle"
  /\ Idle.snap.exists = {}
  /\ \A p \in Pages : /\ Idle.snap.count[p] = 0
                      /\ Idle.snap.draft[p] = 0
                      /\ Idle.snap.approved[p] = 0
BY DEF Idle, EmptySnapshot, NoPlan

LEMMA SnapshotsStayBehind ==
  ASSUME IInv, TypeOK',
         \A d \in Clients : tx'[d] \in {Idle, tx[d]},
         \A p \in Pages : /\ count'[p] >= count[p]
                          /\ approved[p] # 0 => approved'[p] # 0,
         Existing \subseteq Existing'
  PROVE  SnapshotsLag'
<1> SUFFICES ASSUME NEW d \in Clients
             PROVE  /\ tx'[d].snap.exists \subseteq Existing'
                    /\ tx'[d].locked \subseteq Planned(tx'[d])
                    /\ \A p \in Pages :
                         /\ tx'[d].snap.count[p] <= count'[p]
                         /\ CurrentIn(tx'[d].snap, p) = tx'[d].snap.count[p]
                         /\ tx'[d].snap.approved[p] # 0 => approved'[p] # 0
  BY DEF SnapshotsLag, Planned, CurrentIn, Existing
<1>1. CASE tx'[d] = Idle
  <2>1. \A p \in Pages : count'[p] \in Nat
    BY PointerFacts DEF TypeOK, PointerMap, Pointer
  <2> QED  BY <1>1, <2>1, IdleFacts DEF CurrentIn
<1>2. CASE tx'[d] = tx[d]
  <2>1. \A p \in Pages : count'[p] \in Int /\ count[p] \in Int /\ tx[d].snap.count[p] \in Int
    BY MapFacts, TransactionFacts DEF IInv, TypeOK
  <2> QED  BY <1>2, <2>1 DEF IInv, SnapshotsLag, CurrentIn
<1> QED  BY <1>1, <1>2

LEMMA LockedPagesExist ==
  ASSUME IInv, NEW d \in Clients, NEW p \in tx[d].locked
  PROVE  p \in Existing
<1>1. p \in Pages /\ tx[d].plan[p] # 0
  BY DEF IInv, TypeOK, Transaction, SnapshotsLag, Planned
<1>2. count[p] # 0
  BY <1>1 DEF IInv, LockedRowsAreFresh, LastIsCurrent, CurrentIn, Snapshot
<1> QED  BY <1>1, <1>2 DEF IInv, Hierarchy, Existing

\* A locked row nobody writes stays fresh.
LEMMA LocksStayFresh ==
  ASSUME IInv,
         \A d \in Clients : tx'[d] \in {Idle, tx[d]},
         \A d \in Clients : \A p \in tx'[d].locked :
           /\ tx'[d] = tx[d]
           /\ count'[p] = count[p] /\ draft'[p] = draft[p] /\ approved'[p] = approved[p]
           /\ kind'[p] = kind[p] /\ parent'[p] = parent[p],
         \A p \in Pages : approved[p] # 0 => approved'[p] # 0
  PROVE  LockedRowsAreFresh'
<1> SUFFICES ASSUME NEW d \in Clients, NEW p \in tx'[d].locked
             PROVE  /\ tx'[d].snap.count[p] = count'[p]
                    /\ tx'[d].snap.draft[p] = draft'[p] /\ tx'[d].snap.approved[p] = approved'[p]
                    /\ tx'[d].op = "approve" =>
                         /\ tx'[d].plan[p] = draft'[p]
                         /\ kind'[p] = "scenario" => approved'[parent'[p]] # 0
                    /\ tx'[d].op # "approve" => tx'[d].plan[p] = count'[p] /\ count'[p] < MaxNumber
                    /\ \A e \in Clients \ {d} : p \notin tx'[e].locked
  BY DEF LockedRowsAreFresh
<1>1. tx'[d] = tx[d] /\ p \in tx[d].locked
  OBVIOUS
<1>2. p \in Pages
  BY <1>1 DEF IInv, TypeOK, Transaction
<1>3. kind[p] = "scenario" => parent[p] \in Pages
  BY <1>2 DEF IInv, Hierarchy
<1>4. \A e \in Clients \ {d} : p \notin tx'[e].locked
  BY <1>1, IdleFacts DEF IInv, LockedRowsAreFresh
<1> QED  BY <1>1, <1>3, <1>4 DEF IInv, LockedRowsAreFresh

LEMMA RollbackInv ==
  ASSUME IInv, NEW c \in Clients, Rollback(c)
  PROVE  IInv'
<1>1. UNCHANGED storeVars
  BY DEF Rollback, storeVars
<1>2. tx' = [tx EXCEPT ![c] = Idle]
  BY DEF Rollback
<1>3. TypeOK'
  BY <1>1, <1>2, IdleType DEF IInv, TypeOK, storeVars, pageVars, revisionVars, objectionVars
<1>4. \A d \in Clients : tx'[d] = IF d = c THEN Idle ELSE tx[d]
  BY <1>2 DEF IInv, TypeOK
<1>5. \A p \in Pages : count[p] \in Int
  BY PointerFacts DEF IInv, TypeOK, PointerMap
<1>6. SnapshotsLag'
  BY <1>1, <1>3, <1>4, <1>5, SnapshotsStayBehind DEF storeVars, pageVars, Existing
<1>7. LockedRowsAreFresh'
  BY <1>1, <1>4, IdleFacts, LocksStayFresh DEF storeVars, pageVars
<1> QED  BY <1>1, <1>3, <1>6, <1>7, StoreFrame DEF IInv

\* Taking a lock: the row is as it was in the snapshot, so all it was read for
\* is still so, and stays so as nobody else can lock it.
LEMMA LockInv ==
  ASSUME IInv, NEW c \in Clients, NEW p \in Pages, LockPage(c, p)
  PROVE  IInv'
<1>1. UNCHANGED storeVars
  BY DEF LockPage, storeVars
<1>2. tx' = [tx EXCEPT ![c].locked = @ \union {p}]
  BY DEF LockPage
<1>3. tx[c] \in Transaction
  BY DEF IInv, TypeOK
<1>4. tx'[c] = [tx[c] EXCEPT !.locked = @ \union {p}]
  BY <1>2 DEF IInv, TypeOK
<1>5. \A d \in Clients \ {c} : tx'[d] = tx[d]
  BY <1>2 DEF IInv, TypeOK
<1>6. /\ tx'[c].snap = tx[c].snap /\ tx'[c].plan = tx[c].plan /\ tx'[c].op = tx[c].op
      /\ tx'[c].locked = tx[c].locked \union {p} /\ tx'[c] \in Transaction
  BY <1>3, <1>4 DEF Transaction
<1>7. TypeOK'
  <2>1. tx' \in [Clients -> Transaction]
    BY <1>2, <1>4, <1>6 DEF IInv, TypeOK
  <2> QED  BY <1>1, <2>1 DEF IInv, TypeOK, storeVars, pageVars, revisionVars, objectionVars
<1>8. SnapshotsLag'
  <2> SUFFICES ASSUME NEW d \in Clients
               PROVE  /\ tx'[d].snap.exists \subseteq Existing
                      /\ tx'[d].locked \subseteq Planned(tx'[d])
                      /\ \A r \in Pages :
                           /\ tx'[d].snap.count[r] <= count[r]
                           /\ CurrentIn(tx'[d].snap, r) = tx'[d].snap.count[r]
                           /\ tx'[d].snap.approved[r] # 0 => approved[r] # 0
    BY <1>1 DEF SnapshotsLag, Planned, CurrentIn, Existing, storeVars, pageVars
  <2>1. CASE d = c
    BY <1>6, <2>1 DEF IInv, SnapshotsLag, CurrentIn, LockPage, Planned
  <2>2. CASE d # c
    BY <1>5, <2>2 DEF IInv, SnapshotsLag, CurrentIn
  <2> QED  BY <2>1, <2>2
<1>9. /\ tx[c].snap.count[p] = count[p]
      /\ tx[c].snap.draft[p] = draft[p] /\ tx[c].snap.approved[p] = approved[p]
  BY DEF LockPage, RowUnchanged, IInv, SnapshotsLag, LastIsCurrent, CurrentIn, Snapshot
<1>10. /\ tx[c].op = "approve" => /\ tx[c].plan[p] = draft[p]
                                  /\ kind[p] = "scenario" => approved[parent[p]] # 0
       /\ tx[c].op # "approve" => tx[c].plan[p] = count[p] /\ count[p] < MaxNumber
  BY <1>9 DEF LockPage, MayApprove, MayRevise, IInv, SnapshotsLag, Hierarchy
<1>11. \A d \in Clients : p \notin tx[d].locked
  BY DEF LockPage, Locked
<1>12. LockedRowsAreFresh'
  BY <1>1, <1>5, <1>6, <1>9, <1>10, <1>11
     DEF IInv, LockedRowsAreFresh, storeVars, pageVars
<1> QED  BY <1>1, <1>7, <1>8, <1>12, StoreFrame DEF IInv

-----------------------------------------------------------------------------
(***************************************************************************)
(* Saving drafts from a snapshot that is still right about the pages saved.*)
(***************************************************************************)
Fresh(snap, plan, Revised) ==
  \A p \in Revised : /\ snap.count[p] = count[p] /\ snap.draft[p] = draft[p]
                     /\ plan[p] = count[p] /\ count[p] < MaxNumber

\* The new draft continues the chain and replaces the old one in the tables.
LEMMA DraftsKeepRevisions ==
  ASSUME IInv, NEW snap, NEW plan, NEW Revised \in SUBSET Pages, NEW content,
         Fresh(snap, plan, Revised), SaveDrafts(snap, plan, Revised, content)
  PROVE  PointersMatchStatuses' /\ LastIsCurrent' /\ LinearHistory'
<1>1. \A p \in Pages : /\ count[p] \in Int /\ 0 <= count[p] /\ count[p] <= MaxNumber
                       /\ draft[p] \in Int /\ 0 <= draft[p]
                       /\ approved[p] \in Int /\ 0 <= approved[p]
  BY MapFacts DEF IInv, TypeOK
<1>2. \A p \in Pages : /\ count'[p] = IF p \in Revised THEN count[p] + 1 ELSE count[p]
                       /\ draft'[p] = IF p \in Revised THEN count[p] + 1 ELSE draft[p]
                       /\ approved'[p] = approved[p]
  BY DEF NextNumber, SaveDrafts, Fresh
<1>3. \A p \in Pages, n \in Numbers :
        /\ <<p, n>> \in Revs
        /\ status'[<<p, n>>] = IF p \in Revised /\ n = count[p] + 1 THEN "draft"
                               ELSE IF p \in Revised /\ n = draft[p] /\ status[<<p, n>>] = "draft"
                                    THEN "superseded" ELSE status[<<p, n>>]
        /\ base'[<<p, n>>] = IF p \in Revised /\ n = count[p] + 1 THEN count[p] ELSE base[<<p, n>>]
  BY DEF NextNumber, SaveDrafts, Fresh, Revs
<1>4. \A p \in Pages : draft[p] <= count[p] /\ approved[p] <= count[p]
  <2> TAKE p \in Pages
  <2>1. \A n \in Numbers : n > count[p] => n # draft[p] /\ n # approved[p]
    BY DEF IInv, PointersMatchStatuses
  <2>2. draft[p] \in Numbers \union {0} /\ approved[p] \in Numbers \union {0}
    BY MapFacts, PointerFacts DEF IInv, TypeOK
  <2> QED  BY <1>1, <2>1, <2>2
<1>5. PointersMatchStatuses'
  <2> SUFFICES ASSUME NEW p \in Pages, NEW n \in Numbers
               PROVE  /\ status'[<<p, n>>] = "none"     <=> n > count'[p]
                      /\ status'[<<p, n>>] = "draft"    <=> n = draft'[p]
                      /\ status'[<<p, n>>] = "approved" <=> n = approved'[p]
    BY DEF PointersMatchStatuses
  <2>1. /\ status[<<p, n>>] = "none"     <=> n > count[p]
        /\ status[<<p, n>>] = "draft"    <=> n = draft[p]
        /\ status[<<p, n>>] = "approved" <=> n = approved[p]
    BY DEF IInv, PointersMatchStatuses
  <2>2. n \in Int
    BY PointerFacts DEF Numbers
  <2> QED  BY <1>1, <1>2, <1>3, <1>4, <2>1, <2>2
<1>6. LastIsCurrent'
  BY <1>1, <1>2 DEF IInv, LastIsCurrent, CurrentIn, Snapshot
<1>7. LinearHistory'
  <2> SUFFICES ASSUME NEW p \in Pages, NEW n \in 1 .. count'[p]
               PROVE  base'[<<p, n>>] = n - 1
    BY DEF LinearHistory
  <2>1. n \in Numbers /\ count[p] \in Int /\ n \in Int
    BY <1>1, <1>2, GovernanceAssumption DEF Numbers, Fresh
  <2>2. CASE p \in Revised /\ n = count[p] + 1
    BY <1>3, <2>1, <2>2
  <2>3. CASE ~(p \in Revised /\ n = count[p] + 1)
    <3>1. n \in 1 .. count[p]
      BY <1>2, <2>1, <2>3
    <3> QED  BY <1>3, <2>1, <2>3, <3>1 DEF IInv, LinearHistory
  <2> QED  BY <2>2, <2>3
<1> QED  BY <1>5, <1>6, <1>7

\* New pages do not disturb the hierarchy of the pages that were there.
LEMMA BatchKeepsHierarchy ==
  ASSUME IInv, NEW New, NEW k, NEW q, NEW visible, visible \subseteq Existing,
         NEW snap, NEW plan, NEW Revised \in SUBSET Pages, NEW content,
         Fresh(snap, plan, Revised), SaveDrafts(snap, plan, Revised, content),
         k \in [New -> Kinds], q \in [New -> Pages \union {NoPage}],
         ValidBatch(New, k, q, visible), InsertPages(New, k, q),
         New \subseteq Revised, Revised \ New \subseteq Existing
  PROVE  /\ Hierarchy' /\ ApprovedUnderApprovedFeature'
         /\ kind' \in [Pages -> Kinds \union {"none"}]
         /\ parent' \in [Pages -> Pages \union {NoPage}]
         /\ Existing \subseteq Existing'
         /\ \A p \in Existing : kind'[p] = kind[p] /\ parent'[p] = parent[p]
<1>1. New \subseteq Pages \ Existing
  BY DEF ParentsVisible, ValidBatch
<1>2. \A p \in Pages : /\ kind'[p] = IF p \in New THEN k[p] ELSE kind[p]
                       /\ parent'[p] = IF p \in New THEN q[p] ELSE parent[p]
  BY DEF InsertPages
<1>3. /\ kind' \in [Pages -> Kinds \union {"none"}]
      /\ parent' \in [Pages -> Pages \union {NoPage}]
  BY DEF InsertPages, IInv, TypeOK
<1>4. \A p \in Existing : p \in Pages /\ kind'[p] = kind[p] /\ parent'[p] = parent[p]
  BY <1>1, <1>2 DEF Existing
<1>5. Existing \subseteq Existing'
  BY <1>4 DEF Existing
<1>6. \A p \in Pages : /\ count[p] \in Int /\ 0 <= count[p]
                       /\ count'[p] = IF p \in Revised THEN count[p] + 1 ELSE count[p]
  BY MapFacts DEF IInv, TypeOK, NextNumber, SaveDrafts, Fresh
<1>7. \A p \in Pages : kind'[p] = "none" <=> count'[p] = 0
  BY <1>1, <1>2, <1>6 DEF IInv, Hierarchy, Existing, Kinds
<1>8. \A p \in Pages : kind'[p] = "scenario" =>
        parent'[p] \in Pages /\ kind'[parent'[p]] = "feature"
  <2> SUFFICES ASSUME NEW p \in Pages, kind'[p] = "scenario"
               PROVE  parent'[p] \in Pages /\ kind'[parent'[p]] = "feature"
    OBVIOUS
  <2>1. CASE p \in New
    <3>1. \/ q[p] \in New /\ k[q[p]] = "feature"
          \/ q[p] \in Existing /\ kind[q[p]] = "feature"
      BY <1>2, <2>1 DEF ParentsVisible, ValidBatch
    <3> QED  BY <1>1, <1>2, <1>4, <2>1, <3>1
  <2>2. CASE p \notin New
    <3>1. kind[p] = "scenario" /\ parent'[p] = parent[p]
      BY <1>2, <2>2
    <3>2. parent[p] \in Existing /\ kind[parent[p]] = "feature"
      BY <3>1 DEF IInv, Hierarchy, Existing
    <3> QED  BY <1>4, <3>1, <3>2
  <2> QED  BY <2>1, <2>2
<1>9. ApprovedUnderApprovedFeature'
  <2> SUFFICES ASSUME NEW p \in Pages, kind'[p] = "scenario", approved[p] # 0
               PROVE  kind'[parent'[p]] = "feature" /\ approved[parent'[p]] # 0
    BY DEF ApprovedUnderApprovedFeature, NextNumber, SaveDrafts
  <2>1. p \in Existing
    <3>1. count[p] # 0
      BY DEF IInv, LastIsCurrent, CurrentIn, Snapshot
    <3> QED  BY <3>1 DEF IInv, Hierarchy, Existing
  <2>2. kind[p] = "scenario" /\ parent'[p] = parent[p]
    BY <1>4, <2>1
  <2> QED  BY <1>8, <2>2 DEF IInv, ApprovedUnderApprovedFeature
<1> QED  BY <1>3, <1>4, <1>5, <1>7, <1>8, <1>9 DEF Hierarchy

LEMMA CreatePageInv ==
  ASSUME IInv, NEW New, NEW k \in [New -> Kinds], NEW q \in [New -> Pages \union {NoPage}],
         CreatePage(New, k, q)
  PROVE  IInv'
<1>1. PICK content \in [New -> SUBSET Definitions] : SaveDrafts(Snapshot, NoPlan, New, content)
  BY DEF CreatePage
<1>2. New \subseteq Pages \ Existing /\ New \in SUBSET Pages
  BY DEF CreatePage, ValidBatch, Existing
<1>3. Fresh(Snapshot, NoPlan, New)
  BY <1>2, GovernanceAssumption DEF Fresh, Snapshot, NoPlan, IInv, Hierarchy, Existing
<1>4. PointersMatchStatuses' /\ LastIsCurrent' /\ LinearHistory'
  BY <1>1, <1>2, <1>3, DraftsKeepRevisions
<1>5. /\ Hierarchy' /\ ApprovedUnderApprovedFeature'
      /\ kind' \in [Pages -> Kinds \union {"none"}]
      /\ parent' \in [Pages -> Pages \union {NoPage}]
      /\ Existing \subseteq Existing'
      /\ \A p \in Existing : kind'[p] = kind[p] /\ parent'[p] = parent[p]
  <2>1. Existing \subseteq Existing /\ New \subseteq New /\ New \ New \subseteq Existing
    OBVIOUS
  <2>2. ValidBatch(New, k, q, Existing) /\ InsertPages(New, k, q)
    BY DEF CreatePage
  <2> QED  BY <1>1, <1>2, <1>3, <2>1, <2>2, BatchKeepsHierarchy
<1>6. TypeOK'
  <2>1. Snapshot.count \in PointerMap /\ \A p \in New : Snapshot.count[p] < MaxNumber
    BY <1>3 DEF Fresh, Snapshot, IInv, TypeOK
  <2>2. /\ count' \in PointerMap /\ draft' \in PointerMap
        /\ status' \in [Revs -> {"none", "draft", "approved", "superseded"}]
        /\ base' \in [Revs -> Pointer]
        /\ steps' \in [Revs -> SUBSET Definitions]
    BY <1>1, <1>2, <2>1, PointerFacts, DraftsType DEF IInv
  <2> QED  BY <1>1, <1>5, <2>2 DEF IInv, TypeOK, NextNumber, SaveDrafts, objectionVars, CreatePage
<1>7. UNCHANGED <<tx, approved>>
  BY <1>1 DEF CreatePage, NextNumber, SaveDrafts
<1>8. \A p \in Pages : /\ count[p] \in Int /\ count'[p] = IF p \in New THEN count[p] + 1 ELSE count[p]
                       /\ p \notin New => draft'[p] = draft[p]
  BY <1>1, MapFacts DEF NextNumber, SaveDrafts, Snapshot, IInv, TypeOK
<1>9. SnapshotsLag'
  BY <1>5, <1>6, <1>7, <1>8, SnapshotsStayBehind
<1>10. LockedRowsAreFresh'
  <2>1. \A d \in Clients : \A p \in tx[d].locked : p \in Existing
    BY LockedPagesExist
  <2> QED  BY <1>2, <1>5, <1>7, <1>8, <2>1, LocksStayFresh DEF Existing
<1> QED  BY <1>4, <1>5, <1>6, <1>9, <1>10 DEF IInv

(***************************************************************************)
(* A transaction of saves at its commit: every page it saves or creates is *)
(* as in its snapshot, and nobody else has a lock on any of them.          *)
(***************************************************************************)
LEMMA CommitIsFresh ==
  ASSUME IInv, NEW c \in Clients, Commit(c), tx[c].op # "approve",
         NEW New, New \subseteq Pages \ Existing
  PROVE  /\ Fresh(tx[c].snap, tx[c].plan, Planned(tx[c]) \union New)
         /\ Planned(tx[c]) \subseteq Existing
         /\ \A d \in Clients \ {c} : \A p \in tx[d].locked :
              p \in Existing /\ p \notin Planned(tx[c]) \union New
<1>1. Planned(tx[c]) = tx[c].locked
  BY DEF Commit
<1>2. Planned(tx[c]) \subseteq Existing
  BY <1>1, LockedPagesExist
<1>3. \A d \in Clients \ {c} : \A p \in tx[d].locked :
        p \in Existing /\ p \notin Planned(tx[c]) \union New
  BY <1>1, LockedPagesExist DEF IInv, LockedRowsAreFresh
<1>4. \A p \in Planned(tx[c]) : /\ tx[c].snap.count[p] = count[p]
                                /\ tx[c].snap.draft[p] = draft[p]
                                /\ tx[c].plan[p] = count[p] /\ count[p] < MaxNumber
  BY <1>1 DEF IInv, LockedRowsAreFresh
<1>5. \A p \in New : /\ tx[c].snap.count[p] = count[p] /\ tx[c].snap.draft[p] = draft[p]
                     /\ tx[c].plan[p] = count[p] /\ count[p] < MaxNumber
  <2> TAKE p \in New
  <2>1. p \in Pages /\ count[p] = 0 /\ p \notin Planned(tx[c])
    BY <1>2 DEF IInv, Hierarchy, Existing
  <2>2. tx[c].snap.count[p] = 0
    BY <2>1, MapFacts, TransactionFacts DEF IInv, TypeOK, SnapshotsLag
  <2>3. tx[c].snap.draft[p] = 0 /\ draft[p] = 0
    BY <2>1, <2>2 DEF IInv, SnapshotsLag, LastIsCurrent, CurrentIn, Snapshot
  <2> QED  BY <2>1, <2>2, <2>3, GovernanceAssumption DEF Planned
<1> QED  BY <1>2, <1>3, <1>4, <1>5 DEF Fresh

LEMMA CommitEndsTransaction ==
  ASSUME IInv, NEW c \in Clients, Commit(c)
  PROVE  \A d \in Clients : tx'[d] = IF d = c THEN Idle ELSE tx[d]
BY DEF Commit, IInv, TypeOK

\* The part of the invariant a commit of saves shares with every other one.
LEMMA CommitDraftsInv ==
  ASSUME IInv, NEW c \in Clients, Commit(c), tx[c].op # "approve",
         NEW New \in SUBSET (Pages \ Existing),
         NEW content \in [Planned(tx[c]) \union New -> SUBSET Definitions],
         SaveDrafts(tx[c].snap, tx[c].plan, Planned(tx[c]) \union New, content),
         Hierarchy', ApprovedUnderApprovedFeature',
         kind' \in [Pages -> Kinds \union {"none"}],
         parent' \in [Pages -> Pages \union {NoPage}],
         Existing \subseteq Existing',
         \A p \in Existing : kind'[p] = kind[p] /\ parent'[p] = parent[p]
  PROVE  IInv'
<1> DEFINE W == Planned(tx[c]) \union New
<1>1. /\ W \in SUBSET Pages
      /\ Fresh(tx[c].snap, tx[c].plan, W)
      /\ \A d \in Clients \ {c} : \A p \in tx[d].locked : p \in Existing /\ p \notin W
  BY CommitIsFresh DEF Planned, Existing
<1>2. PointersMatchStatuses' /\ LastIsCurrent' /\ LinearHistory'
  BY <1>1, DraftsKeepRevisions
<1>3. \A d \in Clients : tx'[d] = IF d = c THEN Idle ELSE tx[d]
  BY CommitEndsTransaction
<1>4. TypeOK'
  <2>1. tx[c].snap.count \in PointerMap /\ tx[c].plan \in PointerMap
    BY TransactionFacts DEF IInv, TypeOK
  <2>2. \A p \in W : tx[c].snap.count[p] < MaxNumber
    BY <1>1 DEF Fresh
  <2>3. /\ count' \in PointerMap /\ draft' \in PointerMap
        /\ status' \in [Revs -> {"none", "draft", "approved", "superseded"}]
        /\ base' \in [Revs -> Pointer]
        /\ steps' \in [Revs -> SUBSET Definitions]
    BY <1>1, <2>1, <2>2, DraftsType DEF IInv
  <2>4. tx' \in [Clients -> Transaction]
    BY IdleType DEF Commit, IInv, TypeOK
  <2> QED  BY <2>3, <2>4 DEF IInv, TypeOK, NextNumber, SaveDrafts, objectionVars
<1>5. \A p \in Pages : /\ count[p] \in Int /\ count'[p] = IF p \in W THEN count[p] + 1 ELSE count[p]
                       /\ p \notin W => draft'[p] = draft[p]
                       /\ approved'[p] = approved[p]
  BY <1>1, MapFacts DEF NextNumber, SaveDrafts, Fresh, IInv, TypeOK
<1>6. SnapshotsLag'
  BY <1>3, <1>4, <1>5, SnapshotsStayBehind
<1>7. LockedRowsAreFresh'
  <2>1. \A d \in Clients : \A p \in tx'[d].locked :
          /\ tx'[d] = tx[d] /\ p \in Existing /\ p \in Pages /\ p \notin W
    BY <1>1, <1>3, IdleFacts DEF Existing
  <2> QED  BY <1>3, <1>5, <2>1, LocksStayFresh
<1> QED  BY <1>2, <1>4, <1>6, <1>7 DEF IInv

LEMMA CommitSaveInv ==
  ASSUME IInv, NEW c \in Clients, CommitSave(c)
  PROVE  IInv'
<1>1. PICK content \in [Planned(tx[c]) -> SUBSET Definitions] :
        SaveDrafts(tx[c].snap, tx[c].plan, Planned(tx[c]), content)
  BY DEF CommitSave
<1>2. {} \subseteq Pages \ Existing /\ {} \in SUBSET (Pages \ Existing)
  OBVIOUS
<1>3. Commit(c) /\ tx[c].op # "approve" /\ UNCHANGED <<kind, parent>>
  BY DEF CommitSave
<1>4. Fresh(tx[c].snap, tx[c].plan, Planned(tx[c])) /\ Planned(tx[c]) \subseteq Existing
  <2>1. Fresh(tx[c].snap, tx[c].plan, Planned(tx[c]) \union {}) /\ Planned(tx[c]) \subseteq Existing
    BY <1>2, <1>3, CommitIsFresh
  <2> QED  BY <2>1 DEF Fresh
<1>5. Hierarchy' /\ ApprovedUnderApprovedFeature'
  <2>1. \A p \in Pages : /\ count[p] \in Int /\ 0 <= count[p] /\ approved'[p] = approved[p]
                         /\ count'[p] = IF p \in Planned(tx[c]) THEN count[p] + 1 ELSE count[p]
    BY <1>1, <1>4, MapFacts DEF IInv, TypeOK, NextNumber, SaveDrafts, Fresh
  <2>2. Hierarchy'
    BY <1>3, <1>4, <2>1 DEF IInv, Hierarchy, Existing
  <2>3. ApprovedUnderApprovedFeature'
    BY <1>3, <2>1 DEF IInv, Hierarchy, ApprovedUnderApprovedFeature
  <2> QED  BY <2>2, <2>3
<1>6. /\ kind' \in [Pages -> Kinds \union {"none"}]
      /\ parent' \in [Pages -> Pages \union {NoPage}]
      /\ Existing \subseteq Existing'
      /\ \A p \in Existing : kind'[p] = kind[p] /\ parent'[p] = parent[p]
  BY <1>3 DEF IInv, TypeOK, Existing
<1>7. Planned(tx[c]) \union {} = Planned(tx[c])
  OBVIOUS
<1>8. /\ content \in [Planned(tx[c]) \union {} -> SUBSET Definitions]
      /\ SaveDrafts(tx[c].snap, tx[c].plan, Planned(tx[c]) \union {}, content)
  BY <1>1, <1>7
<1> QED  BY <1>2, <1>3, <1>5, <1>6, <1>8, CommitDraftsInv

LEMMA CommitChangeSetInv ==
  ASSUME IInv, NEW c \in Clients, NEW New, NEW k \in [New -> Kinds],
         NEW q \in [New -> Pages \union {NoPage}], CommitChangeSet(c, New, k, q)
  PROVE  IInv'
<1> DEFINE W == Planned(tx[c]) \union New
<1>1. PICK content \in [W -> SUBSET Definitions] :
        SaveDrafts(tx[c].snap, tx[c].plan, W, content)
  BY DEF CommitChangeSet
<1>2. /\ Commit(c) /\ tx[c].op # "approve" /\ InsertPages(New, k, q)
      /\ ValidBatch(New, k, q, tx[c].snap.exists)
  BY DEF CommitChangeSet
<1>3. New \subseteq Pages \ Existing /\ tx[c].snap.exists \subseteq Existing
  BY <1>2 DEF ParentsVisible, ValidBatch, IInv, SnapshotsLag
<1>4. Fresh(tx[c].snap, tx[c].plan, W) /\ Planned(tx[c]) \subseteq Existing
  BY <1>2, <1>3, CommitIsFresh
<1>5. W \in SUBSET Pages /\ New \subseteq W /\ W \ New \subseteq Existing
  BY <1>3, <1>4 DEF Planned
<1>6. /\ Hierarchy' /\ ApprovedUnderApprovedFeature'
      /\ kind' \in [Pages -> Kinds \union {"none"}]
      /\ parent' \in [Pages -> Pages \union {NoPage}]
      /\ Existing \subseteq Existing'
      /\ \A p \in Existing : kind'[p] = kind[p] /\ parent'[p] = parent[p]
  BY <1>1, <1>2, <1>3, <1>4, <1>5, BatchKeepsHierarchy
<1> QED  BY <1>1, <1>2, <1>3, <1>6, CommitDraftsInv

LEMMA ObjectionInv ==
  ASSUME IInv, NEW o \in Objections, ResolveObjection(o) \/ \E p \in Pages : AddObjection(o, p)
  PROVE  IInv'
<1>1. /\ UNCHANGED <<pageVars, revisionVars, vetted, developments, tx>>
      /\ against' \in [Objections -> Pages \union {NoPage}]
      /\ resolved' \subseteq Objections
  BY DEF ResolveObjection, AddObjection, Open, IInv, TypeOK
<1>2. TypeOK'
  BY <1>1 DEF IInv, TypeOK, pageVars, revisionVars
<1>3. /\ PointersMatchStatuses' /\ LastIsCurrent' /\ LinearHistory'
      /\ Hierarchy' /\ ApprovedUnderApprovedFeature'
  BY <1>1 DEF IInv, pageVars, revisionVars, PointersMatchStatuses, LastIsCurrent, LinearHistory,
              Hierarchy, ApprovedUnderApprovedFeature, CurrentIn, Snapshot
<1>4. SnapshotsLag' /\ LockedRowsAreFresh'
  BY <1>1 DEF IInv, pageVars, SnapshotsLag, LockedRowsAreFresh, Existing, Planned, CurrentIn
<1> QED  BY <1>2, <1>3, <1>4 DEF IInv

(***************************************************************************)
(* An approval at its commit.                                              *)
(***************************************************************************)
LEMMA ApproveFacts ==
  ASSUME IInv, NEW c \in Clients, NEW p \in Pages, CommitApprove(c, p)
  PROVE  /\ tx[c].plan[p] = draft[p] /\ tx[c].snap.approved[p] = approved[p]
         /\ draft[p] \in Numbers /\ draft[p] = count[p] /\ approved[p] < draft[p]
         /\ p \in Existing
         /\ kind[p] = "scenario" => approved[parent[p]] # 0
         /\ approved' = [approved EXCEPT ![p] = draft[p]] /\ draft' = [draft EXCEPT ![p] = 0]
         /\ \A r \in Revs : status'[r] = IF r = <<p, draft[p]>> THEN "approved"
                                         ELSE IF r = <<p, approved[p]>> THEN "superseded" ELSE status[r]
         /\ UNCHANGED <<kind, parent, count, base, steps, objectionVars>>
<1>1. /\ tx[c].plan[p] = draft[p] /\ tx[c].snap.approved[p] = approved[p]
      /\ kind[p] = "scenario" => approved[parent[p]] # 0
  BY DEF VetAndQueue, CommitApprove, IInv, LockedRowsAreFresh
<1>2. p \in Existing
  BY LockedPagesExist DEF VetAndQueue, CommitApprove
<1>3. draft[p] # 0
  BY <1>1 DEF VetAndQueue, CommitApprove, IInv, SnapshotsLag, Planned
<1>4. draft[p] \in Numbers /\ draft[p] = count[p] /\ approved[p] \in Numbers \union {0}
  BY <1>3, MapFacts, PointerFacts DEF IInv, TypeOK, LastIsCurrent, CurrentIn, Snapshot
<1>5. approved[p] < draft[p]
  <2>1. approved[p] \in Numbers => ~(approved[p] > count[p]) /\ approved[p] # draft[p]
    BY DEF IInv, PointersMatchStatuses
  <2> QED  BY <1>4, <2>1 DEF Numbers
<1> QED  BY <1>1, <1>2, <1>4, <1>5 DEF VetAndQueue, CommitApprove

LEMMA CommitApproveInv ==
  ASSUME IInv, NEW c \in Clients, NEW p \in Pages, CommitApprove(c, p)
  PROVE  IInv'
<1>1. /\ draft[p] \in Numbers /\ draft[p] = count[p] /\ approved[p] < draft[p]
      /\ p \in Existing
      /\ kind[p] = "scenario" => approved[parent[p]] # 0
      /\ approved' = [approved EXCEPT ![p] = draft[p]] /\ draft' = [draft EXCEPT ![p] = 0]
      /\ \A r \in Revs : status'[r] = IF r = <<p, draft[p]>> THEN "approved"
                                      ELSE IF r = <<p, approved[p]>> THEN "superseded" ELSE status[r]
      /\ UNCHANGED <<kind, parent, count, base, steps, objectionVars>>
  BY ApproveFacts
<1>2. \A r \in Pages : /\ approved'[r] = IF r = p THEN draft[p] ELSE approved[r]
                       /\ draft'[r] = IF r = p THEN 0 ELSE draft[r]
                       /\ count[r] \in Int /\ draft[r] \in Int /\ approved[r] \in Int
  BY <1>1, MapFacts DEF IInv, TypeOK, PointerMap
<1>3. \A d \in Clients : tx'[d] = IF d = c THEN Idle ELSE tx[d]
  BY CommitEndsTransaction DEF VetAndQueue, CommitApprove
<1>4. TypeOK'
  <2>1. approved' \in PointerMap /\ draft' \in PointerMap
    BY <1>1, PointerFacts DEF IInv, TypeOK, PointerMap
  <2>2. status' \in [Revs -> {"none", "draft", "approved", "superseded"}]
    BY DEF VetAndQueue, CommitApprove, IInv, TypeOK
  <2>3. <<p, tx[c].plan[p]>> \in Revs
    BY <1>1, ApproveFacts DEF Revs
  <2>4. tx' \in [Clients -> Transaction]
    BY IdleType DEF CommitApprove, Commit, IInv, TypeOK
  <2>5. /\ approvedAt' \subseteq Revs /\ developments' \subseteq Revs
        /\ vetted' \subseteq Definitions
    BY <2>3 DEF VetAndQueue, CommitApprove, IInv, TypeOK
  <2> QED  BY <1>1, <2>1, <2>2, <2>4, <2>5 DEF IInv, TypeOK, objectionVars
<1>5. PointersMatchStatuses'
  <2> SUFFICES ASSUME NEW r \in Pages, NEW n \in Numbers
               PROVE  /\ status'[<<r, n>>] = "none"     <=> n > count[r]
                      /\ status'[<<r, n>>] = "draft"    <=> n = draft'[r]
                      /\ status'[<<r, n>>] = "approved" <=> n = approved'[r]
    <3>1. count' = count
      BY <1>1
    <3> QED  BY <3>1 DEF PointersMatchStatuses
  <2>1. /\ status[<<r, n>>] = "none"     <=> n > count[r]
        /\ status[<<r, n>>] = "draft"    <=> n = draft[r]
        /\ status[<<r, n>>] = "approved" <=> n = approved[r]
    BY DEF IInv, PointersMatchStatuses
  <2>2. status'[<<r, n>>] = IF r = p /\ n = draft[p] THEN "approved"
                            ELSE IF r = p /\ n = approved[p] THEN "superseded"
                            ELSE status[<<r, n>>]
    BY <1>1 DEF Revs
  <2>3. n \in Int /\ n # 0
    BY PointerFacts DEF Numbers
  <2> QED  BY <1>1, <1>2, <2>1, <2>2, <2>3
<1>6. LastIsCurrent'
  BY <1>1, <1>2 DEF IInv, LastIsCurrent, CurrentIn, Snapshot
<1>7. LinearHistory' /\ Hierarchy'
  BY <1>1 DEF IInv, LinearHistory, Hierarchy
<1>8. ApprovedUnderApprovedFeature'
  <2>1. \A r \in Pages : kind[r] = "scenario" =>
          parent[r] \in Pages /\ kind[parent[r]] = "feature"
    BY DEF IInv, Hierarchy
  <2>2. draft[p] # 0
    BY <1>1, PointerFacts
  <2> QED  BY <1>1, <1>2, <2>1, <2>2 DEF IInv, ApprovedUnderApprovedFeature
<1>9. \A r \in Pages : count'[r] >= count[r] /\ (approved[r] # 0 => approved'[r] # 0)
  BY <1>1, <1>2, PointerFacts
<1>10. SnapshotsLag'
  BY <1>1, <1>3, <1>4, <1>9, SnapshotsStayBehind DEF Existing
<1>11. LockedRowsAreFresh'
  <2>1. \A d \in Clients : \A r \in tx'[d].locked :
          /\ tx'[d] = tx[d] /\ r \in Existing /\ r \in Pages /\ r # p
    BY <1>3, IdleFacts, LockedPagesExist DEF Existing, CommitApprove, IInv, LockedRowsAreFresh
  <2> QED  BY <1>1, <1>2, <1>3, <1>9, <2>1, LocksStayFresh
<1> QED  BY <1>4, <1>5, <1>6, <1>7, <1>8, <1>10, <1>11 DEF IInv

-----------------------------------------------------------------------------
LEMMA Inductive == IInv /\ [Next]_vars => IInv'
<1> SUFFICES ASSUME IInv, [Next]_vars PROVE IInv'
  OBVIOUS
<1>1. ASSUME NEW New \in SUBSET (Pages \ Existing), NEW k \in [New -> Kinds],
             NEW q \in [New -> Pages \union {NoPage}], CreatePage(New, k, q)
      PROVE  IInv'
  BY <1>1, CreatePageInv
<1>2. ASSUME NEW New \in SUBSET (Pages \ Existing), NEW k \in [New -> Kinds],
             NEW q \in [New -> Pages \union {NoPage}], NEW c \in Clients,
             CommitChangeSet(c, New, k, q)
      PROVE  IInv'
  BY <1>2, CommitChangeSetInv
<1>3. ASSUME NEW c \in Clients, NEW p \in Pages, NEW n \in Numbers,
             BeginSave(c, p, n) \/ BeginApprove(c, p, n)
      PROVE  IInv'
  <2>1. [NoPlan EXCEPT ![p] = n] \in PointerMap
    BY PointerFacts DEF PointerMap
  <2> QED  BY <1>3, <2>1, BeginInv DEF BeginSave, BeginApprove
<1>4. ASSUME NEW c \in Clients, NEW plan \in [Pages -> Pointer], BeginChangeSet(c, plan)
      PROVE  IInv'
  BY <1>4, BeginInv DEF BeginChangeSet, PointerMap
<1>5. ASSUME NEW c \in Clients, NEW p \in Pages, LockPage(c, p) \/ CommitApprove(c, p)
      PROVE  IInv'
  BY <1>5, LockInv, CommitApproveInv
<1>6. ASSUME NEW c \in Clients, CommitSave(c) \/ Rollback(c)
      PROVE  IInv'
  BY <1>6, CommitSaveInv, RollbackInv
<1>7. ASSUME NEW o \in Objections,
             ResolveObjection(o) \/ \E p \in Pages : AddObjection(o, p)
      PROVE  IInv'
  BY <1>7, ObjectionInv
<1>8. CASE UNCHANGED vars
  <2>1. UNCHANGED storeVars /\ UNCHANGED tx
    BY <1>8 DEF vars, storeVars
  <2>2. TypeOK'
    BY <2>1 DEF IInv, TypeOK, storeVars, pageVars, revisionVars, objectionVars
  <2>3. SnapshotsLag' /\ LockedRowsAreFresh'
    BY <2>1 DEF IInv, storeVars, pageVars, SnapshotsLag, LockedRowsAreFresh, Existing, Planned, CurrentIn
  <2> QED  BY <2>1, <2>2, <2>3, StoreFrame DEF IInv
<1> QED  BY <1>1, <1>2, <1>3, <1>4, <1>5, <1>6, <1>7, <1>8 DEF Next

THEOREM Invariance == Spec => []IInv
<1> QED  BY InitInv, Inductive, PTL DEF Spec

\* Every variable keeps its type, in particular no revision number overflows.
THEOREM TypeCorrect == Spec => []TypeOK
<1>1. IInv => TypeOK
  BY DEF IInv
<1> QED  BY <1>1, Invariance, PTL

\* SaveRevision, ApplyAIChangeSet and ApproveRevision keep the page's pointers
\* and its revisions' statuses in step, so a page has at most one draft and at
\* most one approved revision.
THEOREM PointersCorrect == Spec => []PointersMatchStatuses
<1>1. IInv => PointersMatchStatuses
  BY DEF IInv
<1> QED  BY <1>1, Invariance, PTL

\* Concurrent saves of SaveRevision and ApplyAIChangeSet never lose an update.
THEOREM NoLostUpdate == Spec => []LinearHistory
<1>1. IInv => LinearHistory
  BY DEF IInv
<1> QED  BY <1>1, Invariance, PTL

\* ApproveRevision, which reads the feature's row from its snapshot without a
\* lock, never leaves an approved scenario under a feature that is not approved.
THEOREM HierarchyCorrect == Spec => []ApprovedUnderApprovedFeature
<1>1. IInv => ApprovedUnderApprovedFeature
  BY DEF IInv
<1> QED  BY <1>1, Invariance, PTL

\* What a request read before it locked a page is still true while it holds the
\* lock, although the locks come one after another.
THEOREM LocksCorrect == Spec => []LockedRowsAreFresh
<1>1. IInv => LockedRowsAreFresh
  BY DEF IInv
<1> QED  BY <1>1, Invariance, PTL

-----------------------------------------------------------------------------
(***************************************************************************)
(* The transactions implement the atomic steps of PageLifecycle.           *)
(***************************************************************************)
abstractVars == <<kind, parent, count, approved, developments>>

LEMMA DraftsRefineWrite ==
  ASSUME IInv, NEW snap, NEW plan, NEW Revised \in SUBSET Existing,
         NEW New \in SUBSET (Pages \ Existing), NEW content,
         Fresh(snap, plan, Revised \union New),
         SaveDrafts(snap, plan, Revised \union New, content),
         kind' \in [Pages -> Kinds \union {"none"}],
         parent' \in [Pages -> Pages \union {NoPage}],
         \A p \in Pages \ New : kind'[p] = kind[p] /\ parent'[p] = parent[p],
         \A p \in New : kind'[p] # "none",
         Hierarchy'
  PROVE  Lifecycle!Write(Revised, New) \/ UNCHANGED abstractVars
<1> DEFINE W == Revised \union New
<1>1. count' = [p \in Pages |-> IF p \in W THEN count[p] + 1 ELSE count[p]]
  BY DEF NextNumber, SaveDrafts, Fresh
<1>2. UNCHANGED <<approved, developments>>
  BY DEF NextNumber, SaveDrafts
<1>3. CASE W = {}
  <2>1. New = {}
    BY <1>3
  <2>2. kind' = kind /\ parent' = parent
    BY <2>1 DEF IInv, TypeOK
  <2>3. count' = count
    BY <1>1, <1>3 DEF IInv, TypeOK, PointerMap
  <2> QED  BY <1>2, <2>2, <2>3 DEF abstractVars
<1>4. CASE W # {}
  <2>1. Revised \subseteq Lifecycle!Existing /\ New \subseteq Pages \ Lifecycle!Existing
    BY DEF Lifecycle!Existing, Existing
  <2>2. \A p \in Revised : count[p] < MaxNumber
    BY DEF Fresh
  <2>3. \A p \in New : kind'[p] = "scenario" =>
          parent'[p] \in Pages /\ kind'[parent'[p]] = "feature"
    BY DEF Hierarchy, Existing
  <2>4. Lifecycle!Kinds = Kinds
    BY DEF Lifecycle!Kinds, Kinds
  <2> QED  BY <1>1, <1>2, <1>4, <2>1, <2>2, <2>3, <2>4 DEF Lifecycle!Write
<1> QED  BY <1>3, <1>4

LEMMA ApproveRefines ==
  ASSUME IInv, NEW c \in Clients, NEW p \in Pages, CommitApprove(c, p)
  PROVE  Lifecycle!Approve(p)
<1>1. /\ draft[p] = count[p] /\ approved[p] # count[p]
      /\ p \in Existing /\ tx[c].plan[p] = count[p]
      /\ kind[p] = "scenario" => approved[parent[p]] # 0
      /\ approved' = [approved EXCEPT ![p] = count[p]]
      /\ UNCHANGED <<kind, parent, count>>
  <2>1. approved[p] < draft[p] /\ draft[p] = count[p] /\ approved[p] \in Int /\ draft[p] \in Int
    BY ApproveFacts, MapFacts DEF IInv, TypeOK
  <2> QED  BY <2>1, ApproveFacts
<1>2. developments' = IF kind[p] = "scenario"
                      THEN developments \union {<<p, count[p]>>} ELSE developments
  BY <1>1 DEF VetAndQueue, CommitApprove
<1> QED  BY <1>1, <1>2 DEF Lifecycle!Approve, Lifecycle!Existing, Existing

LEMMA StepRefines ==
  ASSUME IInv, IInv', [Next]_vars
  PROVE  [Lifecycle!Next]_abstractVars
<1> USE DEF abstractVars
<1>1. ASSUME NEW New \in SUBSET (Pages \ Existing), NEW k \in [New -> Kinds],
             NEW q \in [New -> Pages \union {NoPage}], CreatePage(New, k, q)
      PROVE  [Lifecycle!Next]_abstractVars
  <2>1. PICK content : SaveDrafts(Snapshot, NoPlan, New, content)
    BY <1>1 DEF CreatePage
  <2>2. Fresh(Snapshot, NoPlan, {} \union New)
    BY GovernanceAssumption DEF Fresh, Snapshot, NoPlan, IInv, Hierarchy, Existing
  <2>3. SaveDrafts(Snapshot, NoPlan, {} \union New, content)
    <3>1. {} \union New = New
      OBVIOUS
    <3> QED  BY <2>1, <3>1
  <2>4. /\ \A p \in Pages \ New : kind'[p] = kind[p] /\ parent'[p] = parent[p]
        /\ \A p \in New : kind'[p] # "none"
    BY <1>1 DEF CreatePage, InsertPages, Kinds
  <2>5. Lifecycle!Write({}, New) \/ UNCHANGED abstractVars
    BY <2>2, <2>3, <2>4, DraftsRefineWrite DEF IInv, TypeOK
  <2> QED  BY <2>5 DEF Lifecycle!Next, Existing
<1>2. ASSUME NEW New \in SUBSET (Pages \ Existing), NEW k \in [New -> Kinds],
             NEW q \in [New -> Pages \union {NoPage}], NEW c \in Clients,
             CommitChangeSet(c, New, k, q)
      PROVE  [Lifecycle!Next]_abstractVars
  <2>1. PICK content :
          SaveDrafts(tx[c].snap, tx[c].plan, Planned(tx[c]) \union New, content)
    BY <1>2 DEF CommitChangeSet
  <2>2. /\ Fresh(tx[c].snap, tx[c].plan, Planned(tx[c]) \union New)
        /\ Planned(tx[c]) \in SUBSET Existing
    BY <1>2, CommitIsFresh DEF CommitChangeSet
  <2>3. /\ \A p \in Pages \ New : kind'[p] = kind[p] /\ parent'[p] = parent[p]
        /\ \A p \in New : kind'[p] # "none"
    BY <1>2 DEF CommitChangeSet, InsertPages, Kinds
  <2>4. Lifecycle!Write(Planned(tx[c]), New) \/ UNCHANGED abstractVars
    BY <2>1, <2>2, <2>3, DraftsRefineWrite DEF IInv, TypeOK
  <2> QED  BY <2>2, <2>4 DEF Lifecycle!Next, Existing
<1>3. ASSUME NEW c \in Clients, CommitSave(c)
      PROVE  [Lifecycle!Next]_abstractVars
  <2>1. PICK content : SaveDrafts(tx[c].snap, tx[c].plan, Planned(tx[c]), content)
    BY <1>3 DEF CommitSave
  <2>2. {} \subseteq Pages \ Existing /\ {} \in SUBSET (Pages \ Existing)
    OBVIOUS
  <2>3. /\ Fresh(tx[c].snap, tx[c].plan, Planned(tx[c]) \union {})
        /\ Planned(tx[c]) \in SUBSET Existing
    BY <1>3, <2>2, CommitIsFresh DEF CommitSave
  <2>4. SaveDrafts(tx[c].snap, tx[c].plan, Planned(tx[c]) \union {}, content)
    <3>1. Planned(tx[c]) \union {} = Planned(tx[c])
      OBVIOUS
    <3> QED  BY <2>1, <3>1
  <2>5. UNCHANGED <<kind, parent>>
    BY <1>3 DEF CommitSave
  <2>6. Lifecycle!Write(Planned(tx[c]), {}) \/ UNCHANGED abstractVars
    BY <2>2, <2>3, <2>4, <2>5, DraftsRefineWrite DEF IInv, TypeOK
  <2> QED  BY <2>3, <2>6 DEF Lifecycle!Next, Existing
<1>4. ASSUME NEW c \in Clients, NEW p \in Pages, CommitApprove(c, p)
      PROVE  [Lifecycle!Next]_abstractVars
  BY <1>4, ApproveRefines DEF Lifecycle!Next
<1>5. ASSUME NEW c \in Clients,
             \/ \E op, plan : Begin(c, op, plan)
             \/ \E p \in Pages : LockPage(c, p)
             \/ Rollback(c)
      PROVE  UNCHANGED abstractVars
  BY <1>5 DEF Begin, LockPage, Rollback, pageVars
<1>6. ASSUME NEW o \in Objections,
             ResolveObjection(o) \/ \E p \in Pages : AddObjection(o, p)
      PROVE  UNCHANGED abstractVars
  BY <1>6 DEF ResolveObjection, AddObjection, pageVars
<1>7. CASE UNCHANGED vars
  BY <1>7 DEF vars, pageVars
<1> QED  BY <1>1, <1>2, <1>3, <1>4, <1>5, <1>6, <1>7
         DEF Next, BeginSave, BeginApprove, BeginChangeSet

\* SaveRevision, CreatePage, ApplyAIChangeSet and ApproveRevision behave as if
\* each were one atomic step on the pages, whatever runs at the same time.
THEOREM Refinement == Spec => ImplementsLifecycle
<1>1. Init => Lifecycle!Init
  BY DEF Init, Lifecycle!Init, NoPlan
<1>2. IInv /\ IInv' /\ [Next]_vars => [Lifecycle!Next]_Lifecycle!vars
  BY StepRefines DEF abstractVars, Lifecycle!vars
<1> QED  BY <1>1, <1>2, Invariance, PTL DEF Spec, ImplementsLifecycle, Lifecycle!Spec

-----------------------------------------------------------------------------
(***************************************************************************)
(* What approvals leave behind: features have scenarios, development has   *)
(* the revisions that were approved, an approval is never withdrawn, and   *)
(* an objection the request could see stops it.                            *)
(***************************************************************************)

(***************************************************************************)
(* A step saves drafts, approves one, or leaves the revisions alone.       *)
(***************************************************************************)
Drafted ==
  \E W \in SUBSET Pages : \E snap, plan, content :
    /\ Fresh(snap, plan, W) /\ SaveDrafts(snap, plan, W, content)
    /\ \A p \in W : content[p] \in ScenarioSteps(kind'[p])

StepsOfScenarios == \A r \in Revs : kind[r[1]] # "scenario" => steps[r] = {}

PagesKept == \A p \in Existing : kind'[p] = kind[p] /\ parent'[p] = parent[p]

NewFeaturesHaveScenario ==
  \A f \in Pages \ Existing : kind'[f] = "feature" =>
    \E s \in Pages : kind'[s] = "scenario" /\ parent'[s] = f

RevisionsKept == UNCHANGED <<approved, status, steps, approvedAt, vetted, developments>>

LEMMA BatchCase ==
  ASSUME NEW New, NEW k, NEW q, NEW visible, ValidBatch(New, k, q, visible), InsertPages(New, k, q)
  PROVE  PagesKept /\ NewFeaturesHaveScenario
<1>1. New \subseteq Pages \ Existing
  BY DEF ValidBatch
<1>2. \A p \in Pages : /\ kind'[p] = IF p \in New THEN k[p] ELSE kind[p]
                       /\ parent'[p] = IF p \in New THEN q[p] ELSE parent[p]
  BY DEF InsertPages
<1>3. PagesKept
  BY <1>1, <1>2 DEF PagesKept, Existing
<1>4. ASSUME NEW f \in Pages \ Existing, kind'[f] = "feature"
      PROVE  \E s \in Pages : kind'[s] = "scenario" /\ parent'[s] = f
  <2>1. f \in New /\ k[f] = "feature"
    BY <1>2, <1>4 DEF Existing
  <2>2. PICK s \in New : k[s] = "scenario" /\ q[s] = f
    BY <2>1 DEF ValidBatch
  <2>3. QED
    BY <1>1, <1>2, <2>2
<1>5. QED
  BY <1>3, <1>4 DEF NewFeaturesHaveScenario

LEMMA SameCase ==
  ASSUME UNCHANGED <<kind, parent>>
  PROVE  PagesKept /\ NewFeaturesHaveScenario
BY DEF PagesKept, NewFeaturesHaveScenario, Existing

LEMMA StepCases ==
  ASSUME IInv, [Next]_vars
  PROVE  /\ PagesKept /\ NewFeaturesHaveScenario
         /\ \/ Drafted
            \/ \E c \in Clients, p \in Pages : CommitApprove(c, p)
            \/ RevisionsKept
<1>1. ASSUME NEW New \in SUBSET (Pages \ Existing), NEW k \in [New -> Kinds],
             NEW q \in [New -> Pages \union {NoPage}], CreatePage(New, k, q)
      PROVE  PagesKept /\ NewFeaturesHaveScenario /\ Drafted
  <2>1. PagesKept /\ NewFeaturesHaveScenario
    BY <1>1, BatchCase DEF CreatePage
  <2>2. PICK content : /\ SaveDrafts(Snapshot, NoPlan, New, content)
                       /\ \A p \in New : content[p] \in ScenarioSteps(k[p])
    BY <1>1 DEF CreatePage
  <2>3. Fresh(Snapshot, NoPlan, New)
    BY GovernanceAssumption DEF Fresh, Snapshot, NoPlan, IInv, Hierarchy, Existing
  <2>4. New \in SUBSET Pages /\ \A p \in New : kind'[p] = k[p]
    BY <1>1 DEF CreatePage, InsertPages
  <2>5. QED
    BY <2>1, <2>2, <2>3, <2>4 DEF Drafted
<1>2. ASSUME NEW New \in SUBSET (Pages \ Existing), NEW k \in [New -> Kinds],
             NEW q \in [New -> Pages \union {NoPage}], NEW c \in Clients,
             CommitChangeSet(c, New, k, q)
      PROVE  PagesKept /\ NewFeaturesHaveScenario /\ Drafted
  <2>1. PagesKept /\ NewFeaturesHaveScenario
    BY <1>2, BatchCase DEF CommitChangeSet
  <2>2. PICK content :
          /\ SaveDrafts(tx[c].snap, tx[c].plan, Planned(tx[c]) \union New, content)
          /\ \A p \in Planned(tx[c]) : content[p] \in ScenarioSteps(kind[p])
          /\ \A p \in New : content[p] \in ScenarioSteps(k[p])
    BY <1>2 DEF CommitChangeSet
  <2>3. /\ Fresh(tx[c].snap, tx[c].plan, Planned(tx[c]) \union New)
        /\ Planned(tx[c]) \subseteq Existing
        /\ Planned(tx[c]) \union New \in SUBSET Pages
    BY <1>2, CommitIsFresh DEF CommitChangeSet, Existing
  <2>4. /\ \A p \in New : kind'[p] = k[p]
        /\ \A p \in Planned(tx[c]) : kind'[p] = kind[p]
    BY <1>2, <2>1, <2>3 DEF CommitChangeSet, InsertPages, PagesKept
  <2>5. \A p \in Planned(tx[c]) \union New : content[p] \in ScenarioSteps(kind'[p])
    BY <2>2, <2>4
  <2>6. QED
    BY <2>1, <2>2, <2>3, <2>5 DEF Drafted
<1>3. ASSUME NEW c \in Clients, CommitSave(c)
      PROVE  PagesKept /\ NewFeaturesHaveScenario /\ Drafted
  <2>1. PagesKept /\ NewFeaturesHaveScenario
    BY <1>3, SameCase DEF CommitSave
  <2>2. PICK content : /\ SaveDrafts(tx[c].snap, tx[c].plan, Planned(tx[c]), content)
                       /\ \A p \in Planned(tx[c]) : content[p] \in ScenarioSteps(kind'[p])
    BY <1>3 DEF CommitSave
  <2>3. Fresh(tx[c].snap, tx[c].plan, Planned(tx[c])) /\ Planned(tx[c]) \in SUBSET Pages
    <3>1. {} \subseteq Pages \ Existing
      OBVIOUS
    <3>2. Fresh(tx[c].snap, tx[c].plan, Planned(tx[c]) \union {})
      BY <1>3, <3>1, CommitIsFresh DEF CommitSave
    <3>3. QED
      BY <3>2 DEF Fresh, Planned
  <2>4. QED
    BY <2>1, <2>2, <2>3 DEF Drafted
<1>4. ASSUME NEW c \in Clients, NEW p \in Pages, CommitApprove(c, p)
      PROVE  PagesKept /\ NewFeaturesHaveScenario
  BY <1>4, SameCase DEF CommitApprove
<1>5. ASSUME UNCHANGED <<pageVars, revisionVars, vetted, developments>>
      PROVE  PagesKept /\ NewFeaturesHaveScenario /\ RevisionsKept
  BY <1>5, SameCase DEF pageVars, revisionVars, RevisionsKept
<1>6. ASSUME NEW c \in Clients,
             \/ \E op, plan : Begin(c, op, plan)
             \/ \E p \in Pages : LockPage(c, p)
             \/ Rollback(c)
      PROVE  UNCHANGED <<pageVars, revisionVars, vetted, developments>>
  BY <1>6 DEF Begin, LockPage, Rollback
<1>7. ASSUME NEW o \in Objections,
             ResolveObjection(o) \/ \E p \in Pages : AddObjection(o, p)
      PROVE  UNCHANGED <<pageVars, revisionVars, vetted, developments>>
  BY <1>7 DEF ResolveObjection, AddObjection
<1>8. CASE UNCHANGED vars
  BY <1>5, <1>8 DEF vars
<1>9. QED
  BY <1>1, <1>2, <1>3, <1>4, <1>5, <1>6, <1>7, <1>8
     DEF Next, BeginSave, BeginApprove, BeginChangeSet

\* Saving makes one new draft of a page, out of an unused number, and supersedes
\* the draft it replaces; nothing else happens to a revision.
LEMMA DraftedFacts ==
  ASSUME IInv, Drafted
  PROVE  /\ UNCHANGED <<approved, approvedAt, vetted, developments>>
         /\ \A r \in Revs :
              /\ \/ status[r] = "none" /\ status'[r] = "draft"
                 \/ status[r] = "draft" /\ status'[r] = "superseded"
                 \/ status'[r] = status[r]
              /\ status[r] # "none" => steps'[r] = steps[r]
              /\ steps'[r] = steps[r] \/ steps'[r] \in ScenarioSteps(kind'[r[1]])
<1>1. PICK W \in SUBSET Pages : \E snap, plan, content :
        /\ Fresh(snap, plan, W) /\ SaveDrafts(snap, plan, W, content)
        /\ \A p \in W : content[p] \in ScenarioSteps(kind'[p])
  BY DEF Drafted
<1>2. PICK snap, plan, content : /\ Fresh(snap, plan, W) /\ SaveDrafts(snap, plan, W, content)
                                 /\ \A p \in W : content[p] \in ScenarioSteps(kind'[p])
  BY <1>1
<1>3. UNCHANGED <<approved, approvedAt, vetted, developments>>
  BY <1>2 DEF SaveDrafts
<1>4. ASSUME NEW r \in Revs
      PROVE  /\ \/ status[r] = "none" /\ status'[r] = "draft"
                \/ status[r] = "draft" /\ status'[r] = "superseded"
                \/ status'[r] = status[r]
             /\ status[r] # "none" => steps'[r] = steps[r]
             /\ steps'[r] = steps[r] \/ steps'[r] \in ScenarioSteps(kind'[r[1]])
  <2>1. r[1] \in Pages /\ r[2] \in Numbers /\ r = <<r[1], r[2]>>
    BY DEF Revs
  <2>2. r[1] \in W /\ r[2] = count[r[1]] + 1 => status[r] = "none"
    <3>1. r[2] > count[r[1]] => status[<<r[1], r[2]>>] = "none"
      BY <2>1 DEF IInv, PointersMatchStatuses
    <3>2. count[r[1]] \in Int
      BY <2>1, MapFacts DEF IInv, TypeOK
    <3>3. QED
      BY <2>1, <3>1, <3>2
  <2>3. /\ status'[r] = IF r[1] \in W /\ r[2] = count[r[1]] + 1 THEN "draft"
                        ELSE IF r[1] \in W /\ r[2] = snap.draft[r[1]] /\ status[r] = "draft"
                             THEN "superseded" ELSE status[r]
        /\ steps'[r] = IF r[1] \in W /\ r[2] = count[r[1]] + 1 THEN content[r[1]] ELSE steps[r]
    BY <1>2 DEF SaveDrafts, NextNumber, Fresh
  <2>4. QED
    BY <1>2, <2>2, <2>3
<1>5. QED
  BY <1>3, <1>4

\* Only scenarios use step definitions.
LEMMA StepsStay ==
  ASSUME IInv, StepsOfScenarios, [Next]_vars
  PROVE  StepsOfScenarios'
<1>1. PagesKept /\ IInv
  BY StepCases
<1>2. SUFFICES ASSUME NEW r \in Revs, kind'[r[1]] # "scenario" PROVE steps'[r] = {}
  BY DEF StepsOfScenarios, Revs
<1>3. r[1] \in Pages /\ kind[r[1]] # "scenario" /\ steps[r] = {}
  <2>1. r[1] \in Pages
    BY <1>2 DEF Revs
  <2>2. kind[r[1]] # "scenario"
    BY <1>1, <1>2, <2>1 DEF PagesKept, Existing
  <2>3. QED
    BY <2>1, <2>2 DEF StepsOfScenarios
<1>4. CASE Drafted
  BY <1>2, <1>3, <1>4, DraftedFacts DEF ScenarioSteps
<1>5. CASE \E c \in Clients, p \in Pages : CommitApprove(c, p)
  BY <1>3, <1>5 DEF CommitApprove
<1>6. CASE RevisionsKept
  BY <1>3, <1>6 DEF RevisionsKept
<1>7. QED
  BY <1>4, <1>5, <1>6, StepCases

(***************************************************************************)
(* The theorems.                                                           *)
(***************************************************************************)
\* CreatePage and ApplyAIChangeSet leave no feature behind without a scenario,
\* whichever of their statements or locks fails.
THEOREM FeaturesHaveScenarios == Spec => []FeatureHasScenario
<1>1. Init => FeatureHasScenario
  BY DEF Init, FeatureHasScenario
<1>2. ASSUME IInv, FeatureHasScenario, [Next]_vars PROVE FeatureHasScenario'
  <2>1. PagesKept /\ NewFeaturesHaveScenario
    BY <1>2, StepCases
  <2>2. ASSUME NEW f \in Existing, kind'[f] = "feature"
        PROVE  \E s \in Pages : kind'[s] = "scenario" /\ parent'[s] = f
    <3>1. f \in Pages /\ kind[f] = "feature"
      BY <2>1, <2>2 DEF PagesKept, Existing
    <3>2. PICK s \in Pages : kind[s] = "scenario" /\ parent[s] = f
      BY <1>2, <3>1 DEF FeatureHasScenario
    <3>3. QED
      BY <2>1, <3>2 DEF PagesKept, Existing
  <2>3. QED
    BY <2>1, <2>2 DEF NewFeaturesHaveScenario, FeatureHasScenario
<1>3. QED
  BY <1>1, <1>2, Invariance, PTL DEF Spec

\* What ApproveRevision shows is never withdrawn, only replaced by a later
\* revision; and what was superseded never comes back.
THEOREM ApprovalsStay == Spec => ApprovalIsForward
<1>1. ASSUME IInv, [Next]_vars, NEW p \in Pages
      PROVE  /\ approved'[p] >= approved[p]
             /\ \A n \in Numbers :
                  /\ status[<<p, n>>] = "superseded" => status'[<<p, n>>] = "superseded"
                  /\ status[<<p, n>>] = "approved" => status'[<<p, n>>] # "draft"
  <2>1. approved[p] \in Int /\ \A n \in Numbers : <<p, n>> \in Revs
    BY <1>1, MapFacts DEF IInv, TypeOK, Revs
  <2>2. CASE Drafted
    BY <1>1, <2>1, <2>2, DraftedFacts
  <2>3. CASE \E c \in Clients, q \in Pages : CommitApprove(c, q)
    <3>1. PICK c \in Clients, q \in Pages : CommitApprove(c, q)
      BY <2>3
    <3>2. /\ draft[q] \in Numbers /\ approved[q] < draft[q]
          /\ approved' = [approved EXCEPT ![q] = draft[q]]
          /\ \A r \in Revs : status'[r] = IF r = <<q, draft[q]>> THEN "approved"
                                          ELSE IF r = <<q, approved[q]>> THEN "superseded"
                                          ELSE status[r]
      BY <1>1, <3>1, ApproveFacts
    <3>3. approved'[p] = IF p = q THEN draft[q] ELSE approved[p]
      BY <1>1, <3>2 DEF IInv, TypeOK, PointerMap
    <3>4. approved'[p] >= approved[p]
      <4>1. draft[q] \in Int
        BY <3>2 DEF Numbers
      <4>2. QED
        BY <2>1, <3>2, <3>3, <4>1
    <3>5. status[<<q, draft[q]>>] = "draft"
      BY <1>1, <3>2 DEF IInv, PointersMatchStatuses
    <3>6. \A n \in Numbers :
            /\ status[<<p, n>>] = "superseded" => status'[<<p, n>>] = "superseded"
            /\ status[<<p, n>>] = "approved" => status'[<<p, n>>] # "draft"
      BY <2>1, <3>2, <3>5
    <3>7. QED
      BY <3>4, <3>6
  <2>4. CASE RevisionsKept
    BY <2>1, <2>4 DEF RevisionsKept
  <2>5. QED
    BY <1>1, <2>2, <2>3, <2>4, StepCases
<1>2. IInv /\ [Next]_vars => [\A p \in Pages :
        /\ approved'[p] >= approved[p]
        /\ \A n \in Numbers :
             /\ status[<<p, n>>] = "superseded" => status'[<<p, n>>] = "superseded"
             /\ status[<<p, n>>] = "approved" => status'[<<p, n>>] # "draft"]_vars
  BY <1>1
<1>3. QED
  BY <1>2, Invariance, PTL DEF Spec, ApprovalIsForward

\* ApproveRevision queues every approved scenario revision once for development
\* and marks exactly the step definitions such revisions use.
THEOREM OutputsCorrect == Spec => []ApprovalOutputs
<1>1. Init => ApprovalOutputs /\ StepsOfScenarios
  BY DEF Init, ApprovalOutputs, StepsOfScenarios, Revs
<1>2. ASSUME IInv, ApprovalOutputs, StepsOfScenarios, [Next]_vars PROVE ApprovalOutputs'
  <2> DEFINE Outputs == /\ developments = {r \in approvedAt : kind[r[1]] = "scenario"}
                        /\ vetted = UNION {steps[r] : r \in approvedAt}
             Consistent == \A r \in Revs :
                             /\ status[r] \in {"none", "draft"} => r \notin approvedAt
                             /\ status[r] = "approved" => r \in approvedAt
  <2>1. Outputs /\ Consistent /\ approvedAt \subseteq Revs
    BY <1>2 DEF ApprovalOutputs, Revs, IInv, TypeOK
  <2>2. \A r \in approvedAt : r[1] \in Existing /\ kind'[r[1]] = kind[r[1]]
    <3>1. \A r \in approvedAt : r \in Revs /\ r = <<r[1], r[2]>> /\ r[1] \in Pages
                                /\ r[2] \in Numbers /\ status[r] # "none"
      BY <2>1 DEF Revs
    <3>2. \A r \in approvedAt : ~(r[2] > count[r[1]])
      BY <1>2, <3>1 DEF IInv, PointersMatchStatuses
    <3>3. \A p \in Pages : kind[p] = "none" => count[p] = 0
      BY <1>2 DEF IInv, Hierarchy
    <3>4. \A n \in Numbers : n > 0
      BY DEF Numbers
    <3>5. \A r \in approvedAt : r[1] \in Existing
      BY <3>1, <3>2, <3>3, <3>4 DEF Existing
    <3>6. PagesKept
      BY <1>2, StepCases
    <3>7. QED
      BY <3>5, <3>6 DEF PagesKept
  <2>3. CASE Drafted
    <3>1. /\ UNCHANGED <<approvedAt, vetted, developments>>
          /\ \A r \in Revs : /\ \/ status[r] = "none" /\ status'[r] = "draft"
                                \/ status[r] = "draft" /\ status'[r] = "superseded"
                                \/ status'[r] = status[r]
                             /\ status[r] # "none" => steps'[r] = steps[r]
      BY <1>2, <2>3, DraftedFacts
    <3>2. Consistent'
      BY <2>1, <3>1 DEF Revs
    <3>3. \A r \in approvedAt : steps'[r] = steps[r]
      BY <2>1, <3>1
    <3>4. Outputs'
      BY <2>1, <2>2, <3>1, <3>3
    <3>5. QED
      BY <3>2, <3>4 DEF ApprovalOutputs, Revs
  <2>4. CASE \E c \in Clients, p \in Pages : CommitApprove(c, p)
    <3>1. PICK c \in Clients, p \in Pages : CommitApprove(c, p)
      BY <2>4
    <3> DEFINE new == <<p, draft[p]>>
    <3>2. /\ tx[c].plan[p] = draft[p] /\ new \in Revs
          /\ \A r \in Revs : status'[r] = IF r = new THEN "approved"
                                          ELSE IF r = <<p, approved[p]>> THEN "superseded"
                                          ELSE status[r]
          /\ UNCHANGED <<kind, steps>>
      BY <1>2, <3>1, ApproveFacts DEF Revs
    <3>3. /\ approvedAt' = approvedAt \union {new}
          /\ IF kind[p] = "scenario"
             THEN /\ vetted' = vetted \union steps[new]
                  /\ developments' = developments \union {new}
             ELSE UNCHANGED <<vetted, developments>>
      BY <3>1, <3>2 DEF CommitApprove, VetAndQueue
    <3>4. Consistent'
      BY <2>1, <3>2, <3>3 DEF Revs
    <3>5. kind[p] # "scenario" => steps[new] = {}
      BY <1>2, <3>2 DEF StepsOfScenarios
    <3>6. vetted' = UNION {steps'[r] : r \in approvedAt'}
      BY <2>1, <3>2, <3>3, <3>5
    <3>7. developments' = {r \in approvedAt' : kind'[r[1]] = "scenario"}
      <4>1. new[1] = p
        OBVIOUS
      <4>2. QED
        BY <2>1, <3>2, <3>3, <4>1
    <3>8. QED
      BY <3>4, <3>6, <3>7 DEF ApprovalOutputs, Revs
  <2>5. CASE RevisionsKept
    <3>1. UNCHANGED <<status, steps, approvedAt, vetted, developments>>
      BY <2>5 DEF RevisionsKept
    <3>2. Outputs' /\ Consistent'
      BY <2>1, <2>2, <3>1 DEF Revs
    <3>3. QED
      BY <3>2 DEF ApprovalOutputs, Revs
  <2>6. QED
    BY <1>2, <2>3, <2>4, <2>5, StepCases
<1>3. QED
  BY <1>1, <1>2, StepsStay, Invariance, PTL DEF Spec

\* ApproveRevision counts the objections of its snapshot: one that was recorded
\* before the approval began stops it, unless it was resolved since.
THEOREM SeenObjectionsStop == Spec => ObjectionsSeenBlock
<1> DEFINE Cleared == \A c \in Clients : \A o \in tx[c].snap.open :
                        /\ against[o] # NoPage
                        /\ tx[c].op = "approve" => \A p \in tx[c].locked : against[o] # p
<1>1. Init => Cleared
  BY DEF Init, Idle, EmptySnapshot
<1>2. ASSUME IInv, Cleared, [Next]_vars PROVE Cleared'
  <2>1. ASSUME UNCHANGED against,
               \A c \in Clients : tx'[c] = tx[c] \/ tx'[c] = Idle
        PROVE  Cleared'
    BY <1>2, <2>1 DEF Idle, EmptySnapshot
  <2>2. ASSUME NEW c \in Clients, NEW op, NEW plan, Begin(c, op, plan) PROVE Cleared'
    <3>1. \A d \in Clients : tx'[d] = IF d = c THEN [op |-> op, plan |-> plan, locked |-> {},
                                                    snap |-> Snapshot] ELSE tx[d]
      BY <1>2, <2>2 DEF Begin, IInv, TypeOK
    <3>2. against' = against /\ \A o \in Snapshot.open : against[o] # NoPage
      BY <2>2 DEF Begin, Snapshot, Open, objectionVars
    <3>3. QED
      BY <1>2, <3>1, <3>2
  <2>3. ASSUME NEW c \in Clients, NEW p \in Pages, LockPage(c, p) PROVE Cleared'
    <3>1. /\ tx' = [tx EXCEPT ![c].locked = @ \union {p}] /\ against' = against
          /\ tx[c].op = "approve" => \A o \in tx[c].snap.open : against[o] # p
      BY <2>3 DEF LockPage, MayApprove, objectionVars
    <3>2. /\ \A d \in Clients \ {c} : tx'[d] = tx[d]
          /\ tx'[c] = [tx[c] EXCEPT !.locked = @ \union {p}] /\ tx[c] \in Transaction
      BY <1>2, <3>1 DEF IInv, TypeOK
    <3>3. /\ tx'[c].locked = tx[c].locked \union {p}
          /\ tx'[c].op = tx[c].op /\ tx'[c].snap = tx[c].snap
      BY <3>2 DEF Transaction
    <3>4. QED
      BY <1>2, <3>1, <3>2, <3>3
  <2>4. ASSUME NEW o \in Objections, NEW p \in Pages, AddObjection(o, p) PROVE Cleared'
    <3>1. /\ tx' = tx /\ against[o] = NoPage /\ against' = [against EXCEPT ![o] = p]
      BY <2>4 DEF AddObjection
    <3>2. against \in [Objections -> Pages \union {NoPage}]
          /\ \A d \in Clients : tx[d].snap.open \subseteq Objections
      BY <1>2 DEF IInv, TypeOK, Transaction
    <3>3. \A d \in Clients : \A u \in tx[d].snap.open : against'[u] = against[u]
      BY <1>2, <3>1, <3>2
    <3>4. QED
      BY <1>2, <3>1, <3>3
  <2>5. ASSUME NEW c \in Clients, Commit(c), UNCHANGED against PROVE Cleared'
    BY <1>2, <2>1, <2>5, CommitEndsTransaction
  <2>6. ASSUME NEW c \in Clients, Rollback(c) PROVE Cleared'
    <3>1. tx' = [tx EXCEPT ![c] = Idle] /\ against' = against
      BY <2>6 DEF Rollback, objectionVars
    <3>2. \A d \in Clients : tx'[d] = tx[d] \/ tx'[d] = Idle
      BY <1>2, <3>1 DEF IInv, TypeOK
    <3>3. QED
      BY <2>1, <3>1, <3>2
  <2>7. ASSUME NEW New, NEW k, NEW q, CreatePage(New, k, q) PROVE Cleared'
    BY <2>1, <2>7 DEF CreatePage, SaveDrafts, objectionVars
  <2>8. ASSUME NEW c \in Clients,
               \/ CommitSave(c)
               \/ \E New, k, q : CommitChangeSet(c, New, k, q)
               \/ \E p \in Pages : CommitApprove(c, p)
        PROVE  Cleared'
    BY <2>5, <2>8 DEF CommitSave, CommitChangeSet, CommitApprove, SaveDrafts, objectionVars
  <2>9. ASSUME NEW o \in Objections, ResolveObjection(o) PROVE Cleared'
    BY <2>1, <2>9 DEF ResolveObjection
  <2>10. CASE UNCHANGED vars
    BY <2>1, <2>10 DEF vars, objectionVars
  <2> HIDE DEF Cleared
  <2>11. QED
    BY <1>2, <2>2, <2>3, <2>4, <2>6, <2>7, <2>8, <2>9, <2>10
       DEF Next, BeginSave, BeginApprove, BeginChangeSet
<1>3. Cleared => [\A c \in Clients, p \in Pages :
        tx[c].op = "approve" /\ p \in tx[c].locked /\ approved'[p] # approved[p] =>
          \A o \in Open : against[o] = p => o \notin tx[c].snap.open]_vars
  OBVIOUS
<1> HIDE DEF Cleared
<1>4. QED
  BY <1>1, <1>2, <1>3, Invariance, PTL DEF Spec, ObjectionsSeenBlock
=============================================================================
