--------------------------- MODULE PageLifecycle ---------------------------
(***************************************************************************)
(* What the human-governed page store promises, with every operation a     *)
(* single step: a page is a linear history of numbered revisions of which  *)
(* the last is the one being worked on, and an approval moves the page's   *)
(* approved revision to that last one.  A scenario is approved only under  *)
(* an approved feature, and each approved scenario revision is queued for  *)
(* development.  Governance.tla implements this with snapshot transactions *)
(* and row locks.                                                          *)
(***************************************************************************)
EXTENDS Integers

CONSTANTS
  Pages,      \* the slugs a page may be created under
  NoPage,     \* the parent of a page that has none, not in Pages
  MaxNumber   \* bound: the revisions a page may reach

Kinds == {"concept", "feature", "scenario"}

VARIABLES
  kind,       \* the kind of each page, "none" for a slug not in use
  parent,     \* the feature of a scenario
  latest,     \* the number of the last revision of each page
  approved,   \* the number of its approved revision, 0 when it has none
  queue       \* the scenario revisions handed to development

vars == <<kind, parent, latest, approved, queue>>

Existing == {p \in Pages : kind[p] # "none"}

Init ==
  /\ kind     = [p \in Pages |-> "none"]
  /\ parent   = [p \in Pages |-> NoPage]
  /\ latest   = [p \in Pages |-> 0]
  /\ approved = [p \in Pages |-> 0]
  /\ queue    = {}

(***************************************************************************)
(* One request writes a new last revision of every page in Revised and the *)
(* first revision of every page in New, all of them or none.               *)
(***************************************************************************)
Write(Revised, New) ==
  /\ Revised \subseteq Existing
  /\ New \subseteq Pages \ Existing
  /\ Revised \union New # {}
  /\ latest' = [p \in Pages |->
                  IF p \in Revised \union New THEN latest[p] + 1 ELSE latest[p]]
  /\ \A p \in Revised : latest[p] < MaxNumber
  /\ kind' \in [Pages -> Kinds \union {"none"}]
  /\ parent' \in [Pages -> Pages \union {NoPage}]
  /\ \A p \in New : kind'[p] # "none"
  /\ \A p \in Pages \ New : kind'[p] = kind[p] /\ parent'[p] = parent[p]
  /\ \A p \in New : kind'[p] = "scenario" => /\ parent'[p] \in Pages
                                             /\ kind'[parent'[p]] = "feature"
  /\ UNCHANGED <<approved, queue>>

Approve(p) ==
  /\ p \in Existing
  /\ approved[p] # latest[p]
  /\ kind[p] = "scenario" => approved[parent[p]] # 0
  /\ approved' = [approved EXCEPT ![p] = latest[p]]
  /\ queue' = IF kind[p] = "scenario" THEN queue \union {<<p, latest[p]>>} ELSE queue
  /\ UNCHANGED <<kind, parent, latest>>

Next ==
  \/ \E Revised, New \in SUBSET Pages : Write(Revised, New)
  \/ \E p \in Pages : Approve(p)

Spec == Init /\ [][Next]_vars
=============================================================================
