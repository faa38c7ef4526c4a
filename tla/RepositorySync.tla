--------------------------- MODULE RepositorySync ---------------------------
(***************************************************************************)
(* The read-only mirror of a Git repository: the viki-sync worker looks    *)
(* for the newest successful main run on GitHub, downloads its snapshot of *)
(* the business catalogue and posts it to the Viki server, which imports   *)
(* it as the new baseline in one database transaction.                     *)
(*                                                                         *)
(* Each request of a poll sees GitHub, or the server, at another moment.   *)
(* The worker may give up on a request, or restart, while the server still *)
(* works on it; the import itself locks the workspace row.                 *)
(***************************************************************************)
EXTENDS Integers, Sequences, FiniteSets

CONSTANTS
  Commits,      \* the commits that may become the head of main
  Root,         \* the head of main at first
  NoCommit,
  Ahead,        \* <<c, d>>: d is a proper descendant of c
  Ids,          \* the business identities of pages (external_id)
  Catalogue,    \* Catalogue[c]: the entry of each identity at commit c
  NoEntry,      \* the identity is not in the catalogue of the commit
  ForcePush,    \* whether main may move to a commit that is not ahead
  MaxRun,       \* bound: the workflow runs
  MaxAttempt,   \* bound: the attempts of a run
  MaxRerun,     \* bound: the runs that are run again
  MaxRequests   \* bound: the requests the server may work on at once

ASSUME SyncAssumption ==
  /\ Root \in Commits /\ NoCommit \notin Commits
  /\ Ahead \subseteq Commits \X Commits
  /\ \A c \in Commits : <<c, c>> \notin Ahead
  /\ \A c, d, e \in Commits : <<c, d>> \in Ahead /\ <<d, e>> \in Ahead => <<c, e>> \in Ahead
  /\ ForcePush \in BOOLEAN
  /\ MaxRun \in Nat /\ MaxAttempt \in Nat \ {0} /\ MaxRerun \in Nat /\ MaxRequests \in Nat

Slots == 1 .. MaxRequests

VARIABLES
  main,       \* GitHub: the head of the main branch
  pushed,     \* GitHub: the pushed commits whose run has not been created
  runs,       \* GitHub: the runs of verify.yml on main, by ID, and their attempts
  poll,       \* the poll of the worker
  request,    \* the requests of the worker that the server works on
  baseline,   \* workspace_repository_sync.current_snapshot_id
  lastError,  \* workspace_repository_sync.last_error: "" or "error"
  snapshots,  \* repository_snapshots
  kind,       \* repository_pages.kind, "none" for an identity without a page
  archived,   \* repository_pages.archived
  current,    \* repository_pages.current_revision_id: the number of the revision
  revisions,  \* repository_revisions: the business contents of a page, by number
  entries     \* repository_snapshot_entries: <<snapshot, identity, number>>

github    == <<main, pushed, runs>>
catalogue == <<snapshots, kind, archived, current, revisions, entries>>
database  == <<baseline, lastError, catalogue>>
vars      == <<github, poll, request, database>>

\* A snapshot is identified by its run and attempt; run 0 is NULL.
NoSnapshot == [run |-> 0, attempt |-> 0, commit |-> NoCommit]

SameRun(s, t) == s.run = t.run /\ s.attempt = t.attempt
Older(s, t)   == s.run < t.run \/ (s.run = t.run /\ s.attempt < t.attempt)

(***************************************************************************)
(* GitHub: pushes to main, and the runs they start in any order.           *)
(***************************************************************************)
Push(c) ==
  /\ c # main
  /\ ForcePush \/ <<main, c>> \in Ahead
  /\ Cardinality(pushed) + Len(runs) < MaxRun
  /\ main' = c
  /\ pushed' = pushed \union {c}
  /\ UNCHANGED <<runs, poll, request, database>>

StartRun(c) ==
  /\ c \in pushed
  /\ pushed' = pushed \ {c}
  /\ runs' = Append(runs, [commit |-> c, results |-> <<"running">>])
  /\ UNCHANGED <<main, poll, request, database>>

Conclude(r, result) ==
  LET a == Len(runs[r].results) IN
  /\ runs[r].results[a] = "running"
  /\ runs' = [runs EXCEPT ![r].results[a] = result]
  /\ UNCHANGED <<main, pushed, poll, request, database>>

Rerun(r) ==
  LET a == Len(runs[r].results) IN
  /\ runs[r].results[a] # "running"
  /\ a < MaxAttempt
  /\ Cardinality({q \in DOMAIN runs \ {r} : Len(runs[q].results) > 1}) < MaxRerun
  /\ runs' = [runs EXCEPT ![r].results = Append(@, "running")]
  /\ UNCHANGED <<main, pushed, poll, request, database>>

(***************************************************************************)
(* poller.go: one request after the other.  seen is the baseline the poll  *)
(* found at its start, head the head of main, found the run it chose.      *)
(***************************************************************************)
NoPoll == [pc |-> "rest", seen |-> NoSnapshot, head |-> NoCommit, found |-> NoSnapshot,
           listed |-> "none", failed |-> FALSE, slot |-> 0]

NoRequest == [op |-> "none", snapshot |-> NoSnapshot, error |-> ""]

Goto(pc) == poll' = [poll EXCEPT !.pc = pc]

ReadStatus ==
  /\ poll.pc = "rest"
  /\ poll' = [NoPoll EXCEPT !.pc = "branch", !.seen = baseline]
  /\ UNCHANGED <<github, request, database>>

ReadBranch ==
  /\ poll.pc = "branch"
  /\ poll' = [poll EXCEPT !.pc = "runs", !.head = main]
  /\ UNCHANGED <<github, request, database>>

ReadRuns ==
  /\ poll.pc = "runs"
  /\ runs # <<>>
  /\ LET r == Len(runs)
         a == Len(runs[r].results)
     IN poll' = [poll EXCEPT !.pc = "verify", !.listed = runs[r].results[a],
                   !.found = [run |-> r, attempt |-> a, commit |-> runs[r].commit]]
  /\ UNCHANGED <<github, request, database>>

\* Mutant: the conclusion of the run is not looked at.
EligibleOnceRun == poll.found.commit = poll.head

Eligible ==
  /\ poll.listed = "success"
  /\ poll.found.commit = poll.head

\* Mutant: the commits are compared the wrong way round.
DescendsSwapped == <<poll.found.commit, poll.seen.commit>> \in Ahead

Descends == <<poll.seen.commit, poll.found.commit>> \in Ahead

\* The run and its attempt are as listed, and the run is a candidate to replace
\* the baseline the poll has seen.
Candidate ==
  /\ runs[poll.found.run].results[poll.found.attempt] = poll.listed
  /\ Eligible
  /\ ~Older(poll.found, poll.seen)
  /\ SameRun(poll.found, poll.seen) => poll.found.commit = poll.seen.commit
  /\ poll.seen # NoSnapshot /\ poll.seen.commit # poll.found.commit => Descends

VerifyRun ==
  /\ poll.pc = "verify"
  /\ Candidate
  /\ Goto(IF SameRun(poll.found, poll.seen) THEN "record" ELSE "download")
  /\ UNCHANGED <<github, request, database>>

\* The artifact carries the run and the attempt in its name and in the snapshot.
Download ==
  /\ poll.pc = "download"
  /\ Goto("recheckBranch")
  /\ UNCHANGED <<github, request, database>>

RecheckBranch ==
  /\ poll.pc = "recheckBranch"
  /\ main = poll.head
  /\ Goto("recheckRun")
  /\ UNCHANGED <<github, request, database>>

RecheckRun ==
  /\ poll.pc = "recheckRun"
  /\ runs[poll.found.run].results[poll.found.attempt] = poll.listed
  /\ Goto("post")
  /\ UNCHANGED <<github, request, database>>

\* A request that was given up and still has the slot is lost: see Lose.
Send(k, q) ==
  /\ request' = [request EXCEPT ![k] = q]
  /\ poll' = [NoPoll EXCEPT !.pc = "sent", !.slot = k, !.failed = poll.failed]
  /\ UNCHANGED <<github, database>>

Post(k) ==
  /\ poll.pc = "post"
  /\ Send(k, [NoRequest EXCEPT !.op = "import", !.snapshot = poll.found])

\* Nothing is new, or the poll has failed.
Record(k) ==
  /\ poll.pc = "record"
  /\ Send(k, [NoRequest EXCEPT !.op = "record", !.error = IF poll.failed THEN "error" ELSE ""])

\* The poll is over, or it failed: then the worker still has to report that.
Ended(ok) ==
  IF ok \/ poll.failed THEN NoPoll
  ELSE [NoPoll EXCEPT !.pc = "record", !.failed = TRUE]

\* A check of the poll fails, a request fails or takes too long: the server may
\* still be working on the one that was sent.
Fail ==
  /\ poll' = Ended(FALSE)
  /\ UNCHANGED <<github, request, database>>

Restart ==
  /\ poll' = NoPoll
  /\ UNCHANGED <<github, request, database>>

(***************************************************************************)
(* The server.  An import is one transaction under the lock of the         *)
(* workspace row; the error of a refused one is recorded after it.         *)
(***************************************************************************)
Answer(k, ok) ==
  /\ request' = [request EXCEPT ![k] = NoRequest]
  /\ poll' = IF poll.slot = k THEN Ended(ok) ELSE poll

\* The request is cancelled, a statement fails, the server restarts.
Lose(k) ==
  /\ request[k] # NoRequest
  /\ Answer(k, FALSE)
  /\ UNCHANGED <<github, database>>

RecordPoll(k) ==
  /\ request[k].op \in {"record", "refused"}
  /\ lastError' = request[k].error
  /\ Answer(k, request[k].op = "record")
  /\ UNCHANGED <<github, baseline, catalogue>>

\* Mutant: the import relies on the checks of the poll.
NeverStale(s) == FALSE

Stale(s) == Older(s, baseline)

Listed(s) == {id \in Ids : Catalogue[s.commit][id] # NoEntry}

Importable(s) ==
  /\ ~Stale(s)
  /\ SameRun(s, baseline) => s = baseline
  /\ \A id \in Listed(s) : kind[id] \in {"none", Catalogue[s.commit][id].kind}

Known(id, content) == \E n \in DOMAIN revisions[id] : revisions[id][n] = content

\* Mutant: every import appends a revision.
AppendedAlways(s) ==
  [id \in Ids |-> IF id \in Listed(s) THEN Append(revisions[id], Catalogue[s.commit][id].content)
                  ELSE revisions[id]]

\* Identical business content reuses the revision the page has for it.
Appended(s) ==
  [id \in Ids |->
     IF id \in Listed(s) /\ ~Known(id, Catalogue[s.commit][id].content)
     THEN Append(revisions[id], Catalogue[s.commit][id].content) ELSE revisions[id]]

\* Mutant: the page is shown with its last revision.
LastNumber(s, id) == Len(revisions'[id])

Number(s, id) ==
  CHOOSE n \in DOMAIN revisions'[id] : revisions'[id][n] = Catalogue[s.commit][id].content

\* Mutant: pages that are not in the snapshot stay as they are.
TombstonedNone(s) == archived \ Listed(s)

Tombstoned(s) == {id \in Ids : kind[id] # "none"} \ Listed(s)

\* Mutant: the former snapshots are deleted.
RecordedOnly(s) == {s}

Recorded(s) == snapshots \union {s}

ReplaceCatalogue(s) ==
  /\ snapshots' = Recorded(s)
  /\ revisions' = Appended(s)
  /\ kind' = [id \in Ids |-> IF id \in Listed(s) THEN Catalogue[s.commit][id].kind ELSE kind[id]]
  /\ archived' = Tombstoned(s)
  /\ current' = [id \in Ids |-> IF id \in Listed(s) THEN Number(s, id) ELSE current[id]]
  /\ entries' = entries \union {<<s, id, Number(s, id)>> : id \in Listed(s)}

Import(k) ==
  LET s == request[k].snapshot IN
  /\ request[k].op = "import"
  /\ IF Importable(s)
     THEN /\ IF s = baseline THEN UNCHANGED catalogue ELSE ReplaceCatalogue(s)
          /\ baseline' = s
          /\ lastError' = ""
          /\ Answer(k, TRUE)
     ELSE /\ request' = [request EXCEPT ![k].op = "refused", ![k].error = "error"]
          /\ UNCHANGED <<poll, database>>
  /\ UNCHANGED github

Init ==
  /\ main = Root /\ pushed = {} /\ runs = <<>>
  /\ poll = NoPoll
  /\ request = [k \in Slots |-> NoRequest]
  /\ baseline = NoSnapshot /\ lastError = ""
  /\ snapshots = {} /\ entries = {} /\ archived = {}
  /\ kind = [id \in Ids |-> "none"]
  /\ current = [id \in Ids |-> 0]
  /\ revisions = [id \in Ids |-> <<>>]

\* What the worker does next.
Work ==
  \/ ReadStatus \/ ReadBranch \/ ReadRuns \/ VerifyRun
  \/ Download \/ RecheckBranch \/ RecheckRun
  \/ \E k \in Slots : Post(k) \/ Record(k)
  \/ Fail

Next ==
  \/ \E c \in Commits : Push(c) \/ StartRun(c)
  \/ \E r \in DOMAIN runs :
       \/ Conclude(r, "success") \/ Conclude(r, "failure")
       \/ Rerun(r)
  \/ Work
  \/ Restart
  \/ \E k \in Slots : RecordPoll(k) \/ Import(k) \/ Lose(k)

Spec == Init /\ [][Next]_vars

\* The worker polls for ever (service.go Run), a poll that can do nothing else
\* fails, and no request fails every time it is made.
FairSpec ==
  /\ Spec
  /\ WF_vars(Work)
  /\ SF_vars(ReadStatus) /\ SF_vars(ReadBranch) /\ SF_vars(ReadRuns) /\ SF_vars(VerifyRun)
  /\ SF_vars(Download) /\ SF_vars(RecheckBranch) /\ SF_vars(RecheckRun)
  /\ \A k \in Slots : /\ SF_vars(Post(k)) /\ SF_vars(Record(k))
                       /\ SF_vars(RecordPoll(k)) /\ SF_vars(Import(k))

-----------------------------------------------------------------------------
Results   == {"running", "success", "failure"}
Runs      == [commit : Commits, results : Seq(Results) \ {<<>>}]
Snapshots == [run : Nat \ {0}, attempt : Nat \ {0}, commit : Commits]

PollPcs == {"rest", "branch", "runs", "verify", "download", "recheckBranch", "recheckRun",
            "post", "record", "sent"}

Polls ==
  [pc : PollPcs, seen : Snapshots \union {NoSnapshot}, head : Commits \union {NoCommit},
   found : Snapshots \union {NoSnapshot}, listed : Results \union {"none"},
   failed : BOOLEAN, slot : Slots \union {0}]

Requests ==
  [op : {"none", "import", "record", "refused"}, error : {"", "error"},
   snapshot : Snapshots \union {NoSnapshot}]

\* What the catalogues hold.
Places == {p \in Commits \X Ids : Catalogue[p[1]][p[2]] # NoEntry}
PageKinds == {Catalogue[p[1]][p[2]].kind : p \in Places}
PageContents == {Catalogue[p[1]][p[2]].content : p \in Places}

TypeOK ==
  /\ main \in Commits /\ pushed \subseteq Commits
  /\ runs \in Seq(Runs)
  /\ poll \in Polls
  /\ request \in [Slots -> Requests]
  /\ baseline \in Snapshots \union {NoSnapshot}
  /\ lastError \in {"", "error"}
  /\ snapshots \subseteq Snapshots /\ archived \subseteq Ids
  /\ kind \in [Ids -> PageKinds \union {"none"}]
  /\ revisions \in [Ids -> Seq(PageContents)]
  /\ current \in [Ids -> Nat]
  /\ \A id \in Ids : current[id] \in 0 .. Len(revisions[id])
  /\ entries \subseteq snapshots \X Ids \X Nat

\* The catalogue the readers see is the one of the baseline's commit, complete
\* and nothing else, whatever was removed, came back or was changed back since.
CatalogueIsBaseline ==
  baseline # NoSnapshot =>
    \A id \in Ids :
      IF id \in Listed(baseline)
      THEN /\ kind[id] = Catalogue[baseline.commit][id].kind /\ id \notin archived
           /\ revisions[id][current[id]] = Catalogue[baseline.commit][id].content
      ELSE kind[id] = "none" \/ id \in archived

\* The source a version is shown with (repositoryVersions): the newest snapshot
\* that has it.
SourcesOf(id, n) == {s \in snapshots : <<s, id, n>> \in entries}

ShownSource(id, n) == CHOOSE s \in SourcesOf(id, n) : \A t \in SourcesOf(id, n) : ~Older(s, t)

\* Every version is shown with a source that has it, and the ones in the
\* catalogue with the baseline, which is what the reader takes them for.
ShownProvenance ==
  \A id \in Ids :
    /\ \A n \in DOMAIN revisions[id] : SourcesOf(id, n) # {}
    /\ kind[id] # "none" /\ id \notin archived => ShownSource(id, current[id]) = baseline

\* docs/repository-sync.md:7 "identical business content reuses its revision".
OneRevisionPerContent ==
  \A id \in Ids : \A m, n \in DOMAIN revisions[id] :
    revisions[id][m] = revisions[id][n] => m = n

\* Only the evidence of a successful attempt of a run on main is ever imported,
\* whatever was run again or pushed while the poll was on its way.
VerifiedOnly ==
  \A s \in snapshots :
    /\ s.run \in DOMAIN runs /\ runs[s.run].commit = s.commit
    /\ s.attempt \in DOMAIN runs[s.run].results /\ runs[s.run].results[s.attempt] = "success"

\* docs/repository-sync.md:7 "stale runs, conflicts and interrupted imports
\* retain the last committed snapshot", also when an import that was given up
\* arrives after a newer one.
BaselineNeverOlder == [][~Older(baseline', baseline)]_vars

\* docs/repository-sync.md:15 "An older or diverged candidate cannot replace a
\* newer baseline": the new baseline is the same commit or a descendant.
BaselineOnlyMovesAhead ==
  [][baseline # NoSnapshot =>
       \/ baseline'.commit = baseline.commit
       \/ <<baseline.commit, baseline'.commit>> \in Ahead]_vars

\* Once GitHub is quiet and the newest run on main has succeeded for its head,
\* the mirror shows that commit in the end.
Settled ==
  /\ runs # <<>>
  /\ runs[Len(runs)].commit = main
  /\ runs[Len(runs)].results[Len(runs[Len(runs)].results)] = "success"

CatchesUp == <>[]Settled => <>[](baseline.commit = main)
=============================================================================
