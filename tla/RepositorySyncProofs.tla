------------------------ MODULE RepositorySyncProofs ------------------------
(***************************************************************************)
(* For any commits, catalogues, runs, attempts and requests: what the      *)
(* mirror imports is the evidence of a successful run, the catalogue that  *)
(* is read is that of its baseline, and the baseline is never replaced by  *)
(* an older run, nor, as long as nobody force-pushes, by a diverged commit.*)
(***************************************************************************)
EXTENDS RepositorySync, SequenceTheorems, TLAPS

AtMost(c, d) == c = d \/ <<c, d>> \in Ahead

(***************************************************************************)
(* What is on its way to the catalogue has been verified.                  *)
(***************************************************************************)
Listing(s) ==
  /\ s.run \in DOMAIN runs /\ runs[s.run].commit = s.commit
  /\ s.attempt \in DOMAIN runs[s.run].results

Verified(s) == Listing(s) /\ runs[s.run].results[s.attempt] = "success"

Found     == {"verify", "download", "recheckBranch", "recheckRun", "post"}
Chosen    == Found \ {"verify"}
Importing(k) == request[k].op = "import"

Evidence ==
  /\ poll.pc \in Found => Listing(poll.found)
  /\ poll.pc \in Chosen => Verified(poll.found) /\ poll.found.commit = poll.head
  /\ \A k \in Slots : Importing(k) => Verified(request[k].snapshot)
  /\ \A s \in snapshots : Verified(s)

(***************************************************************************)
(* The catalogue of the baseline.                                          *)
(***************************************************************************)
BaselineIsNewest ==
  /\ baseline = NoSnapshot => snapshots = {} /\ \A id \in Ids : kind[id] = "none"
  /\ baseline # NoSnapshot => baseline \in snapshots
  /\ \A s \in snapshots : ~Older(baseline, s)

EntriesAreComplete ==
  /\ \A id \in Ids : \A n \in DOMAIN revisions[id] : SourcesOf(id, n) # {}
  /\ baseline # NoSnapshot =>
       \A id \in Listed(baseline) : <<baseline, id, current[id]>> \in entries

(***************************************************************************)
(* The snapshots that are sent come in the order of main, as long as main  *)
(* only moves ahead.                                                       *)
(***************************************************************************)
Sent == ({baseline} \ {NoSnapshot}) \union {request[k].snapshot : k \in {j \in Slots : Importing(j)}}

Ordered ==
  ~ForcePush =>
    /\ \A s, t \in Sent : s.run <= t.run => AtMost(s.commit, t.commit)
    /\ \A s \in Sent : AtMost(s.commit, main)
    /\ poll.pc \in Found \union {"runs"} =>
         /\ AtMost(poll.head, main)
         /\ \A s \in Sent : AtMost(s.commit, poll.head)
    /\ poll.pc \in Found => \A s \in Sent : s.run <= poll.found.run

Inv ==
  /\ TypeOK /\ Evidence
  /\ BaselineIsNewest /\ CatalogueIsBaseline /\ OneRevisionPerContent /\ EntriesAreComplete
  /\ Ordered

Catalogued == BaselineIsNewest /\ CatalogueIsBaseline /\ OneRevisionPerContent /\ EntriesAreComplete

LEMMA SameCatalogue ==
  ASSUME Catalogued, UNCHANGED <<baseline, catalogue>>
  PROVE  Catalogued'
<1>1. BaselineIsNewest'
  BY DEF Catalogued, catalogue, BaselineIsNewest
<1>2. CatalogueIsBaseline'
  BY DEF Catalogued, catalogue, CatalogueIsBaseline, Listed
<1>3. OneRevisionPerContent'
  BY DEF Catalogued, catalogue, OneRevisionPerContent
<1>4. EntriesAreComplete'
  BY DEF Catalogued, catalogue, EntriesAreComplete, SourcesOf, Listed
<1>5. QED
  BY <1>1, <1>2, <1>3, <1>4 DEF Catalogued

LEMMA SameTypes ==
  ASSUME TypeOK, UNCHANGED database
  PROVE  /\ baseline' \in Snapshots \union {NoSnapshot} /\ lastError' \in {"", "error"}
         /\ snapshots' \subseteq Snapshots /\ archived' \subseteq Ids
         /\ kind' \in [Ids -> PageKinds \union {"none"}]
         /\ revisions' \in [Ids -> Seq(PageContents)]
         /\ current' \in [Ids -> Nat]
         /\ \A id \in Ids : current'[id] \in 0 .. Len(revisions'[id])
         /\ entries' \subseteq snapshots' \X Ids \X Nat
BY DEF TypeOK, database, catalogue

LEMMA RunsAre ==
  ASSUME TypeOK
  PROVE  \A r \in DOMAIN runs : /\ runs[r] \in Runs /\ runs[r].commit \in Commits
                                /\ runs[r].results \in Seq(Results)
                                /\ runs[r].results # <<>>
<1>1. runs \in Seq(Runs)
  BY DEF TypeOK
<1>2. \A r \in DOMAIN runs : runs[r] \in Runs
  BY <1>1
<1>3. QED
  BY <1>2 DEF Runs

\* Sent snapshots are verified, and so known by their run.
LEMMA SentIsVerified ==
  ASSUME Inv, NEW s \in Sent
  PROVE  Verified(s) /\ s.run \in 1 .. Len(runs) /\ runs[s.run].commit = s.commit
<1>1. Verified(s)
  BY DEF Inv, Evidence, BaselineIsNewest, Sent
<1>2. runs \in Seq(Runs)
  BY DEF Inv, TypeOK
<1>3. QED
  BY <1>1, <1>2 DEF Verified, Listing

(***************************************************************************)
(* GitHub moves on: what was verified stays so.                            *)
(***************************************************************************)
LEMMA VerifiedStays ==
  ASSUME TypeOK,
         \/ \E c \in Commits : StartRun(c)
         \/ \E r \in DOMAIN runs : \/ Conclude(r, "success") \/ Conclude(r, "failure")
                                  \/ Rerun(r)
  PROVE  /\ \A s : Listing(s) => Listing(s)'
         /\ \A s : Verified(s) => Verified(s)'
<1>1. runs \in Seq(Runs) /\ \A r \in DOMAIN runs : runs[r].results \in Seq(Results)
  BY RunsAre DEF TypeOK
<1>2. ASSUME NEW c \in Commits, StartRun(c)
      PROVE  \A r \in DOMAIN runs : r \in DOMAIN runs' /\ runs'[r] = runs[r]
  BY <1>1, <1>2 DEF StartRun
<1>3. ASSUME NEW r \in DOMAIN runs, NEW result, Conclude(r, result), NEW q \in DOMAIN runs
      PROVE  /\ q \in DOMAIN runs' /\ runs'[q].commit = runs[q].commit
             /\ DOMAIN runs'[q].results = DOMAIN runs[q].results
             /\ \A a \in DOMAIN runs[q].results :
                  runs[q].results[a] = "success" => runs'[q].results[a] = "success"
  <2>1. runs' = [runs EXCEPT ![r].results[Len(runs[r].results)] = result]
        /\ runs[r].results[Len(runs[r].results)] = "running"
    BY <1>3 DEF Conclude
  <2>2. /\ q \in DOMAIN runs'
        /\ q # r => runs'[q] = runs[q]
        /\ runs'[r] = [runs[r] EXCEPT !.results[Len(runs[r].results)] = result]
    BY <1>1, <2>1
  <2>3. runs[r] \in Runs
    BY <1>1
  <2>4. /\ runs'[r].commit = runs[r].commit
        /\ runs'[r].results = [runs[r].results EXCEPT ![Len(runs[r].results)] = result]
    BY <2>2, <2>3 DEF Runs
  <2>5. QED
    BY <2>1, <2>2, <2>4
<1>4. ASSUME NEW r \in DOMAIN runs, Rerun(r), NEW q \in DOMAIN runs
      PROVE  /\ q \in DOMAIN runs' /\ runs'[q].commit = runs[q].commit
             /\ \A a \in DOMAIN runs[q].results :
                  a \in DOMAIN runs'[q].results /\ runs'[q].results[a] = runs[q].results[a]
  <2>1. runs' = [runs EXCEPT ![r].results = Append(@, "running")]
    BY <1>4 DEF Rerun
  <2>2. /\ q \in DOMAIN runs'
        /\ q # r => runs'[q] = runs[q]
        /\ runs'[r] = [runs[r] EXCEPT !.results = Append(runs[r].results, "running")]
    BY <1>1, <2>1
  <2>3. runs[r] \in Runs
    BY <1>1
  <2>4. /\ runs'[r].commit = runs[r].commit
        /\ runs'[r].results = Append(runs[r].results, "running")
    BY <2>2, <2>3 DEF Runs
  <2>5. \A a \in DOMAIN runs[r].results :
          /\ a \in DOMAIN Append(runs[r].results, "running")
          /\ Append(runs[r].results, "running")[a] = runs[r].results[a]
    BY <1>1
  <2>6. QED
    BY <2>2, <2>4, <2>5
<1>5. QED
  BY <1>2, <1>3, <1>4 DEF Listing, Verified

LEMMA RunsTypes ==
  ASSUME TypeOK,
         \/ \E c \in Commits : StartRun(c)
         \/ \E r \in DOMAIN runs : \/ Conclude(r, "success") \/ Conclude(r, "failure")
                                  \/ Rerun(r)
  PROVE  runs' \in Seq(Runs) /\ Len(runs') >= Len(runs)
<1>1. runs \in Seq(Runs)
  BY DEF TypeOK
<1>2. ASSUME NEW c \in Commits, StartRun(c) PROVE runs' \in Seq(Runs) /\ Len(runs') >= Len(runs)
  <2>1. <<"running">> \in Seq(Results) \ {<<>>}
    BY DEF Results
  <2>2. [commit |-> c, results |-> <<"running">>] \in Runs
    BY <2>1 DEF Runs
  <2>3. QED
    BY <1>1, <1>2, <2>2 DEF StartRun
<1>3. ASSUME NEW r \in DOMAIN runs, NEW result \in Results, Conclude(r, result)
      PROVE  runs' \in Seq(Runs) /\ Len(runs') >= Len(runs)
  <2>1. runs[r] \in Runs /\ runs[r].results \in Seq(Results) /\ runs[r].results # <<>>
    BY RunsAre
  <2>2. [runs[r].results EXCEPT ![Len(runs[r].results)] = result] \in Seq(Results) \ {<<>>}
    BY <2>1, ExceptSeq
  <2>3. [runs[r] EXCEPT !.results[Len(runs[r].results)] = result] \in Runs
    BY <2>1, <2>2 DEF Runs
  <2>4. runs' = [runs EXCEPT ![r] = [runs[r] EXCEPT !.results[Len(runs[r].results)] = result]]
    BY <1>3 DEF Conclude
  <2>5. QED
    BY <1>1, <2>3, <2>4
<1>4. ASSUME NEW r \in DOMAIN runs, Rerun(r) PROVE runs' \in Seq(Runs) /\ Len(runs') >= Len(runs)
  <2>1. runs[r] \in Runs /\ runs[r].results \in Seq(Results)
    BY RunsAre
  <2>2. Append(runs[r].results, "running") \in Seq(Results) \ {<<>>}
    BY <2>1 DEF Results
  <2>3. [runs[r] EXCEPT !.results = Append(runs[r].results, "running")] \in Runs
    BY <2>1, <2>2 DEF Runs
  <2>4. runs' = [runs EXCEPT ![r] = [runs[r] EXCEPT !.results = Append(runs[r].results, "running")]]
    BY <1>4 DEF Rerun
  <2>5. QED
    BY <1>1, <2>3, <2>4
<1>5. QED
  BY <1>2, <1>3, <1>4 DEF Results

LEMMA RunsStep ==
  ASSUME Inv,
         \/ \E c \in Commits : StartRun(c)
         \/ \E r \in DOMAIN runs : \/ Conclude(r, "success") \/ Conclude(r, "failure")
                                  \/ Rerun(r)
  PROVE  Inv'
<1>1. TypeOK /\ UNCHANGED <<main, poll, request, database>> /\ pushed' \subseteq pushed
  BY DEF Inv, StartRun, Conclude, Rerun
<1>2. TypeOK'
  BY <1>1, RunsTypes, SameTypes DEF TypeOK
<1>3. Evidence'
  <2>1. UNCHANGED <<poll, request, snapshots>>
    BY <1>1 DEF database, catalogue
  <2>2. /\ \A s : Listing(s) => Listing(s)'
        /\ \A s : Verified(s) => Verified(s)'
    BY <1>1, VerifiedStays
  <2>3. QED
    BY <2>1, <2>2 DEF Inv, Evidence, Importing
<1>4. Catalogued'
  BY <1>1, SameCatalogue DEF Inv, Catalogued, database
<1>5. Ordered'
  <2>1. Sent' = Sent
    BY <1>1 DEF Sent, Importing, database
  <2>2. QED
    BY <1>1, <2>1 DEF Inv, Ordered
<1>6. QED
  BY <1>2, <1>3, <1>4, <1>5 DEF Inv, Catalogued

LEMMA PushStep == ASSUME Inv, NEW c \in Commits, Push(c) PROVE Inv'
<1>1. /\ TypeOK /\ UNCHANGED <<runs, poll, request, database>>
      /\ main' = c /\ pushed' = pushed \union {c} /\ (ForcePush \/ <<main, c>> \in Ahead)
  BY DEF Inv, Push
<1>2. TypeOK'
  BY <1>1, SameTypes DEF TypeOK
<1>3. Evidence'
  <2>1. UNCHANGED <<poll, request, snapshots, runs>>
    BY <1>1 DEF database, catalogue
  <2>2. QED
    BY <2>1 DEF Inv, Evidence, Importing, Listing, Verified
<1>4. Catalogued'
  BY <1>1, SameCatalogue DEF Inv, Catalogued, database
<1>5. Ordered'
  <2>1. Sent' = Sent
    BY <1>1 DEF Sent, Importing, database
  <2>2. \A d \in Commits : ~ForcePush /\ AtMost(d, main) => AtMost(d, main')
    BY <1>1, SyncAssumption DEF AtMost, TypeOK
  <2>3. \A s \in Sent : s.commit \in Commits
    <3>1. runs \in Seq(Runs)
      BY <1>1 DEF TypeOK
    <3>2. \A s \in Sent : s.run \in DOMAIN runs /\ runs[s.run].commit = s.commit
      BY <3>1, SentIsVerified
    <3>3. QED
      BY <1>1, <3>2, RunsAre
  <2>4. poll.pc \in Found \union {"runs"} /\ ~ForcePush /\ AtMost(poll.head, main) => AtMost(poll.head, main')
    <3>1. AtMost(poll.head, main) => poll.head \in Commits
      BY <1>1, SyncAssumption DEF AtMost, TypeOK
    <3>2. QED
      BY <2>2, <3>1
  <2>5. QED
    BY <1>1, <2>1, <2>2, <2>3, <2>4 DEF Inv, Ordered
<1>6. QED
  BY <1>2, <1>3, <1>4, <1>5 DEF Inv, Catalogued

(***************************************************************************)
(* The poll goes on, or ends.                                              *)
(***************************************************************************)
PollIsGood(p) ==
  /\ p \in Polls
  /\ p.pc \in Found => Listing(p.found)
  /\ p.pc \in Chosen => Verified(p.found) /\ p.found.commit = p.head
  /\ ~ForcePush =>
       /\ p.pc \in Found \union {"runs"} =>
            /\ AtMost(p.head, main)
            /\ \A s \in Sent : AtMost(s.commit, p.head)
       /\ p.pc \in Found => \A s \in Sent : s.run <= p.found.run

LEMMA PollOnly ==
  ASSUME Inv, UNCHANGED <<github, request, database>>, PollIsGood(poll')
  PROVE  Inv'
<1>1. TypeOK'
  <2>1. TypeOK /\ UNCHANGED <<main, pushed, runs, request>> /\ poll' \in Polls /\ UNCHANGED database
    BY DEF Inv, github, PollIsGood
  <2>2. QED
    BY <2>1, SameTypes DEF TypeOK
<1>2. UNCHANGED <<main, runs, request, snapshots, baseline, catalogue>>
  BY DEF github, database, catalogue
<1>3. Evidence'
  BY <1>2 DEF Inv, PollIsGood, Evidence, Importing, Listing, Verified
<1>4. Catalogued'
  BY <1>2, SameCatalogue DEF Inv, Catalogued
<1>5. Ordered'
  <2>1. Sent' = Sent
    BY <1>2 DEF Sent, Importing
  <2>2. QED
    BY <1>2, <2>1 DEF Inv, Ordered, PollIsGood
<1>6. QED
  BY <1>1, <1>3, <1>4, <1>5 DEF Inv, Catalogued

LEMMA PollRests ==
  ASSUME Inv
  PROVE  /\ PollIsGood(NoPoll) /\ \A ok \in BOOLEAN : PollIsGood(Ended(ok))
         /\ PollIsGood(poll)
<1>1. NoPoll \in Polls /\ NoPoll.pc = "rest"
  BY DEF NoPoll, Polls, PollPcs
<1>2. [NoPoll EXCEPT !.pc = "record", !.failed = TRUE] \in Polls
      /\ [NoPoll EXCEPT !.pc = "record", !.failed = TRUE].pc = "record"
  BY <1>1 DEF NoPoll, Polls, PollPcs
<1>3. PollIsGood(poll)
  BY DEF Inv, TypeOK, Evidence, Ordered, PollIsGood
<1>4. QED
  BY <1>1, <1>2, <1>3 DEF PollIsGood, Ended, Found, Chosen

LEMMA PollStep ==
  ASSUME Inv,
         \/ ReadStatus \/ ReadBranch \/ ReadRuns \/ VerifyRun
         \/ Download \/ RecheckBranch \/ RecheckRun \/ Fail \/ Restart
  PROVE  Inv'
<1>1. UNCHANGED <<github, request, database>>
  BY DEF ReadStatus, ReadBranch, ReadRuns, VerifyRun, Download, RecheckBranch, RecheckRun, Fail,
         Restart
<1>2. TypeOK /\ poll \in Polls /\ PollIsGood(poll)
  BY PollRests DEF Inv, TypeOK
<1>3. ASSUME ReadStatus PROVE PollIsGood(poll')
  <2>1. poll' = [NoPoll EXCEPT !.pc = "branch", !.seen = baseline]
    BY <1>3 DEF ReadStatus
  <2>2. poll' \in Polls /\ poll'.pc = "branch"
    BY <1>2, <2>1 DEF TypeOK, NoPoll, Polls, PollPcs
  <2>3. QED
    BY <2>2 DEF PollIsGood, Found, Chosen
<1>4. ASSUME ReadBranch PROVE PollIsGood(poll')
  <2>1. poll' \in Polls /\ poll'.pc = "runs" /\ poll'.head = main
    BY <1>2, <1>4 DEF ReadBranch, TypeOK, Polls, PollPcs
  <2>2. ~ForcePush => \A s \in Sent : AtMost(s.commit, main)
    BY DEF Inv, Ordered
  <2>3. QED
    BY <2>1, <2>2 DEF PollIsGood, Found, Chosen, AtMost
<1>5. ASSUME ReadRuns PROVE PollIsGood(poll')
  <2> DEFINE r == Len(runs)
             a == Len(runs[r].results)
  <2>1. runs \in Seq(Runs) /\ r \in DOMAIN runs /\ r \in Nat \ {0}
    <3>1. runs \in Seq(Runs) /\ runs # <<>>
      BY <1>2, <1>5 DEF TypeOK, ReadRuns
    <3>2. QED
      BY <3>1
  <2>2. runs[r].commit \in Commits /\ runs[r].results \in Seq(Results) /\ a \in Nat \ {0}
        /\ a \in DOMAIN runs[r].results /\ runs[r].results[a] \in Results
    BY <1>2, <2>1, RunsAre
  <2>3. poll' = [poll EXCEPT !.pc = "verify", !.listed = runs[r].results[a],
                   !.found = [run |-> r, attempt |-> a, commit |-> runs[r].commit]]
    BY <1>5 DEF ReadRuns
  <2>4. /\ poll' \in Polls /\ poll'.pc = "verify" /\ poll'.head = poll.head
        /\ poll'.found = [run |-> r, attempt |-> a, commit |-> runs[r].commit]
    BY <1>2, <2>1, <2>2, <2>3 DEF Polls, PollPcs, Snapshots
  <2>5. Listing(poll'.found) /\ poll'.found.run = r
    BY <2>1, <2>2, <2>4 DEF Listing
  <2>6. \A s \in Sent : s.run <= r
    BY <2>1, SentIsVerified
  <2>7. poll.pc = "runs"
    BY <1>5 DEF ReadRuns
  <2>8. QED
    BY <1>2, <2>4, <2>5, <2>6, <2>7 DEF PollIsGood, Found, Chosen
<1>6. ASSUME VerifyRun PROVE PollIsGood(poll')
  <2>1. /\ poll' \in Polls /\ poll'.pc \in {"record", "download"}
        /\ poll'.head = poll.head /\ poll'.found = poll.found
    BY <1>2, <1>6 DEF VerifyRun, Goto, Polls, PollPcs
  <2>2. poll.pc = "verify" /\ poll.found.commit = poll.head
        /\ runs[poll.found.run].results[poll.found.attempt] = "success"
    BY <1>6 DEF VerifyRun, Candidate, Eligible
  <2>3. QED
    BY <1>2, <2>1, <2>2 DEF PollIsGood, Found, Chosen, Verified
<1>7. ASSUME Download \/ RecheckBranch \/ RecheckRun PROVE PollIsGood(poll')
  <2>1. /\ poll' \in Polls /\ poll'.pc \in Chosen /\ poll.pc \in Chosen
        /\ poll'.head = poll.head /\ poll'.found = poll.found
    BY <1>2, <1>7 DEF Download, RecheckBranch, RecheckRun, Goto, Polls, PollPcs, Chosen, Found
  <2>2. QED
    BY <1>2, <2>1 DEF PollIsGood, Found, Chosen
<1>8. ASSUME Fail \/ Restart PROVE PollIsGood(poll')
  BY <1>8, PollRests DEF Fail, Restart
<1>9. QED
  BY <1>1, <1>3, <1>4, <1>5, <1>6, <1>7, <1>8, PollOnly

(***************************************************************************)
(* The worker sends a request.                                             *)
(***************************************************************************)
LEMMA RequestStep ==
  ASSUME Inv, TypeOK', UNCHANGED github, Catalogued',
         \A s \in snapshots' : Verified(s),
         \A k \in Slots : Importing(k)' => Verified(request'[k].snapshot),
         ~ForcePush => \A s, t \in Sent' : s.run <= t.run => AtMost(s.commit, t.commit),
         ~ForcePush => \A s \in Sent' : AtMost(s.commit, main),
         poll'.pc \in Found \union {"runs"} => poll' = poll /\ Sent' \subseteq Sent
  PROVE  Inv'
<1>1. UNCHANGED <<main, runs>>
  BY DEF github
<1>2. Evidence'
  BY <1>1 DEF Inv, Evidence, Listing, Verified, Found, Chosen
<1>3. Ordered'
  BY <1>1 DEF Inv, Ordered
<1>4. QED
  BY <1>2, <1>3 DEF Inv, Catalogued

LEMMA SendStep ==
  ASSUME Inv, NEW k \in Slots, Post(k) \/ Record(k)
  PROVE  Inv'
<1> DEFINE import == [NoRequest EXCEPT !.op = "import", !.snapshot = poll.found]
           record == [NoRequest EXCEPT !.op = "record",
                        !.error = IF poll.failed THEN "error" ELSE ""]
<1>1. TypeOK /\ poll \in Polls /\ request \in [Slots -> Requests]
  BY DEF Inv, TypeOK
<1>2. PICK q : /\ Send(k, q)
               /\ (q = import /\ poll.pc = "post") \/ (q = record /\ poll.pc = "record")
  BY DEF Post, Record
<1>3. /\ request' = [request EXCEPT ![k] = q] /\ UNCHANGED <<github, database>>
      /\ poll' = [NoPoll EXCEPT !.pc = "sent", !.slot = k, !.failed = poll.failed]
  BY <1>2 DEF Send
<1>4. import \in Requests /\ import.op = "import" /\ import.snapshot = poll.found
  BY <1>1 DEF NoRequest, Requests, Polls
<1>5. record \in Requests /\ record.op = "record"
  BY <1>1 DEF NoRequest, Requests, Polls
<1> HIDE DEF import, record
<1>6. q \in Requests /\ (q.op = "import" => poll.pc = "post" /\ q.snapshot = poll.found)
  BY <1>2, <1>4, <1>5
<1>7. poll' \in Polls /\ poll'.pc = "sent"
  BY <1>1, <1>3 DEF NoPoll, Polls, PollPcs
<1>8. TypeOK'
  <2>1. request' \in [Slots -> Requests]
    BY <1>1, <1>3, <1>6
  <2>2. QED
    BY <1>1, <1>3, <1>7, <2>1, SameTypes DEF TypeOK, github
<1>9. UNCHANGED <<baseline, snapshots, catalogue>>
  BY <1>3 DEF database, catalogue
<1>10. Catalogued'
  BY <1>9, SameCatalogue DEF Inv, Catalogued
<1>11. \A j \in Slots : Importing(j)' =>
         \/ Importing(j) /\ request'[j] = request[j]
         \/ j = k /\ poll.pc = "post" /\ request'[j].snapshot = poll.found
  <2>1. request'[k] = q /\ \A j \in Slots \ {k} : request'[j] = request[j]
    BY <1>1, <1>3
  <2>2. QED
    BY <1>6, <2>1 DEF Importing
<1>12. poll.pc = "post" => Verified(poll.found) /\ poll.found.commit = poll.head
  BY DEF Inv, Evidence, Chosen, Found
<1>13. \A j \in Slots : Importing(j)' => Verified(request'[j].snapshot)
  BY <1>11, <1>12 DEF Inv, Evidence
<1>14. \/ Sent' \subseteq Sent
       \/ poll.pc = "post" /\ Sent' \subseteq Sent \union {poll.found}
  BY <1>9, <1>11 DEF Sent
<1>15. ASSUME poll.pc = "post", ~ForcePush
       PROVE  /\ AtMost(poll.found.commit, main)
              /\ \A s \in Sent : /\ AtMost(s.commit, poll.found.commit) /\ s.run <= poll.found.run
                                 /\ poll.found.run <= s.run => s.commit = poll.found.commit
  <2>1. \A s \in Sent : AtMost(s.commit, poll.head) /\ s.run <= poll.found.run
    BY <1>15 DEF Inv, Ordered, Found
  <2>2. AtMost(poll.head, main)
    BY <1>15 DEF Inv, Ordered, Found
  <2>3. poll.found.run \in 1 .. Len(runs) /\ runs[poll.found.run].commit = poll.found.commit
    <3>1. runs \in Seq(Runs)
      BY <1>1 DEF TypeOK
    <3>2. QED
      BY <1>12, <1>15, <3>1 DEF Verified, Listing
  <2>4. \A s \in Sent : s.run \in 1 .. Len(runs) /\ runs[s.run].commit = s.commit
    BY SentIsVerified
  <2>5. \A s \in Sent : poll.found.run <= s.run => s.run = poll.found.run
    BY <2>1, <2>3, <2>4
  <2>6. QED
    BY <1>12, <1>15, <2>1, <2>2, <2>3, <2>4, <2>5
<1>16. ~ForcePush => \A s, t \in Sent' : s.run <= t.run => AtMost(s.commit, t.commit)
  <2>1. ~ForcePush => \A s, t \in Sent : s.run <= t.run => AtMost(s.commit, t.commit)
    BY DEF Inv, Ordered
  <2>2. AtMost(poll.found.commit, poll.found.commit)
    BY DEF AtMost
  <2>3. QED
    BY <1>14, <1>15, <2>1, <2>2 DEF AtMost
<1>17. ~ForcePush => \A s \in Sent' : AtMost(s.commit, main)
  BY <1>14, <1>15 DEF Inv, Ordered
<1>18. \A s \in snapshots' : Verified(s)
  BY <1>9 DEF Inv, Evidence
<1>19. QED
  BY <1>3, <1>7, <1>8, <1>10, <1>13, <1>16, <1>17, <1>18, RequestStep DEF Found

(***************************************************************************)
(* The server answers, or the request is lost.                             *)
(***************************************************************************)
LEMMA AnswerTypes ==
  ASSUME Inv, NEW k \in Slots, NEW ok \in BOOLEAN, Answer(k, ok)
  PROVE  /\ poll' \in Polls /\ request' \in [Slots -> Requests]
         /\ \A j \in Slots : Importing(j)' => Importing(j) /\ request'[j] = request[j]
         /\ poll'.pc \in Found \union {"runs"} => poll' = poll
<1>1. request \in [Slots -> Requests] /\ poll \in Polls
  BY DEF Inv, TypeOK
<1>2. NoRequest \in Requests /\ NoRequest.op = "none"
  BY DEF NoRequest, Requests
<1>3. request' = [request EXCEPT ![k] = NoRequest] /\ (poll' = Ended(ok) \/ poll' = poll)
  BY DEF Answer
<1>4. Ended(ok) \in Polls /\ Ended(ok).pc \in {"rest", "record"}
  BY DEF Ended, NoPoll, Polls, PollPcs
<1>5. QED
  BY <1>1, <1>2, <1>3, <1>4 DEF Importing, Found

LEMMA AnswerStep ==
  ASSUME Inv, NEW k \in Slots, Lose(k) \/ RecordPoll(k)
  PROVE  Inv'
<1>1. PICK ok \in BOOLEAN : Answer(k, ok)
  BY DEF Lose, RecordPoll
<1>2. UNCHANGED <<github, baseline, catalogue>>
  BY DEF Lose, RecordPoll, database
<1>3. lastError' \in {"", "error"}
  <2>1. request[k] \in Requests /\ lastError \in {"", "error"}
    BY DEF Inv, TypeOK
  <2>2. request[k].error \in {"", "error"}
    BY <2>1 DEF Requests
  <2>3. QED
    BY <2>1, <2>2 DEF Lose, RecordPoll, database
<1>4. TypeOK'
  BY <1>1, <1>2, <1>3, AnswerTypes DEF Inv, TypeOK, github, catalogue
<1>5. Catalogued'
  BY <1>2, SameCatalogue DEF Inv, Catalogued
<1>6. Sent' \subseteq Sent
  BY <1>1, <1>2, AnswerTypes DEF Sent
<1>7. snapshots' = snapshots
  BY <1>2 DEF catalogue
<1>8. QED
  BY <1>1, <1>2, <1>4, <1>5, <1>6, <1>7, AnswerTypes, RequestStep DEF Inv, Evidence, Ordered

(***************************************************************************)
(* The import replaces the catalogue.                                      *)
(***************************************************************************)
Accepted(s) ==
  /\ s \in Snapshots /\ s # baseline /\ Importable(s)
  /\ baseline' = s
  /\ ReplaceCatalogue(s)

LEMMA ListedIsPlace ==
  ASSUME NEW s \in Snapshots, NEW id \in Listed(s)
  PROVE  \E p \in Places : p[1] = s.commit /\ p[2] = id
<1>1. s.commit \in Commits /\ id \in Ids /\ Catalogue[s.commit][id] # NoEntry
  BY DEF Listed, Snapshots
<1>2. <<s.commit, id>> \in Places
  BY <1>1 DEF Places
<1>3. QED
  BY <1>2

\* Every listed identity has its content among its revisions, once, and the
\* revisions it had are kept.
LEMMA RevisionsAppended ==
  ASSUME Inv, NEW s \in Snapshots, Accepted(s), NEW id \in Ids
  PROVE  /\ revisions'[id] \in Seq(PageContents)
         /\ Len(revisions'[id]) >= Len(revisions[id])
         /\ \A n \in DOMAIN revisions[id] :
              n \in DOMAIN revisions'[id] /\ revisions'[id][n] = revisions[id][n]
         /\ \A m, n \in DOMAIN revisions'[id] : revisions'[id][m] = revisions'[id][n] => m = n
         /\ \A n \in DOMAIN revisions'[id] \ DOMAIN revisions[id] :
              id \in Listed(s) /\ revisions'[id][n] = Catalogue[s.commit][id].content
         /\ id \in Listed(s) =>
              /\ Number(s, id) \in DOMAIN revisions'[id]
              /\ revisions'[id][Number(s, id)] = Catalogue[s.commit][id].content
<1> DEFINE content == Catalogue[s.commit][id].content
           old == revisions[id]
<1>1. old \in Seq(PageContents) /\ (\A m, n \in DOMAIN old : old[m] = old[n] => m = n)
  BY DEF Inv, TypeOK, OneRevisionPerContent
<1>2. id \in Listed(s) => content \in PageContents
  BY ListedIsPlace DEF PageContents
<1>3. revisions'[id] = IF id \in Listed(s) /\ ~Known(id, content) THEN Append(old, content)
                       ELSE old
  BY DEF Accepted, ReplaceCatalogue, Appended
<1>4. Known(id, content) <=> \E n \in DOMAIN old : old[n] = content
  BY DEF Known
<1> HIDE DEF content, old
<1>5. CASE id \in Listed(s) /\ ~Known(id, content)
  <2>1. /\ Append(old, content) \in Seq(PageContents) /\ Len(Append(old, content)) = Len(old) + 1
        /\ Append(old, content)[Len(old) + 1] = content
        /\ \A n \in DOMAIN old : Append(old, content)[n] = old[n]
        /\ DOMAIN Append(old, content) = DOMAIN old \union {Len(old) + 1}
    BY <1>1, <1>2, <1>5
  <2>2. \A n \in DOMAIN old : old[n] # content
    BY <1>4, <1>5
  <2>3. revisions'[id] = Append(old, content)
    BY <1>3, <1>5
  <2>4. Number(s, id) \in DOMAIN revisions'[id] /\ revisions'[id][Number(s, id)] = content
    BY <2>1, <2>3 DEF Number, content
  <2>5. \A m, n \in DOMAIN revisions'[id] : revisions'[id][m] = revisions'[id][n] => m = n
    BY <1>1, <2>1, <2>2, <2>3
  <2>6. Len(Append(old, content)) >= Len(old)
    BY <1>1, <2>1
  <2>7. QED
    BY <1>5, <2>1, <2>3, <2>4, <2>5, <2>6 DEF content, old
<1>6. CASE ~(id \in Listed(s) /\ ~Known(id, content))
  <2>1. revisions'[id] = old
    BY <1>3, <1>6
  <2>2. id \in Listed(s) => Number(s, id) \in DOMAIN old /\ old[Number(s, id)] = content
    BY <1>4, <1>6, <2>1 DEF Number, content
  <2>3. Len(old) >= Len(old)
    BY <1>1
  <2>4. QED
    BY <1>1, <2>1, <2>2, <2>3 DEF content, old
<1>7. QED
  BY <1>5, <1>6

LEMMA CatalogueReplaced ==
  ASSUME Inv, NEW s \in Snapshots, Accepted(s)
  PROVE  Catalogued'
<1>1. /\ baseline' = s /\ snapshots' = snapshots \union {s}
      /\ kind' = [id \in Ids |-> IF id \in Listed(s) THEN Catalogue[s.commit][id].kind
                                 ELSE kind[id]]
      /\ archived' = {id \in Ids : kind[id] # "none"} \ Listed(s)
      /\ current' = [id \in Ids |-> IF id \in Listed(s) THEN Number(s, id) ELSE current[id]]
      /\ entries' = entries \union {<<s, id, Number(s, id)>> : id \in Listed(s)}
      /\ ~Older(s, baseline)
  BY DEF Accepted, ReplaceCatalogue, Recorded, Tombstoned, Importable, Stale
<1>2. s # NoSnapshot /\ Listed(s)' = Listed(s) /\ Listed(s) \subseteq Ids
  BY DEF Snapshots, NoSnapshot, Listed
<1>3. BaselineIsNewest'
  <2>1. snapshots \subseteq Snapshots /\ baseline \in Snapshots \union {NoSnapshot}
    BY DEF Inv, TypeOK
  <2>2. ASSUME NEW t \in snapshots PROVE ~Older(s, t)
    <3>1. t \in Snapshots /\ baseline \in Snapshots /\ ~Older(baseline, t)
      BY <2>1 DEF Inv, BaselineIsNewest
    <3>2. QED
      BY <1>1, <3>1 DEF Snapshots, Older
  <2>3. ~Older(s, s)
    BY DEF Snapshots, Older
  <2>4. QED
    BY <1>1, <1>2, <2>2, <2>3 DEF BaselineIsNewest, Older
<1>4. CatalogueIsBaseline'
  <2>1. ASSUME NEW id \in Ids, id \in Listed(s)
        PROVE  /\ kind'[id] = Catalogue[s.commit][id].kind /\ id \notin archived'
               /\ revisions'[id][current'[id]] = Catalogue[s.commit][id].content
    BY <1>1, <2>1, RevisionsAppended
  <2>2. ASSUME NEW id \in Ids, id \notin Listed(s) PROVE kind'[id] = "none" \/ id \in archived'
    BY <1>1, <2>2
  <2>3. QED
    BY <1>1, <1>2, <2>1, <2>2 DEF CatalogueIsBaseline
<1>5. OneRevisionPerContent'
  BY RevisionsAppended DEF OneRevisionPerContent
<1>6. EntriesAreComplete'
  <2>1. ASSUME NEW id \in Ids, NEW n \in DOMAIN revisions'[id]
        PROVE  \E t \in snapshots' : <<t, id, n>> \in entries'
    <3>1. CASE n \in DOMAIN revisions[id]
      BY <1>1, <3>1 DEF Inv, EntriesAreComplete, SourcesOf
    <3>2. CASE n \notin DOMAIN revisions[id]
      <4>1. id \in Listed(s) /\ revisions'[id][n] = Catalogue[s.commit][id].content
        BY <3>2, RevisionsAppended
      <4>2. Number(s, id) = n
        BY <4>1, RevisionsAppended
      <4>3. QED
        BY <1>1, <4>1, <4>2
    <3>3. QED
      BY <3>1, <3>2
  <2>2. \A id \in Listed(s) : <<s, id, current'[id]>> \in entries'
    BY <1>1, <1>2
  <2>3. QED
    BY <1>1, <1>2, <2>1, <2>2 DEF EntriesAreComplete, SourcesOf
<1>7. QED
  BY <1>3, <1>4, <1>5, <1>6 DEF Catalogued

LEMMA CatalogueTypes ==
  ASSUME Inv, NEW s \in Snapshots, Accepted(s)
  PROVE  /\ snapshots' \subseteq Snapshots /\ archived' \subseteq Ids
         /\ kind' \in [Ids -> PageKinds \union {"none"}]
         /\ revisions' \in [Ids -> Seq(PageContents)]
         /\ current' \in [Ids -> Nat]
         /\ \A id \in Ids : current'[id] \in 0 .. Len(revisions'[id])
         /\ entries' \subseteq snapshots' \X Ids \X Nat
<1>1. /\ snapshots' = snapshots \union {s}
      /\ kind' = [id \in Ids |-> IF id \in Listed(s) THEN Catalogue[s.commit][id].kind
                                 ELSE kind[id]]
      /\ archived' = {id \in Ids : kind[id] # "none"} \ Listed(s)
      /\ current' = [id \in Ids |-> IF id \in Listed(s) THEN Number(s, id) ELSE current[id]]
      /\ entries' = entries \union {<<s, id, Number(s, id)>> : id \in Listed(s)}
      /\ DOMAIN revisions' = Ids /\ revisions' = [id \in Ids |-> revisions'[id]]
  BY DEF Accepted, ReplaceCatalogue, Recorded, Tombstoned, Appended
<1>2. TypeOK
  BY DEF Inv
<1>3. \A id \in Listed(s) : id \in Ids /\ Catalogue[s.commit][id].kind \in PageKinds
  BY ListedIsPlace DEF Listed, PageKinds
<1>4. \A id \in Listed(s) : Number(s, id) \in 1 .. Len(revisions'[id]) /\ Number(s, id) \in Nat
  <2>1. ASSUME NEW id \in Listed(s)
        PROVE  Number(s, id) \in 1 .. Len(revisions'[id]) /\ Number(s, id) \in Nat
    <3>1. revisions'[id] \in Seq(PageContents) /\ Number(s, id) \in DOMAIN revisions'[id]
      BY <1>3, RevisionsAppended
    <3>2. QED
      BY <3>1
  <2>2. QED
    BY <2>1
<1>5. ASSUME NEW id \in Ids PROVE current'[id] \in 0 .. Len(revisions'[id]) /\ current'[id] \in Nat
  <2>1. current[id] \in 0 .. Len(revisions[id]) /\ Len(revisions[id]) \in Nat
    <3>1. current[id] \in 0 .. Len(revisions[id]) /\ revisions \in [Ids -> Seq(PageContents)]
      BY <1>2 DEF TypeOK
    <3>2. revisions[id] \in Seq(PageContents)
      BY <3>1
    <3>3. QED
      BY <3>1, <3>2
  <2>2. Len(revisions'[id]) >= Len(revisions[id]) /\ Len(revisions'[id]) \in Nat
    BY RevisionsAppended
  <2>3. QED
    BY <1>1, <1>4, <2>1, <2>2
<1>6. revisions' \in [Ids -> Seq(PageContents)]
  BY <1>1, RevisionsAppended
<1>7. kind' \in [Ids -> PageKinds \union {"none"}]
  BY <1>1, <1>2, <1>3 DEF TypeOK
<1>8. entries' \subseteq snapshots' \X Ids \X Nat
  <2>1. entries \subseteq snapshots \X Ids \X Nat
    BY <1>2 DEF TypeOK
  <2>2. \A id \in Listed(s) : <<s, id, Number(s, id)>> \in snapshots' \X Ids \X Nat
    BY <1>1, <1>3, <1>4
  <2>3. QED
    BY <1>1, <2>1, <2>2
<1>9. QED
  BY <1>1, <1>2, <1>5, <1>6, <1>7, <1>8 DEF TypeOK

LEMMA ImportStep ==
  ASSUME Inv, NEW k \in Slots, Import(k)
  PROVE  Inv'
<1> DEFINE s == request[k].snapshot
<1>1. TypeOK /\ request \in [Slots -> Requests] /\ Importing(k) /\ UNCHANGED github
  BY DEF Inv, TypeOK, Import, Importing
<1>2. Verified(s) /\ s \in Snapshots /\ s \in Sent
  <2>1. Verified(s) /\ s \in Sent
    BY <1>1 DEF Inv, Evidence, Sent
  <2>2. s.run \in 1 .. Len(runs)
    BY <2>1, SentIsVerified
  <2>3. request[k] \in Requests
    BY <1>1
  <2>4. s \in Snapshots \union {NoSnapshot}
    BY <2>3 DEF Requests
  <2>5. s # NoSnapshot
    BY <2>2 DEF NoSnapshot
  <2>6. QED
    BY <2>1, <2>4, <2>5
<1> HIDE DEF s
<1>3. CASE Importable(s)
  <2>1. /\ IF s = baseline THEN UNCHANGED catalogue ELSE ReplaceCatalogue(s)
        /\ baseline' = s /\ lastError' = "" /\ Answer(k, TRUE)
    BY <1>3 DEF Import, s
  <2>2. Catalogued'
    <3>1. CASE s = baseline
      BY <2>1, <3>1, SameCatalogue DEF Inv, Catalogued
    <3>2. CASE s # baseline
      BY <1>2, <1>3, <2>1, <3>2, CatalogueReplaced DEF Accepted
    <3>3. QED
      BY <3>1, <3>2
  <2>3. TypeOK'
    <3>1. CASE s = baseline
      <4>1. UNCHANGED <<snapshots, kind, archived, current, revisions, entries>>
        BY <2>1, <3>1 DEF catalogue
      <4>2. QED
        BY <1>1, <1>2, <2>1, <4>1, AnswerTypes DEF TypeOK, github
    <3>2. CASE s # baseline
      <4>1. Accepted(s)
        BY <1>2, <1>3, <2>1, <3>2 DEF Accepted
      <4>2. QED
        BY <1>1, <1>2, <2>1, <4>1, AnswerTypes, CatalogueTypes DEF TypeOK, github
    <3>3. QED
      BY <3>1, <3>2
  <2>4. Sent' \subseteq Sent
    BY <1>2, <2>1, AnswerTypes DEF Sent
  <2>5. \A t \in snapshots' : Verified(t)
    BY <1>2, <2>1 DEF Inv, Evidence, ReplaceCatalogue, Recorded, catalogue
  <2>6. QED
    BY <1>1, <2>1, <2>2, <2>3, <2>4, <2>5, AnswerTypes, RequestStep DEF Inv, Evidence, Ordered
<1>4. CASE ~Importable(s)
  <2>1. /\ request' = [request EXCEPT ![k].op = "refused", ![k].error = "error"]
        /\ UNCHANGED <<poll, database>>
    BY <1>4 DEF Import, s
  <2>2. /\ request' \in [Slots -> Requests]
        /\ \A j \in Slots : Importing(j)' => Importing(j) /\ request'[j] = request[j]
    BY <1>1, <2>1 DEF Requests, Importing
  <2>3. TypeOK'
    BY <1>1, <2>1, <2>2, SameTypes DEF TypeOK, github
  <2>4. UNCHANGED <<baseline, snapshots, catalogue>>
    BY <2>1 DEF database, catalogue
  <2>5. Catalogued'
    BY <2>4, SameCatalogue DEF Inv, Catalogued
  <2>6. Sent' \subseteq Sent
    BY <2>2, <2>4 DEF Sent
  <2>7. QED
    BY <1>1, <2>1, <2>2, <2>3, <2>4, <2>5, <2>6, RequestStep DEF Inv, Evidence, Ordered
<1>5. QED
  BY <1>3, <1>4

(***************************************************************************)
(* The invariant, and what follows from it.                                *)
(***************************************************************************)
LEMMA InitInv == Init => Inv
<1> SUFFICES ASSUME Init PROVE Inv
  OBVIOUS
<1>1. /\ main = Root /\ pushed = {} /\ runs = <<>> /\ poll = NoPoll
      /\ request = [k \in Slots |-> NoRequest]
      /\ baseline = NoSnapshot /\ lastError = ""
      /\ snapshots = {} /\ entries = {} /\ archived = {}
      /\ kind = [id \in Ids |-> "none"] /\ current = [id \in Ids |-> 0]
      /\ revisions = [id \in Ids |-> <<>>]
  BY DEF Init
<1>2. NoPoll \in Polls /\ NoPoll.pc = "rest"
  BY DEF NoPoll, Polls, PollPcs
<1>3. NoRequest \in Requests /\ NoRequest.op = "none"
  BY DEF NoRequest, Requests
<1>4. TypeOK
  <2>1. /\ main \in Commits /\ pushed \subseteq Commits /\ runs \in Seq(Runs)
        /\ poll \in Polls /\ request \in [Slots -> Requests]
        /\ baseline \in Snapshots \union {NoSnapshot} /\ lastError \in {"", "error"}
        /\ snapshots \subseteq Snapshots /\ archived \subseteq Ids
        /\ entries \subseteq snapshots \X Ids \X Nat
    BY <1>1, <1>2, <1>3, EmptySeq, SyncAssumption
  <2>2. kind \in [Ids -> PageKinds \union {"none"}]
    BY <1>1
  <2>3. revisions \in [Ids -> Seq(PageContents)]
    BY <1>1, EmptySeq
  <2>4. current \in [Ids -> Nat] /\ \A id \in Ids : current[id] \in 0 .. Len(revisions[id])
    <3>1. \A id \in Ids : current[id] = 0 /\ revisions[id] = <<>>
      BY <1>1
    <3>2. Len(<<>>) = 0
      BY EmptySeq
    <3>3. current \in [Ids -> Nat]
      BY <1>1
    <3>4. \A id \in Ids : current[id] = 0 /\ Len(revisions[id]) = 0
      BY <3>1, <3>2
    <3>5. QED
      BY <3>3, <3>4
  <2>5. QED
    BY <2>1, <2>2, <2>3, <2>4 DEF TypeOK
<1>5. \A k \in Slots : ~Importing(k)
  BY <1>1, <1>3 DEF Importing
<1>6. Evidence
  BY <1>1, <1>2, <1>5 DEF Evidence, Found, Chosen
<1>7. Catalogued
  <2>1. \A id \in Ids : DOMAIN revisions[id] = {}
    <3>1. \A id \in Ids : revisions[id] = <<>>
      BY <1>1
    <3>2. DOMAIN <<>> = {}
      OBVIOUS
    <3>3. QED
      BY <3>1, <3>2
  <2>2. BaselineIsNewest
    BY <1>1 DEF BaselineIsNewest
  <2>3. CatalogueIsBaseline
    BY <1>1 DEF CatalogueIsBaseline
  <2>4. OneRevisionPerContent
    BY <2>1 DEF OneRevisionPerContent
  <2>5. EntriesAreComplete
    BY <1>1, <2>1 DEF EntriesAreComplete
  <2>6. QED
    BY <2>2, <2>3, <2>4, <2>5 DEF Catalogued
<1>8. Ordered
  <2>1. Sent = {}
    BY <1>1, <1>5 DEF Sent
  <2>2. QED
    BY <1>1, <1>2, <2>1 DEF Ordered, Found
<1>9. QED
  BY <1>4, <1>6, <1>7, <1>8 DEF Inv, Catalogued

LEMMA StepInv == Inv /\ [Next]_vars => Inv'
<1> SUFFICES ASSUME Inv, [Next]_vars PROVE Inv'
  OBVIOUS
<1>1. CASE Next
  BY <1>1, PushStep, RunsStep, PollStep, SendStep, AnswerStep, ImportStep DEF Next, Work
<1>2. CASE UNCHANGED vars
  <2>1. UNCHANGED <<github, request, database>> /\ poll' = poll
    BY <1>2 DEF vars
  <2>2. QED
    BY <2>1, PollRests, PollOnly
<1>3. QED
  BY <1>1, <1>2

\* Only an import replaces the baseline.
LEMMA ImportsOnly ==
  ASSUME [Next]_vars, baseline' # baseline
  PROVE  \E k \in Slots : Import(k) /\ Importable(baseline') /\ baseline' = request[k].snapshot
<1>1. ~UNCHANGED database
  BY DEF database
<1>2. \E k \in Slots : RecordPoll(k) \/ Import(k) \/ Lose(k)
  BY <1>1 DEF Next, Work, vars, Push, StartRun, Conclude, Rerun, ReadStatus, ReadBranch, ReadRuns,
              VerifyRun, Download, RecheckBranch, RecheckRun, Post, Record, Send, Fail, Restart
<1>3. PICK k \in Slots : Import(k)
  BY <1>1, <1>2 DEF RecordPoll, Lose
<1>4. Importable(request[k].snapshot) /\ baseline' = request[k].snapshot
  BY <1>1, <1>3 DEF Import
<1>5. QED
  BY <1>3, <1>4

\* What is on its way to the catalogue is verified, the catalogue is that of the
\* baseline, and what is sent comes in the order of main.
THEOREM Invariance == Spec => []Inv
BY InitInv, StepInv, PTL DEF Spec

\* Every variable of the mirror keeps its type, whatever GitHub, the poll and the
\* requests that were given up do.
THEOREM TypeCorrect == Spec => []TypeOK
BY Invariance, PTL DEF Inv

\* Only the evidence of a successful attempt of a run on main is imported: the run
\* is read again after the download (poller.go).
THEOREM ImportsVerified == Spec => []VerifiedOnly
<1>1. Inv => VerifiedOnly
  BY DEF Inv, Evidence, VerifiedOnly, Verified, Listing
<1>2. QED
  BY <1>1, Invariance, PTL

\* The catalogue that is read is the one of the baseline's commit, complete and
\* nothing else (ImportRepositorySnapshot).
THEOREM ShowsBaseline == Spec => []CatalogueIsBaseline
BY Invariance, PTL DEF Inv

\* No page has two revisions of the same business content.
THEOREM RevisionsAreReused == Spec => []OneRevisionPerContent
BY Invariance, PTL DEF Inv

\* Every version has a source, and those of the catalogue have the baseline.
THEOREM ProvenanceIsBaseline == Spec => []ShownProvenance
<1>1. ASSUME Inv, NEW id \in Ids, kind[id] # "none", id \notin archived
      PROVE  ShownSource(id, current[id]) = baseline
  <2> DEFINE newest(s) == \A t \in SourcesOf(id, current[id]) : ~Older(s, t)
  <2>1. baseline # NoSnapshot /\ id \in Listed(baseline)
    BY <1>1 DEF Inv, BaselineIsNewest, CatalogueIsBaseline
  <2>2. baseline \in SourcesOf(id, current[id]) /\ newest(baseline)
    BY <1>1, <2>1 DEF Inv, BaselineIsNewest, EntriesAreComplete, SourcesOf
  <2>3. ASSUME NEW s \in SourcesOf(id, current[id]), newest(s) PROVE s = baseline
    <3>1. ~Older(s, baseline) /\ ~Older(baseline, s)
      BY <2>2, <2>3
    <3>2. s \in Snapshots /\ baseline \in Snapshots
      BY <1>1, <2>1 DEF Inv, TypeOK, SourcesOf
    <3>3. SameRun(s, baseline)
      BY <3>1, <3>2 DEF Older, SameRun, Snapshots
    <3>4. Verified(s) /\ Verified(baseline)
      BY <1>1, <2>1 DEF Inv, Evidence, BaselineIsNewest, SourcesOf
    <3>5. QED
      BY <3>2, <3>3, <3>4 DEF SameRun, Verified, Listing, Snapshots
  <2>4. ShownSource(id, current[id]) = CHOOSE s \in SourcesOf(id, current[id]) : newest(s)
    BY DEF ShownSource
  <2> HIDE DEF newest
  <2>5. QED
    BY <2>2, <2>3, <2>4
<1>2. Inv => ShownProvenance
  BY <1>1 DEF Inv, EntriesAreComplete, ShownProvenance
<1>3. QED
  BY <1>2, Invariance, PTL

\* A baseline is replaced only by the same or a newer run and attempt, also when an
\* import that was given up arrives late (the check under the workspace lock).
THEOREM NeverOlder == Spec => BaselineNeverOlder
<1>1. Inv /\ [Next]_vars => [~Older(baseline', baseline)]_vars
  <2> SUFFICES ASSUME Inv, [Next]_vars PROVE ~Older(baseline', baseline) \/ UNCHANGED vars
    OBVIOUS
  <2>1. baseline \in Snapshots \union {NoSnapshot}
    BY DEF Inv, TypeOK
  <2>2. CASE baseline' = baseline
    <3>1. baseline.run \in Nat /\ baseline.attempt \in Nat
      BY <2>1 DEF Snapshots, NoSnapshot
    <3>2. QED
      BY <2>2, <3>1 DEF Older
  <2>3. baseline' = baseline \/ \E k \in Slots : Import(k) /\ Importable(baseline')
    BY ImportsOnly
  <2>4. QED
    BY <2>2, <2>3 DEF Importable, Stale
<1>2. QED
  BY <1>1, Invariance, PTL DEF Spec, BaselineNeverOlder

\* As long as nobody force-pushes, a baseline is replaced only by the same commit or
\* a descendant of it: a diverged candidate is not imported, although the server
\* compares only runs and attempts.
THEOREM OnlyMovesAhead == ASSUME ~ForcePush PROVE Spec => BaselineOnlyMovesAhead
<1>1. Inv /\ [Next]_vars
        => [baseline # NoSnapshot => \/ baseline'.commit = baseline.commit
                                     \/ <<baseline.commit, baseline'.commit>> \in Ahead]_vars
  <2> SUFFICES ASSUME Inv, [Next]_vars, baseline # NoSnapshot
               PROVE  AtMost(baseline.commit, baseline'.commit)
    BY DEF AtMost
  <2>1. CASE baseline' = baseline
    BY <2>1 DEF AtMost
  <2>2. CASE \E k \in Slots : Importing(k) /\ baseline' = request[k].snapshot
                              /\ Importable(baseline')
    <3>1. baseline \in Sent /\ baseline' \in Sent
      BY <2>2 DEF Sent
    <3>2. ~Older(baseline', baseline)
      BY <2>2 DEF Importable, Stale
    <3>3. baseline.run \in Int /\ baseline'.run \in Int
      BY <3>1, SentIsVerified
    <3>4. baseline.run <= baseline'.run
      BY <3>2, <3>3 DEF Older
    <3>5. QED
      BY <3>1, <3>4 DEF Inv, Ordered
  <2>3. QED
    BY <2>1, <2>2, ImportsOnly DEF Import, Importing
<1>2. QED
  BY <1>1, Invariance, PTL DEF Spec, BaselineOnlyMovesAhead
=============================================================================
