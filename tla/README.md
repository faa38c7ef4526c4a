# Viki: a verification development

TLA+ models of the parts of Viki in which requests, workers and processes
interact, the TLC runs that check them on small instances, and proofs, checked by
TLAPS, of what matters most for instances of every size. Every definition is
translated from the source; `PROJECT.json` maps it to the lines it stands for,
names the code changes that would break each property (the mutants), and lists
the hazards the properties are for.

- [The system](#the-system)
- [The models](#the-models)
- [The runs and what they show](#the-runs-and-what-they-show)
- [Where the code and its documents disagree](#where-the-code-and-its-documents-disagree)
- [The proofs](#the-proofs)
- [What is left out](#what-is-left-out)
- [Plan](#plan)
- [Using it](#using-it)

## The system

Viki is a wiki of specifications: concepts, features, and scenarios beneath
features. People edit and approve them; an assistant answers questions about them
and prepares drafts; approved scenarios are handed to a developer agent; a
workspace may instead mirror the specifications of a Git repository. A Go server
(`backend/cmd/viki`) keeps everything in PostgreSQL and serves the browser client;
a second Go process (`backend/cmd/viki-sync`) polls GitHub; the agents run in
Hermes, another process, with a Python plugin for the development tools.

| Component | State it keeps | Operations | What is hard about it | What makes it correct |
|---|---|---|---|---|
| **Governed page store** (`postgres/pages_write.go`, `review.go`, `ai_changes.go`) | tables `pages`, `revisions`, `objections`, `step_definitions`, `scenario_developments` | create, save, approve, apply an assistant change set, raise and resolve an objection | SERIALIZABLE transactions that read old snapshots and lock rows; two pointers of a page and three statuses of its revisions written by different statements; rules between two pages | no update is lost; pointers and statuses agree; a scenario is approved only under an approved feature; a feature is never without a scenario; an objection that is seen blocks |
| **Scenario development** (`postgres/development.go`, `app/development_claim.go`, `app/assistant_tools.go`, `hermes/plugins/viki/tools.py`) | rows of the queue (durable), claims (memory of the server), leases (memory of the plugin) | claim, complete, block; time-outs and restarts | three stores changed in separate steps; answers lost; either process restarts | one claim per task; only the turn that claimed finishes; the target is asked once; a claim that is being finished is given back |
| **Repository mirror** (`specsync/`, `postgres/repository_sync.go`) | the baseline, snapshots, pages and revisions of the mirror | poll (status, branch, runs, verification, download, recheck, post), import, record an error | every request sees GitHub or the server at another moment; an import that was given up is still in flight | the baseline never goes back; the catalogue is the one of its commit; equal contents share a revision; only verified evidence; it catches up |
| **Localization jobs** (`postgres/localization.go`, `localize/`) | `repository_localization_jobs`, leases in the row | claim, translate, complete, fail; requeue by an operator | leases that run out while the worker is still at work; workers that vanish | a job is published once; every job ends |
| **Assistant runtime** (`app/assistant_runtime.go`, `hermes/gateway.go`) | turns and the maps that route events and grant tools (memory); session ids, hand-over cursors and the last mode (database) | submit, hand over, stop, answer, handle an event, reconcile after a reconnect, authorize a tool call | requests, the consumer of events and a goroutine per reconnect work on the same maps with calls of the gateway in between; events name a session and no turn; session ids change; what a submit has read of the row is old when it writes it | one open turn; the state shown is its state; a turn that has ended has no tools; every turn ends; no message of the other mode is passed over |
| **Assistant requests and events** (`app/assistant_http.go`, `assistant_tools.go`, `assistant_runtime.go:584-650, 764-960`) | 256 events for replay, 64 per subscriber; drafts in the audit trail | publish, subscribe, replay; load a history; hide the internal context in answers | slow and returning subscribers; tools whose answer is lost; markers split over deltas | a subscriber misses nothing that is kept; every draft is shown once, with its turn; what is hidden stays hidden and nothing else |
| **Hermes JSON-RPC client** (`hermes/client.go`) | pending calls, the connection, a channel of 256 events | call, connect, read, fail what is pending, close | an answer, a time-out, the loss of the connection and Close race for one channel; a full channel of events stops the reader, and the consumer of the events may itself call | a call gets its own answer or an error, once; whoever hands one over never waits; no event is skipped |
| **Login** (`app/auth.go`; its sessions are not modelled) | the failed attempts of each key (memory) | log in: allow, verify, count a failure or forget them | the limit is checked and the failure counted in two critical sections, with a slow verification between; a window that slides | a login is refused exactly at the limit; failures and memory are bounded whatever overlaps |
| Reading and search, sessions, the browser client, configuration and start-up | — | queries and single statements | — | — |

How they interact. Browser requests call the server; the assistant's tools and the
developer's tools are HTTP calls from Hermes to the server that carry the id of
their session, which the server checks against a turn of the assistant or a claim
of the queue. Approving a scenario in the page store inserts its row in the
development queue in the same transaction. An import of the mirror creates the
revisions whose translation jobs the localization worker finds. A workspace is
either governed by people or mirrored; database triggers keep the one from
writing the tables of the other.

## The models

```
PageLifecycle    <--refines-- Governance  <-- GovernanceProofs, MCGovernance
DevelopmentTasks <--refines-- Development <-- DevelopmentProofs, MCDevelopment
RemoteCalls      <--refines-- HermesClient <-- HermesClientProofs, MCHermesClient
                           RepositorySync <-- RepositorySyncProofs, MCRepositorySync
                           Localization   <-- TimeoutProofs, MCLocalization
                           LoginLimiter   <-- TimeoutProofs (MCLoginLimiter)
                           Assistant      <-- AssistantProofs, MCAssistant
ConversationHistory <-- Conversation
Conversation, EventStream, StreamFilter, Handoff <-- StreamedConversation <-- MCConversation
EventStream, StreamFilter               <-- StreamProofs
StreamedConversation, StreamProofs      <-- ConversationProofs
```

The names of definitions are the names of the functions, fields and tables they
stand for. `PageLifecycle`, `DevelopmentTasks` and `RemoteCalls` say what three
components promise, with every operation a single step; the others follow the code
step by step.

**Governance** models transactions by what PostgreSQL makes of them. `Begin` takes
the snapshot (`tx[c].snap`) that every later read uses; `LockPage` is
`SELECT ... FOR UPDATE`: it waits while another transaction has the row
(`Locked`), fails when the row was changed since the snapshot (`RowUnchanged`),
and evaluates the checks the code makes after it (`MayRevise`, `MayApprove`) on
the snapshot; `CommitSave`, `CommitChangeSet` and `CommitApprove` make all writes
visible at once. `Rollback` is possible at any time, which stands for every error,
for a deadlock that PostgreSQL resolves and for a dependency cycle between
serializable transactions: the model does not assume that PostgreSQL detects such
a cycle, so that its properties rest on the row locks and first-updater-wins
alone. `AddObjection` and `ResolveObjection` are READ COMMITTED transactions of
one statement each that decides. A change set writes new pages and new revisions
together (`ValidBatch` is the rule about features and scenarios). Revisions are
numbers per page, texts are left out but for the step definitions a scenario uses.

**Development** has a record per tool call in flight (`call[k].pc` is where its
handler is). `Reserve`, `SelectRow`, `CommitRow` and `Bind` are the four steps of a
claim; `Begin` is the check of the lease under the mutex; `Apply`, `Complete` and
`Block` call the target and the database. `heard` is whether the plugin still
waits for the answer: `Timeout` clears it while the server goes on. The lease is
kept by the plugin under the turn (`held`) and by the server under the session
(`claims`). `RestartServer` forgets claims and calls, `RestartHermes` forgets
leases. `claimant` is a history variable, for the refinement.

**RepositorySync** has GitHub (pushes, runs and their attempts in any order), one
poll at a time, whose steps are the requests of `poller.go`, and the requests the
server works on (`request`, in `Slots`): the worker may give up on one, which
stays. `Import` is the transaction: the row lock of the workspace makes it one
step. A commit is represented by its catalogue (`Catalogue[c]`), so that verifying
a snapshot, its archive and its receipts is one guard (`Eligible`, and the steps
`VerifyRun`, `RecheckBranch`, `RecheckRun`).

**Localization** counts time in steps of the backoff and keeps for each job what is
left until `available_at` (`wait`); `Tick` passes time. A worker that has
vanished, been cancelled or lost its database is `Stop`.

**LoginLimiter** has the requests in flight, each of one key (an address and an
e-mail). `Allow` is `loginLimiter.allow`, pruning included; what comes after it,
until the failure is counted (`Fail`), the session is stored (`CreateSession`, then
`Success`) or an error ends the request without counting (`SessionError`), are steps
of their own, because the lock is given up in between. The attempts of a key are a
set of records with their time, `limiter[k]`, `made` telling those of one moment
apart; `failed` is a history variable, all failures since the last success, none
of them pruned. A restart of the server forgets everything, which is `LoginInit`.
It is the one model without a run in `PROJECT.json`: its properties are proved, and
`MCLoginLimiter` is there to look at it with TLC (2 keys, 2 requests in flight, a limit
of 2 in a window of 2 and 5 failures, more than the bound, so that some have to leave
the window before the last is let through).

**Assistant** is the runtime for one conversation in one mode. A step is what a
goroutine does between two points at which others can run: a section under the
mutex, a write outside it, a call of the gateway or of the database. `pc[t]` is
where the submit of turn `t` is and `session[t]` its local variable; `consumer`,
`stopper`, `responder` and `reconciler[c]` are the other goroutines. Hermes is
modelled as `gateway.go` uses it: a runtime id is `<<session, connection>>` and is
good for that connection only, a stored id is `<<session, rotation>>` and changes
when the session is compressed, `session.resume` of an old stored id answers the
present one, a session runs one prompt at a time, and events name the runtime id
and not the turn. Calls may fail at any time; an event that happens while the
connection is lost is never delivered. An interrupt has no effect but to let the
prompt end. `Bind` and `BindStored` are the two unsynchronised writes of lines
189-190. The server starts connected, with nothing submitted. `Authorized` is what
`handleHermesTool` checks.

**HermesClient** is what Assistant takes for granted of a call. A step is a use of
the mutex or of a channel by one goroutine: `Register`, `Write` and `Await` are a
call, `ReadResponse` takes the call out of `pending` under the mutex and `Deliver`
sends the answer after it, `ReadFails` and `Close` fail what is pending.
`requests` and `inbox` are the two directions of the connection; `Disconnect` loses
the end of what Hermes has sent, and a request it has got may still be run.
`consumer` is the goroutine that takes the events and, for a request that its
profile must not make, calls Hermes itself (`Interrupt`, `failClosed`).

**Conversation** has the two modes of a conversation, which Assistant leaves out,
and leaves out connections and rotations, which are in Assistant. `read` is the row
as the request of a turn has loaded it, before `Reserve`; all that `submit` does
works on it. `buildHandoff` takes what lies behind the cursor of the last mode,
`Submit` gives it to Hermes with the prompt, and `UpdateAssistantHandoffCursor` and
`UpdateAssistantMode` are written after that, each of which may fail. A session that Hermes has
forgotten is replaced by the turn that resumes it or by whoever loads the history
(`ViewCreate`). `ApplyDraftChanges(t, u)` is a tool call of the prompt of turn `t`
that is authorized by the grant of turn `u`. `handed` and `counted` are history
variables: the messages Hermes was given, and the session a cursor counts.

**ConversationHistory** holds the functions that make messages to show out of
those Hermes keeps, `visibleHistory` and `attachDraftReceipts`: `Seen` is what the
loop over the messages has gathered of them. **StreamFilter** holds those
that hide the internal context, over texts of letters; `Scan` is the loop of `Feed`.
`FilterAssumption` says of the two markers what the proof needs: inside a start
marker no marker begins, and none is an end marker as well.
Those of the code, `<<<VIKI_INTERNAL_CONTEXT_V1>>>` and
`<<<END_VIKI_INTERNAL_CONTEXT_V1>>>`, have it: both begin with `<<<`, have no
other `<`, and differ at the fourth letter. Loops and recursion are recursive
functions; no operator is RECURSIVE, so that all of it can be proved about.
**Handoff** is what `buildHandoff` of Conversation leaves out: which of the messages
behind the cursor are put into the prompt. `AddLine` is an iteration of the loop of
`formatHandoff`; a message is the line made of it, a sequence of bytes of which some
begin a character, so that `truncateUTF8` can be followed. A line is put before those
of the later messages at once, where the code appends it and reverses the lines in the
end. The texts of the lines and the white space that is trimmed from both ends of the
result are left out.
**EventStream** is the publisher, its replay buffer and the handlers that send it to
browsers. **StreamedConversation** puts the four beside Conversation: the steps
that tell the browsers something publish an event.

## The runs and what they show

Twelve runs; each property of a passing run has a mutant of the code that breaks
it under the same configuration.

| Run | Instance | What it shows |
|---|---|---|
| `two_pages` | 2 slugs, 2 requests, 2 revisions a page, 1 objection, 1 step definition | no lost update; pointers match statuses; what was read still holds of a locked row; the rules that relate two pages; approvals move forward and an objection they have seen blocks; the transactions implement `PageLifecycle` |
| `objection_race` | 1 page, 1 request, 1 objection | finding 1 |
| `development` | 2 revisions, 2 sessions of 2 turns, 2 calls in flight, 3 leases | claims and leases implement `DevelopmentTasks`; the claim of a call that is finishing is its own, and is given back by a call that is there; one claim per task; sent once |
| `sync` | 5 commits, 3 runs of which one is run again, 2 requests in flight; main only moves ahead | baseline, catalogue, revisions, provenance, evidence |
| `sync_fair` | 3 commits, 2 runs, 1 request, fair polls | the mirror catches up |
| `diverged` | 3 commits, one beside another, 2 runs, 2 requests | finding 2 |
| `localization` | 2 revisions of a page, 2 workers, 3 attempts, a lease twice as long as the backoff, 1 requeue; fair | published once; every job ends |
| `assistant` | 2 turns, 1 session compressed once, 2 connections; fair | one open turn; every turn ends unless its events are taken |
| `assistant_tools` | 2 turns, 1 session compressed twice, 1 clarification or forbidden request, stops | the state shown; grants are taken away and not given back |
| `reconnect_grant` | 1 turn, 2 connections | finding 3 |
| `client` | 2 calls, one of them of the consumer, 2 connections of 2 events each, room for 1 event; fair | calls implement `RemoteCalls`; nobody waits to hand over an answer; no event is skipped; a call that is answered or has lost its connection returns without its deadline |
| `conversation` | 2 turns in either mode, 2 sessions, 1 draft; 1 browser, 2 events for replay, room for 1; answers of up to 7 letters in 3 deltas; up to 4 lines of 1 to 3 bytes behind a cursor, room for 3 lines and 5 bytes | what is behind a cursor was handed over; every draft is shown with its turn, once; events arrive without gaps; answers without the internal context; the longest end that fits is handed over |

Why the bounds are enough. A lost update, a stale read or a double claim takes two
actors: one commits between the snapshot and the lock of the other, or holds the
lock while the other waits. Two revisions of a page are one that is superseded and
one that is not. In `development` two turns of one session
exercise the binding to the turn and two sessions the row lock; three leases let a
lease be issued, released and replaced. In `sync` a content must be imported,
changed and changed back for a revision to be reused while it is not the last,
which takes three runs; two requests in flight are an import that was given up and
the one after it; commit 5 changes the kind of a page and makes an import fail in
the middle. Three attempts, two workers and a lease longer than the backoff let a
lease run out, be taken over and be answered late. In `assistant` one turn is
ended while the next is submitted, on two connections, so that each of the two can
be the one a reconcile finds; stops and requests of Hermes are in
`assistant_tools`, which has one connection. More turns only repeat the pair, and
the proofs cover every number, with stops, requests and reconnects together. In
`client` the second connection is the one on which a late answer of the first could
arrive, and with room for one event the reader waits while the consumer calls; the
256 of the code only make that rarer. In `conversation` the two turns are one
change of the mode, or two submits that overlap in one or in both modes, each of
which can create, keep or replace a session; longer sequences, three turns with three sessions
and random walks with five, were tried while the model was written, and the proofs of
`CursorCovers` and `DraftsShown` cover all. Seven letters hold a marker of three at the start and one
at the end, or a prefix of one before a marker. Five bytes end between lines, within a
line of two characters, and within a character. What the bounds cut off: more than
two pages in a change set (beyond a feature and its scenario), chains of several
reconnects during one turn in the liveness run, and two browsers, which share
nothing but the stream they read.

What three properties do not say. `CursorCovers` makes no claim of a cursor that a
session took over from the one it replaced, which happens when Hermes has forgotten
a session and also when two submits overlap, the second with a row in which the
first had not yet written its session; the first messages of the new session are
then never handed over. It counts a message as handed over when it was among those
behind the cursor, of which at most 20 and 4 KB are sent; which ones is what
`HandedOver` says. `AnswersShown` leaves
out a block that is never closed, which is hidden while the answer streams and
shown by the complete text, as `assistant_runtime_test.go:445` expects.
`HeardCallsReturn` leaves out the calls of the consumer itself: the reader may be
held up by the events behind the one the consumer is working on until that call gives up after five
seconds.

Symmetry is used in `two_pages` and `development`, which check invariants, action
properties and refinements of `Init /\ [][Next]_vars` and no liveness. Deadlock is
checked except in the runs of Assistant, `client` and `conversation`, where all turns
or calls may be over and nothing is left to do.

Fairness, and why the code gives it:

- `RepositorySync!FairSpec`: the worker polls for ever (`service.go` `Run`), and a
  request that is made again and again does not fail every time (strong fairness
  of the successful outcome of each). Pushes, runs and restarts need not happen.
- `Localization!FairSpec`: a worker goes on (`localize.go` `Run`) and time passes.
- `Assistant!FairSpec`: goroutines that can run do, calls return (each has a
  time-out), prompts end, and the gateway is connected again (`client.go` retries
  for ever). No user need do anything.
- `HermesClient!FairSpec`: goroutines that can go on do, and `failClosed` gives up
  its call after its deadline of five seconds. Nothing is assumed of Hermes, of the
  network or of the other deadlines.

That a claim which is being finished is given back is stated as an invariant,
`FinishingIsServed` (there is always a call that will do it), and needs no fairness.

## Where the code and its documents disagree

1. `objection_race`. `README.md:18` says "Unresolved objections block approval".
   `ApproveRevision` counts the objections of the snapshot its first statement
   took (`review.go:54`); objections are written by READ COMMITTED transactions
   with which a serializable one does not conflict. One that commits while the
   approval waits for the row is not seen. `ObjectionsSeenBlock` is what does
   hold: an objection in the snapshot blocks.
2. `diverged`. `docs/repository-sync.md:15` says "An older or diverged candidate
   cannot replace a newer baseline". Descent is compared by the poller only, with
   the baseline at the start of its poll; the import compares run and attempt. An
   import that was given up and commits late can replace a baseline beside it.
   While main only moves ahead the sentence holds (run `sync`).
3. `reconnect_grant`. A reconnect that finds a turn just reserved finishes it,
   because it has no session yet; its submit goes on and registers the grant
   (`assistant_runtime.go:193-194` do not look at `Finalized`), which nothing takes
   away any more. `assistant_runtime_test.go:421` calls that "failed reconnect left
   the turn grant active".

Three more behaviours of the assistant came up, of which no document says that
they must not happen, or which only a hazard in `PROJECT.json` records: a turn
that was finished in this way takes the events of the next turn of the session,
which then ends only when a user stops it (`TurnEndsUnlessTaken` says that nothing
else keeps a turn open); the rotation of a session after its turn has ended
deletes the entry of its old stored id even when the next turn has been registered
under it (line 522); and `ensureSession` may cache the session of a lost connection
after the reconnect has cleared the cache (line 255).

## The proofs

The proofs hold for every value of the constants that satisfies the named assumption of
the module: NULL is no slug, no revision and no page, bounds are natural numbers,
catalogues are of the type of a catalogue, and main's history is an order. The
bounds `MaxNumber`, `MaxTurns` and so on are arbitrary, so that they bound nothing.
In each module the theorem `Invariance`, or its namesake, says that an inductive
invariant holds, and the others follow from it.

**Page store.** `TypeOK`, `PointersMatchStatuses`, `LinearHistory`,
`ApprovedUnderApprovedFeature` and `LockedRowsAreFresh` are invariants, and
Governance implements PageLifecycle (`Refinement`, a step simulation under the
identity mapping with `latest <- count` and `queue <- developments`). None of them
is inductive alone. A commit writes what it computed from an old snapshot, so the
invariant has to say what a snapshot is still good for: of the rows the
transaction has locked it is the present state (`LockedRowsAreFresh`), and of all
others it lags behind in a way that only grows (`SnapshotsLag`: pages do not
disappear, counts do not fall, an approved page stays approved). The last is why
approving a scenario may read the approved revision of a feature it does not lock.
`LastIsCurrent` (the current revision has the highest number) is what makes the
check of the base revision enough for a linear history.

The second part of `GovernanceProofs` goes on from there. `StepCases` sorts every step by what it does to
revisions: nothing, new pages with their drafts, one new draft, or one approval.
With it, `FeatureHasScenario` rests on a change set that creates a feature and its
scenario in one commit, and on `PagesKept`: nothing is deleted or moved.
`ApprovalOutputs` needs `StepsOfScenarios` (no other page uses a step definition),
`ApprovalIsForward` that the draft an approval takes is later than what it replaces.
`ObjectionsSeenBlock` is a property of the step that commits, whose guard was
evaluated in an older snapshot.

**Assistant.** `TypeOK`, `OneOpenTurn` and `OpenTurnIsBusy` are invariants and
`RevokedForGood` holds of every step. The inductive invariant adds `Holders`:
whatever can finish a turn or route an event to one (the two routing maps, the
consumer, a stop, a reconcile) holds turns only that have been reserved. A
reservation is not undone, so such a turn is either the open one, or finished, and
then `finishTurn` does nothing: this is why an event handled late does not close
the next turn or change its state. `RevokedForGood` follows from `OneOpenTurn`: a
rotation grants only to the turn in `activeByConversation`, which is not finished,
and the one other place that grants is the submit of the turn itself.
`FinishRevokes`, that a turn which ends loses the grant under every id its session
has had, is a claim about the first connection (a reconnect registers the turn it
found under the ids it was told, finding 3). `FirstConnection` says what holds
until then: nobody reconciles; whoever takes the events of an open turn has one
that is registered; and an open turn is granted under no id but the `StoredID` it
has at that moment, because a rotation moves the entry together with the id.
`finishTurn` deletes the entry of that one.

**Development.** All six invariants of the run and the refinement of
`DevelopmentTasks`. The inductive invariant is about three stores at once: the
claim in memory, the lease the plugin holds, and the row. `FreshIsSecret` says that
nobody else knows a lease before its call has answered; `ClaimIsTaken` that a claim
with a task has the row taken by its turn, and nothing sent unless it is being
finished; `FinisherHolds` that a call past `Begin` has the lease of the present
claim, so that no second call gets there; `SentOfRows` that a developed row was sent
once and a queued one was not. Together they survive a restart of the server, which
takes the calls with the claims, and one of Hermes, which only forgets leases.

**Repository mirror.** All seven properties of `sync`. The invariant adds
`Evidence` (what a poll has verified, a request carries and the snapshots hold is an
attempt of a run that has succeeded; the commit a poll has chosen is the head it
read), `BaselineIsNewest` and `EntriesAreComplete` (the rows of the import agree with
the baseline), and `Ordered`: without force-pushes, of the baseline and the imports
in flight the later run has the same commit or one ahead, and all are behind the
head the poll has read. That is why an import that was given up does no harm,
although the server compares runs only. `OnlyMovesAhead` assumes `~ForcePush`;
finding 2 shows that it has to.

**Localization.** `TypeOK` (which no run checks, for the proof does) and `PublishedOnce`,
which is inductive with `BusyHasJob`
because completing a job looks at the job itself and not only at the lease.

**Login.** `LoginTypeOK`, `FailuresAreLimited`, `AttemptsAreBounded` and
`AllowedByFailures`, for any number of requests in flight. The theorems have
`LoginAssumption` (some keys, finitely many requests, a limit and a window of at least
one) as their hypothesis. The invariant (`LoginInv`) says that pruning has lost nothing that still counts
(`WindowKept`, which rests on a clock that does not go back), so that a request is
refused exactly at the limit (`AllowedCorrectly`); and that what is remembered of a
key, together with the requests that were let through and are not counted yet
(`Pending`), stays under the limit plus what can be in flight (`Bounded`). A request
that is let through has just pruned the list and found fewer than the limit, and a
failure that is counted is no longer pending: this is why both bounds survive any
overlap, and why they need `Pending` to be stated together with the list.

**Hermes client.** `NeverBlocks`, `NoEventSkipped` and the refinement of
`RemoteCalls`. The invariant
says who may still send on the channel of a call (whoever finds it in `pending`, or
the reader that has taken it from there, and nobody once the channel has its
answer), and that what carries an id, from the request to the answer, is of one
call (`RequestsAreNew`, `AnswersAreOwn`), which rests on ids that only grow.
For the events, `InOrder` says that those in the channel follow the one the consumer
has taken last, that the unread ones of the connection follow those, and that while
the connection is alive none is missing between what was sent and what is queued.

**Conversation.** `CursorCovers`, `DraftsShown`, and the two again with
`EmittedInOrder` and `AnswersShown` of `StreamedConversation`, which implements the
conversation and the stream (`StreamedImplements`: every step is one of each or a
stutter). For the cursors the invariant (`Prepared`) carries the claim
through a submit: what a turn has read of a cursor was handed over before
(`handed` only grows, so an old row does no harm), and what it will write is covered
by that and by the part of the prompt Hermes took.

For the drafts the invariant (`DraftInv`) follows the loop of `visibleHistory` over
each history as it grows, a message at a time. A draft is among those that
wait for a message or in one message, of the prompt that made it (`Attributed`),
which holds because a session runs one prompt at a time and its last user message is
of that one (`RunningSeen`). A draft has one record (`Numbered`), no two histories
carry the same (`ViewsAttributed`), and the two modes are never shown from one
session, although turns and viewers replace sessions in any order (`Separate`: a
session that was made is written to the row once, by the one who made it).
`AttachedReceipts` says what `attachDraftReceipts` adds to that: the drafts that are
missing, to the last message of their turn, and that it moves and repeats none.

The last part of `ConversationProofs` is about the hand-over itself (`HandedOver`), for
any number of messages, of any length, and any limits. As long as the loop of
`formatHandoff` goes on its text is the last messages, and `total` its length; where it
stops (`StoppedAt`) it has of the first message that does not fit the longest beginning
that has room and ends with a character (`Truncated`). That is `LoopInv`, by induction
over the iterations (`LineAdded`, `LoopEnds`). An end of what was said that reaches
further back contains that whole message, and one that does not is part of the text
(`JoinedGrows`), so the text is the longest end that fits (`StoppedAtLongest`).

**Stream and filter.** `StreamOrder`: the events that are kept, those a browser
waits for and those it was sent are consecutive (`StreamInv`), so that the first it
is sent is the one after the last it has seen, or the oldest there is.
`AnswerOutside` holds for texts of every length over any letters, and
`StreamedIsOutside` for any number of deltas: what the filter has shown, what it
keeps (the longest suffix that begins a marker, or the end of a hidden text) and the
rest of the text determine what `Outside` says of the whole. What it keeps can
still become a marker and what it has shown cannot, which rests on
`FilterAssumption`.

Induction. What a recursive function computes is proved by induction. The
induction theorems of the library take an operator as parameter, which the provers
cannot instantiate, so `StreamProofs` begins with facts of its own, with sets and
functions in place of operators: `NatSetInduction` (a set with 0 and all successors
has all numbers), `SizeInduction` (on the length of a text), `RecursiveFunction` and
`Iteration` (a definition that recurs on shorter texts, or along `0 .. n`, has a
solution, so that the CHOOSE behind it is one). They rest on the
well-foundedness of the numbers (`SmallestNat`) and nothing else.

Before these proofs TLC checked `FirstConnection` and `DraftInv` as invariants
of `assistant_tools` and of `conversation` with two drafts, and `DraftInv` also, in
part of the states, of three turns with three sessions.

Only model-checked: the liveness properties `CatchesUp`, `EveryJobEnds`,
`TurnEndsUnlessTaken` and `HeardCallsReturn`, which rest on fairness and ENABLED, out of
the prover's reach. Every invariant, action property and refinement of the passing
runs is proved.

## What is left out

- Texts and their validation: titles, Gherkin, the shape of a change set, the
  verification of a snapshot and its receipts, the validation of a translation.
  Each is one outcome, accepted or refused.
- Comments, the audit trail, search and the reading of pages: nothing else depends
  on them. The one choice of a reader that a property needs, the source a mirrored
  version is shown with, is `ShownSource`.
- Of the assistant: the texts of prompts, citations and titles, the change of the
  primary mode, the list of conversations, and the tools that only read. Assistant has one mode with
  connections and rotations, Conversation both modes without them; other
  conversations share no state with it but the gateway.
- Tickets and the dialling of a web socket, which are one step of HermesClient.
- Ids of events that begin again with the server: the frontend loads the
  conversation again when it connects.
- `ConfigureRepositoryWorkspace`, which runs at start-up before anything is served.
- Sessions of users (single statements), hashing, configuration, migrations, routing, generated code
  and the browser client.

## Plan

Done, in this order:

1. `PageLifecycle`, `Governance`, `GovernanceProofs`: the page store.
2. `DevelopmentTasks`, `Development`, `DevelopmentProofs`: the development queue.
3. `RepositorySync`, `RepositorySyncProofs`: the mirror.
4. `Localization`, `TimeoutProofs`: the translation jobs.
5. `Assistant`, `AssistantProofs`: the turns of a conversation.
6. `RemoteCalls`, `HermesClient`, `HermesClientProofs`: calls, the reader and the events.
7. `EventStream`, `StreamFilter`, `ConversationHistory`, `Conversation`,
   `StreamedConversation`, `StreamProofs`, `ConversationProofs`: both modes,
   histories, events.
8. `LoginLimiter`, with `TimeoutProofs`: the limiter of the login, proved.
9. `Handoff`, in `StreamedConversation` and `ConversationProofs`: what of the messages a
   hand-over contains.

Left:

10. `ConfigureRepositoryWorkspace` against the trigger that keeps people from
    writing to a mirrored workspace.
11. Pure functions, each against a reference definition over bounded inputs:
    `validateBDDSteps` and the roles of steps, the shape of a change set.
12. The event handling of `assistant.tsx`.

## Using it

In this directory: `tlc -config MCGovernance.cfg MCGovernance` checks a run,
`tlapm GovernanceProofs.tla` a module of proofs. `PROJECT.json` lists the module and
the configuration of each run. The largest, `conversation`, `sync` and
`assistant_tools`, have two to three million states and take about a minute and a half.
