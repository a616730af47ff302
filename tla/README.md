# Verification of the TM3L break detector

TLA+ models of the break detector: its asynchronous diff pipeline, its event
broker, its audit ledger, its list cache, its OpenAPI checker, the pull request
webhooks, and the dashboard with its sandbox, audit and prompt panels, with the TLC
configurations that check them and TLAPS proofs about each of them. Paths below
are relative to the repository.

## 1. The system

A client uploads two API documents, or a piece of code; a Go server queues the
job, a Rust engine compares, the verdict is stored in PostgreSQL and announced to
browsers over server-sent events (SSE), and a human may override a failed run,
which leaves an audit record.

| component | state | operations | talks to | correct when |
|---|---|---|---|---|
| Diff ingress, queue, workers (`internal/api/handlers.go`, `worker.go`) | temporary files, `JobQueue` (100), five goroutines | `handleRunDiff`, `handleCodeDiff`, `processJob`, `runAnalysisJob`, `runAnalysisViaCLI` | disk, engine over gRPC, fallback binary, PostgreSQL, `Notifier` | a job has one owner, its files outlive its analysis and are removed, one row per job, events only for rows, the row says what was uploaded, nobody waits for ever |
| SSE broker (`internal/api/broker.go`) | `Notifier` (100), map project -> channels, mutex | `listen`, `ServeHTTP` | publishers, browsers | no send on a closed channel, exact registry, project isolation, order, a slow client holds up nobody |
| Override ledger (`handlers.go`, `internal/db/db.go`) | `diff_runs`, `audit_overrides`, row locks | `handleOverrideDiff`, `OverrideDiffRun`, `dispatchWebhook`, `handleGetDiff` | PostgreSQL, `Notifier`, CI webhook | status and audit record change together, are never undone, are announced only when committed |
| List cache (`handlers.go`, `db.go`) | Redis entries of one minute | `handleListDiffs`, `ListDiffRuns` | Redis, PostgreSQL | every list is one that was; entries end up right |
| OpenAPI checker (`engine/src/diff.rs`) | none | `compare_specs` and below | engine service | what passes the gate, step by step, never breaks the first clients; additions raise no alarm |
| Dashboard (`viewer/src/App.tsx`, `CIMonitor`, `OverrideModal`) | React state, one `EventSource`, requests, a timer | `onmessage`, `handleOverride`, `executeSandboxDiff` | server, operator | parts of the page agree, one submission at a time, submissions end |
| Sandbox (`InteractiveSandbox.tsx`, `App.tsx`) | three editors, mode, files being read | typing, samples, Clear, file and drop, `executeSandboxDiff` with its texts | dashboard, server | a click audits what it saw, a code audit ends in a finding that quotes it |
| Audit panel (`AuditLedger.tsx`) | rows, mark of a query, run inspected | mount (twice), `fetchRuns`, refresh, inspect | list cache | the table is a list that was, the mark ends |
| Prompt panel (`PromptCompiler.tsx`, `App.tsx`, `handleGeneratePrompt`) | order, output, facts, two marks, timers | `executePrompt`, `copyToClipboard` | server, engine through `AnalyzeCode` | the output is of the last click, marks end |
| Pull request webhooks (`internal/api/webhooks.go`, `internal/analyzer/ast.go`) | one goroutine per delivery | `processPullRequestWebhook`, `fetchPRFile`, `AnalyzeCode`, `postPRComment` | Git provider, engine | the comment is about the head of the delivery, at most one, every delivery ends |
| Text checkers of the engine (`code_diff.rs`, `sql.rs`, `terraform.rs`, `graphql.rs`, `protobuf.rs`), source analyzer (`analyzer.rs`) | none | textual scans | engine service | pure functions of one text |
| Login, projects, migrations, server start | tokens, `projects` | handlers, middleware | PostgreSQL | refusals before the handlers |

What is hard in this code: the workers, handlers, listener and connections run
concurrently and meet on bounded channels and one mutex; a crash loses what is in
channels and keeps what is in the database and on the disk; the engine may answer,
refuse, be late or be gone, and the fallback that replaces it may itself start to
serve; transactions may fail, or commit without an acknowledgement; reads that
belong together are made one by one; the page is written by four sources in any
order; the order of releases decides what the gate lets through.
`PROJECT.json` lists these hazards, each at its line, with the properties that
watch them or the reason why none does.

## 2. Modules

| module | models | notes |
|---|---|---|
| `DiffPipeline` | ingress, queue, workers | `MCDiffPipeline` gives inputs and deployments; proofs in `DiffPipelineProofs` |
| `EventFeed` | what a feed of events promises | abstract |
| `SseBroker` | the broker at the grain of channel and lock operations | implements `EventFeed`; proofs in `SseBrokerProofs` |
| `AuditTrail` | what an audit ledger promises | abstract |
| `OverrideLedger` | override sessions, their transaction, readers | implements `AuditTrail`; proofs in `OverrideLedgerProofs` |
| `ListCache` | the cached list | proofs in `AuditLedgerProofs` |
| `AuditLedger` | the audit panel, composed with `ListCache` | `MCAuditLedger` gives runs and queries; proofs in `AuditLedgerProofs` |
| `OpenApiDiff` | the checker as the gate of an evolving specification | `MCOpenApiDiff` gives first releases and configurations; proofs in `OpenApiDiffProofs` |
| `Viewer` | the dashboard page, with what it can tell of the server | proofs in `SandboxProofs` |
| `Sandbox` | the sandbox panel, composed with `Viewer` | proofs in `SandboxProofs` |
| `PromptCompiler` | the prompt panel over its handler | proofs in `PromptCompilerProofs` |
| `PullRequestIngress` | the webhook receivers | proofs in `PullRequestIngressProofs` |

Two modules are compositions: `Sandbox` extends `Viewer` and `AuditLedger` extends
`ListCache`, with the variables of the panel added, so that a step of the panel is
a step of what it stands on, or leaves it alone. Elsewhere one model assumes what
another shows. `OverrideLedger!Announce` and `DiffPipeline!Notify` put events on
`Notifier`: `DiffPipeline` models the capacity of the channel and takes from
`SseBroker` only that the listener receives (`EventsAreTaken`), `OverrideLedger`
takes that there is room. `Viewer` sees events as `EventFeed` lets it: those of the
project its source is open for, in order, and not all. `OverrideLedger` and
`ListCache` take `Insert` of `DiffPipeline` as the step that adds a run.

### DiffPipeline

A job is identified with the request that made it. `stage[r]` is the handler of
`r`, up to the 202 (`accepted`); `pc[w]` the place of worker `w` in `processJob`:
`rpc` (the gRPC call), `cli` (the fallback), `serving` (inside a `cmd.Run` that
does not return), `insert`, `notify`, `return` (the deferred removal of files).
`disk[f]` is `whole` or `short`, since errors of `io.Copy` and `WriteString` are
dropped. `input[r].verdict` is what an analysis of the intact upload says. What is
outside may fail at any call; each failure counts in `faults`, except those that
the state explains (an unreachable engine, a run the schema refuses).
`deployment` says what `./break-detector-engine` is - absent, a one-shot program,
or the server that `engine/src/main.rs` builds - and whether the engine is dialled
on the server's own host, where a fallback that serves takes the engine's port.
It is chosen once, in `Init`.

### SseBroker

The send of the listener is non-blocking and the channels are unbuffered, so it
succeeds just when the connection's goroutine is parked in its `select` (`cpc[c] =
"parked"`). The map is `clients`, its keys `rooms`. The listener holds `mu` over
the whole range; the two critical sections of a connection do not block and are
one step each. The event that finds a goroutine away is skipped, which `EventFeed`
allows.

### OverrideLedger

`pc[s]` walks through `handleOverrideDiff`; uncommitted writes are not stored,
since no one sees them: `pc` tells them. `created_at` is the time at which a
transaction began, which is not the order of commits, hence `began`. A crash rolls
open transactions back and drops handlers and webhooks.

### ListCache and AuditLedger

`past` is every content `diff_runs` has had, so that a property can ask whether a
list ever was. `RowsFor` is the `WHERE` of the query, newest row first, and `ListOf`
its `LIMIT`. A lookup that fails is a miss. `Select` may return a prefix of the
rows, since `rows.Err` is not asked. `Limit` stands for 50.

The panel asks for all runs when it is mounted and on refresh. `main.tsx` renders
in StrictMode and `deploy/Dockerfile.viewer` serves the development build, where
an effect on mount runs twice: `MountRuns` is 2. `asked` are the fetches under way,
`mine` those of the panel on show; an answer to a panel that was left is dropped.
`blank` says that the first render of a mount is still on show: it has neither rows
nor the flag, which the effect raises after it, so the browser may paint it before
the flag is rendered (`Rerender`).
Readers in `Clients` also carry the requests of other clients. A lost request or
answer is `Lose`; the filter only hides rows and is left out.

### OpenApiDiff

A specification is reduced to what `diff.rs` compares: paths, methods, parameters
in their order, each inline or given by a `$ref` (then with what it stands for, which
the checker passes over), response codes, and per body a tree of schemas of which a node is
absent, a reference, composed, or of one type. Authors edit a working copy one
step at a time; `Compare` is the engine, `Release` the pipeline that lets a copy
through when its report has no breaking change. A path given by reference makes
the code panic (`as_item().unwrap()`): `Compare` is then not possible. `WellFormed`
says what any parsed document is beside its shape - operations belong to a path that
is there, responses and schemas to an operation, enum values to strings, required
properties to objects, and a parameter has one name and location - and is assumed of
the first releases only: that every edit keeps it is proved.

Two variables are kept for the properties only. `kept` are the schemas that every
release declared inline; `plain` are the operations whose parameters were, in every
release, all inline, under names of their own, and where the first release had them.
Outside `plain` the checker does not find what becomes required: a parameter behind a
`$ref` is passed over (`diff.rs:122`), of two with one name the last is compared
(`:125`), and a move to another location is not compared at all (`:154`).

### Viewer and Sandbox

Every variable of `Viewer` is one `useState` of `App.tsx` or of the modal, but for
the server (`feed`, the events on their way; `ledger`; `created`, whether the
sandbox's project is there) and what is under way (`flights`: requests and the
timer, each `sent`, `ok` or `failed`). `source` is the project and view of the
render in which the `EventSource` was opened, because its callback is a closure of
that render; a change of either closes it (`Reconnect`), and any event may be
missed. `executeSandboxDiff` is cut at its awaits: the project, then the upload;
or the code, then the timer of 600 ms.

`Sandbox` adds the editors. `taken` is the mode and texts of the render in which
the button was clicked, which is what the handler works on across its awaits;
`reads` are files a `FileReader` has not finished, which fill an editor whenever
they end, also when the panel is gone. `sent` is the last request with texts,
`listed` the code the finding quotes. `atClick` is kept for the properties only.
In a code mode a finding hides the editor behind a read-only diff (`activeDiff`).

### PromptCompiler

An `order` is everything the panel holds. A request is settled by the server as
refused, lost, or answered with facts that the engine `found`, that the fallback
of `AnalyzeCode` had ready (`sample`), or whose lists are null (`missing`), which
makes the render throw and the page blank (`lost`), since nothing catches it. The
outputs are written by the server, by the branch for a refusal, or, shorter, by
the branch for a lost request; the mark of a copy is taken back by timers that
know nothing of the output they were for.

### PullRequestIngress

Each delivery is a handler that fetches, analyses and posts; each of the three may
be answered, refused, or not answered until its timeout. The URL of the fetch is
`api.github.com` for either provider, so a Forgejo delivery gets a file of another
repository, or none. `comments` are those on the pull request; a post that failed
may have been taken.

## 3. Runs

All passing runs check safety and, except `api`, liveness under the fairness of
section 4. Deadlock is not checked: every behaviour may stop once the bounded
number of requests, events, clicks or edits is used up.

| run | question | bounds |
|---|---|---|
| `pipeline` | does anything get lost, duplicated, misreported or stuck between upload and event? | 2 uploads out of 4 sorts, 2 workers, both channels of 1, 2 failures, 2 deployments (a one-shot fallback with the engine elsewhere, a serving one beside the engine) |
| `broker` | is the registry exact and the feed as promised, whoever comes and goes? | 2 connections, 2 projects, 3 events, `Notifier` of 2 |
| `ledger` | is an override ever half there, seen or announced? | 2 runs, 2 overrides, 1 reader, 2 failures |
| `cache` | is a list, or the table on the screen, ever one that never was, and do the entries get right? | 2 runs of 2 projects, one of them there before, 2 readers of which one is also another client, `Limit` 1, 1 failure |
| `api` | can a chain of releases break the first clients, or an addition be refused? | 3 edits from 3 first releases (bare, with an optional parameter and schemas, with a required parameter), 1 operation, 1 parameter name in 2 locations, inline or by reference, 1 enum value, schemas of depth 2, 9 configurations |
| `viewer` | do the parts of the page agree, whatever comes in which order? | 1 run of a pipeline, 1 of the sandbox, 2 submissions, 3 views |
| `sandbox` | does a click audit what it saw, and end in a finding that quotes it? | 2 clicks, 1 fill, 1 code mode, 1 text beside the sample and the blank |
| `prompt` | is the output of the last click, and do the marks end? | 2 orders of which the fallback recognises one, 3 clicks, 2 timers of copies |
| `webhook` | is a comment about the right head, once, and does a delivery end? | 2 deliveries, 2 pushes |
| `finding_*` | section 6 | as small as shows it |

Why the bounds are enough. A channel of one is full with one job, so a second
sender waits; two workers suffice for every race of two owners, and the proofs of
section 5 lift the safety part to any number. Two failures allow a failure after a
failure, and a crash after either. Three events with a channel of two let one be
with the listener while two wait, in order. Two overrides of one run meet at its
row lock, two of two runs must not be mixed up. `Limit` 1 with two runs makes the
limit cut; two readers are the two requests of a mount, or one of them against
another client that fills the cache. Three edits allow two releases and a change
after them; a violation of `OldRequestsAccepted` needs one missed change, or two
that cancel. Two of the four locations suffice for a namesake and for a move; that
the property needs each of the three parts of `Plain` was checked by leaving it out,
upon which TLC finds it violated within the same bounds. A refresh while the first
render of the audit panel is on show would need a third reader, beside the two of the
mount: that step is covered by the proof of section 5 alone. One pipeline
run and one sandbox run are two runs, enough to show one while another arrives.
Two clicks of the sandbox allow a code audit after an upload and the reverse, and
one fill changes an editor at any point of either, which is what a stale text
needs. Three clicks of the prompt panel let a refused and a lost request follow an
answer; two timers are an older and a newer mark. Two deliveries suffice since
deliveries share only the pull request.

What each property says stands before it in its module. The deepest ones are:

- `DiffPipeline`: `OneOwner` (a job is in the channel once or with one worker,
  never both, and is not inserted again once it has its row), `RecordedAtMostOnce`
  although an insert may fail after it was carried out, `TempFilesOwned` (the only
  leaks are a panic on a nil file and a crash), `LedgerHonest` although files may be
  cut short, `JobsEnd`, `SendersProceed`. `LedgerHonest` also holds of a cut code
  upload, for the reason `finding_code_runs_dropped` shows: no code run is ever
  stored.
- `SseBroker`: `NoSendOnClosed` (a send on a closed channel would take the server
  down), `RegistryExact`, `ImplementsEventFeed`, `ConnectionsEnd`.
- `OverrideLedger`: `OverriddenIffAudited`, `ImplementsAuditTrail`,
  `ShownOverrideIsExplained`, `SessionsEnd`.
- `ListCache` and `AuditLedger`: `ResponsesAreSnapshots`, `ScreenIsASnapshot`,
  `CacheCatchesUp`, `LoadingEnds`.
- `OpenApiDiff`: `OldRequestsAccepted` and `OldPayloadsFit` compare the first
  release with the newest, not neighbours; `AdditionsPass`;
  `SummaryCountsTheReport` (the status of a run is taken from a counter that the
  code keeps beside the list, in five places).
- `Viewer`: `OneSubmission`, `PanelsAgree`, `GreenIsHonest`, `SubmissionsEnd`.
- `Sandbox`: `AuditsAreAsClicked`, `FindingQuotesTheAudit`, `AuditsReport`.
- `PromptCompiler`: `OutputIsTheLastClicks`, `MarksEnd`.
- `PullRequestIngress`: `CommentsMatchTheirDelivery`, `OneCommentPerDelivery`,
  `DeliveriesEnd`.

The type invariants of `SseBroker` and `OverrideLedger` are proved and in no run;
the other modules state one only where a proof needs it. For every property of a
passing run, an operator marked "Mutant:" stands before the definition it would
replace: a plausible bug at that place which the property catches.

## 4. Fairness

- `DiffPipeline`: senders that find room, workers and the listener take steps.
  Nothing obliges clients, engine or operator to act, and a process that serves
  never returns. The gRPC call has a deadline (`worker.go:87`); the fallback has
  none, so `JobsEnd` is stated for deployments whose fallback is not a server.
- `SseBroker`: the listener runs; the lock is granted to a waiter that was passed
  over (starvation mode of `sync.Mutex`), hence strong fairness for the two critical
  sections. A write to an open connection may block for ever - the server sets no
  write timeout - so a connection is only promised to proceed once its client is gone.
- `OverrideLedger`: handlers run, and PostgreSQL serves the queue of a row lock in
  turn, hence strong fairness of `UpdateStatus`.
- `ListCache`, `AuditLedger`: handlers run, requests arrive and are answered, and
  entries expire after their minute.
- `Viewer`, `Sandbox`: React runs effects, the browser callbacks, and every fetch
  ends with an answer or an error. Files need not be read.
- `PromptCompiler`: timers fire, requests are settled and their callbacks run.
- `PullRequestIngress`: handlers run and their timeouts fire; nobody else is
  promised to answer.

## 5. Proofs

TLAPS proves the following for every value of the constants that satisfies the
assumptions of the module (which state what the code gives: channels have room for
one, the literals `code-diff`, `default` and the placeholder values are no UUIDs,
the placeholders are no runs or texts, the bounds are naturals, a document is a finite
text and the first releases are well formed). Each invariant a run checks is proved,
and each action property and refinement; what stays with TLC is liveness.

- `DiffPipelineProofs`: `TypeOK`, `OneOwner`, `RecordedAtMostOnce`,
  `EventsAfterRecord`. Recording at most once is not inductive by itself: that an
  insert is of a job without a row needs that no other worker has the job, that it
  is not in the channel any more, and that it was accepted; `OneOwner` is the
  conjunction of those parts. The proof has one lemma per group of actions.
  On that invariant follow `JobsHaveTheirFiles` and `TempFilesOwned` (who still
  needs a file, and who will remove it, as a function of where the job is),
  `LedgerHonest` (an answer a worker holds is the verdict on the upload; a spec that
  was cut short is rejected, and a code run is not stored), and `NoSilentLoss` (while
  nothing failed no file is short, and a job that returned was announced).
- `SseBrokerProofs`: `TypeOK`, `NoSendOnClosed`, `RegistryExact`, and the
  refinement `ImplementsEventFeed`. The invariant adds `RangeConsistent` (what the
  range has yet to visit is still registered, because deregistration needs the mutex
  and closing comes after it) and `EventOrder` (identifiers in the channel, at the
  listener and in the inboxes are in order). From these a `Send` is a `Deliver` of
  `EventFeed`, registration a `Subscribe`, the end of the loop an `Unsubscribe`.
- `OverrideLedgerProofs`: `TypeOK`, `SessionsConsistent`, `OverriddenIffAudited`,
  `AnnouncedIsRecorded`, `ShownOverrideIsExplained`, and the refinement
  `ImplementsAuditTrail`. The invariant adds that whoever is past `begun` is in
  `began`, and that a reader that saw `OVERRIDDEN` read a run with a record; the
  commit, acknowledged or not, is the one step of `AuditTrail`.
- `AuditLedgerProofs`: `ResponsesAreSnapshots`, of the server alone and with the
  panel, `ScreenIsASnapshot`, and `ProjectsApart` (a response to a query for a project
  holds no run of another). That an answer is a list the ledger had says nothing of
  the entry a later request will read, so `CacheInv` says it of every place a list is
  kept - the Redis entries, and the handlers after their query - and that an entry lies
  under the key of its query; `PanelInv` adds the requests of the panel, its screen, and that there is nothing on the
  first render (`FirstRender`).
  `past` only grows, so what was a list stays one. The recursive function of `RowsFor`
  is shown to have a solution by its shortest counterexample, which needs a least
  number and no induction rule.
- `OpenApiDiffProofs`: `SummaryCountsTheReport`, `AdditionsPass`,
  `OldRequestsAccepted`, `OldPayloadsFit`. The invariant `GateInv` has three parts: first, released and working document are well formed; a
  report is the one `compare_specs` gives for the released and the working document
  (an edit drops it, so `Release` never acts on a stale one); what is in `kept` is
  declared by the first and by the newest release. The parts of a report do not
  overlap, since rule and place differ, so their sizes add up to the size of the
  list; the sums of the model are recursive over subsets, and a smallest subset where
  one differs from the size of the union would differ without one of its elements
  already. For the gate, a report that counts nothing is empty, and an empty report
  gives one relation per rule between neighbouring releases; each relation is
  transitive, and is carried from the first release to the newest. For schemas this
  needs that a location both releases declare with all that is above it is one
  `diff_schemas` reaches. For parameters the relation is
  one per operation, on the names the maps hold and, where the newer release is plain,
  on what it requires: there its map holds every parameter, under the name and in the
  location of the first release. No assumption is made on locations or references.
- `SandboxProofs`, for the page and its sandbox: `OneSubmission`, `PanelsAgree`,
  `GreenIsHonest`. The invariant adds `EventsHonest` (an event under way that says
  PASSED is of a run that did pass) and `Fresh`: nothing runs in a project that is not
  there, and the project is created once, so that the upload which follows puts no
  recorded run back to the queue. Without `Fresh` a run on show as PASSED could become
  `queued`. Then `FindingQuotesTheAudit` and `AuditsAreAsClicked`: every step of the
  panel is a step of the page or a stutter, so the invariant of the page holds and
  gives one flight at a time; on top, what the handler holds is what the editors held
  at the click, it has been sent while a code audit is under way, and it is of specs
  while a project is being made.
- `PromptCompilerProofs`: `OutputIsTheLastClicks`, from: one request at most is
  under way, of the last click, and the flag is up as long as it is.
- `PullRequestIngressProofs`: `CommentsMatchTheirDelivery`, `OneCommentPerDelivery`.
  A fetched file is of the head its delivery names up to the post, and a comment is
  of a delivery whose handler is over, so one that is about to post has left none.

Only model-checked is every liveness property (`JobsEnd`, `SendersProceed`,
`EventsAreTaken`, `ConnectionsEnd`, `SessionsEnd`, `CacheCatchesUp`, `LoadingEnds`,
`SubmissionsEnd`, `AuditsReport`, `MarksEnd`, `DeliveriesEnd`): fairness and `ENABLED`
are outside what the provers handle. What a recursive definition computes is proved
only as far as a least counterexample reaches; the provers have no induction rule.

`RangeConsistent`, `EventOrder` and the other strengthenings are proved only: no
run lists them.

## 6. Where the code and its documents differ

Each is a run that TLC ends with a counterexample.

- `finding_code_runs_dropped`: README.md says every diff run is persisted;
  `handleCodeDiff` gives the project id `code-diff`, which no row can have, so an
  analysed code diff is dropped at the insert, without any failure.
- `finding_parameter_hidden`: `diff.rs:151` says parameters made required are
  found; the maps are keyed by name alone, so a namesake in another location hides
  one.

Observed while modelling, without a run of their own:

- Server. A handler waits while `JobQueue` is full (`handlers.go:220`), although the
  README says it answers at once. `worker.go:138` calls the engine binary a
  fallback; the one the repository builds ignores its arguments and serves, and
  `cmd.Run` has no timeout. Any run may be overridden, a passed one too
  (`db.go:75`). When the run cannot be read back, the event of its override goes to
  `default` (`handlers.go:258`). Enums of parameters are not compared
  (`diff.rs:105`). A file that cannot be fetched is replaced by a sample and a
  failed analysis by invented counts, and both are commented on the pull request
  (`webhooks.go:131`, `ast.go:84`).
- Page. It subscribes to `default` while the runs are announced under their project,
  so alerts do not "appear as pipelines hit the backend" (UXR-001). The light is
  not red while a blocked run is on show, once the news of a project came in, and
  the answer to an override marks whichever run is then on show (`App.tsx:52`,
  `:75`), although `handleOverride` named the one of the click. RUNBOOK.md:44 says
  the viewer reconnects on interruptions; an `EventSource` does not after an answer
  other than 200.
- Sandbox. Once a finding is on show, the code editor is hidden until an event
  replaces the changes, while a new click audits the hidden text.
- Parameters. One given by a `$ref` is passed over (`diff.rs:122`), so making it
  required, or adding it required, is not reported; nor is a parameter that moves to
  another location under its name.
- Audit panel. It says that no records were found after a query that failed, and in its
  first render, before it asked (`AuditLedger.tsx:104`). A run seen as overridden may be
  shown as before, by a Redis entry of up to a minute, which ADR-013:46 admits, or by
  the slower of the two requests of a mount.
- Prompt panel. `types.ts:37` declares the lists of an analysis as always there, but
  the fallback of `AnalyzeCode` leaves them null for code it does not recognise -
  the sample the panel opens with, among others - and the page goes blank
  (`PromptCompiler.tsx:131`). The output written by the page itself says it was
  derived from static analysis. The mark of a copy may stand by an output nobody
  copied, and an older timer ends a newer mark.
- Webhook analytics panel. Its figures are constants, and its secret is not sent.

## 7. Not modelled

The webhook analytics panel (constants and a form that sends nothing), the text
checkers and the source analyzer (stateless scans of one text; their verdict
enters `DiffPipeline` as an answer), the text of comments, prompts and reports,
a delivery without a head commit (the file would be of the default branch),
generated gRPC code, token issuing, rendering, CI and deployment scripts.
`PROJECT.json` gives the reason per component.

## 8. Plan

Done: every module of section 2, with proofs of its safety properties. Left:

1. Compositions: workers, overrides and listener on one `Notifier` with its
   capacity; two replicas of the server over one database, whose brokers do not hear
   each other (`deploy/k8s/server.yaml`).
2. Mode dispatch of the engine (`main.rs`) and the rules of `code_diff.rs` as pure
   operators against reference definitions.
3. Abstract specifications of the list (an answer is some list that was) and of the
   gate (releases related rule by rule), with the refinements that sections 2 and 5
   state as invariants; `ListCache` as what `AuditLedger` implements.
