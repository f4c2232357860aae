# Formal model of orvo-agent

This directory models orvo-agent in TLA+: the operational case store and the
operator surfaces over it, the internal API, the run ledger, the report scripts
with their dispatch over WhatsApp, the way from connector reports to cases, the
schedules, workflow planning, approvals and external actions, and the WhatsApp
conversation server. TLC checks the models on small instances; TLAPS proves, for
every size, every invariant and action property that the runs check, and two
refinements (the case store and the run ledger against what they promise);
liveness is left to TLC. `PROJECT.json` maps every definition to the source lines
it stands for.

Run a check with `tlc -workers 2 -config <cfg> <module>` and a proof with
`tlapm <module>Proofs.tla`, from this directory.

## 1. The system and its parts

orvo-agent is a Python service in two halves that share a process image but no
state: a Flask server that talks to prospects over WhatsApp (`server.py`,
`app/conversation`), and "Orvo Brain" (`app/brain`), which builds daily reports
for commerce businesses, keeps the operational cases they give rise to, and
serves an internal API to operators.

| Part | State | Operations | What makes it hard | Module |
|---|---|---|---|---|
| Operational case store (`operational_cases.py`, `storage.py`) | table `operational_cases`: one JSON row per case, UNIQUE (business, dedupe key) | `upsert_detection`, `transition_case`, `add_comment`, `assign_case` | each is a SELECT, a computation and an INSERT OR REPLACE in separate transactions; report scripts and operator requests have their own connections and no version column | `CaseStore` |
| Operator views (`operator_api/*`, `operator_views.py`, `work_items.py`) | none | queues, top lists, histograms, throughput, queries, brief | fifty loops over the same rows, each reading columns of its own | `CaseRecords`, `CaseHistograms`, `CaseQueues`, `CaseQuery`, `OperatorDesk` |
| Internal API (`operator_auth.py`, `operator_audit.py`, `operator_api/actions.py`, `http/internal_brain`) | table `operator_audit_events` | case actions, brief, audit | two reads and a write on a connection per request; an audit on another one | `InternalApi` |
| Merge and insights (`report_merge_policy.py`, `insights.py`) | none | merge reports, find insights | units that disagree; rules that suppress each other | `ReportMerge` |
| Detection (`operational_cases.py:864-1258`) | none | insights to detections | stale sources suppress cases | `DailyFindings` |
| Scheduler (`scheduler.py`) | none | `should_run_schedule`, `next_daily_run`, `due_schedules` | local time across changes of the clock | `Schedules` |
| Run ledger (`run_ledger.py`) | table `run_ledger`: one JSON row per run | `create_run`, `update_run`, `append_*` | the same read-modify-write; terminal runs must stay as they are | `RunLedger` |
| Execution ledger (`execution_ledger.py`) | none of its own | `begin_pipeline_run`, `record_pipeline_success`, `record_pipeline_failure` | a dozen ledger, case and WhatsApp calls in sequence, any of which may raise | `ReportRuns` |
| Dispatch (`dispatch.py`, `delivery.py`, `idempotency_keys`) | the set of marked keys; messages at WhatsApp | `_send_text_once` | check, send and mark are three steps, the middle one over the network | `ReportRuns` |
| Runner, pipeline, script (`runner.py`, `pipeline.py`, `scripts/run_orvo_brain_reports.py`) | the control state of each process | due businesses one by one; forced runs | processes overlap, die and are retried | `ReportRuns` |
| Workflow automation (`workflow_automation.py`, `action_catalog.py`) | none of its own | `simulate_case_workflow` | one transaction per action; simulations race | `WorkflowPlanning` |
| Workflow actions and approvals (`workflow_action_ledger.py`, the two queues) | tables of planned actions and approval requests | plan, decide | decisions read the status and update without asking for it again | `Approvals` |
| External actions (`external_actions.py`) | outcomes in the run ledger | execute an approved write | duplicate detection by reading one's own run | `ExternalActions` |
| Conversation (`server.py`, `app/conversation`) | `_buffers`, `_timers` in memory; tables `conversations`, `leads` | `webhook`, `_process` | timers racing their cancellation; threads that overlap outside the lock; restarts | `Conversation` |
| Delivery status (`delivery_status.py`, `server.py`) | table of events | parse, record | repeated and interrupted webhooks, one commit per event | `DeliveryStatus` |
| Runtime, configuration, connectors | configuration rows | compile, validate | sequential | none |
| Control plane plugin, adapters, text | small or none | | I/O and formatting | none |

Interactions. A report script calls the execution ledger, which writes the run
ledger, the case store and, through dispatch, WhatsApp. The operator API writes
the case store and reads it through the views. Workflow planning writes the
action ledger, operators decide in it, external actions read the decisions and
append to the run ledger. The webhook stores delivery statuses and hands the
inbound message to the conversation; these two are independent of the rest.

Per part, correctness means:

- *Case store*: one row per dedupe key; each row's history is one the lifecycle
  allows; the columns agree with the history; nothing is lost.
- *Views*: numbers shown side by side agree; lists are triage orders; queries
  split a queue without loss; what is degraded stays so.
- *Internal API*: every action is scoped, and told once; the brief is consistent.
- *Findings*: figures are what their evidence says; no case rests on stale data.
- *Schedules*: what is announced is what is due.
- *Run ledger*: a run is opened once, gains outcomes, is closed once, rests.
- *Reports*: the ledger tells the truth about what was delivered; no message is
  delivered twice; every run ends; every due report is run.
- *Workflow, approvals, external actions*: each action is planned once, as the
  catalog allows; a request is decided once; no write without approval; no effect
  without an audit entry; no effect twice.
- *Conversation and delivery statuses*: no message is lost, handled twice or left
  unanswered; the operator is told once of a hot lead; each status is kept once.

`PROJECT.json` lists the hazards one by one, at their lines.

## 2. Modules

| Module | Models | Kind |
|---|---|---|
| `CaseBoard` | what a case promises: identity, lifecycle, a log that grows | abstract |
| `CaseStore` | the case store with any number of workers | detailed |
| `CaseStoreProofs` | theorems about `CaseStore`, its rows and their timelines, and that it implements `CaseBoard`; lemmas on `Rankings` and `CaseRecords` | proofs |
| `Rankings` | sorted and cut lists, sums | pure |
| `CaseRecords`, `CaseHistograms`, `CaseQueues`, `CaseQuery` | the projections, as operators over the rows of `CaseStore` | pure |
| `OperatorDesk` | the projections over a store that lives | composed |
| `OperatorDeskProofs` | theorems about the projections and `OperatorDesk` | proofs |
| `InternalApi` | requests and report scripts on one store | detailed, composed |
| `InternalApiProofs` | theorems about `InternalApi`, and that it is a behaviour of `CaseStore` | proofs |
| `ReportMerge` | merging of reports, insight rules | pure |
| `DailyFindings` | the pipeline from connectors to detections | detailed, on `ReportMerge` |
| `Schedules` | due and next runs in a time zone | detailed |
| `RunLog` | what the ledger promises an auditor | abstract |
| `RunLedger` | the ledger with several clients of one run | detailed |
| `RunLedgerProofs` | theorems about `RunLedger`, and that it follows `RunLog` | proofs |
| `ReportRuns` | scripts, pipeline, dispatch, idempotency, execution ledger | detailed |
| `ReportRunsProofs` | theorems about `ReportRuns`, and that it implements `RunLog` | proofs |
| `Approvals` | planned actions, approval requests, operators who decide them | detailed |
| `WorkflowPlanning` | simulations of workflow rules, on `Approvals` | composed |
| `ExternalActions` | executors of approved actions, on `Approvals` and a shared run | composed |
| `ExternalActionsProofs` | theorems about `Approvals` and `ExternalActions` | proofs |
| `Conversation` | webhook, timers, threads, tables of one phone | detailed |
| `ConversationProofs` | theorems about `Conversation` | proofs |
| `DeliveryStatus` | webhooks of delivery statuses, and their repetition | detailed |
| `ServicesProofs` | theorems about `DeliveryStatus`, `WorkflowPlanning`, `Schedules`, `ReportMerge` and `DailyFindings` | proofs |
| `MCCaseStore`, `MCOperatorDesk`, `MCInternalApi`, `MCExternalActions`, `MCServices` | values of constants, symmetry sets | instances |

`CaseQuery` extends `CaseQueues`, which extends `CaseHistograms`, `CaseRecords`, and
that `CaseStore` and `Rankings`. `InternalApiProofs` and `OperatorDeskProofs` extend
`CaseStoreProofs`. No module declares a RECURSIVE operator: what the code does in a
loop is a recursive function (`Sums`, `MergedUpTo`, `DetectedUpTo`), or the order that
sorting comes to (`Place` in `Rankings`).

### CaseStore

`cases` is the table, from case id to row. A *worker* is any thread of control
with a connection: a request of the operator API or a report script. Its state
goes from idle to *detecting* (the clock is read, `operational_cases.py:551`) to
*drafted* (the row it is about to write) and back; operator mutations go straight
to drafted. Every action before `Persist` is what happens up to and including the
SELECT and the guards on its result; `Persist` is the INSERT OR REPLACE, which
deletes the rows in conflict on the id *or* on the dedupe key. `Abandon` is a
worker that dies or finds the database locked. `RejectRedetection` is the
ValidationError raised when the case was opened after the detection read its
clock. That nothing else is refused is `OnlyNewerCasesRefuse`: whoever wrote the row
and whatever became of the case, the merged columns never contradict each other, so
that validation ends a report run only in that race.

Rows keep status, the five lifecycle dates, the assignee, the source runs, the
evidence snapshots (for each run, when they were captured: a snapshot's key starts
with the run id, and `UniqueSnapshots` keeps the first of a key) and the timeline.
Titles, severities, priorities and metadata are overwritten by every detection:
`CaseRecords` takes severity and priority from the last detection of the timeline.
`evidence_refs` and `artifact_refs` are merged like the source runs and left out.
`ColumnsFollowTimeline` relates each column to the timeline, which different
expressions of one write extend.
Times are readings of one clock, `0` is `None`. Operators give a reason, or none,
for every transition; only operators transition (`operator_api/actions.py:74` is
the only caller in the program).

`overlapped` is a history variable: the workers whose draft was read before
another commit on the same key. It turns "lost updates happen" into a property
that can hold: `LossNeedsOverlap`, a step loses history only if an overlapped
worker commits in it.

With one worker at a time the store implements `CaseBoard`
(`ImplementsCaseBoard`, checked by `operator_desk` and proved): the row of a key,
without its dates, is its case.

### Rankings, CaseRecords, CaseHistograms, CaseQueues, CaseQuery and OperatorDesk

The lists of `operator_api` are sorted by a number, highest first, ties by case id, and
cut. `Rankings` says so without sorting: the place of a case is the number of cases
that are not behind it, and `Top` takes the first places. `Sums` adds up a function
over each set of its indices.

`CaseRecords` holds what the projections share: the business, type, entity kind
and payload of a case, its snapshots (those of the runs its evidence column names) and
worst freshness, age buckets, priority
brackets, orders with ties, latency summaries. Clock readings are ticks, of which
`Second` make a second (a million in the code): every surface truncates a difference
of two timestamps to whole seconds by itself (`Truncated`, `Elapsed`; `Seconds` with
the clamp at zero), so that differences need not add up. `CaseHistograms` and `CaseQueues`
have one operator per function of `operator_api`, under the function's name;
functions that differ in the grouping column share a parameterised operator.
`CaseQuery` is the query language of `operator_views.py`: field specifications,
the errors of a clause, matching with unset fields, execution, built-in views.

`OperatorDesk` lets one worker at a time mutate the store (each mutation of
`CaseStore` in one step) and asks, in every state, whether the surfaces agree:
`ViewsAgree` (status counts, date columns, timelines and queries give the same
totals), `LatenciesCompose` (a resolved case was acknowledged, and its resolution
time is what acknowledging and handling took, or one second more, since each of the
three is truncated by itself; summaries and histograms show the same extremes),
`TriageIsStable` (a longer list only adds rows at its end, and nobody
left out ranks higher), `QueriesPartition` (negation and comparison split a queue),
`DegradedStays` (a degraded case stays degraded, it keeps its connectors, and its
worst freshness never gets better: no merge of the evidence column drops a snapshot).

### InternalApi

A request is a worker of `CaseStore` that serves once; a script is one that detects
for ever. `Unauthenticated`, `Forbidden` and `Admitted` are what happens before any
table is read; a case action is `Scope` (the read of `get_scoped_case`),
`Load` (the second read, by id), `Write`; refusals go to `audit` on another
connection, which may raise. The brief is three reads (`ReadBrief`). Scripts look
the case up once to count it (`LookUp`) and once more to store it.
`torn` records that a draft overtaken by another commit was written, `raced` that a
case was stored while another script counted it as new. The routes of the session
and of the action catalog refuse without an audit entry; they read no case and are
not in the model.

### ReportMerge and DailyFindings

A report is a function from metric keys to metrics with a value, a unit and the
sources of its evidence. `merge_duplicate_metric` adds numbers of one unit and lets
the last win otherwise; `generate_insights` has one predicate per rule.
`DailyFindings` builds the reports in the order of the plan, merges them
(`MergedUpTo`: the first, the first two, ...) and detects (`DetectedUpTo`, insight
by insight, keeping the first detection of a key); `Raise` is a connector that
raises, after which every planned connector is blamed. Two facts the instance is
built around: only the sample adapter emits freshness metrics today (those of
several connectors would be merged like other numbers: ages would add up), and
spreadsheets and files report orders without a unit, so that they replace the count
of an integration, or are replaced by it. A manual payload may sign its metrics with
any source (`adapters/sample.py:36`), that of an integration included. The sum in
`FiguresMatchCitations` is therefore stated for reports that sign with names of
their own (`OwnNames`): if two reports cite one name, the citations do not tell
which of them is in the sum. The instance has such a payload, whose order count
replaces that of the integration it names, and TLC finds the sum wrong there when
the condition is dropped.

### Schedules

Time is counted in minutes of UTC. The offset of the zone changes once. `ToUtc` is
`zoneinfo`'s reading of a wall time by its fold (PEP 495). `KeepsDays` names the
zones that the property is about: a repeated minute is of one day with the other
pass of it, the clock is not put forward by more than a day, and time begins early
enough for both passes. It leaves out zones that put the clock back across midnight:
there `next_daily_run` can announce an instant that has passed, as TLC shows when
they are let in. America/St_Johns did so until 2011; no zone in use does.

### RunLedger

The same construction as the case store, for the ledger: `DraftCreate`,
`DraftAppend`, `DraftUpdate`, `Persist`, `Abandon`. The three append operations
differ only in the list they append to, so the outcomes are one sequence.
`DraftUpdate` includes the call without arguments, which rewrites even a closed
record, as it is. A closed run changes, or an outcome vanishes, only when a commit
was overtaken (`AuditLossNeedsOverlap`); every other commit is a step of `RunLog`
(`StepsFollowRunLog`).

### ReportRuns

A script's `pc` walks through the statements of `run_due_daily_reports` (or
`run_forced_report`, which is a script with one due business), the pipeline,
`_send_text_once` and `record_pipeline_success` or `record_pipeline_failure`. Both
messages of a day, the report and the owner case brief, go through the actions
`CheckKey`, `Send*`, `MarkKey`, `StoreRaises`; `Returned` and `Raised` say where
their caller continues: an exception fails the pipeline in the first case and is
caught in the second. `delivered` counts what WhatsApp accepted. A ledger call is
one step here, since in this module a run is written by its script alone;
RunLedger is where the two halves of a call are apart.

`disturbed` and `abandoned` are history variables: the keys for which two scripts
were between check and mark at once or a send was not followed by its mark, and the
runs whose script died or raised where nothing catches. Connectors and WhatsApp are
called without a timeout (`delivery.py:241`, `:281`; `adapters/*.py` pass none to
their sessions either), so that a script may wait for ever in `building` or `sending`
(`Waiting`): `EveryRunEnds` says that a run which does not end is abandoned or hangs
there. Dry runs and further
report dates are not modelled.

### Conversation

One phone (phones share only the lock, which is never held across a call).
Message *m* starts timer *m*, whose thread is *m*. A thread is waiting, cancelled,
fired (too late for `cancel()`), then in one of the stages of `_process`, each one
call to the database, to the graph or to WhatsApp. `Fail` is an exception in the
`try` block. `Crash` restarts the server: memory is gone, the tables stay.

### Approvals, WorkflowPlanning and ExternalActions

An action is its idempotency key. `Plan` inserts it, and its approval request if its
definition requires one. An operator's request first reads the request and its
action (`ReadRequest`, with the guards), then updates both tables in one transaction
(`Decide`); Python's sqlite3 begins that transaction at the first UPDATE, so the
guards are outside of it. `outpaced` is a history variable: the operators whose read
was followed by another's update. `ApprovalQueue` and `ExecutionQueue` are what the
two queue projections select.

`WorkflowPlanning` extends `Approvals` with simulations: `Simulate` validates the
rule against the catalog and compares its conditions with the case as read;
`PlanNext` and `SkipNext` take the actions one by one; `Break` is a locked ledger.
An idempotency key is computed from redacted parameters, so that actions that differ
in a secret are one. No code of the repository outside the tests calls
`simulate_case_workflow`; the model is of what it does when called.

`ExternalActions` extends `Approvals` with executors, which go through
`execute_external_action`: `Load` (the run, and whether it shows the key as
executed), `Check` (policy, and the approval read from the action ledger),
`LoadForAppend` and `Persist` (the two halves of an append to the run ledger), the
provider call, and the append of its outcome. A refusal is appended, too. The owner
of the run closes it at any time (`CloseRead`, `CloseWrite`), after which appends
raise. History variables say which writes were ever approved (`granted`), which runs
had a record replaced by one computed from an older copy (`overwritten`), and for
which attempts executors overlapped or a result was not recorded (`unsettled`).
Duplicates are looked for within a run, so `EffectsAreRecordedOnce` is a property of
each run; an approved action stays in the execution queue after it was executed and
can be executed again under another run.

### DeliveryStatus

A webhook is a batch of status entries and perhaps an inbound message. A thread
parses it (`Parsed`: the places of the entries that have an id and a status), stores
the entries in order, one by one (`Store`: INSERT OR IGNORE and commit),
hands the message over and answers. `StoreRaises` skips the rest, is logged and
answered 200 like success, so that WhatsApp does not repeat the webhook: what was
not stored is lost (`excused`). `Answer` may be lost and `Restart` interrupts all
threads; both lead to another delivery, which hands the message over again. Of
several inbound messages in one webhook the server takes the first; the model has at
most one.

### MCServices

`ReportMerge` with `DailyFindings`, `Schedules`, `WorkflowPlanning` and
`DeliveryStatus` share no state. One run checks them side by side: the variable
`scene`, chosen in the initial state, says which of the four moves while the others
stay as they began. No product of their states is built, and each is explored as if
it were alone.

## 3. Runs

| Run | Instance | Question and answer |
|---|---|---|
| `case_store_race` | 2 workers, 1 key, 2 ids, times to 2, timelines to 3 | Do racing workers keep the table and its rows consistent? Yes; loss needs an overlap, and validation refuses only a detection older than its case |
| `case_store_deep` | 1 worker, 1 key, 2 runs, 2 owners, timelines to 5 | Do the columns, the evidence included, follow the history through recurrences? Yes |
| `case_store_decisions` | as race | May a detection erase an operator's decision? **Yes** (finding 1) |
| `operator_desk` | 1 worker, 2 keys of different type, numbered in the order their cases open, 2 kinds of detection, 3 instants just above bucket bounds beginning with the first case, on a clock of tenths of a second, 4 events | Do all surfaces agree through every history, and does the store implement the case board? Yes |
| `internal_api` | 2 requests that ask one of 12 things, 2 scripts, 1 problem | Is each action scoped and told once, the brief consistent, the count true? Yes, but for torn writes |
| `run_ledger_race` | 2 clients, 1 run, 2 outcomes | Is the audit lost, or the run log left, without an overlap? No |
| `report_runs` | 2 scripts, 2 businesses (one without connector), 2 runs, 2 connectors, fair | Is the ledger truthful and complete, do repeats need a disturbance, does every run end as the run log says, or hang in a call without a timeout? Yes |
| `report_runs_once` | 2 scripts, 1 business | May the owner get a report twice? **Yes** (finding 2) |
| `report_runs_due` | 1 script, 2 businesses | May one business take the report of another with it? **Yes** (finding 3) |
| `external_actions` | 2 operators, 2 executors, 1 run, a write that needs approval, one that does not, a read, 2 requests | Do decisions stand, was each effect approved, planned and recorded once, but for races and losses? Yes |
| `services` | 3 connectors in any order; days of 8 minutes; 2 simulations of 6 rules on a case read twice, 2 operators; 2 webhooks, 2 threads, 2 tries | Do figures match citations, cases rest on fresh data, runs come as announced, plans follow the catalog, statuses survive? Yes |
| `conversation` | 3 messages, 1 restart, fair | Is every message kept, handled once and answered? Yes |

**Bounds.** Two actors are what a lost update takes, with the third party of the
classical anomalies being the row itself; two ids are one case and the one that
replaces it; a timeline of 3 holds opening, closing and reopening, of 5 a whole
second life (opened, acknowledged, closed, reopened, acknowledged or reassigned).
Two clock values tell before from after; the desk has three, an hour and a day
apart, so that cases fall into different buckets and ages exceed idle times; their tenths of a
second are such that two truncated latencies miss a second of the third. The two
payloads hold every rank of freshness but one, and a state without a rank, in one
detection that has the worst and one that has the best, so that the worst must not
drop when the second follows the first. There
the clock starts with the first case and the second key never opens before the first,
which leaves out the histories where only the second problem exists. Four
events there are one case's resolution and recurrence, or two cases half way, which
ties and orders need. The twelve requests are one for each way the API can answer.
Two runs are two that race, or a failed one and its retry. Three connectors are two
whose figures agree and one that does not, on either side of them. A day of eight
minutes has room for a change of the clock by two, before, at and after the cron
minute and across midnight; three days contain the day after it. Two deliveries of a
webhook are the interrupted and the repeated one, or two that overlap. Three messages
are a timer cancelled, a timer that fired too early and the timer that is registered
when it pops. Two external requests are two executors at once on one key, and a
retry after success, failure, a lost result or a closed run.

**Fairness.** `report_runs`: a process that is not killed executes its next
own statements (weak fairness of each script's `Progress`, except where it is
`Waiting`); starting, being killed, and being answered by a connector or by WhatsApp
are not fair: those calls have no timeout (`delivery.py:241`, `:281`). SQLite is
assumed to return or raise. `conversation`: timers expire, threads get the lock and are
scheduled, calls return or raise (the WhatsApp call has a timeout of ten seconds;
that the language model and SQLite return or raise is assumed). Nobody is obliged
to write and the server need not crash. The safety runs assume nothing.

**Deadlock** is not checked (`CHECK_DEADLOCK FALSE`): requests, cron and messages
are not obliged to come, so that all these systems may rest, and the bounded
instances run out of clock, ids or messages.

**Mutants.** Each property has one: a variant of a definition with a plausible bug
(a lookup dropped, a reset forgotten, a guard weakened), written just before the
definition it replaces, under which TLC finds the property violated.

## 4. Findings

1. *Decisions do not survive detections* (`operational_cases.py:634`). The case
   engine contract says detections "may not silently dismiss human decisions". A
   detection that read the case before an operator closed it writes the old row
   back; the decision and its event are gone.
2. *Reports are not sent exactly once* (`dispatch.py:53-72`): overlapping scripts,
   an answer of WhatsApp that is lost, a script killed between send and mark.
3. *Not every due report is run* (`runner.py:145`): the failure of one business
   ends the loop.

Related, and stated by properties that hold: a closed run can change, against "Once
terminal, a run cannot be mutated or appended to"
(`docs/specs/run-ledger-foundation.md:96`), but only by an overtaken commit
(`AuditLossNeedsOverlap`); and a connector that raises has every planned connector
reported as stale, those that answered included (`CasesRestOnFreshData`).

## 5. Proofs

Each theorem holds for every value of the constants: any number of workers, clients,
scripts, operators, messages, keys and ids, and any bounds.

| Module | Theorems |
|---|---|
| `CaseStoreProofs` | `TypeCorrect`; `DedupeIsUnique` (`OneRowPerKey`); `NoOverlapNoLoss` (`LossNeedsOverlap`); `OnlyNewerCases` (`OnlyNewerCasesRefuse`). `LegalTimelines`, `StatusOfTimeline`, `ColumnsOfTimeline` (`TimelinesAreLegal`, `StatusFollowsTimeline`, `ColumnsFollowTimeline`). `CommitsFollowBoard`: every step but an overtaken commit is a step of `CaseBoard`; with one worker `LoneWorkerImplementsBoard` (`ImplementsCaseBoard`) and `LoneWorkerKeepsDecisions` (`DecisionsSurviveDetections`) |
| `InternalApiProofs` | `ApiFollowsStore`: a behaviour of the API is one of `CaseStore`, hence `ApiKeepsCases`; `ScopedWrites` (`WritesStayInScope`); `TraceableActions` (`ActionsAreTraceable`); `TrueCounts` (`ReportedCountsAreTrue`); `OneStory` (`BriefTellsOneStory`) |
| `OperatorDeskProofs` | `DeskReadsLawfulRows`; `DeskImplementsBoard` (`ImplementsCaseBoard`); `DegradedForLife` (`DegradedStays`); `StableTriage` (`TriageIsStable`); `SplitQueues` (`QueriesPartition`); `LatenciesAddUp` (`LatenciesCompose`); `AgreeingViews` (`ViewsAgree`) |
| `RunLedgerProofs` | `TypeCorrect`; `NoOverlapNoAuditLoss` (`AuditLossNeedsOverlap`); `CommitsFollowRunLog` (`StepsFollowRunLog`); with one client `LoneClientImplementsRunLog` |
| `ReportRunsProofs` | `TypeCorrect`; `LedgerTellsTheTruth` (`LedgerIsTruthful`); `BriefsFollowReports`; `RepeatsNeedDisturbance`; `FinishedRunsAreComplete` (`EndedRunsAreComplete`); `ScriptsImplementRunLog` (`ImplementsRunLog`) |
| `ExternalActionsProofs` | `TypeCorrect`; `QueuesAreComplete` (`EveryActionHasItsQueue`); `DecisionsStand`; `WritesAreApproved`; `EffectsArePlanned`; `EffectsAreRecorded` |
| `ConversationProofs` | `TypeCorrect`; `MessagesAreHandledOnce`; `NoMessageIsForgotten`; `AnnouncedLeadsAreHot`; `UndisturbedChatsAreOrderly` |
| `ServicesProofs` | `RetriesKeepStatuses` (`StatusesSurviveRetries`); `PlansFollowCatalog` (`PlansAreGoverned`); `AnnouncedRunsAreDue` (`RunsComeAsAnnounced`); `FindingsFollowStages`; `FiguresAddUp` (`FiguresMatchCitations`); `CasesOnFreshData` (`CasesRestOnFreshData`) |

**Assumptions.** The named assumptions of the modules, which TLC evaluates on each
instance: bounds are numbers, and the shape of inputs. Those that say more:
`PlanningAssumption`, which gives `NeedApproval` its meaning (a key requires
approval exactly if the catalog entry of its action does: the key contains the
action); `StatusAssumption` (entries have three fields; finitely many threads);
`ExternalAssumption` (reads and writes are different actions); `RequestAssumption`
(requests are workers; each asks for an action, a brief or the audit, the routes
that are modelled); `PayloadAssumption` (the fields of a detection are validated,
`operational_cases.py:262-275`: severities are known and priorities within 0 to 100;
clock readings are instants in order, of any number of ticks to the second; case ids
are numbered as texts are ordered);
`ConnectorAssumption` (`runtime.py:200`, `_unique_in_order`: a plan names no
connector type twice; `models.py:17-24`: a reported value is a number or a text and
cites some evidence); `OwnersAssumption` (no owner is called like the absence of one).
Two theorems about the case store and one about the run
ledger assume that there is one worker or client, as their names say: with two the
statements are false, or proved with the exception of overtaken commits instead.
`AnnouncedRunsAreDue` assumes `KeepsDays` of the zones.

**Arguments.** None of the properties is inductive as it stands.

- *Case store and run ledger.* A commit whose read was overtaken destroys things; what
  is hard is that nothing else does. `FreshUnlessOverlapped` says that a draft no
  commit has overtaken still extends what the table holds under its id, or that it
  does not exist: what a version column would check, here carried by `overlapped`. For
  the case store, `DraftIdsIssued` (a fresh uuid meets no other draft or row) and
  `IdHasOneKey` (the row a commit replaces is the one it was computed from, or one that
  races with it) come with it. `NoOverlapNoLoss` and `NoOverlapNoAuditLoss` then read
  off `Persist`, and with one worker `overlapped` is empty.
- *Rows and timelines.* `RowsAreLawful` speaks of the rows in drafts as well as of those
  in the table, so that it survives any race: `INSERT OR REPLACE` writes a whole row. A
  lawful row's timeline is legal, and each column is what the last event of its kind
  says (for evidence, the first of its run). `OnlyNewerCases` adds that the dates of every
  row and draft are those validation asks for, none after the clock. The work is a lemma per kind of event on what `Append` does to a last event.
- *Refinements.* `DraftsFit` strengthens freshness: an overtaking-free draft is a lawful
  change (in the sense of `CaseBoard`) of the row that is there. With
  `OneRowPerKey` the mapping from table to board is a function, and `Persist` maps to
  one board step. For the run ledger `Follows` plays that part. For `ReportRuns` each
  ledger call is made by the script that owns the run, which needs `RunsAreOwned`.
- *Internal API.* `ApiFollowsStore` maps each step of a request or a script to a step of
  `CaseStore` or to none, which brings the invariants of the store for free. On top,
  `ApiInv` follows each request through its guards (`Passed`: what the earlier steps of
  the request have established) and says that the case it is about to write is of its
  business (`ScopeKept`): ids never change their key, whoever overtakes. `Told` counts
  the operator's events of a case against the actions that were served and against
  those with a draft, `Tallied` the detections told by timelines against the counters,
  with the scripts between lookup and store counted in; both hold until a write is torn.
  `Reading` says that the parts of a brief that have been read are those of the table as
  it is, unless the request was overtaken.
- *Operator desk.* `DeskInv` adds to lawful rows that they are `Dated` (opened and updated
  some time, dates in order) and `Paced` (no date is in the future, a case was taken in
  charge before it was resolved, and a case in progress was last taken in charge by the
  last event that did so): with it no clamp at zero ever bites, and acknowledging and
  handling add up to resolving but for the second that truncating two spans may lose of
  their sum (`TruncatedSum`). Evidence is monotone because rows are lawful before and after
  each step: the column names the runs the timeline names, and the timeline only grows
  (`EvidenceStays`); more snapshots are never fresher (`NeverFresher`). The properties that
  hold of any one state follow from the lawful rows: the counts of groups add up to the whole
  (`SumOfCounts`), what is counted by a date column is what is counted by status (columns
  follow timelines), `Top` is injective and its prefixes are the shorter lists
  (`OrderPlaces`, `TopList`), and a clause and its negation part the cases whose field is
  set.
- *Daily findings.* `FindingsInv` says what each stage has computed. `Accounted` is what
  the merge of the first reports maintains, for each key: there is a set of reports whose
  sources the metric cites, of whose kind and unit it is, whose values it sums, and
  outside of which no report is unless two do not add up. A later report leaves the
  set, joins it or replaces it (`AccountStays`, `AccountGrows`, `AccountOfOne`).
  `Keeps` does the same for the detections of the first insights: keys differ,
  everything kept was suggested, and every suggestion's key is there.
- *Recursion.* The library's induction theorems take an operator and cannot be instantiated
  by the installed provers. What a recursive function computes is shown without them: a
  set of the arguments for which a statement holds contains 0 and is closed under the next
  number, up to a bound. Then it reaches the bound (`Climb`), since otherwise the successor
  would map it, finite as it is, one to one into less than itself (`FS_PigeonHole`).
  For sums over sets a set of least cardinality that violates the statement is shown not
  to exist (`SmallestSubset`). The same argument gives that each recursive definition has
  a solution at all (`SumsExist`, `TotalsUnfold`, `MergedUnfold`, `DetectedUnfold`).
- *Reports.* `RunsFit` ties the record of a run to the statement its script has
  reached, `RunsAreOwned` keeps others away from it, `ResultsAreTrue` and
  `MarksAreTrue` say that a result, or a mark, implies a delivery.
  `MessagesAreBooked` is the heart of `RepeatsNeedDisturbance`: unless the key is
  disturbed, at most one script is past its check, it has delivered the message iff it
  is about to mark it, and without such a script delivered means marked.
- *Approvals and external actions.* `TablesAgree` (request and action say the same) and
  `ReadsHoldUnlessOutpaced` (what an operator read is still pending unless another was
  faster) carry the decisions. For effects: an executor that calls the provider is
  backed by an approval and, unless its run was overwritten, by a recorded plan
  (`ExecutorsAreBacked`); nobody shows a result that did not happen
  (`OwnersTellTheTruth`, `RunsTellTheTruth`, which speak of the stale copies too); and
  unless overwritten or unsettled an effect is recorded or is with the one executor that
  will record it (`EffectsAreAccounted`).
- *Conversation.* `MailIsSorted`: a message received is in at most one of buffer,
  threads, answers. `SavesAreNews`: what a thread is about to save is in no history, nor
  in any copy of one that another thread loaded, which is what keeps histories free of
  repetitions although threads overwrite each other's. While nothing overlaps, fails or
  restarts, `InOrder` splits the messages into saved, with the one thread at work, and
  buffered, in this order.
- *Services.* `StatusInv`: events are stored once and answered webhooks are stored;
  a webhook handed its message over at most once per delivery, with the threads that
  still may counted in. `PlanningInv`: what a simulation reports so far is what its rule
  and case gave, no two report the same key as planned, and the ledger is their union.
  `AnnouncedRunsAreDue` is arithmetic: two instants of one minute of the day are equal or
  a day apart (`SameMinute`), and the cases of a zone's change are linear inequalities
  (`Around`, `NoneBeforeToday`, `NoneBeforeTomorrow`).

**Only model-checked**, and why:

- `EveryMessageIsAnswered` and `EveryRunEnds`: liveness under fairness is beyond the
  prover. `EveryRunEnds` excuses a script that died, raised outside the pipeline (an
  exception of the case store after the report was sent is of that kind and leaves the
  run in `running`), or waits for ever. Their safety half is proved: no message is forgotten
  (`NoMessageIsForgotten`), and a run that ended is complete (`FinishedRunsAreComplete`).
- `AtMostOncePerKey`, `DecisionsSurviveDetections` with two workers, and
  `EveryDueReportIsRun` are false, and the runs show it.

## 6. Plan

What would come next, in this order:

1. A retry policy for scripts killed between send and mark, once the code has one: the
   refinement to "at most one message per key" that finding 2 rules out today.
2. Dry runs and further report dates in `ReportRuns`, which need a clock of days.
3. Several businesses with connectors in one loop of the runner, for the order in which
   a failure leaves reports out (finding 3).

## 7. Not modelled

- *Runtime compilation and configuration*, the connector registry: sequential
  validation of one configuration and static tables, with no state a second step
  could find changed; `ReportRuns` keeps the outcomes.
- *Connector adapters* and third-party services: calls and parsing; their outcomes
  are in `ReportRuns`, the shape of their reports in `MCServices`.
- *Metric registry, report text, redaction*: a static catalogue and formatting.
- *Control plane plugin*: a read-only registry.
- *Demo fixtures and repository guards*: outside the running system.
- *Dry runs* (`run_orvo_brain_reports.py:237`): they write the real ledger and case
  store but deliver nothing; no document says what the ledger should then say.
- In parts that are modelled: lists of runs and the dashboard envelope, the session
  and catalog projections, a server without a token, malformed cron expressions and
  payloads, the retention of the audit, the signature of webhooks; the wording of
  titles, reports and messages; SQLite's own atomicity and durability of a
  statement, which are assumed; the in-memory stores used by tests, which are
  single-threaded.
