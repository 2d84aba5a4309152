# A verification project for Page Watch

TLA+ specifications of the parts of the FDE page watcher in which several
processes act on one tenant's data, or in which a long sequence of legal calls
has to leave something intact; the TLC configurations that check them on small
instances, and TLAPS proofs of the properties that matter most. Every
definition is translated from the code; `PROJECT.json` names, for each, the
lines it stands for. Paths below are those of the repository.

1. [The system](#the-system)
2. [Modules](#modules)
3. [What is checked](#what-is-checked)
4. [Disagreements between code and documentation](#disagreements-between-code-and-documentation)
5. [What is proved](#what-is-proved)
6. [What is not modelled](#what-is-not-modelled)
7. [Plan](#plan)
8. [Running it](#running-it)

## The system

Page Watch collects PageSpeed, field and agent measurements of a watchlist of
pages, once a night and on demand, keeps their history, tells people what
changed, and keeps a work list of what should be repaired. It is a Next.js app,
a Cloudflare worker (`collector-worker/`) with a cron, a durable Workflow per
collection, a D1 database and an R2 bucket. Nearly all coordination goes through
one JSON document per tenant, `AppState`: there is no queue and no lock, only
`updateState(mutate)`, which reads the document, runs the mutation and stores the
result if nobody was faster.

| Component | State | Operations | Interacts with | Hard behaviour |
| --- | --- | --- | --- | --- |
| **Data store** `collector-worker/dataStore.ts`, `src/lib/store/remoteStore.ts`, `historyState.ts` | the `state` row with its version, the `history` table, reports in R2 | `getState`, `updateState`, `appendNight`, seeding | everything; the app reaches it over HTTP | compare-and-swap with retries, mutations that run several times, lost answers, two tables written in separate statements |
| **Webflow-side store, migration** `src/lib/store/cfStore.ts`, `app/api/admin/migrate-fde/route.ts` | the same three, on the app's side | `appendNight`; copy a project to the FDE store, repeat, verify | both stores | a source that takes nights while it is copied, torn reads, repeated and overlapping requests |
| **Collection jobs** `src/lib/collectionJobs.ts`, `collectionRetry.ts`, `startCollection.ts` | `jobs`, and of each page `runId`, `runState` | reserve, coalesce, dispatch, fail, reconcile, import a result, finalize | worker by HTTP, store | old snapshots, answers lost after they took effect, staleness that is only a guess |
| **Collection workflow** `collector-worker/index.ts` | the Workflow instance; nights, job and page in the document | mark running, commit evidence, progress, sleep three hours, resume, commit, inconclusive, fail | store, external services | steps executed at least once, sleep across supersession and archive, late commits |
| **Evidence of a device, PSI quorum** `src/lib/psiCore.ts`, `lighthouseEvidence.ts` | the runs so far, staged reports | request, stage, aggregate, decide | PageSpeed API, bucket | repeated samples, warned samples, a report without a run |
| **Nightly dispatch** `collector-worker/nightly.ts`, `collectionSchedule.ts` | `lastScheduledAt`, jobs, incident | reserve all due pages, create workflows, give up | store, workflows | partial failure after creation, a closure that runs twice |
| **Stale recovery, watchlist** `src/lib/mutations.ts`, `watchCapacity.ts`, `watchlistOrder.ts` | pages, flags, order, settings | recover stale runs, pause, resume, add, remove, order | store | recovery races the work it gives up; limits applied at every read |
| **Daily digest** `src/lib/dailyDigest.ts`, `webhook.ts` | `alertDigests`, the notice, the endpoint | snapshot a night, claim, deliver, record, retry | jobs, store, an HTTP endpoint | concurrent senders, claims that expire, timeouts that hide a delivery, head-of-line blocking |
| **Follow-ups** `src/lib/collector.ts`, `followups.ts` | `followUps` | schedule, move, delete, claim, send, record | store, Slack | as the digest |
| **Measurement incidents** `src/lib/cohortAnomaly.ts` | `measurementIncident`, `evidenceState` of nights | detect, confirm, verify, recover | nightly, jobs | a cohort that never completes, overlapping cohorts |
| **Project registry** `src/lib/projects.ts` | the registry; `projectArchivedAt`, stored flags | create, rename, archive, restore | jobs, store of another tenant | two documents changed one after the other, names checked before they are written |
| **Issue cases** `src/lib/issue-case.ts`, `issue-cases.ts`, `checkpoint-evaluation.ts`, `case-decisions.ts` | recommendations of the pages, `caseDecisions`, checkpoints | accept, dismiss, start, fix, reopen, exclude, checkpoint readings | collections, digest | a case derived from records that change and a log that does not |
| **Field data** `src/lib/fieldOnlyRecommendations.ts` | `fieldLifecycle` per device | judge a CrUX window | CrUX, store | windows read before the mutation that judges them |
| **Ora audits** `collector-worker/ora*.ts`, `src/lib/agentIssueTasks.ts` | status, snapshots in D1, reports in R2, tasks | refresh, poll, store, retain, verify a task | an external provider | no lease: refreshes overlap, answers come late |
| **Webflow activity** `collector-worker/webflow.ts` | the connection row, events, publish sets | connect, disconnect, sync | Webflow API | a sync in several calls beside another |
| **Client store** `src/components/store.tsx`, `src/lib/collectionPolling.ts` | the state on screen, a queue of changes, a poll | change, revert, switch, run, poll | the app's routes | answers that cross |
| **Sessions, authorization** `src/lib/session.ts`, `authHandoff.ts`, `auth-gateway/` | cookies, grants | hand-off, verify, authorize | | a token that crosses hosts once |
| **Weekly audit, scoring and copy, extensions** | none of their own | derivation and rendering | | none of the above |

What makes the modelled components correct:

- *Store*: an update that returns happened exactly once and indivisibly; nothing
  that was stored is overwritten by somebody who had not seen it; the history
  table follows the document.
- *Migration*: a project that is reported ready for the cutover is all there; no
  update of the destination is overwritten unread.
- *Jobs and workflows*: at most one live run per page; what has ended never
  comes back; page and job agree; a success is final; nothing runs in an archived
  project; nights are in the order of their reservations; a lost process leaves
  no page occupied for ever.
- *Evidence*: a device is given up only for lack of distinct, clean measurements,
  and described by the very measurements its scores come from.
- *Digest and follow-ups*: no message before the collection it is about; one
  sender at a time while its claim is fresh; told again only if the outcome of a
  delivery was lost or came too late; the notice is not dropped untold; every
  collected night is told.
- *Incidents*: the verdict comes from a later, independent cohort, or from one that
  pages joined late, and comes when the cohort is complete.
- *Registry and watchlist*: registry and document agree; a restore gives back what
  an archive took; names are distinct; a request moves no other page.
- *Issue cases, field data, verifications*: resolved means that the reading which
  resolves was taken and held; a decision applies to the case it was made for.
- *Ora, Webflow activity*: no summary without its report, the newest reading stays;
  no activity belongs to two publishes.
- *Client*: what is on screen is of the selected project and shows what was saved.

## Modules

```
SerialDocument  <=== VersionedStore     <--- VersionedStoreProofs
SingleFlight    <=== CollectionJobs     <--- CollectionJobsProofs
                     DigestDelivery     <--- DigestDeliveryProofs
                     Migration          <--- MigrationProofs
        IssueCase <- IssueLifecycle  }
        IssueCase <- CaseDecisions   }
                     FieldWindows    }  <--- FindingsProofs
                     FollowUps       }
                     ProjectArchive, ProjectNames,
           Places <- Watchlist, ClientStore    <--- ProjectsProofs
                     Incidents, OraAudits, AgentVerification, WebflowActivity,
           Places <- EvidenceCycles            <--- NightProofs

           Places <- OrderLemmas, which the last three and VersionedStoreProofs use
```

(<=== implements, <--- proofs about, <- extended by)

`MCVersionedStore`, `MCCollectionJobs` and `MCDigestDelivery` give constants their
values. `MCServices` and `MCStores` check several modules in one run. Those modules
share no variable: what one component makes reaches the next as an input that may
be anything. So every behaviour moves one part, the one its `focus` names, and
leaves the others where they start; the states of the run are the sum of the
parts' states, not the product.

### The documents

**`SerialDocument`** is what `updateState` promises: one document, each call
applied in one step between its beginning and its return; a call that fails is
applied at most once.

**`VersionedStore`** is how `FdeDataStore.updateState` does it. A call is a
program counter through the D1 statements: read the row, read the nights,
mutate, read the row again, read the nights again, compare-and-swap, then bring
the history table up to the draft in batches. Every statement is an action, so
any other call, a lost reply or the death of the process may come between two of
them. The document is abstracted to the sequence of the calls it contains and the
run the page is reserved for; a night, to index, run and a revision. `truth`,
`overlapped` and `torn` are history variables: the nights a serial execution has,
and whether a call read the row inside another's window, or died inside its own.

**`Migration`** moves a project from the Webflow-side store to the FDE store.
Writers are calls of that store's `appendNight`, statement by statement; copies are
requests of the administrator, step by step: seed and read the source, read the
destination, write it against the version read, copy the reports the listing
shows, read the source again, compare, read the destination back, answer. Requests
overlap and are repeated, answers get lost, every process may die, and owners
update the FDE store meanwhile. A document is the commits its row holds, the
nights of its history table and the updates made on the FDE side; the checksum is
equality of documents. `deletedNights` is a history variable: `cfStore` loses
nights in the way `dataStore` does, and what the source lost is no fault of a copy.

### Collections

**`SingleFlight`** is what collection jobs promise: a page has one holder, a run
holds at most once, and what has ended stays ended.

**`CollectionJobs`** has three kinds of processes. *Callers* reserve and dispatch:
users' requests, the app's cron route, the worker's nightly dispatch, which
creates workflows itself. *Workflows* run the evidence cycles and commit.
*Pollers* are reconciliations. Since `VersionedStore` shows that an update takes
effect in one step, here each `updateState` is one action; a mutation that ran on
a lost attempt matters where it assigned an outer variable, and has an action of
its own there (`EnqueueLost`, `NightlyLost`). `saved` in a workflow's step says
whether the outcome of the step was stored: if not, the step is executed again.
`stale` says that the limit of `collectionJobIsStale` has passed since the last
touch; it may become true of any live job at any time, since delayed starts and
paused instances outlive every limit. `created` (history variable) is the order
of reservations.

**`Places`** is what a filter leaves of a sequence: the elements at a set of places,
in their order. The prover cannot expand `SelectSeq`; a set of places it can count.

**`EvidenceCycles`** is the inside of one device's evidence: cycles of paced
requests, each of which answers with a sample (new or the one before, warned or
clean), fails, or is lost after its report was staged. `summary` is what
`aggregateAndStage` makes of the runs and of the reports it matches by position.

**`Incidents`** is what `cohortAnomaly.ts` makes of cohorts of nights: an incident
is raised by one cohort, its nights are thrown out, an hour later the cron
dispatches a confirmation cohort, and each page that ends evaluates in its own
mutation. A cohort is a number in the order cohorts were started, with its kind:

- *nightly*, with a date. A scheduled run takes the pages whose slot has passed,
  each for the day of that slot (`pageScheduleDue`), so a page joins the cohort of
  its date whatever was started meanwhile, today's or yesterday's. Whether a page
  that was collected for a day is due for that day again is left open: a failed
  dispatch deletes `lastScheduledAt` (`nightly.ts:188`), and moving the schedule
  puts a slot of today ahead again. It is never due for an earlier day.
- *manual*, an operator's run over every monitored page
  (`collector-worker/index.ts:1094`), in a cohort of its own. The app's
  `/api/cron/nightly` gives its jobs no cohort, so nothing is evaluated there.
- *confirmation*.

A job that is failed from outside - found stale, or its workflow could not be
created - may leave a workflow that runs on; if its night is stored, it commits and
evaluates its cohort later (`orphans`). A night is its cohort and whether its scores
dropped; the thresholds that make it so, and whether the environment changed, are
inputs. History variables: `outside` records that a page of the confirmation was
failed where nobody evaluates, `premature` that an incident was raised while a page
of its cohort still ran, `late` the cohorts that a page joined, or an orphan
committed to, after a later one had started, and `judgedBy` the cohort of a verdict.

### Messages

**`DigestDelivery`** is the nightly digest: nights begin, pages are dispatched,
settle, are paused and resumed, the night's digest is opened with the pages it
expects, and invocations of `processDailyDigests` claim, read, post and record.
An invocation takes its `now` once, for all it does; the model keeps ages,
relative to the present, of that `now`, of `claimedAt` and of `retryAfterISO`,
so `Tick` ages all of them, and an age above `Oldest` is no different from
`Oldest` to any comparison in the code. An invocation may live longer than the claim
window: the worker's `now` is the time its cron was scheduled for, handed on after
the tenants ahead and the syncs (`collector-worker/index.ts:944-972`), and the
window is five minutes. A page may be dispatched a second time in a night, because a
dispatch that failed makes it due again (`nightly.ts:188`).

History variables: `posts` are the messages the endpoint accepted, `told` whether
one carried the notice, `steady` the pages never paused, `sender[s].stored` whether
the claim an invocation goes on with is in the document. An invocation is `Entitled`
while that claim is stored and not older than the window, and it *vouches* for a
message it delivers then: `vouched` counts those messages, less the ones whose
invocation died before the record or came to the end of the window without it.
`raced` are the nights whose claim was taken off by an invocation that had not
stored it. That takes two invocations with the same `now`, one of which lost its swap,
since `finishDailyDigest` compares `claimedAt`: the one case in which the protocol
cannot tell its own claim from another's.

**`FollowUps`** is the same protocol for the 2, 7 and 30-day comparisons, with the
marker that schedules, moves and deletes them. It differs where the code does: a
claim is the time in `lastAttemptISO` and an answer is recorded only while that time
is still the invocation's own, one invocation works through all that is due, and a
page that is not monitored holds its follow-ups back.

### Projects

**`ProjectNames`** is the registry and its names: a request reads the catalogue,
checks, and checks again in the registry's mutation. **`ProjectArchive`** is archive
and restore in their two steps, the project's document and the registry, with
requests that overlap and die. **`Watchlist`** is the list of pages with its tiers
and limits: every mutation ends with the normalisation that every read and write
applies. `muddled`, `again`, `before` and `kept` are history variables that name
the exceptions the properties make.

**`ClientStore`** is one open tab: the state on screen, the queue of the user's
changes, a switch, a run and a poll, each request with the moment it is sent, the
moment the server handles it and the moment its answer arrives. `astray`,
`overtaken`, `unanswered` and `slipped` (history variables) name what the code
does not guard against.

### Findings

**`IssueCase`** is the case as a value: the seven work states, the transition table
of `vocabulary.ts`, pages, exclusions and checkpoints. **`IssueLifecycle`** lets
people and checkpoint readings move one case in any order: a reading is recorded for
any checkpoint the case has, late, and again when the checkpoint was read before,
whose result it then replaces. `reread` (history variable) are the checkpoints of
this fix whose result was replaced by another. **`CaseDecisions`** derives
the case the way screen and digest do: from the records the pages keep, grouped by
cause, with the append-only log of decisions replayed on top. Records come and go
by any collection; the log is never rewritten.

**`FieldWindows`** is the lifecycle of a recommendation that only visitors' data
supports: callers read a collection window and judge it in a later mutation.

**`OraAudits`** is the refresh of one origin from gate to retention: cached reading,
scan, polls, report, batch; the provider's scans are numbered. **`AgentVerification`**
is the verification of a task against the checks it expects.

**`WebflowActivity`** is a site that is edited and published while syncs read its
log, store events and form the set of every publish they notice.

## What is checked

| Run | Question | Answer |
| --- | --- | --- |
| `store_calls` | Three concurrent calls over every mutation, deaths anywhere, a history of one night | no draft that can still be written misses an update (`DraftsExtendTheRow`); a call gives up only after as many foreign writes as it made attempts; while no call reads inside another's window, and none died in its own, the history table is what a serial execution has (`SerialHistory`); the row implements `SerialDocument` |
| `store_ends` | Two calls that die anywhere, fair steps; and, apart, a migration beside two `appendNight`s and an update of the destination | every call ends; a request that reports ok verified all that was acknowledged and the source did not lose itself (`CutoverReady`); nothing unread is replaced (`DestinationKept`) |
| `jobs_callers` | A user's request and the worker's dispatch compete; workflows that sleep; faults, archive, restore | page and job agree; nothing of an archived project is active; nights are in order; `SingleFlight` is implemented |
| `jobs_polls` | A reconciliation with old answers, the worker's dispatch that gives up jobs it created, faults | a success is final but for that dispatch |
| `jobs_settle` | The worker's cron returns, everything else may die | every job settles or is replaced |
| `digest_claims` | Two invocations, a night of two pages that are paused and resumed, deaths, timeouts, lost swaps, refusals with `Retry-After`, lives longer than the claim window | a fresh claim has one holder and stands until its outcome is recorded (`ClaimIsExclusive`); of the messages an invocation vouches for there is one (`AtMostOnceKnown`); no message precedes the collection it is about; the notice is dropped only once told |
| `digest_told` | Fair invocations, deaths, refusals, pages paused and resumed, the endpoint set and removed | no night that stays collected stays untold |
| `services` | The thirteen parts that share no state, each with its own concurrency and failures | the 22 properties below |

The properties of `services`, by part:

| Part | Properties |
| --- | --- |
| issue cases | `ResolvedHeld`: resolved only by the 30-day reading of the fix, which a second reading may since have replaced; `FixedIsWatched`: a fix waits for a reading unless one disagreed, the last could not be taken, or a second reading that could not be taken replaced another |
| decisions | `DecidedByItsOwnLog`: a state or exclusion beyond the evidence comes from a decision about this very remediation; `LegalDecisionTakesEffect`: an allowed decision shows at once, whatever was decided before |
| field windows | `SettledHeldTwice`: two distinct good windows since the last poor one, on every device |
| follow-ups | `ClaimsAreApart`: two holders claimed a window apart, or one goes on after a lost swap |
| incidents | `JudgedWhenComplete`: a confirmation whose pages have ended is judged; `VerdictFromALaterCohort`: the verdict is of a later cohort than the incident, but for two named ways |
| registry | `NamesCollideByKeeping`, `DocumentsAgree`, `RestoreGivesBack` |
| watchlist | `OthersKeepTheirTier`, `TiersKeepTheirOrder`: a request moves no page but its own |
| Ora audits | `ReportBehindSummary`, `NewestReadingStays` |
| verifications | `VerdictFollowsTheAnswers`: resolved by an answer that passes every check expected *now* |
| client | `ChangeStaysHome`, `SavedIsShown`, `ActiveIsPolled` |
| evidence | `ReportsAreTheRuns`, `GivesUpForLack` |
| Webflow activity | `CountedOnce` |

Several of these name an exception in a history variable (`muddled`, `again`, `kept`,
`outside`, `premature`, `late`, `reread`, `raced`, `astray`, `overtaken`, `slipped`, `disturbed`). Each stands for a
weakness of the code that was met while modelling it; the property says that there
is no other way, and the section on disagreements says what the weakness is.

Four more runs find violations; see [below](#disagreements-between-code-and-documentation).

### Bounds, and why they are enough

- *Store.* Two attempts instead of eight: the second attempt is the last, so both
  the retry and the exhaustion occur with three calls. One run and a history of
  one night in `store_calls`: the cap is reached and nights are deleted, and a call
  for a run the page is not reserved for occurs before the page is reserved.
  `BatchSize` 1 splits the history into several batches. Three calls are what the
  loss of a night needs (one to create the row's state, two to overlap).
- *Migration.* Two writers, for a source that changes between the two readings and
  loses a night; one update of the destination; one request at a time, any number
  in a row, so that a lost answer and its repetition occur; versions up to two.
  Overlapping requests are covered by the theorems.
- *Jobs.* One page: the code treats the pages of a batch independently, and jobs
  of different pages share nothing but the document, whose updates are
  indivisible. Two job ids: a run and its successor; ids are not reused. One
  evidence cycle where the number does not matter, two where a sleep does (eight in
  the code): the second sleep has the same guards as the first. One strategy beside
  the agent's evidence: it is committed by the same operation. The theorems hold
  for every number of each.
- *Digest.* Two invocations to contend over one night of two pages, one of them
  paused; in `digest_told` two nights, for an older to hold up a newer. With `Window` 1 and `MaxAge` 2 in
  `digest_claims` claims are outlived and taken over; `digest_told` has one sender
  and needs no more than `MaxAge` 1. Messages are counted up to `EnoughPosts`, which
  is as far as a property of the run tells them apart; faults are not bounded.
- *Issue cases, decisions.* Two pages, one to be excluded and one to remain; a log
  of two decisions, the second of which meets what the first did.
- *Field windows.* Two devices, four windows: poor, good, good, and one that comes
  late.
- *Follow-ups.* One item, since items share nothing but the invocation's loop; two
  invocations, a claim window of two ticks and a life of two, so that a claim may
  and may not be overtaken; a delay of one.
- *Incidents.* Two pages with a minimum of two, each with a night to compare with;
  two cohorts of any kind and date, one night of a page in each. That is enough for a
  confirmation, for a manual cohort started inside a night whose pages come one by
  one, for a verdict of the older of two, and for orphans: without the exception
  `late` the run finds a violation, and so without `outside`. `premature` takes a
  third page. The theorems have any number of each.
- *Registry.* Two projects, one of them configured, two names, two requests at a
  time; a third request begins when one has ended.
- *Ora, verifications.* Two refreshes, two scans, a retention of one reading, so
  that the second displaces the first; two checks and two calls.
- *Client.* Two projects, two changes, one switch, one run, one failure: enough for
  the answer of each to cross each other.
- *Watchlist.* Three pages with two places and one priority place: the limits bind.
- *Evidence.* Three requests a cycle, two distinct measurements to be enough, two
  cycles: the quorum is missed, reached in the first, and reached in the second.
- *Webflow activity.* Two syncs and four activities: two publishes with an edit
  before each.
- *Symmetry.* Where a part of `services` has two actors of a kind (pages,
  invocations, requests, syncs), they are the same two model values, exchanged
  together by `Symmetric`; the parts share no state, and the properties treat the
  two alike.
- `CHECK_DEADLOCK FALSE` stands where the modelled work is finite and the system
  may come to rest: all calls made, all ids, cohorts, windows or budgets used.

### Fairness

- `VersionedStore`: weak fairness of each call's own steps. A statement returns or
  throws; a call that dies is not asked to go on. Nothing is assumed of a
  migration.
- `CollectionJobs`: workflows finish the steps they begin (Cloudflare retries a
  step, and a step out of retries is `WorkflowBreaks`); the worker's cron
  (`*/15 * * * *` in `collector-worker/wrangler.jsonc`) comes back and ends; an update a request
  has begun ends (`store_ends`). The stale limit passes for an untouched job:
  strong fairness, because it waits for callers between two attempts, and no such
  attempt lasts half an hour. Nothing is promised about users, polls, or the app's
  own cron. Deaths are never fair, and never excluded.
- `DigestDelivery`: time passes, invocations take their next step, and the claim,
  the reading, the acceptance of a message and the record of a delivery are each
  strongly fair: deaths and refusals may strike any finite number of times and more,
  but not every single time for ever at the same step. Users promise nothing.
- The parts of `services` state safety only. Several of them may come to rest
  half-way in the code as well: an incident that stays "confirming", a screen that
  no longer polls; their safety properties say when.

## Disagreements between code and documentation

Each is a run whose property is the documented statement and whose trace is what
the code does; the details are in `PROJECT.json` under `findings`.

- `store_lost_night`: the history table is written after the swap; a call that
  reads between the two deletes or omits a night that was reported as stored. The
  Webflow-side store has the same order and the same race.
- `jobs_flattened`: a reconciliation writes `running` over a durable sleep, because
  it looks at its snapshot and not at the job; the sleeping workflow then goes
  stale in half an hour.
- `jobs_undispatched`: after a lost swap a stored job is taken for a coalesced
  one and never dispatched; it is stale half an hour later.
- `digest_swap`: after a lost swap an invocation delivers what another claimed.

More are to be seen by changing one configuration, or checking one module alone:

- *A superseded run's late commit replaces a newer baseline*
  (`collector-worker/index.ts:403-432` has no guard): `jobs_undispatched.cfg`
  with one user, `Kinds = {"baseline"}` and the invariant `BaselineIsNewest`.
- *A claim is stamped with the time the cron was scheduled for*
  (`dailyDigest.ts:125`) *and may have expired before the delivery*, so that the
  night is told twice though nothing died: `digest_swap.cfg` with
  `Contention = FALSE` and `MaxAge = 2`. `AtMostOnceKnown` says which of the two
  nobody vouches for.
- *The one-time notice is dropped by a digest that had no endpoint to go to*
  (`dailyDigest.ts:154-161`): `digest_claims.cfg` with `EndpointSet = "maybe"`.
- *A change that failed stays on screen* (`store.tsx:523-525` says it is taken
  back): `FailureIsUndone` of `ClientStore` with two changes, two switches and two
  failures. The second of two queued changes takes its snapshot with the first on
  it; when both fail, the later revert puts the first one back.

What the properties leave out by name, and what a reader of the code should know:

- *Issue cases.* A Fixed case whose 30-day reading could not be taken waits for
  nothing, which `issue-case.ts:717-719` says scheduling is there to prevent.
  `checkpoint-evaluation.ts:352-357` says that a reopen a person fired leaves no
  checkpoint; it does. A late reading reopens a case a person has dismissed.
  `recordCheckpointReading` (`checkpoint-evaluation.ts:138-148`) asks only that the
  case has the checkpoint: a reading that is repeated replaces the result, so a case
  stays Resolved over a 30-day checkpoint that now reads "unavailable" or
  "disagreed", and a disagreement noted on no counted page may be replaced by
  "unavailable" and leave a Fixed case that waits for nothing. `reread` names both. An old
  accept or dismiss is replayed on a case that came back, which `vocabulary.ts:56`
  says "Needs a new decision" (`ReturnNeedsANewDecision`).
- *Field windows.* A poor window that came without a lab reading is skipped.
- *Follow-ups.* Removing a page deletes its follow-ups, so the branch of
  `processFollowUps` for a page that is gone never records anything.
- *Incidents.* An incident stays "confirming" when a job of its cohort is failed
  outside the workflow, when a paused or coalesced page never joins, and when too
  few pages are left; a confirmed anomaly drops its `confirmationCohortId`.
  `cohortAnomaly.ts:63` says "Evaluate one completed cohort"; the code compares how
  many pages ended with how many are expected (`:111`), so a page paused after its
  reading stands in for one that still runs, an incident is raised early, and the
  late pages of its own cohort may then judge it: `services.cfg` with a third page
  shows it in `VerdictFromALaterCohort` without `premature`. And any cohort other
  than the suspected one counts as a follow-up (`:74-78`), the older ones too: a
  manual run in the middle of a night raises an incident, a page whose slot comes
  later joins the night that began before, and completes and judges it. The same
  happens when a workflow that outlived its job commits. `late` names these.
- *Registry.* "At least one active project is required" is broken by two archives
  side by side; registry and document disagree after a death between the two steps
  until a request runs alone; archiving a second time overwrites the flags to give
  back; a rename that keeps the name it read undoes another's rename and may
  duplicate a name.
- *Ora.* The cooldown is forgotten when an older cached reading stands in; two
  refreshes both scan; `latest_scanned_at` may go back; a late failure makes a
  resolved task unresolved; consent that is withdrawn stops no refresh under way.
- *Client.* The answers to a run and a poll are applied whichever project they are
  of; a poll that ends just as a collection begins is not restarted. Pages added
  while a project is archived may push a restored page to paused.
- *Evidence.* After one request that left a report without a run, every later
  report stands in the place of another run (`collector-worker/index.ts:740`).
- *Webflow activity.* Publish sets overlap after a sync that failed before its last
  write or ran beside another, where `docs/webflow-activity.md:23-24` has a set be
  the "activity since the previous publish".
- *Migration.* `README.md:234-235` and `route.ts:90` say that the source is never
  mutated; reading an absent source row seeds it. A report put after the listing is
  not copied although the answer is ok: the request does not verify reports
  (`audits/2026-07-24-production-score-audit.md:108` found 22 missing that way).

A dispatch of the worker that fails after it created the workflows fails their
jobs, those that have already succeeded among them (`nightly.ts:171-194`); no
document denies it, so `SuccessIsFinal` leaves it out and says so.

Not a run: `README.md` says the workflow "retries up to twice at one-hour
intervals"; `collectionRetry.ts:4-7` has eight cycles, three hours apart, and
`CollectionJobs` follows the code.

## What is proved

Every safety property a run checks is also a theorem, for every value of the
constants. The proofs state an inductive invariant that strengthens what is to be
shown, prove `Init => IInv` and `IInv /\ [Next]_vars => IInv'` action by action, and
read the properties off it. The properties themselves are what the runs check.

The assumptions are those the modules name, which TLC evaluates too: limits are
natural numbers (`WatchlistAssumption` adds that there are no more priority places
than places, as in the code, 3 and 10), a lifecycle has at least one window
(`FieldAssumption`), the checks of a task are finitely many
(`VerificationAssumption`), and so on. Numbers of pages, projects, calls,
invocations, jobs, readings and logs are not bounded otherwise.

**`VersionedStoreProofs`**, for any number of calls, runs, attempts and nights, under
`StoreAssumption` (the constants have their types). The invariant is `DocInv`. Its
point is that versions only grow, so a version a call remembers that still is the
row's was read from the very document the row holds (`SeenInv`, `DraftInv`); a call
in the log is one whose swap succeeded, once (`WrittenInv`, `LoggedOnce`); and each
failed attempt is paid for by a version (`AttemptInv`). From it follow
`NoLostUpdate`, `AppliedExactlyOnce` and `GivingUpNeedsContention`, and, step by
step, `StoreImplementsSerialDocument`: the swap is `Apply`, the return `Return`,
everything else stutters.

`HistoryIsSerial` relates two tables written at different times. `HistInv` adds to
`DocInv` who is inside a window: at most one call is between its swap and its last
statement as long as nothing overlapped or was torn; what that call has still to
write turns the table into the nights of the document (`SyncInv`); and a version a
call remembers that still is the row's was read while nobody was writing
(`FreshInv`), so its nights belong to its row.

**`MigrationProofs`**, for any number of writers, owners and requests under way. What
a call of `appendNight` has stored by the step it is at (`Committed`), and what a
request knows: the document it expects (`Expects`), the acknowledged nights its
reading of the source includes (`Vouches`), the reports it has delivered
(`Delivers`). The same argument carries it: versions of the destination only grow,
so an expected version that still holds means the very document that was read.
Results: `ReadyForTheCutover` and `NothingUnreadIsReplaced`.

**`CollectionJobsProofs`**, for any number of pages, jobs, callers, pollers and cycles.
Thirty actions would make thirty cases of every property; so each action is shown
once to be one of eight changes of the document (`DocStep`: nothing, a mark on a
live job, a settlement, an added night, a reservation, giving up, recovery, archive),
and what the properties say of the document is proved change by change. Results:
`PageTells`, `Quiet`, `SuccessStays`; `HistoryInOrder`, which needs that a page is
reserved for the newest of its jobs (`Hist`); and `JobsImplementSingleFlight`.

**`DigestDeliveryProofs`**, for any number of pages, nights and invocations:

- `DigestTypeCorrect` and `ToldWhenSettled` without further assumptions: what an
  invocation claims was ready when it was claimed, in a lost swap or not, and a
  night that is ready stays so whatever users and the collection do (`ReadyStays`).
- `ExclusiveClaim` and `ToldOnce`, for every window and every lifetime of an
  invocation, shorter or longer than the window. The invariant `ClaimInv` holds an
  invocation to its claim only while it is `Entitled`, that is, while a claim it
  stored is not older than the window. Such a claim is exactly as old as its holder,
  so nobody may take it over; and who else is at work on that night, past its own
  window or after a lost swap, compares `claimedAt` when it ends and leaves the claim
  alone, unless both took the same `now` (`raced`). `VouchedIsKnown` adds that a
  message that is vouched for is on record or about to be: so an entitled invocation
  that is about to post finds none. A voucher that lapses with the window takes its
  message out of the count in the very step that lets another claim the night. What
  is not promised, and shown by `digest_swap` and its variant above, is that nothing
  is told twice.
- `NoticeTold` where the endpoint stays configured: whoever took a snapshot
  while the notice was owed carries it. The variant above shows the need.

**`FindingsProofs`**, for any set of pages, any log, any windows and delays:

- *Lifecycle.* `CountsAPage`, `ResolvedByItsSpan`, `FixesAreWatched`, with readings
  in any order and again. The invariant says that a fix keeps its three checkpoints
  while it is watched (`WatchedAt`: an agreed 30-day checkpoint that did not resolve
  the case had a disagreement beside it, or one that has been read over since), and
  that a Resolved case had its 30-day checkpoint agree (`HeldAt`).
- *Decisions.* `DecidedByOwnLog` and `DecisionsTakeEffect`. The case is a recursive
  function of the log; `ReplayExists` and `Applied` show by induction that it is the
  last of a sequence of cases, one per entry, and `DecidedGrows` carries "the state
  is the one the evidence gives, or that of the last decision applied" over one entry.
- *Field windows.* `SettledByTwo`: a lifecycle that is verifying has counted the
  window it was judged by last, one that is resolved another before it.
- *Follow-ups.* `ClaimsApart`, because a stored claim is the holder's own or one made
  when it was a window old (`Stamped`), and `SentWasAccepted`.

**`ProjectsProofs`**, for any number of projects, requests, changes and pages:

- *Archive.* `RegistryAgrees` (a request that is alone has left in the document what
  it will record) and `FlagsComeBack`.
- *Names.* `NamesCollide`: who is about to create a project has compared its name
  with all there are in the same mutation, and the configured projects are in the
  registry before anybody compares.
- *Client.* `ChangesStayHome`, `SavedShown`, `ActivePolled`: `ClientInv` says of every
  request under way what its answer may still bring, by its place in the queue.
- *Watchlist.* `OthersUntouched` and `TiersOrdered`, for lists of any length.
  `WithinLimit` shows that bringing a list within the limits makes it fit, `FitIsKept`
  that a list that fits is left alone, `AskedFits` that what `flagCapacityError` lets
  through fits: so the two places where the code states the limits agree. A list is
  ordered by `Before`, which picking, sorting and joining keep (`PickedList`,
  `SortedList`, `ConcatList`).

**`NightProofs`**, for any number of pages, cohorts, requests, syncs and scans:

- *Incidents.* `IncidentsJudged` and `VerdictsAreLater`, for nightly, manual and
  confirmation cohorts that overlap in any way and for any number of nights of a page
  in one of them. A page that runs for a cohort older than one it has read or ended in
  came late to it (`LateInv`); so once an incident is raised with every page in, only
  late pages run for older cohorts (`OrderInv`), unless it was `premature`.
- *Evidence.* `GivenUpForLack`, because the distinct samples among the runs are the
  answers that came in; `ReportsMatchRuns`, because reports and runs grow at the same
  places as long as no report is without its run (`NthExtended`).
- *Webflow activity.* `ActivitiesCountedOnce`: the sets stored end where the row's
  stretch begins, and the sync under way knows that row unless it was disturbed.
- *Ora audits.* `ReportsAreThere` (what a refresh is about to summarise has its
  report), `StatusIsBehind` and `NewestStays`, for any retention.
- *Verifications.* `VerdictsFollow`, an action property that needs of a state only
  which checks there are.

**`OrderLemmas`** holds what these share: induction over the natural numbers stated
for a set (`NatInd`; the library's takes an operator, which the installed provers
cannot instantiate, while its well-foundedness of a relation can be cited), the least
and the greatest of a finite set, and the ranks of places: the elements `Picked` from
a sequence are those at the places, each once, in order.

Model-checked only: liveness (`EveryCallEnds`, `EveryJobSettles`,
`EveryNightIsTold`), which the prover does not reach. The four documented statements
the code does not keep are runs that find violations, of course not theorems.

## What is not modelled

- *Components.* The weekly audit only reads. Scoring, statistics, copy and rendering
  are functions of stored data, within the reach of unit tests; they are also most
  of the repository's lines, which is why a small share of the lines stands behind
  a definition. The Webflow extensions under `.webflow/` are drafts of other
  programs. Sessions and authorization decide per request and keep no state of
  their own but the one-time hand-off (see the plan).
- *Store, jobs, workflow.* Reports in R2 and their keys; field evidence and audits;
  the caps of 180 nights per page as such and of 100 settled jobs; the finalization
  claim of `app/api/state` and the enrichment it starts; the local executor and the
  page-only runs of development; attempt counters. In `CollectionJobs` pages are
  neither paused nor removed during a run: pausing is refused then
  (`mutations.ts:43`), and archiving, which does both, is modelled.
- *Digest, follow-ups.* The text of messages; the cap of 30 digests; local time and
  DST, of which the digest keeps the order of nights; `setSensitivity`'s own
  clearing of the notice.
- *Migration.* The file store; markers and the mirror tables of jobs; demo reseeding;
  paging through the listing; what a report holds. The FDE store answers at once:
  how it does so is `VersionedStore`.
- *Evidence, incidents.* Medians, majorities of findings and the thresholds of a drop:
  whether a reading dropped is an input.
- *Issue cases.* Evidence, wording, agent readiness scores. `recordCheckpointReading`
  has no caller in this build outside its tests: its readings are an environment
  that may say anything at any time, more than once. The classification of agent
  findings does not
  change in this build and is fixed in the model.
- *Projects.* Members and access; settings without a protocol.
- *Ora.* Which origins a scheduled pass takes; parsing a report; the cap of eight
  origins, which is checked between tenants only.
- *Webflow activity.* Paging through the log, entries that arrive late, performance
  by publish.
- *Field data.* Collecting a window is one action.
- *Client.* Everything that renders; other tabs, which are "the server" to this one.

## Plan

In this order:

1. **`JobsAndDigest`**: composition of `CollectionJobs` and `DigestDelivery` over
   `trimJobs` with its bound as a constant: a night whose jobs are dropped, and a
   page that is resumed after its night (`dailyDigest.ts:113`), are nights that are
   never told.
2. Proofs for what is added; those of the present modules are complete but for
   liveness.
3. An abstract at-most-once delivery that `DigestDelivery` and `FollowUps` both
   implement, in place of two statements of the same kind.
4. **`AuthHandoff`**: the hand-off between hosts, expiry and repetition.
5. The finalization claim of `app/api/state`, with the client's poll that triggers
   it.
6. Delayed log entries in `WebflowActivity`; the origins of a scheduled pass in
   `OraAudits`.

## Running it

```
tlc -config store_calls.cfg MCVersionedStore
tlc -config store_ends.cfg MCStores
tlc -config jobs_callers.cfg MCCollectionJobs
tlc -config digest_claims.cfg MCDigestDelivery
tlc -config services.cfg MCServices
tlapm CollectionJobsProofs.tla
```

`store_lost_night.cfg` goes with `MCVersionedStore`, the other `jobs_*` and `digest_*`
files with the module of their name. The longest run (`services`) takes three
minutes with two workers. `tlapm` checks `OrderLemmas`
and each module whose name ends in `Proofs`.
