--------------------------- MODULE CollectionJobs ---------------------------
(***************************************************************************)
(* Collection jobs: from the request that reserves a page to the commit of *)
(* the result, across the processes that act on one job at the same time.  *)
(*                                                                         *)
(*   callers   the app's requests (startCollection), its cron route, and   *)
(*             the worker's own nightly dispatch; they reserve a page for  *)
(*             a job and create a Workflow instance of the same id;        *)
(*   workflows the durable CollectorWorkflow of a job: evidence cycles     *)
(*             with a long sleep between them, then one commit;            *)
(*   pollers   reconcileCollectionJobs, run by every read of the state,    *)
(*             which learn a workflow's status by HTTP.                    *)
(*                                                                         *)
(* They share only the tenant's document, which each changes by whole      *)
(* updateState calls.  VersionedStore shows that such a call takes effect  *)
(* in one indivisible step, so here it is one action.  Its closure may run *)
(* several times, though, each time on a newer document, and what it       *)
(* assigns outside the document outlives a lost attempt: that is modelled  *)
(* where a caller reads such a variable afterwards (EnqueueLost,           *)
(* NightlyLost).                                                           *)
(*                                                                         *)
(* Time is abstract: `stale` says that the limit of collectionJobIsStale   *)
(* has passed since the job was last touched.  A batch is modelled by its  *)
(* effect on one page: the code treats the pages of a batch independently. *)
(***************************************************************************)
EXTENDS Naturals, Sequences, SequencesExt

CONSTANTS Pages, Jobs, NoJob,
          Users,      \* requests of the app that start one collection
          Crons,      \* runs of the app's nightly route
          Nightlies,  \* runs of the worker's nightly dispatch
          Pollers,    \* reconciliations of one job
          Kinds,      \* kinds of jobs that users request
          Strategies,
          MaxCycles,  \* evidence cycles of a workflow       (8 in the code)
          Faults,     \* whether processes die, and steps and requests fail
          Archives    \* whether the project may be archived and restored

Callers == Users \cup Crons \cup Nightlies

ASSUME JobsAssumption ==
    /\ NoJob \notin Jobs
    /\ Users \cap Crons = {} /\ Users \cap Nightlies = {} /\ Crons \cap Nightlies = {}
    /\ Kinds \subseteq {"run", "baseline"}
    /\ "agent" \notin Strategies
    /\ MaxCycles \in Nat \ {0}
    /\ Faults \in BOOLEAN /\ Archives \in BOOLEAN

ActiveStates  == {"queued", "dispatching", "running", "waiting"}
SettledStates == {"succeeded", "inconclusive", "failed"}
Evidence      == Strategies \cup {"agent"}

WorkflowEnds == {"complete", "errored"}
WorkflowPCs  == {"none", "created", "collect", "wait", "asleep", "resume",
                 "read", "commit", "undecided", "failing"} \cup WorkflowEnds

VARIABLES
    job,      \* the jobs of the document, "none" for an id not in use
    page,     \* runId and runState of each page, and whose baseline it has
    nights,   \* the runs of each page's history, oldest first
    archived, \* projectArchivedAt is set
    wf,       \* the Workflow instance of each job id
    caller,
    poller,
    created   \* history variable: the jobs in the order of their creation

vars == <<job, page, nights, archived, wf, caller, poller, created>>
document == <<job, page, nights, archived, created>>

Active(j)   == job[j].st \in ActiveStates
ActiveOn(p) == {j \in Jobs : Active(j) /\ job[j].page = p}
Live(j)     == Active(j) /\ ~job[j].stale

\* The page is reserved for j: `page.runId === job.runId`.
Reserves(j) == job[j].st # "none" /\ page[job[j].page].run = j

NightIn(j) == job[j].st # "none" /\ j \in ToSet(nights[job[j].page])

Idle      == [pc |-> "idle", held |-> {}, queued |-> TRUE]
NotPolled == [pc |-> "idle", job |-> NoJob, snap |-> "none"]

Init ==
    /\ \E p \in Pages :
        job = [j \in Jobs |-> [st |-> "none", page |-> p, kind |-> "run", stale |-> FALSE]]
    /\ page = [p \in Pages |-> [run |-> NoJob, rs |-> "none", base |-> NoJob]]
    /\ nights = [p \in Pages |-> <<>>]
    /\ archived = FALSE
    /\ wf = [j \in Jobs |-> [pc |-> "none", cycle |-> 1, kept |-> {}]]
    /\ caller = [c \in Callers |-> Idle]
    /\ poller = [r \in Pollers |-> NotPolled]
    /\ created = <<>>

-----------------------------------------------------------------------------
(* The document operations shared by several handlers *)

\* Every assignment of a job's state comes with `updatedAt = now`.
SetJob(j, s) == job' = [job EXCEPT ![j].st = s, ![j].stale = FALSE]
Touch(j)     == job' = [job EXCEPT ![j].stale = FALSE]

SetPage(j, s) ==
    page' = IF Reserves(j) THEN [page EXCEPT ![job[j].page].rs = s] ELSE page

\* Variant: a job is marked whatever state it is in.
MarkJob_Settled(j, s) ==
    IF Reserves(j) THEN SetJob(j, s) /\ SetPage(j, s) ELSE UNCHANGED <<job, page>>

MarkJob(j, s) ==
    IF Active(j) /\ Reserves(j)
    THEN SetJob(j, s) /\ SetPage(j, s)
    ELSE UNCHANGED <<job, page>>

\* Variant: a late failure overrides a success.
FailJob_NoGuard(j) ==
    IF job[j].st = "none"
    THEN UNCHANGED <<job, page>>
    ELSE SetJob(j, "failed") /\ SetPage(j, "failed")

\* Variant: the page is not told.
FailJob_JobOnly(j) ==
    IF job[j].st \in {"none", "succeeded"}
    THEN UNCHANGED <<job, page>>
    ELSE SetJob(j, "failed") /\ UNCHANGED page

FailJob(j) ==
    IF job[j].st \in {"none", "succeeded"}
    THEN UNCHANGED <<job, page>>
    ELSE SetJob(j, "failed") /\ SetPage(j, "failed")

\* The commit of a result: a baseline run also becomes the page's baseline.
Succeed(j) ==
    LET p == job[j].page
    IN  /\ SetJob(j, "succeeded")
        /\ page' = [page EXCEPT
                      ![p].base = IF job[j].kind = "baseline" THEN j ELSE @,
                      ![p].rs   = IF Reserves(j) THEN "none" ELSE @]

AddNight(j) ==
    nights' = IF NightIn(j) THEN nights ELSE [nights EXCEPT ![job[j].page] = Append(@, j)]

Unused(j) == /\ job[j].st = "none" /\ wf[j].pc = "none"
             /\ \A c \in Callers : j \notin caller[c].held

\* A new job takes the page; the job found active there, if any, is stale.
Reserve(p, j, k, s) ==
    \E old \in ActiveOn(p) \cup {NoJob} :
        /\ old = NoJob => ActiveOn(p) = {}
        /\ old # NoJob => job[old].stale
        /\ job' = [x \in Jobs |->
                     IF x = j THEN [st |-> s, page |-> p, kind |-> k, stale |-> FALSE]
                     ELSE IF x = old THEN [job[x] EXCEPT !.st = "failed", !.stale = FALSE]
                     ELSE job[x]]
        /\ page' = [page EXCEPT ![p].run = j, ![p].rs = s]
        /\ created' = Append(created, j)
        /\ UNCHANGED <<nights, archived>>

-----------------------------------------------------------------------------
(* Callers of the app: enqueueCollectionJob, then dispatchCollectionJob(s) *)

Goto(c, l) == caller' = [caller EXCEPT ![c].pc = l]
Done(c)    == caller' = [caller EXCEPT ![c] = Idle]
Held(c)    == CHOOSE j \in caller[c].held : TRUE

\* An attempt that found a live job of the page loses the compare-and-swap:
\* `queued = false` and `job = active` stay assigned.
EnqueueLost(c) ==
    /\ caller[c].pc = "idle"
    /\ ~archived
    /\ \E j \in Jobs :
        /\ Live(j)
        /\ caller' = [caller EXCEPT ![c] = [pc |-> "retry", held |-> {j}, queued |-> FALSE]]
    /\ UNCHANGED <<document, wf, poller>>

\* The next attempt finds a live job again, or an archived project, and the
\* caller has nothing to dispatch.
EnqueueCoalesced(c) ==
    /\ caller[c].pc = "retry"
    /\ archived \/ \E j \in ActiveOn(job[Held(c)].page) : Live(j)
    /\ Done(c)
    /\ UNCHANGED <<document, wf, poller>>

\* The attempt that is stored creates the job.  Only a caller whose `queued`
\* is still true goes on to dispatch it.
Enqueue(c, p, j, k) ==
    /\ \/ caller[c].pc = "idle"
       \/ caller[c].pc = "retry" /\ p = job[Held(c)].page
    /\ ~archived
    /\ Unused(j)
    /\ Reserve(p, j, k, "queued")
    /\ IF caller[c].queued
       THEN caller' = [caller EXCEPT ![c] = [pc |-> "mark", held |-> {j}, queued |-> TRUE]]
       ELSE Done(c)
    /\ UNCHANGED <<wf, poller>>

\* COLLECTOR_URL or its secret is missing: the job fails before any request.
NotConfigured(c) ==
    /\ Faults
    /\ caller[c].pc = "mark"
    /\ Goto(c, "fail")
    /\ UNCHANGED <<document, wf, poller>>

MarkDispatching(c) ==
    /\ caller[c].pc = "mark"
    /\ MarkJob(Held(c), "dispatching")
    /\ Goto(c, "post")
    /\ UNCHANGED <<nights, archived, created, wf, poller>>

Create(S) == wf' = [j \in Jobs |-> IF j \in S /\ wf[j].pc = "none"
                                   THEN [wf[j] EXCEPT !.pc = "created"] ELSE wf[j]]

\* The POST: the worker creates the instance.  A request that fails, or whose
\* answer is lost, is answered by failing the job.
Post(c) ==
    /\ caller[c].pc = "post"
    /\ \/ Create(caller[c].held) /\ Goto(c, "posted")
       \/ Faults /\ Create(caller[c].held) /\ Goto(c, "fail")
       \/ Faults /\ UNCHANGED wf /\ Goto(c, "fail")
    /\ UNCHANGED <<document, poller>>

\* The workflow's id is recorded.  For a single job that is another
\* markCollectionJob("dispatching"); for a batch, the id and the time only.
RecordPosted(c) ==
    /\ caller[c].pc = "posted"
    /\ IF c \in Users THEN MarkJob(Held(c), "dispatching")
       ELSE IF Active(Held(c)) THEN Touch(Held(c)) /\ UNCHANGED page
       ELSE UNCHANGED <<job, page>>
    /\ Done(c)
    /\ UNCHANGED <<nights, archived, created, wf, poller>>

DispatchFailed(c) ==
    /\ caller[c].pc = "fail"
    /\ FailJob(Held(c))
    /\ Done(c)
    /\ UNCHANGED <<nights, archived, created, wf, poller>>

AppStep(c) ==
    \/ EnqueueLost(c) \/ EnqueueCoalesced(c) \/ NotConfigured(c)
    \/ \E p \in Pages, j \in Jobs :
        \E k \in IF c \in Users THEN Kinds ELSE {"run"} : Enqueue(c, p, j, k)
    \/ MarkDispatching(c) \/ Post(c) \/ RecordPosted(c) \/ DispatchFailed(c)

-----------------------------------------------------------------------------
(* The worker's nightly dispatch: dispatchFdeNightly *)

\* A lost attempt leaves the job it would have created in `queued`.
NightlyLost(c, j) ==
    /\ caller[c].pc = "idle"
    /\ ~archived
    /\ Unused(j)
    /\ \E p \in Pages : \A a \in ActiveOn(p) : job[a].stale
    /\ caller' = [caller EXCEPT ![c] = [pc |-> "retry", held |-> {j}, queued |-> TRUE]]
    /\ UNCHANGED <<document, wf, poller>>

\* The stored attempt reserves nothing: the page has a live job (or the project
\* is archived).  What an earlier attempt left is dispatched all the same.
NightlyCoalesced(c) ==
    /\ caller[c].pc = "retry"
    /\ archived \/ \E j \in Jobs : Live(j)
    /\ Goto(c, "create")
    /\ UNCHANGED <<document, wf, poller>>

\* Variant: a job that exists is left alone, however old it is.
NightlyReserve_KeepsStale(c, p, j) ==
    /\ caller[c].pc \in {"idle", "retry"}
    /\ ~archived
    /\ Unused(j)
    /\ ActiveOn(p) = {}
    /\ Reserve(p, j, "run", "dispatching")
    /\ caller' = [caller EXCEPT ![c].pc = "create", ![c].held = @ \cup {j}]
    /\ UNCHANGED <<wf, poller>>

NightlyReserve(c, p, j) ==
    /\ caller[c].pc \in {"idle", "retry"}
    /\ ~archived
    /\ Unused(j)
    /\ Reserve(p, j, "run", "dispatching")
    /\ caller' = [caller EXCEPT ![c].pc = "create", ![c].held = @ \cup {j}]
    /\ UNCHANGED <<wf, poller>>

\* createBatch: every instance, or an error after creating some of them.
NightlyCreate(c) ==
    /\ caller[c].pc = "create"
    /\ \/ Create(caller[c].held) /\ Goto(c, "note")
       \/ Faults /\ (\E S \in SUBSET caller[c].held : Create(S)) /\ Goto(c, "giveUp")
    /\ UNCHANGED <<document, poller>>

\* The ids of the instances are recorded; that update itself may fail.
NightlyNote(c) ==
    /\ caller[c].pc = "note"
    /\ \/ /\ job' = [j \in Jobs |-> IF j \in caller[c].held /\ Active(j)
                                    THEN [job[j] EXCEPT !.stale = FALSE] ELSE job[j]]
          /\ Done(c)
       \/ Faults /\ UNCHANGED job /\ Goto(c, "giveUp")
    /\ UNCHANGED <<page, nights, archived, created, wf, poller>>

\* The reserved jobs fail, whatever has become of them meanwhile.
NightlyGiveUp(c) ==
    /\ caller[c].pc = "giveUp"
    /\ job' = [j \in Jobs |-> IF j \in caller[c].held /\ job[j].st # "none"
                              THEN [job[j] EXCEPT !.st = "failed", !.stale = FALSE] ELSE job[j]]
    /\ page' = [p \in Pages |-> IF page[p].run \in caller[c].held
                                THEN [page[p] EXCEPT !.rs = "failed"] ELSE page[p]]
    /\ Done(c)
    /\ UNCHANGED <<nights, archived, created, wf, poller>>

NightlyStep(c) ==
    \/ \E j \in Jobs : NightlyLost(c, j)
    \/ NightlyCoalesced(c)
    \/ \E p \in Pages, j \in Jobs : NightlyReserve(c, p, j)
    \/ NightlyCreate(c) \/ NightlyNote(c) \/ NightlyGiveUp(c)

\* The process of a request dies; what it was about to do is not done.
CallerDies(c) ==
    /\ Faults
    /\ caller[c].pc # "idle"
    /\ Done(c)
    /\ UNCHANGED <<document, wf, poller>>

-----------------------------------------------------------------------------
(* CollectorWorkflow.run.  Every step.do may be executed again if the engine *)
(* dies after the step's effect and before it has saved the step's result:   *)
(* `saved` tells the two apart, and an unsaved step leaves the workflow      *)
(* where it was.                                                             *)

Saved(j, l, saved) == wf' = IF saved THEN [wf EXCEPT ![j].pc = l] ELSE wf

\* The step throws and its retries are used up: the run's catch clause is next.
Throw(j) == /\ wf' = [wf EXCEPT ![j].pc = "failing"]
            /\ UNCHANGED document

\* Variant: it is not asked whether the job was cancelled.
StartRun_NotChecked(j, saved) ==
    /\ wf[j].pc = "created" /\ job[j].st # "none"
    /\ Saved(j, "collect", saved)
    /\ SetJob(j, "running") /\ SetPage(j, "running")
    /\ UNCHANGED <<nights, archived, created, caller, poller>>

\* markWorkflowRunning
StartRun(j, saved) ==
    /\ wf[j].pc = "created"
    /\ IF archived \/ ~Reserves(j) \/ job[j].st = "failed"
       THEN Throw(j)
       ELSE /\ Saved(j, "collect", saved)
            /\ IF job[j].st = "succeeded"
               THEN UNCHANGED <<job, page>>
               ELSE SetJob(j, "running") /\ SetPage(j, "running")
            /\ UNCHANGED <<nights, archived, created>>
    /\ UNCHANGED <<caller, poller>>

Refused(j) == archived \/ ~Reserves(j) \/ job[j].st \in {"failed", "inconclusive"}

\* Variant: evidence is committed without looking at the page's reservation.
CommitEvidence_AnyRun(j, e, saved) ==
    /\ wf[j].pc = "collect"
    /\ e \notin wf[j].kept
    /\ job[j].st # "none" /\ ~archived
    /\ AddNight(j) /\ Touch(j)
    /\ wf' = IF saved THEN [wf EXCEPT ![j].kept = @ \cup {e}] ELSE wf
    /\ UNCHANGED <<page, archived, created, caller, poller>>

\* commitWorkflowStrategy, once a strategy's measurements are reliable, and
\* commitWorkflowAgent, whose failure the run swallows.  (The code's order in a
\* cycle is agent, mobile, desktop; here it is any.)
CommitEvidence(j, e, saved) ==
    /\ wf[j].pc = "collect"
    /\ e \notin wf[j].kept
    /\ IF Refused(j)
       THEN e # "agent" /\ Throw(j)
       ELSE /\ AddNight(j) /\ Touch(j)
            /\ wf' = IF saved THEN [wf EXCEPT ![j].kept = @ \cup {e}] ELSE wf
            /\ UNCHANGED <<page, archived, created>>
    /\ UNCHANGED <<caller, poller>>

\* markWorkflowEvidenceProgress: s is the state it sets, or "same".
EvidenceProgress(j, s) ==
    /\ IF job[j].st \in {"succeeded", "inconclusive"}
       THEN UNCHANGED <<job, page>>
       ELSE IF s = "same" THEN Touch(j) /\ UNCHANGED page
       ELSE SetJob(j, s) /\ SetPage(j, s)
    /\ UNCHANGED <<nights, archived, created>>

Cancelled(j) == archived \/ job[j].st = "failed"

\* The end of an evidence cycle; the evidence that was not reliable is missing.
EndCycle(j, saved) ==
    /\ wf[j].pc = "collect"
    /\ IF Cancelled(j) THEN Throw(j)
       ELSE /\ EvidenceProgress(j, "same")
            /\ Saved(j, IF Strategies \subseteq wf[j].kept THEN "read"
                        ELSE IF wf[j].cycle < MaxCycles THEN "wait"
                        ELSE "undecided", saved)
    /\ UNCHANGED <<caller, poller>>

StartWait(j, saved) ==
    /\ wf[j].pc = "wait"
    /\ IF Cancelled(j) THEN Throw(j)
       ELSE EvidenceProgress(j, "waiting") /\ Saved(j, "asleep", saved)
    /\ UNCHANGED <<caller, poller>>

\* The sleep of EVIDENCE_RETRY_DELAY is over.
Wake(j) ==
    /\ wf[j].pc = "asleep"
    /\ wf' = [wf EXCEPT ![j].pc = "resume"]
    /\ UNCHANGED <<document, caller, poller>>

Resume(j, saved) ==
    /\ wf[j].pc = "resume"
    /\ IF Cancelled(j) THEN Throw(j)
       ELSE /\ EvidenceProgress(j, "running")
            /\ wf' = IF saved THEN [wf EXCEPT ![j].pc = "collect", ![j].cycle = @ + 1] ELSE wf
    /\ UNCHANGED <<caller, poller>>

\* commitWorkflowResult reads the state, then the staged reports ...
ReadForCommit(j) ==
    /\ wf[j].pc = "read"
    /\ IF archived THEN Throw(j)
       ELSE /\ wf' = [wf EXCEPT ![j].pc = IF job[j].st = "succeeded" THEN "complete"
                                          ELSE "commit"]
            /\ UNCHANGED document
    /\ UNCHANGED <<caller, poller>>

\* ... and commits the result.  Neither the job's state nor the page's runId
\* is looked at again, except to leave another run's page state alone.
CommitResult(j, saved) ==
    /\ wf[j].pc = "commit"
    /\ IF archived \/ ~NightIn(j) THEN Throw(j)
       ELSE /\ Succeed(j)
            /\ wf' = [wf EXCEPT ![j].pc = IF saved THEN "complete" ELSE "read"]
            /\ UNCHANGED <<nights, archived, created>>
    /\ UNCHANGED <<caller, poller>>

\* markWorkflowInconclusive, then the run ends with the error.
MarkInconclusive(j, saved) ==
    /\ wf[j].pc = "undecided"
    /\ IF job[j].st \in {"none", "succeeded", "failed"}
       THEN UNCHANGED <<job, page>>
       ELSE SetJob(j, "inconclusive") /\ SetPage(j, "none")
    /\ Saved(j, "errored", saved)
    /\ UNCHANGED <<nights, archived, created, caller, poller>>

\* failWorkflowJob, likewise.
MarkFailed(j, saved) ==
    /\ wf[j].pc = "failing"
    /\ IF job[j].st = "failed" THEN UNCHANGED <<job, page>> ELSE FailJob(j)
    /\ Saved(j, "errored", saved)
    /\ UNCHANGED <<nights, archived, created, caller, poller>>

WorkflowStep(j, saved) ==
    \/ StartRun(j, saved)
    \/ \E e \in Evidence : CommitEvidence(j, e, saved)
    \/ EndCycle(j, saved) \/ StartWait(j, saved)
    \/ Wake(j) \/ Resume(j, saved) \/ ReadForCommit(j) \/ CommitResult(j, saved)
    \/ MarkInconclusive(j, saved) \/ MarkFailed(j, saved)

\* A step's storage or network fails beyond its retries, or the instance is
\* terminated and records nothing.
WorkflowBreaks(j) ==
    /\ Faults
    /\ wf[j].pc \notin {"none"} \cup WorkflowEnds
    /\ \/ wf' = [wf EXCEPT ![j].pc = "errored"]
       \/ wf[j].pc \notin {"failing", "undecided"} /\ wf' = [wf EXCEPT ![j].pc = "failing"]
    /\ UNCHANGED <<document, caller, poller>>

-----------------------------------------------------------------------------
(* Pollers: reconcileCollectionJobs, for one of the active jobs it finds *)

PollTo(r, l) == poller' = [poller EXCEPT ![r].pc = l]
PollEnds(r)  == poller' = [poller EXCEPT ![r] = NotPolled]

PollSnapshot(r, j) ==
    /\ poller[r].pc = "idle"
    /\ Active(j)
    /\ poller' = [poller EXCEPT ![r] = [pc |-> "fetch", job |-> j, snap |-> job[j].st]]
    /\ UNCHANGED <<document, wf, caller>>

\* The answer to GET /jobs/{id}, held against the snapshot.  An instance that
\* does not exist is an error 500, or has the status "unknown".
PollStatus(r) ==
    LET at == wf[poller[r].job].pc
    IN  /\ poller[r].pc = "fetch"
        /\ CASE at = "none"     -> PollEnds(r) \/ PollTo(r, "fail")
             [] at = "errored"  -> PollTo(r, "fail")
             [] at = "complete" -> PollTo(r, IF poller[r].snap = "running" THEN "read" ELSE "premark")
             [] OTHER -> IF poller[r].snap \in {"running", "waiting"}
                         THEN PollEnds(r)
                         ELSE PollTo(r, "mark") \/ (at = "created" /\ PollEnds(r))
        /\ UNCHANGED <<document, wf, caller>>

\* A request fails: an answer 4xx is terminal, anything else is deferred.
PollRequestFails(r) ==
    /\ Faults
    /\ poller[r].pc \in {"fetch", "read"}
    /\ PollTo(r, "fail") \/ PollEnds(r)
    /\ UNCHANGED <<document, wf, caller>>

\* The three places where a job is marked running.
PollMark(r) ==
    /\ poller[r].pc \in {"mark", "premark", "remark"}
    /\ MarkJob(poller[r].job, "running")
    /\ CASE poller[r].pc = "mark"    -> PollEnds(r)
         [] poller[r].pc = "premark" -> PollTo(r, "read")
         [] poller[r].pc = "remark"  -> PollTo(r, "append")
    /\ UNCHANGED <<nights, archived, created, wf, caller>>

PollFail(r) ==
    /\ poller[r].pc = "fail"
    /\ FailJob(poller[r].job)
    /\ PollEnds(r)
    /\ UNCHANGED <<nights, archived, created, wf, caller>>

\* The reports are fetched; commitCollectionResult reads the state.
PollRead(r) ==
    LET s == job[poller[r].job].st
    IN  /\ poller[r].pc = "read"
        /\ CASE s = "succeeded" -> PollEnds(r)
             [] s = "running"   -> PollTo(r, "append")
             [] OTHER           -> PollTo(r, "remark")
        /\ UNCHANGED <<document, wf, caller>>

\* appendNight; without a night the import is deferred.
PollAppend(r) ==
    LET j == poller[r].job
        p == job[j].page
    IN  /\ poller[r].pc = "append"
        /\ IF NightIn(j)
           THEN PollTo(r, "settle") /\ UNCHANGED <<page, nights>>
           ELSE IF Reserves(j) /\ page[p].rs = "running"
           THEN AddNight(j) /\ SetPage(j, "none") /\ PollTo(r, "settle")
           ELSE PollEnds(r) /\ UNCHANGED <<page, nights>>
        /\ UNCHANGED <<job, archived, created, wf, caller>>

PollSettle(r) ==
    /\ poller[r].pc = "settle"
    /\ Succeed(poller[r].job)
    /\ PollEnds(r)
    /\ UNCHANGED <<nights, archived, created, wf, caller>>

PollStep(r) ==
    \/ \E j \in Jobs : PollSnapshot(r, j)
    \/ PollStatus(r) \/ PollRequestFails(r) \/ PollMark(r) \/ PollFail(r)
    \/ PollRead(r) \/ PollAppend(r) \/ PollSettle(r)

PollerDies(r) ==
    /\ Faults
    /\ poller[r].pc # "idle"
    /\ PollEnds(r)
    /\ UNCHANGED <<document, wf, caller>>

-----------------------------------------------------------------------------
(* Time, recovery and archiving *)

\* Half an hour (for a sleeping job, two hours after its wake-up time) passes
\* without a change of the job; no updateState call lasts that long.
Age(j) ==
    /\ Live(j)
    /\ \A c \in Callers : caller[c].pc # "retry"
    /\ job' = [job EXCEPT ![j].stale = TRUE]
    /\ UNCHANGED <<page, nights, archived, created, wf, caller, poller>>

\* recoverStaleRuns, at every read of the state: of the job that holds a page,
\* either the page's state is repaired or both are failed.
Recover ==
    LET On(p) == {j \in ActiveOn(p) : Reserves(j)}
        After(j) == IF job[j].stale THEN "failed" ELSE job[j].st
    IN  /\ job' = [j \in Jobs |-> IF Active(j) /\ Reserves(j) /\ job[j].stale
                                  THEN [job[j] EXCEPT !.st = "failed", !.stale = FALSE]
                                  ELSE job[j]]
        /\ \E expired \in SUBSET Pages :
            page' = [p \in Pages |-> [page[p] EXCEPT
                        !.rs = IF On(p) # {} THEN After(CHOOSE j \in On(p) : TRUE)
                               ELSE IF p \in expired /\ @ \in ActiveStates THEN "failed"
                               ELSE @]]
        /\ UNCHANGED <<nights, archived, created, wf, caller, poller>>

\* pauseProjectForArchive
Archive ==
    /\ Archives /\ ~archived
    /\ archived' = TRUE
    /\ page' = [p \in Pages |-> [page[p] EXCEPT !.run = NoJob, !.rs = "none"]]
    /\ job' = [j \in Jobs |-> IF Active(j)
                              THEN [job[j] EXCEPT !.st = "failed", !.stale = FALSE] ELSE job[j]]
    /\ UNCHANGED <<nights, created, wf, caller, poller>>

Restore ==
    /\ archived
    /\ archived' = FALSE
    /\ UNCHANGED <<job, page, nights, created, wf, caller, poller>>

Next ==
    \/ \E c \in Users \cup Crons : AppStep(c)
    \/ \E c \in Nightlies : NightlyStep(c)
    \/ \E c \in Callers : CallerDies(c)
    \/ \E j \in Jobs, saved \in BOOLEAN : WorkflowStep(j, saved)
    \/ \E j \in Jobs : WorkflowBreaks(j) \/ Age(j)
    \/ \E r \in Pollers : PollStep(r) \/ PollerDies(r)
    \/ Recover \/ Archive \/ Restore

Spec == Init /\ [][Next]_vars

\* The worker's cron comes back every 15 minutes and finishes or dies,
\* Workflows finish the steps they begin, an updateState call ends
\* (VersionedStore!EveryCallEnds), and half an hour passes between the calls
\* that Age waits for.  New requests of users, polls and crons of the app are
\* not promised.
FairSpec ==
    /\ Spec
    /\ \A j \in Jobs : SF_vars(Age(j)) /\ WF_vars(WorkflowStep(j, TRUE))
    /\ \A c \in Users \cup Crons : WF_vars(caller[c].pc = "retry" /\ AppStep(c))
    /\ \A c \in Nightlies :
        /\ WF_vars(caller[c].pc # "idle" /\ NightlyStep(c))
        /\ WF_vars(\E p \in Pages, j \in Jobs : NightlyReserve(c, p, j))

-----------------------------------------------------------------------------
(* Properties *)

TypeOK ==
    /\ job \in [Jobs -> [st : {"none"} \cup ActiveStates \cup SettledStates, page : Pages,
                         kind : {"run", "baseline"}, stale : BOOLEAN]]
    /\ page \in [Pages -> [run : Jobs \cup {NoJob},
                           rs : {"none", "failed"} \cup ActiveStates,
                           base : Jobs \cup {NoJob}]]
    /\ nights \in [Pages -> Seq(Jobs)]
    /\ archived \in BOOLEAN
    /\ wf \in [Jobs -> [pc : WorkflowPCs, cycle : 1 .. MaxCycles, kept : SUBSET Evidence]]
    /\ caller \in [Callers ->
         [pc : {"idle", "retry", "mark", "post", "posted", "fail", "create", "note", "giveUp"},
          held : SUBSET Jobs, queued : BOOLEAN]]
    /\ poller \in [Pollers ->
         [pc : {"idle", "fetch", "mark", "premark", "remark", "read", "append", "settle", "fail"},
          job : Jobs \cup {NoJob}, snap : {"none"} \cup ActiveStates]]
    /\ created \in Seq(Jobs)

\* The page and its jobs agree: a live job is the one its page is reserved for,
\* so nothing live is ever superseded; and a page that says it is working is
\* reserved for a live job in that very state, so no page is stuck "running".
PageTellsRun ==
    /\ \A j \in Jobs : Active(j) => Reserves(j)
    /\ \A p \in Pages : page[p].rs \in ActiveStates =>
        \E j \in ActiveOn(p) : page[p].run = j /\ page[p].rs = job[j].st

\* A superseded run does not enter the history: the nights of a page are in the
\* order in which their runs were reserved, one per run, however late a
\* workflow or a poller commits.
NightsInOrder ==
    \A p \in Pages : \A a, b \in DOMAIN nights[p] : a < b =>
        \E m, n \in DOMAIN created :
            m < n /\ created[m] = nights[p][a] /\ created[n] = nights[p][b]

\* A run that succeeded stays so, whatever is still in flight for it: a late poll,
\* a lost answer, a broken instance, a recovery.  Only the worker's dispatch, when
\* it gives up the jobs whose workflows it could not create, looks at no state.
SuccessIsFinal ==
    [][\A j \in Jobs : job[j].st = "succeeded" =>
        \/ job'[j].st = "succeeded"
        \/ \E c \in Nightlies : j \in caller[c].held /\ caller[c].pc = "giveUp"]_vars

\* Archiving is final for the work in flight: no late request, workflow or poll
\* makes a job of an archived project active again.
ArchivedIsQuiet == archived => \A j \in Jobs : ~Active(j)

\* Every job settles, or gives its page to another one, as long as there are
\* ids to replace it with: a lost process leaves no page occupied for ever.
EveryJobSettles ==
    \A j \in Jobs : Active(j) ~> ~Active(j) \/ \A i \in Jobs : ~Unused(i)

-----------------------------------------------------------------------------
(* What the documentation and the comments say, and the code does not do *)

\* collectionJobs.ts:540, "Do not flatten that durable sleep back to running":
\* while the workflow of a live job sleeps, the job is waiting.  A job that says
\* "running" meanwhile goes stale in half an hour, against collectionRetry.ts:14,
\* "A sleeping Workflow stays authoritative until its scheduled retry".
SleepIsNotFlattened ==
    \A j \in Jobs : wf[j].pc = "asleep" /\ Active(j) => job[j].st = "waiting"

\* fsStore.ts:230, "A result from a superseded/stale job must never overwrite
\* the current run": once a baseline run has succeeded, the page's baseline is
\* not that of a run reserved before it.
BaselineIsNewest ==
    \A p \in Pages : \A m, n \in DOMAIN created :
        /\ m < n
        /\ page[p].base = created[m]
        /\ job[created[n]].page = p /\ job[created[n]].kind = "baseline"
        => job[created[n]].st # "succeeded"

\* collectionJobs.ts:63, "Atomically reserve a durable collection job; live
\* duplicates coalesce": a job that is only queued is one that its creator is
\* about to dispatch (when no process dies).
QueuedIsDispatched ==
    \A j \in Jobs : job[j].st = "queued" =>
        \E c \in Callers : j \in caller[c].held /\ caller[c].pc \in {"mark", "post", "fail"}

-----------------------------------------------------------------------------
(* The jobs implement SingleFlight *)

HolderOf(p) == IF ActiveOn(p) = {} THEN NoJob ELSE CHOOSE j \in ActiveOn(p) : TRUE

Flight == INSTANCE SingleFlight
              WITH holder <- [p \in Pages |-> HolderOf(p)],
                   ended <- {j \in Jobs : job[j].st \in SettledStates}

\* At most one live run per page at a time, and no run that has settled comes
\* back to life, under every race of callers, workflows and pollers.
ImplementsSingleFlight == Flight!Spec
=============================================================================
