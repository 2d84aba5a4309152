----------------------------- MODULE Incidents -----------------------------
(* The measurement incident of a project (src/lib/cohortAnomaly.ts and
   collector-worker/nightly.ts): when the pages of one cohort drop together
   while the test environment changes too, the readings are thrown out and a
   second, independent cohort is dispatched to confirm.

   A cohort is a number in the order cohorts were started: nightly:<date>,
   which a page joins when its own slot has passed, manual:<instant> or
   confirmation:<instant>.  A page runs apart from the others, and every page
   that ends evaluates its cohort in the same mutation.  The scores a page
   shows and the recommendations of a thrown-out night are data. *)
EXTENDS FiniteSets, Integers, Sequences

CONSTANTS Watched,      \* the watched pages
          MinPages,     \* MINIMUM_COHORT_PAGES
          MaxCohorts,   \* bound on the cohorts started
          MaxNights     \* bound on the nights of a page in one cohort

ASSUME IncidentAssumption ==
    MinPages \in Nat \ {0} /\ MaxCohorts \in Nat /\ MaxNights \in Nat

VARIABLES monitored,  \* the pages that are actively monitored
          cohorts,    \* the cohorts started, each [kind, date]
          job,        \* per page, the job that runs for it
          orphans,    \* jobs failed from outside whose workflow runs on
          nights,     \* per page, the history of its complete nights
          endedWithout, \* per cohort, pages with a job that failed in it
          incident    \* measurementIncident

(* History, read by the properties alone. *)
VARIABLES outside,    \* did a job of the confirmation end unevaluated?
          judgedBy,   \* the cohort the verdict comes from
          premature,  \* was the incident raised before its cohort ended?
          late        \* cohorts a page joined, or an orphan committed to,
                      \* after a later one had started

historyVars == <<outside, judgedBy, premature, late>>
evidenceOfPages == <<nights, endedWithout>>
incidentVars == <<monitored, cohorts, job, orphans, evidenceOfPages,
                  incident, historyVars>>

CohortNumbers == 1..MaxCohorts
CohortDates == 1..(2 * MaxCohorts)
Newest == Len(cohorts)

NoJob == [cohort |-> 0, step |-> "none"]
NoIncident == [status |-> "none", cohort |-> 0, confirmation |-> 0,
               affected |-> {}, retry |-> "none"]

Active(p) == job[p] # NoJob

-----------------------------------------------------------------------------
(* evaluateCohortAnomaly over the histories N and the ended pages E. *)

(* The night of the cohort is the first one found in the history. *)
isNightOf(N, p, c, k) ==
    N[p][k].cohort = c /\ \A j \in 1..(k - 1) : N[p][j].cohort # c

isConfirmation(c) == incident.confirmation = c

MutFollowUpOfItself(c) ==     \* the cohort of the incident confirms it
    incident.status = "suspected"

isMonitoringFollowUp(c) ==
    incident.status = "suspected" /\ incident.cohort # c

expectedPageIds(c) ==
    IF isConfirmation(c) THEN incident.affected ELSE monitored

completedPageIds(c, N, E) ==
    {p \in Watched : \E k \in DOMAIN N[p] : N[p][k].cohort = c} \cup E[c]

previousTrustedNight(N, p, k) == \E b \in 1..(k - 1) : ~N[p][b].thrown

candidates(c, N) ==
    {p \in Watched : \E k \in DOMAIN N[p] :
                        isNightOf(N, p, c, k) /\ previousTrustedNight(N, p, k)}

mayEvaluate(c, N, E) ==
    /\ Cardinality(completedPageIds(c, N, E)) >= Cardinality(expectedPageIds(c))
    /\ Cardinality(candidates(c, N)) >= MinPages

affected(c, N) ==
    {p \in candidates(c, N) : \E k \in DOMAIN N[p] :
                                 isNightOf(N, p, c, k) /\ N[p][k].dropped}

synchronizedDrop(c, N) ==
    10 * Cardinality(affected(c, N)) >= 7 * Cardinality(candidates(c, N))

(* An anomaly throws the readings out and suspects the provider; without one a
   confirmation, or any other cohort once the provider is suspected, settles
   it.  Whether the environment changed and the origin did not is an input. *)
Anomaly(c, N, E) ==
    /\ nights' = [p \in Watched |-> [k \in DOMAIN N[p] |->
                     [N[p][k] EXCEPT !.thrown =
                         @ \/ (p \in candidates(c, N) /\ isNightOf(N, p, c, k))]]]
    /\ incident' = [status |-> "suspected",
                    cohort |-> IF incident = NoIncident
                               THEN c ELSE incident.cohort,
                    confirmation |-> 0,
                    affected |-> candidates(c, N),
                    retry |-> IF isConfirmation(c) THEN "none" ELSE "waiting"]
    /\ judgedBy' = 0
    /\ premature' = \/ premature
                    \/ /\ incident = NoIncident
                       /\ ~(expectedPageIds(c) \subseteq completedPageIds(c, N, E))

Settles(c, N) ==
    /\ nights' = N
    /\ UNCHANGED premature
    /\ IF isConfirmation(c) \/ isMonitoringFollowUp(c)
       THEN /\ incident' = [incident EXCEPT
                  !.status = IF synchronizedDrop(c, N)
                             THEN "verified" ELSE "recovered",
                  !.affected = affected(c, N),
                  !.retry = "none"]
            /\ judgedBy' = c
       ELSE UNCHANGED <<incident, judgedBy>>

evaluateCohortAnomaly(c, N, E) ==
    \/ /\ mayEvaluate(c, N, E)
       /\ \/ synchronizedDrop(c, N) /\ Anomaly(c, N, E)
          \/ Settles(c, N)
    \/ /\ ~mayEvaluate(c, N, E)
       /\ nights' = N
       /\ UNCHANGED <<incident, judgedBy, premature>>

-----------------------------------------------------------------------------
InitIncidents ==
    /\ monitored = Watched
    /\ cohorts = <<>>
    /\ job = [p \in Watched |-> NoJob]
    /\ orphans = {}
    /\ \E trusted \in SUBSET Watched :
          nights = [p \in Watched |->
                       IF p \in trusted
                       THEN <<[cohort |-> 0, dropped |-> FALSE, thrown |-> FALSE]>>
                       ELSE <<>>]
    /\ endedWithout = [c \in CohortNumbers |-> {}]
    /\ incident = NoIncident
    /\ outside = FALSE
    /\ judgedBy = 0
    /\ premature = FALSE
    /\ late = {}

SetMonitored(p) ==
    /\ ~Active(p)
    /\ monitored' = IF p \in monitored THEN monitored \ {p}
                    ELSE monitored \cup {p}
    /\ UNCHANGED <<cohorts, job, orphans, evidenceOfPages, incident, historyVars>>

(* Pages get a job in cohort c, which starts with them unless it runs already;
   a page with a live job is coalesced. *)
Reserve(c, kind, date, S) ==
    /\ S # {} /\ \A p \in S : p \in monitored /\ ~Active(p)
    /\ IF c > Newest
       THEN /\ Newest < MaxCohorts
            /\ cohorts' = Append(cohorts, [kind |-> kind, date |-> date])
       ELSE UNCHANGED cohorts
    /\ job' = [p \in Watched |-> IF p \in S THEN [cohort |-> c, step |-> "run"]
                                 ELSE job[p]]
    /\ late' = IF c < Newest THEN late \cup {c} ELSE late

(* The newest date a nightly cohort was started for. *)
Dates == {cohorts[c].date : c \in 1..Newest}
LatestDate == CHOOSE d \in Dates \cup {0} : \A e \in Dates : e <= d

(* The days a page was collected for, with or without a result. *)
LastDates(p) ==
    {cohorts[c].date : c \in {b \in 1..Newest :
        p \in completedPageIds(b, nights, endedWithout)}}

(* A scheduled run takes the pages that are due: each joins the cohort of the
   day its last slot fell on, which is today or the day before, whatever was
   started meanwhile.  A page is not due for a day before its last one; whether
   it is due again for that day is open, because a failed dispatch deletes
   lastScheduledAt and setCollectionSchedule puts a slot of today ahead again.
   How far the newest date is away matters only up to whether a day was left
   out between.  A run that takes several pages is one such step for each. *)
dispatchFdeNightly(p, date) ==
    /\ date \in (LatestDate - 1)..(LatestDate + 2)
    /\ \A d \in LastDates(p) : d <= date
    /\ \E c \in 1..(Newest + 1) :
          /\ IF c <= Newest THEN cohorts[c] = [kind |-> "nightly", date |-> date]
             ELSE \A b \in 1..Newest : cohorts[b].date # date
          /\ Cardinality({k \in DOMAIN nights[p] : nights[p][k].cohort = c}) < MaxNights
          /\ Reserve(c, "nightly", date, {p})
    /\ UNCHANGED <<monitored, orphans, evidenceOfPages, incident,
                   outside, judgedBy, premature>>

(* An operator's run takes every monitored page, due or not. *)
dispatchManual ==
    /\ Reserve(Newest + 1, "manual", 0, {p \in monitored : ~Active(p)})
    /\ UNCHANGED <<monitored, orphans, evidenceOfPages,
                   incident, outside, judgedBy, premature>>

(* An hour after the incident its pages are sampled again, those that are
   still monitored and not being collected. *)
RetryIsDue ==
    /\ incident.retry = "waiting"
    /\ incident' = [incident EXCEPT !.retry = "ready"]
    /\ UNCHANGED <<monitored, cohorts, job, orphans, evidenceOfPages,
                   historyVars>>

dispatchConfirmation ==
    /\ incident.status = "suspected" /\ incident.retry = "ready"
    /\ Reserve(Newest + 1, "confirmation", 0,
               {p \in incident.affected \cap monitored : ~Active(p)})
    /\ incident' = [incident EXCEPT !.status = "confirming",
                       !.confirmation = Newest + 1, !.retry = "none"]
    /\ outside' = FALSE
    /\ UNCHANGED <<monitored, orphans, evidenceOfPages,
                   judgedBy, premature>>

(* The second device of a page is committed: the night counts, and the job
   runs on. *)
commitWorkflowStrategy(p, dropped) ==
    /\ job[p].step = "run"
    /\ nights' = [nights EXCEPT ![p] = Append(@,
                     [cohort |-> job[p].cohort, dropped |-> dropped,
                      thrown |-> FALSE])]
    /\ job' = [job EXCEPT ![p].step = "full"]
    /\ UNCHANGED <<monitored, cohorts, orphans, endedWithout, incident,
                   historyVars>>

commitWorkflowResult(p) ==
    /\ job[p].step = "full"
    /\ job' = [job EXCEPT ![p] = NoJob]
    /\ evaluateCohortAnomaly(job[p].cohort, nights, endedWithout)
    /\ UNCHANGED <<monitored, cohorts, orphans, endedWithout, outside, late>>

MutEndUnevaluated(p) ==     \* a page that ends without a result judges nothing
    LET c == job[p].cohort
    IN /\ Active(p)
       /\ job' = [job EXCEPT ![p] = NoJob]
       /\ endedWithout' = [endedWithout EXCEPT ![c] = @ \cup {p}]
       /\ UNCHANGED <<monitored, cohorts, orphans, nights, incident,
                      historyVars>>

(* The workflow gives up: markWorkflowInconclusive, failWorkflowJob. *)
endWithoutResult(p) ==
    LET c == job[p].cohort
        E == [endedWithout EXCEPT ![c] = @ \cup {p}]
    IN /\ Active(p)
       /\ job' = [job EXCEPT ![p] = NoJob]
       /\ endedWithout' = E
       /\ evaluateCohortAnomaly(c, nights, E)
       /\ UNCHANGED <<monitored, cohorts, orphans, outside, late>>

(* The job is failed from outside, and nobody evaluates: a dispatch or a reader
   found it stale, though its workflow may still be running, or the workflow
   could not be created. *)
failOutside(p) ==
    LET c == job[p].cohort
    IN /\ Active(p)
       /\ job' = [job EXCEPT ![p] = NoJob]
       /\ endedWithout' = [endedWithout EXCEPT ![c] = @ \cup {p}]
       /\ outside' = (outside \/ isConfirmation(c))
       /\ orphans' = IF job[p].step = "full"
                     THEN orphans \cup {[page |-> p, cohort |-> c]} ELSE orphans
       /\ UNCHANGED <<monitored, cohorts, nights, incident, judgedBy,
                      premature, late>>

(* The workflow of a job that was failed from outside ends well after all:
   commitWorkflowResult asks only that the night is there. *)
commitOrphan(o) ==
    /\ orphans' = orphans \ {o}
    /\ evaluateCohortAnomaly(o.cohort, nights, endedWithout)
    /\ late' = IF o.cohort < Newest THEN late \cup {o.cohort} ELSE late
    /\ UNCHANGED <<monitored, cohorts, job, endedWithout, outside>>

NextIncidents ==
    \/ RetryIsDue
    \/ dispatchManual
    \/ dispatchConfirmation
    \/ \E o \in orphans : commitOrphan(o)
    \/ \E p \in Watched :
          \/ SetMonitored(p)
          \/ \E date \in CohortDates : dispatchFdeNightly(p, date)
          \/ \E dropped \in BOOLEAN : commitWorkflowStrategy(p, dropped)
          \/ commitWorkflowResult(p)
          \/ endWithoutResult(p)
          \/ failOutside(p)

SpecIncidents == InitIncidents /\ [][NextIncidents]_incidentVars

-----------------------------------------------------------------------------
(* A confirmation whose pages have all ended with enough readings to judge has
   been judged: the incident waits in "confirming" only for pages that still
   run, for pages that never joined, or because a job of the cohort was failed
   where nobody evaluates. *)
JudgedWhenComplete ==
    LET c == incident.confirmation
    IN (/\ incident.status = "confirming"
        /\ \A p \in Watched : job[p].cohort # c
        /\ mayEvaluate(c, nights, endedWithout))
       => outside

(* A verdict comes from readings of a cohort that started after the one that
   raised the incident, in whatever order the pages of overlapping cohorts end.
   Two ways lead to an older verdict.  The incident was raised before its own
   cohort had ended: the code compares how many pages ended with how many it
   expects, so one that was paused after its reading stands in for one that
   still runs.  Or a page came late to the cohort that judges: its slot passed,
   or its workflow outlived its job, after a later cohort had started - the
   code takes any other cohort for a follow-up. *)
VerdictFromALaterCohort ==
    incident.status \in {"verified", "recovered"} =>
        \/ judgedBy > incident.cohort
        \/ premature
        \/ judgedBy \in late
=============================================================================
