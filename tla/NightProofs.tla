----------------------------- MODULE NightProofs -----------------------------
(* Proofs about what a night brings in and makes of it: the incidents, the
   evidence of a run, the activity of a site, the audits of Ora, and the
   verification by an agent - for every number of pages, cohorts, attempts,
   syncs and scans. *)
EXTENDS Incidents, EvidenceCycles, WebflowActivity, OraAudits, AgentVerification,
        OrderLemmas, FunctionTheorems, SequenceTheorems

-----------------------------------------------------------------------------
(* Incidents *)
IncidentRecords ==
    [status : {"none", "suspected", "confirming", "verified", "recovered"}, cohort : Nat,
     confirmation : Nat, affected : SUBSET Watched, retry : {"none", "waiting", "ready"}]
NightRecords == [cohort : Nat, dropped : BOOLEAN, thrown : BOOLEAN]
CohortRecords == [kind : {"nightly", "manual", "confirmation"}, date : Nat]
JobRecords == [cohort : Nat, step : {"none", "run", "full"}]

IncidentTypeOK ==
    /\ monitored \subseteq Watched
    /\ cohorts \in Seq(CohortRecords) /\ Newest \in 0..MaxCohorts
    /\ job \in [Watched -> JobRecords]
    /\ orphans \subseteq [page : Watched, cohort : 1..Newest]
    /\ nights \in [Watched -> Seq(NightRecords)]
    /\ endedWithout \in [CohortNumbers -> SUBSET Watched]
    /\ incident \in IncidentRecords
    /\ outside \in BOOLEAN /\ judgedBy \in Nat /\ premature \in BOOLEAN

(* The pages that have read something in a cohort, or ended in it. *)
Over(c) == completedPageIds(c, nights, endedWithout)

UnreadInv == \A c \in CohortNumbers : c > Newest => Over(c) = {}

JobInv == \A p \in Watched : Active(p) => p \in monitored /\ job[p].cohort \in 1..Newest

(* A page that runs for an older cohort than one it has read or ended in came
   late to it. *)
LateInv ==
    \A p \in Watched, c \in CohortNumbers :
        Active(p) /\ job[p].cohort < c /\ p \in Over(c) => job[p].cohort \in late

IncidentInv ==
    /\ incident.status = "none" => incident = NoIncident
    /\ incident # NoIncident => incident.cohort \in 1..Newest
    /\ incident.confirmation # 0 =>
          incident.confirmation \in 1..Newest /\ incident.confirmation > incident.cohort
    /\ incident.status = "confirming" => incident.confirmation # 0

(* Of the cohorts before the one that raised the incident only those run that
   a page came late to. *)
OrderInv ==
    incident # NoIncident /\ ~premature =>
        \A p \in Watched : Active(p) => \/ job[p].cohort >= incident.cohort
                                        \/ job[p].cohort \in late

IncidentsInv ==
    /\ IncidentTypeOK /\ UnreadInv /\ JobInv /\ LateInv /\ IncidentInv /\ OrderInv
    /\ JudgedWhenComplete /\ VerdictFromALaterCohort

-----------------------------------------------------------------------------
LEMMA Numbers ==
  ASSUME IncidentTypeOK
  PROVE  /\ Newest \in Nat /\ MaxCohorts \in Nat /\ Newest <= MaxCohorts
         /\ 1..Newest \subseteq CohortNumbers /\ CohortNumbers \subseteq Nat
  BY IncidentAssumption DEF IncidentTypeOK, CohortNumbers

LEMMA NewestKept ==
  ASSUME cohorts' = cohorts
  PROVE  Newest' = Newest
BY DEF Newest

(* Whether a cohort may be evaluated depends on what its own pages read. *)
LEMMA SameEvaluation ==
  ASSUME NEW c, incident' = incident, nights' = nights, endedWithout'[c] = endedWithout[c],
         isConfirmation(c) \/ monitored' = monitored
  PROVE  mayEvaluate(c, nights, endedWithout)' <=> mayEvaluate(c, nights, endedWithout)
BY DEF mayEvaluate, completedPageIds, expectedPageIds, candidates, previousTrustedNight,
       isNightOf, isConfirmation

(* Throwing readings out leaves every night where it is. *)
LEMMA ThrowingKeeps ==
  ASSUME IncidentTypeOK, NEW c, NEW E, Anomaly(c, nights, E)
  PROVE  /\ nights' \in [Watched -> Seq(NightRecords)]
         /\ \A d : completedPageIds(d, nights', E) = completedPageIds(d, nights, E)
<1>. DEFINE drop(p, k) == p \in candidates(c, nights) /\ isNightOf(nights, p, c, k)
            f(p) == [k \in DOMAIN nights[p] |-> [nights[p][k] EXCEPT !.thrown = @ \/ drop(p, k)]]
<1>1. nights' = [p \in Watched |-> f(p)]
  BY DEF Anomaly
<1>2. ASSUME NEW p \in Watched
      PROVE  /\ f(p) \in Seq(NightRecords) /\ DOMAIN f(p) = DOMAIN nights[p]
             /\ \A k \in DOMAIN nights[p] : f(p)[k].cohort = nights[p][k].cohort
  <2>1. nights[p] \in Seq(NightRecords)
    BY DEF IncidentTypeOK
  <2>2. Len(nights[p]) \in Nat /\ DOMAIN nights[p] = 1..Len(nights[p])
    BY <2>1, LenProperties
  <2>3. ASSUME NEW k \in DOMAIN nights[p]
        PROVE  /\ [nights[p][k] EXCEPT !.thrown = @ \/ drop(p, k)] \in NightRecords
               /\ [nights[p][k] EXCEPT !.thrown = @ \/ drop(p, k)].cohort = nights[p][k].cohort
    <3>1. nights[p][k] \in NightRecords
      BY <2>1, <2>2, <2>3, ElementOfSeq
    <3>2. (nights[p][k].thrown \/ drop(p, k)) \in BOOLEAN
      OBVIOUS
    <3>. HIDE DEF drop
    <3>. QED BY <3>1, <3>2 DEF NightRecords
  <2>. HIDE DEF drop
  <2>4. f(p) \in [1..Len(nights[p]) -> NightRecords]
    BY <2>2, <2>3
  <2>. QED BY <2>2, <2>3, <2>4, SeqDef
<1>. HIDE DEF f
<1>3. nights' \in [Watched -> Seq(NightRecords)] /\ \A p \in Watched : nights'[p] = f(p)
  BY <1>1, <1>2
<1>4. \A d : completedPageIds(d, nights', E) = completedPageIds(d, nights, E)
  BY <1>2, <1>3 DEF completedPageIds
<1>. QED BY <1>3, <1>4

-----------------------------------------------------------------------------
(* Cohort c is evaluated: a page of it has ended, or its workflow outlived the
   job, and then it came late to any but the newest cohort. *)
LEMMA EvaluatedKeeps ==
  ASSUME IncidentsInv, NEW c \in 1..Newest, NEW E \in [CohortNumbers -> SUBSET Watched],
         evaluateCohortAnomaly(c, nights, E), endedWithout' = E,
         \A d \in CohortNumbers : d # c => E[d] = endedWithout[d],
         \A q \in Watched : q \in E[c] => q \in endedWithout[c] \/ ~Active(q)',
         job' \in [Watched -> JobRecords],
         \A q \in Watched : Active(q)' => Active(q) /\ job'[q] = job[q],
         \A q \in Watched : job'[q] = job[q] \/ job[q].cohort = c,
         late \subseteq late',
         \/ c = Newest \/ c \in late'
         \/ \E p \in Watched : Active(p) /\ job[p].cohort = c,
         orphans' \subseteq orphans,
         UNCHANGED <<monitored, cohorts, outside>>
  PROVE  IncidentsInv'
<1>1. /\ Newest' = Newest /\ Newest \in Nat /\ MaxCohorts \in Nat /\ c \in Nat /\ c >= 1
      /\ c <= Newest /\ 1..Newest \subseteq CohortNumbers /\ CohortNumbers \subseteq Nat
      /\ c \in CohortNumbers
  BY NewestKept, Numbers DEF IncidentsInv
<1>2. \/ mayEvaluate(c, nights, E) /\ Anomaly(c, nights, E)
      \/ Settles(c, nights)
      \/ /\ ~mayEvaluate(c, nights, E) /\ nights' = nights
         /\ UNCHANGED <<incident, judgedBy, premature>>
  BY DEF evaluateCohortAnomaly
<1>3. /\ nights' \in [Watched -> Seq(NightRecords)]
      /\ \A d : completedPageIds(d, nights', E) = completedPageIds(d, nights, E)
  <2>1. CASE nights' = nights
    BY <2>1 DEF IncidentsInv, IncidentTypeOK
  <2>2. CASE Anomaly(c, nights, E)
    BY <2>2, ThrowingKeeps DEF IncidentsInv
  <2>. QED BY <1>2, <2>1, <2>2 DEF Settles
<1>4. \A d \in CohortNumbers, q \in Watched :
          q \in Over(d)' => q \in Over(d) \/ (d = c /\ ~Active(q)')
  BY <1>3 DEF Over, completedPageIds
<1>5. UnreadInv' /\ JobInv' /\ LateInv'
  <2>1. UnreadInv'
    <3>1. SUFFICES ASSUME NEW d \in CohortNumbers, d > Newest PROVE Over(d)' = {}
      BY <1>1 DEF UnreadInv
    <3>2. d # c
      BY <1>1, <3>1
    <3>3. Over(d)' \subseteq Watched
      BY <1>3, <1>4 DEF Over, completedPageIds
    <3>4. Over(d) = {}
      BY <3>1 DEF IncidentsInv, UnreadInv
    <3>. QED BY <1>4, <3>2, <3>3, <3>4
  <2>2. JobInv'
    BY <1>1 DEF IncidentsInv, JobInv
  <2>3. LateInv'
    BY <1>4 DEF IncidentsInv, LateInv
  <2>. QED BY <2>1, <2>2, <2>3
<1>6. orphans' \subseteq [page : Watched, cohort : 1..Newest]
  BY DEF IncidentsInv, IncidentTypeOK
<1>7. ASSUME UNCHANGED <<incident, judgedBy, premature, nights>>,
             isConfirmation(c) => ~mayEvaluate(c, nights, E)
      PROVE  IncidentsInv'
  <2>1. IncidentTypeOK'
    BY <1>1, <1>3, <1>6, <1>7 DEF IncidentsInv, IncidentTypeOK
  <2>2. IncidentInv' /\ OrderInv' /\ VerdictFromALaterCohort'
    BY <1>1, <1>7 DEF IncidentsInv, IncidentInv, OrderInv, VerdictFromALaterCohort
  <2>3. JudgedWhenComplete'
    <3>. DEFINE d == incident.confirmation
    <3>1. SUFFICES ASSUME incident.status = "confirming", \A q \in Watched : job'[q].cohort # d,
                          mayEvaluate(d, nights, endedWithout)'
                   PROVE  outside
      BY <1>7 DEF JudgedWhenComplete
    <3>2. d \in CohortNumbers
      BY <1>1, <3>1 DEF IncidentsInv, IncidentInv
    <3>3. mayEvaluate(d, nights, E)
      BY <1>7, <3>1 DEF mayEvaluate, completedPageIds, expectedPageIds, candidates,
         previousTrustedNight, isNightOf, isConfirmation
    <3>4. d # c
      BY <1>7, <3>3 DEF isConfirmation
    <3>5. mayEvaluate(d, nights, endedWithout)
      BY <3>2, <3>3, <3>4 DEF mayEvaluate, completedPageIds
    <3>6. \A q \in Watched : job[q].cohort # d
      BY <3>1, <3>4
    <3>. QED BY <3>1, <3>5, <3>6 DEF IncidentsInv, JudgedWhenComplete
  <2>. QED BY <1>5, <2>1, <2>2, <2>3 DEF IncidentsInv
<1>8. CASE Anomaly(c, nights, E)
  <2>1. /\ incident'.status = "suspected" /\ incident'.confirmation = 0
        /\ incident'.cohort = IF incident = NoIncident THEN c ELSE incident.cohort
        /\ incident' # NoIncident
        /\ judgedBy' = 0
        /\ premature' = (premature \/ (incident = NoIncident
                             /\ ~(expectedPageIds(c) \subseteq completedPageIds(c, nights, E))))
    BY <1>8 DEF Anomaly, NoIncident
  <2>2. incident' \in IncidentRecords
    <3>1. candidates(c, nights) \subseteq Watched
      BY DEF candidates
    <3>2. (IF incident = NoIncident THEN c ELSE incident.cohort) \in Nat
      BY <1>1 DEF IncidentsInv, IncidentTypeOK, IncidentRecords
    <3>. QED BY <1>8, <3>1, <3>2 DEF Anomaly, IncidentRecords
  <2>3. IncidentTypeOK'
    BY <1>1, <1>3, <1>6, <2>1, <2>2 DEF IncidentsInv, IncidentTypeOK
  <2>4. IncidentInv' /\ VerdictFromALaterCohort' /\ JudgedWhenComplete'
    BY <1>1, <2>1 DEF IncidentsInv, IncidentInv, VerdictFromALaterCohort, JudgedWhenComplete
  <2>5. OrderInv'
    <3>1. SUFFICES ASSUME ~premature', NEW q \in Watched, Active(q)'
                   PROVE  job'[q].cohort >= incident'.cohort \/ job'[q].cohort \in late'
      BY DEF OrderInv
    <3>2. /\ Active(q) /\ job'[q] = job[q] /\ ~premature /\ job[q].cohort \in 1..Newest
          /\ q \in monitored
      BY <2>1, <3>1 DEF IncidentsInv, JobInv
    <3>3. CASE incident # NoIncident
      BY <2>1, <3>2, <3>3 DEF IncidentsInv, OrderInv
    <3>4. CASE incident = NoIncident
      <4>1. expectedPageIds(c) = monitored
        BY <1>1, <3>4 DEF expectedPageIds, isConfirmation, NoIncident
      <4>2. q \in completedPageIds(c, nights, E)
        BY <2>1, <3>1, <3>2, <3>4, <4>1
      <4>3. q \in Over(c)'
        BY <1>3, <4>2 DEF Over
      <4>4. ~(job'[q].cohort < c) \/ job'[q].cohort \in late'
        BY <1>1, <1>5, <3>1, <4>3 DEF LateInv
      <4>. QED BY <1>1, <2>1, <3>2, <3>4, <4>4
    <3>. QED BY <3>3, <3>4
  <2>. QED BY <1>5, <2>3, <2>4, <2>5 DEF IncidentsInv
<1>9. CASE Settles(c, nights) /\ (isConfirmation(c) \/ isMonitoringFollowUp(c))
  <2>1. premature' = premature /\ nights' = nights
    BY <1>9 DEF Settles
  <2>2. /\ incident' = [incident EXCEPT
              !.status = IF synchronizedDrop(c, nights) THEN "verified" ELSE "recovered",
              !.affected = affected(c, nights), !.retry = "none"]
        /\ judgedBy' = c
    BY <1>9 DEF Settles
  <2>3. affected(c, nights) \subseteq Watched
    BY DEF affected, candidates
  <2>4. /\ incident' \in IncidentRecords /\ incident'.status \in {"verified", "recovered"}
        /\ incident'.cohort = incident.cohort /\ incident'.confirmation = incident.confirmation
    BY <2>2, <2>3 DEF IncidentsInv, IncidentTypeOK, IncidentRecords
  <2>5. incident # NoIncident /\ incident.cohort \in Nat
    BY <1>1, <1>9 DEF isConfirmation, isMonitoringFollowUp, NoIncident, IncidentsInv,
                      IncidentTypeOK, IncidentRecords
  <2>6. IncidentTypeOK'
    BY <1>1, <1>3, <1>6, <2>1, <2>2, <2>4 DEF IncidentsInv, IncidentTypeOK
  <2>7. c > incident.cohort \/ premature \/ c \in late'
    <3>1. CASE isConfirmation(c)
      BY <1>1, <3>1 DEF isConfirmation, IncidentsInv, IncidentInv
    <3>2. CASE isMonitoringFollowUp(c)
      <4>1. c # incident.cohort
        BY <3>2 DEF isMonitoringFollowUp
      <4>2. c >= incident.cohort \/ premature \/ c \in late'
        BY <1>1, <2>5 DEF IncidentsInv, OrderInv, IncidentInv
      <4>. QED BY <1>1, <2>5, <4>1, <4>2
    <3>. QED BY <1>9, <3>1, <3>2
  <2>8. IncidentInv' /\ VerdictFromALaterCohort' /\ JudgedWhenComplete'
    BY <1>1, <2>1, <2>2, <2>4, <2>5, <2>7 DEF IncidentsInv, IncidentInv,
       VerdictFromALaterCohort, JudgedWhenComplete
  <2>9. OrderInv'
    BY <2>1, <2>4, <2>5 DEF IncidentsInv, OrderInv
  <2>. QED BY <1>5, <2>6, <2>8, <2>9 DEF IncidentsInv
<1>10. CASE Settles(c, nights) /\ ~(isConfirmation(c) \/ isMonitoringFollowUp(c))
  BY <1>7, <1>10 DEF Settles
<1>11. CASE ~mayEvaluate(c, nights, E) /\ nights' = nights /\ UNCHANGED <<incident, judgedBy, premature>>
  BY <1>7, <1>11
<1>. QED BY <1>2, <1>8, <1>9, <1>10, <1>11

(* A page ends, and its cohort is evaluated over what has been read and has
   ended by then. *)
LEMMA EndKeeps ==
  ASSUME IncidentsInv, NEW p \in Watched, Active(p), NEW E,
         E = endedWithout \/ E = [endedWithout EXCEPT ![job[p].cohort] = @ \cup {p}],
         endedWithout' = E, job' = [job EXCEPT ![p] = NoJob],
         evaluateCohortAnomaly(job[p].cohort, nights, E),
         UNCHANGED <<monitored, cohorts, orphans, outside, late>>
  PROVE  IncidentsInv'
<1>. DEFINE c == job[p].cohort
<1>1. c \in 1..Newest /\ c \in CohortNumbers
  BY Numbers DEF IncidentsInv, JobInv
<1>2. \A q \in Watched : Active(q)' => q # p /\ Active(q) /\ job'[q] = job[q]
  BY DEF Active, IncidentsInv, IncidentTypeOK
<1>3. \A q \in Watched : job'[q] = job[q] \/ job[q].cohort = c
  BY DEF IncidentsInv, IncidentTypeOK
<1>4. /\ E \in [CohortNumbers -> SUBSET Watched]
      /\ \A d \in CohortNumbers : d # c => E[d] = endedWithout[d]
      /\ \A q \in Watched : q \in E[c] => q \in endedWithout[c] \/ q = p
  <2>1. endedWithout \in [CohortNumbers -> SUBSET Watched]
    BY DEF IncidentsInv, IncidentTypeOK
  <2>2. CASE E = endedWithout
    BY <2>1, <2>2
  <2>3. CASE E = [endedWithout EXCEPT ![c] = @ \cup {p}]
    BY <1>1, <2>1, <2>3
  <2>. QED BY <2>2, <2>3
<1>5. job' \in [Watched -> JobRecords]
  BY DEF NoJob, IncidentsInv, IncidentTypeOK, JobRecords
<1>6. \A q \in Watched : q \in E[c] => q \in endedWithout[c] \/ ~Active(q)'
  BY <1>2, <1>4
<1>. QED BY <1>1, <1>2, <1>3, <1>4, <1>5, <1>6, EvaluatedKeeps

LEMMA commitWorkflowResultKeeps ==
  ASSUME IncidentsInv, NEW p \in Watched, commitWorkflowResult(p)
  PROVE  IncidentsInv'
<1>1. Active(p)
  BY DEF commitWorkflowResult, Active, NoJob
<1>. QED BY <1>1, EndKeeps DEF commitWorkflowResult

LEMMA endWithoutResultKeeps ==
  ASSUME IncidentsInv, NEW p \in Watched, endWithoutResult(p)
  PROVE  IncidentsInv'
BY EndKeeps DEF endWithoutResult

LEMMA commitOrphanKeeps ==
  ASSUME IncidentsInv, NEW o \in orphans, commitOrphan(o)
  PROVE  IncidentsInv'
<1>. DEFINE c == o.cohort
<1>1. c \in 1..Newest /\ Newest \in Nat
  BY Numbers DEF IncidentsInv, IncidentTypeOK
<1>2. /\ evaluateCohortAnomaly(c, nights, endedWithout) /\ orphans' \subseteq orphans
      /\ late' = IF c < Newest THEN late \cup {c} ELSE late
      /\ UNCHANGED <<monitored, cohorts, job, endedWithout, outside>>
  BY DEF commitOrphan
<1>3. late \subseteq late' /\ (c = Newest \/ c \in late')
  BY <1>1, <1>2
<1>4. \A q \in Watched : Active(q)' <=> Active(q)
  BY <1>2 DEF Active
<1>5. /\ endedWithout \in [CohortNumbers -> SUBSET Watched]
      /\ job' \in [Watched -> JobRecords]
  BY <1>2 DEF IncidentsInv, IncidentTypeOK
<1>. HIDE DEF c
<1>. QED BY <1>1, <1>2, <1>3, <1>4, <1>5, EvaluatedKeeps

-----------------------------------------------------------------------------
(* Steps that evaluate nothing. *)
LEMMA failOutsideKeeps ==
  ASSUME IncidentsInv, NEW p \in Watched, failOutside(p)
  PROVE  IncidentsInv'
<1>. DEFINE c == job[p].cohort
<1>1. /\ Active(p) /\ job' = [job EXCEPT ![p] = NoJob]
      /\ endedWithout' = [endedWithout EXCEPT ![c] = @ \cup {p}]
      /\ outside' = (outside \/ incident.confirmation = c)
      /\ orphans' = IF job[p].step = "full"
                    THEN orphans \cup {[page |-> p, cohort |-> c]} ELSE orphans
      /\ UNCHANGED <<monitored, cohorts, nights, incident, judgedBy, premature, late>>
  BY DEF failOutside, isConfirmation
<1>2. /\ c \in 1..Newest /\ p \in monitored /\ c \in CohortNumbers /\ Newest' = Newest
      /\ 1..Newest \subseteq CohortNumbers /\ CohortNumbers \subseteq Nat /\ Newest \in Nat
  BY <1>1, NewestKept, Numbers DEF IncidentsInv, JobInv
<1>3. \A q \in Watched : Active(q)' => q # p /\ Active(q) /\ job'[q] = job[q]
  BY <1>1 DEF Active, IncidentsInv, IncidentTypeOK
<1>4. \A d \in CohortNumbers : d # c => endedWithout'[d] = endedWithout[d]
  BY <1>1 DEF IncidentsInv, IncidentTypeOK
<1>5. \A d \in CohortNumbers, q \in Watched :
          q \in Over(d)' => q \in Over(d) \/ (q = p /\ d = c)
  BY <1>1 DEF IncidentsInv, IncidentTypeOK, Over, completedPageIds
<1>6. IncidentTypeOK'
  <2>1. job' \in [Watched -> JobRecords]
    BY <1>1 DEF NoJob, IncidentsInv, IncidentTypeOK, JobRecords
  <2>2. endedWithout' \in [CohortNumbers -> SUBSET Watched]
    BY <1>1 DEF IncidentsInv, IncidentTypeOK
  <2>3. outside' \in BOOLEAN
    BY <1>1 DEF IncidentsInv, IncidentTypeOK
  <2>4. orphans' \subseteq [page : Watched, cohort : 1..Newest]
    BY <1>1, <1>2 DEF IncidentsInv, IncidentTypeOK
  <2>. QED BY <1>1, <1>2, <2>1, <2>2, <2>3, <2>4 DEF IncidentsInv, IncidentTypeOK
<1>7. UnreadInv'
  <2>1. SUFFICES ASSUME NEW d \in CohortNumbers, d > Newest PROVE Over(d)' = {}
    BY <1>2 DEF UnreadInv
  <2>2. Over(d)' \subseteq Watched
    BY <1>6 DEF Over, completedPageIds, IncidentTypeOK
  <2>. QED BY <1>2, <1>5, <2>1, <2>2 DEF IncidentsInv, UnreadInv
<1>8. JobInv' /\ LateInv'
  BY <1>1, <1>2, <1>3, <1>5 DEF IncidentsInv, JobInv, LateInv
<1>9. IncidentInv' /\ OrderInv' /\ VerdictFromALaterCohort'
  BY <1>1, <1>2, <1>3 DEF IncidentsInv, IncidentInv, OrderInv, VerdictFromALaterCohort
<1>10. JudgedWhenComplete'
  <2>. DEFINE d == incident.confirmation
  <2>1. SUFFICES ASSUME incident.status = "confirming", \A q \in Watched : job'[q].cohort # d,
                        mayEvaluate(d, nights, endedWithout)', d # c
                 PROVE  outside
    BY <1>1 DEF JudgedWhenComplete
  <2>2. d \in CohortNumbers
    BY <1>2, <2>1 DEF IncidentsInv, IncidentInv
  <2>3. mayEvaluate(d, nights, endedWithout)
    BY <1>1, <1>4, <2>1, <2>2, SameEvaluation
  <2>4. \A q \in Watched : job[q].cohort # d
    BY <1>1, <2>1 DEF IncidentsInv, IncidentTypeOK
  <2>. QED BY <2>1, <2>3, <2>4 DEF IncidentsInv, JudgedWhenComplete
<1>. QED BY <1>6, <1>7, <1>8, <1>9, <1>10 DEF IncidentsInv

(* A night at the end of a history changes what its own cohort has read, and
   nothing of the others. *)
LEMMA NightAdded ==
  ASSUME IncidentTypeOK, NEW p \in Watched, NEW n \in NightRecords,
         nights' = [nights EXCEPT ![p] = Append(@, n)]
  PROVE  /\ nights' \in [Watched -> Seq(NightRecords)]
         /\ \A d, E : d # n.cohort =>
               /\ completedPageIds(d, nights', E) = completedPageIds(d, nights, E)
               /\ candidates(d, nights') = candidates(d, nights)
         /\ \A d, E, q : q \in completedPageIds(d, nights', E) =>
               q \in completedPageIds(d, nights, E) \/ (q = p /\ d = n.cohort)
<1>. DEFINE s == nights[p]
            t == Append(s, n)
<1>1. s \in Seq(NightRecords) /\ Len(s) \in Nat /\ DOMAIN s = 1..Len(s)
  BY LenProperties DEF IncidentTypeOK
<1>2. /\ t \in Seq(NightRecords) /\ DOMAIN t = 1..(Len(s) + 1)
      /\ \A k \in 1..Len(s) : t[k] = s[k]
      /\ t[Len(s) + 1] = n
  BY <1>1, AppendProperties, LenProperties
<1>3. /\ nights' \in [Watched -> Seq(NightRecords)] /\ nights'[p] = t
      /\ \A q \in Watched : q # p => nights'[q] = nights[q]
  BY <1>2 DEF IncidentTypeOK
<1>. HIDE DEF t
<1>4. \A d, E, q : q \in completedPageIds(d, nights', E) =>
               q \in completedPageIds(d, nights, E) \/ (q = p /\ d = n.cohort)
  BY <1>1, <1>2, <1>3 DEF completedPageIds
<1>5. \A d, E : completedPageIds(d, nights, E) \subseteq completedPageIds(d, nights', E)
  BY <1>1, <1>2, <1>3 DEF completedPageIds
<1>6. ASSUME NEW d, d # n.cohort
      PROVE  candidates(d, nights') = candidates(d, nights)
  <2>1. ASSUME NEW k \in 1..Len(s)
        PROVE  /\ isNightOf(nights', p, d, k) <=> isNightOf(nights, p, d, k)
               /\ previousTrustedNight(nights', p, k) <=> previousTrustedNight(nights, p, k)
    <3>1. \A b \in 1..(k - 1) : b \in 1..Len(s) /\ nights'[p][b] = nights[p][b]
      BY <1>1, <1>2, <1>3
    <3>2. nights'[p][k] = nights[p][k]
      BY <1>2, <1>3
    <3>3. isNightOf(nights', p, d, k) <=> isNightOf(nights, p, d, k)
      BY <3>1, <3>2 DEF isNightOf
    <3>4. previousTrustedNight(nights', p, k) <=> previousTrustedNight(nights, p, k)
      BY <3>1 DEF previousTrustedNight
    <3>. QED BY <3>3, <3>4
  <2>2. ~isNightOf(nights', p, d, Len(s) + 1)
    BY <1>2, <1>3, <1>6 DEF isNightOf
  <2>3. p \in candidates(d, nights') <=> p \in candidates(d, nights)
    <3>1. DOMAIN nights[p] = 1..Len(s) /\ DOMAIN nights'[p] = 1..(Len(s) + 1)
      BY <1>1, <1>2, <1>3
    <3>2. \A k \in DOMAIN nights'[p] : k \in DOMAIN nights[p] \/ k = Len(s) + 1
      BY <1>1, <3>1
    <3>3. DOMAIN nights[p] \subseteq DOMAIN nights'[p]
      BY <1>1, <3>1
    <3>. QED BY <2>1, <2>2, <3>1, <3>2, <3>3, ZenonT(30) DEF candidates
  <2>4. \A q \in Watched : q # p => (q \in candidates(d, nights') <=> q \in candidates(d, nights))
    BY <1>3 DEF candidates, isNightOf, previousTrustedNight
  <2>5. candidates(d, nights') \subseteq Watched /\ candidates(d, nights) \subseteq Watched
    BY DEF candidates
  <2>6. \A q : q \in candidates(d, nights') <=> q \in candidates(d, nights)
    BY <2>3, <2>4, <2>5
  <2>. QED BY <2>6
<1>7. ASSUME NEW d, NEW E, d # n.cohort
      PROVE  completedPageIds(d, nights', E) = completedPageIds(d, nights, E)
  <2>1. \A q : q \in completedPageIds(d, nights', E) <=> q \in completedPageIds(d, nights, E)
    BY <1>4, <1>5, <1>7
  <2>. QED BY <2>1
<1>. QED BY <1>3, <1>4, <1>6, <1>7, ZenonT(30)

(* The second device of a page is read: its job is of the cohort it reads for. *)
LEMMA commitWorkflowStrategyKeeps ==
  ASSUME IncidentsInv, NEW p \in Watched, NEW dropped \in BOOLEAN,
         commitWorkflowStrategy(p, dropped)
  PROVE  IncidentsInv'
<1>. DEFINE c == job[p].cohort
            n == [cohort |-> c, dropped |-> dropped, thrown |-> FALSE]
<1>1. /\ job[p].step = "run"
      /\ nights' = [nights EXCEPT ![p] = Append(@, n)]
      /\ job' = [job EXCEPT ![p].step = "full"]
      /\ UNCHANGED <<monitored, cohorts, orphans, endedWithout, incident, historyVars>>
  BY DEF commitWorkflowStrategy
<1>2. UNCHANGED <<outside, judgedBy, premature, late>>
  BY <1>1 DEF historyVars
<1>3. Active(p)
  BY <1>1 DEF Active, NoJob
<1>4. /\ c \in 1..Newest /\ p \in monitored /\ c \in CohortNumbers /\ Newest' = Newest
      /\ 1..Newest \subseteq CohortNumbers /\ CohortNumbers \subseteq Nat /\ Newest \in Nat
  BY <1>1, <1>3, NewestKept, Numbers DEF IncidentsInv, JobInv
<1>5. \A q \in Watched : (Active(q)' <=> Active(q)) /\ job'[q].cohort = job[q].cohort
  BY <1>1, <1>3 DEF Active, NoJob, IncidentsInv, IncidentTypeOK, JobRecords
<1>6. n \in NightRecords /\ n.cohort = c
  BY <1>4 DEF NightRecords
<1>. HIDE DEF n
<1>7. /\ nights' \in [Watched -> Seq(NightRecords)]
      /\ \A d, E : d # c =>
            /\ completedPageIds(d, nights', E) = completedPageIds(d, nights, E)
            /\ candidates(d, nights') = candidates(d, nights)
      /\ \A d, E, q : q \in completedPageIds(d, nights', E) =>
            q \in completedPageIds(d, nights, E) \/ (q = p /\ d = c)
  <2>1. IncidentTypeOK
    BY DEF IncidentsInv
  <2>2. nights' = [nights EXCEPT ![p] = Append(@, n)]
    BY <1>1 DEF n
  <2>3. /\ nights' \in [Watched -> Seq(NightRecords)]
        /\ \A d, E : d # n.cohort =>
              /\ completedPageIds(d, nights', E) = completedPageIds(d, nights, E)
              /\ candidates(d, nights') = candidates(d, nights)
        /\ \A d, E, q : q \in completedPageIds(d, nights', E) =>
              q \in completedPageIds(d, nights, E) \/ (q = p /\ d = n.cohort)
    BY <1>6, <2>1, <2>2, NightAdded
  <2>. HIDE DEF c
  <2>. QED BY <1>6, <2>3
<1>8. IncidentTypeOK'
  <2>1. [job[p] EXCEPT !.step = "full"] \in JobRecords
    BY DEF IncidentsInv, IncidentTypeOK, JobRecords
  <2>2. job' \in [Watched -> JobRecords]
    BY <1>1, <2>1 DEF IncidentsInv, IncidentTypeOK
  <2>. QED BY <1>1, <1>2, <1>4, <1>7, <2>2 DEF IncidentsInv, IncidentTypeOK
<1>9. \A d \in CohortNumbers : \A q : q \in Over(d)' => q \in Over(d) \/ (q = p /\ d = c)
  BY <1>1, <1>7 DEF Over
<1>10. UnreadInv'
  BY <1>4, <1>9 DEF IncidentsInv, UnreadInv
<1>11. JobInv' /\ LateInv'
  BY <1>1, <1>2, <1>4, <1>5, <1>9 DEF IncidentsInv, JobInv, LateInv
<1>12. IncidentInv' /\ OrderInv' /\ VerdictFromALaterCohort'
  BY <1>1, <1>2, <1>4, <1>5 DEF IncidentsInv, IncidentInv, OrderInv, VerdictFromALaterCohort
<1>13. JudgedWhenComplete'
  <2>. DEFINE d == incident.confirmation
  <2>1. SUFFICES ASSUME incident.status = "confirming", \A q \in Watched : job[q].cohort # d,
                        mayEvaluate(d, nights, endedWithout)'
                 PROVE  outside
    BY <1>1, <1>2, <1>5 DEF JudgedWhenComplete
  <2>2. d # c
    BY <2>1
  <2>3. mayEvaluate(d, nights, endedWithout)
    BY <1>1, <1>7, <2>1, <2>2 DEF mayEvaluate, expectedPageIds, isConfirmation
  <2>. QED BY <2>1, <2>3 DEF IncidentsInv, JudgedWhenComplete
<1>. QED BY <1>8, <1>10, <1>11, <1>12, <1>13 DEF IncidentsInv

(* Pages get a job, in a cohort that runs or in the next one: nothing that ran
   is interrupted, and who joins an older one than the newest comes late. *)
LEMMA ReserveKeeps ==
  ASSUME IncidentsInv, NEW S \in SUBSET Watched, NEW date \in Nat,
         NEW kind \in {"nightly", "manual", "confirmation"},
         NEW c \in 1..(Newest + 1), Reserve(c, kind, date, S),
         UNCHANGED <<monitored, orphans, nights, endedWithout>>
  PROVE  /\ UnreadInv' /\ JobInv' /\ LateInv' /\ late \subseteq late'
         /\ Newest' \in {Newest, Newest + 1} /\ Newest' >= c /\ Newest' <= MaxCohorts
         /\ c < Newest => c \in late'
         /\ cohorts' \in Seq(CohortRecords) /\ job' \in [Watched -> JobRecords]
         /\ orphans' \subseteq [page : Watched, cohort : 1..Newest']
         /\ \A p \in Watched : Active(p)' => job'[p].cohort = c \/ (Active(p) /\ job'[p] = job[p])
         /\ \A p \in Watched : Active(p) => job'[p] = job[p]
         /\ \E p \in Watched : job'[p].cohort = c
<1>1. /\ S # {} /\ \A p \in S : p \in monitored /\ ~Active(p)
      /\ job' = [p \in Watched |-> IF p \in S THEN [cohort |-> c, step |-> "run"] ELSE job[p]]
      /\ late' = IF c < Newest THEN late \cup {c} ELSE late
      /\ IF c > Newest
         THEN Newest < MaxCohorts /\ cohorts' = Append(cohorts, [kind |-> kind, date |-> date])
         ELSE cohorts' = cohorts
  BY DEF Reserve
<1>2. /\ Newest \in Nat /\ MaxCohorts \in Nat /\ Newest <= MaxCohorts /\ CohortNumbers \subseteq Nat
      /\ c \in Nat /\ c >= 1 /\ c <= Newest + 1 /\ cohorts \in Seq(CohortRecords)
  BY Numbers DEF IncidentsInv, IncidentTypeOK
<1>3. /\ cohorts' \in Seq(CohortRecords) /\ Newest' >= c /\ Newest' <= MaxCohorts
      /\ Newest' = IF c > Newest THEN Newest + 1 ELSE Newest
  <2>1. CASE c > Newest
    <3>1. [kind |-> kind, date |-> date] \in CohortRecords
      BY DEF CohortRecords
    <3>2. /\ Append(cohorts, [kind |-> kind, date |-> date]) \in Seq(CohortRecords)
          /\ Len(Append(cohorts, [kind |-> kind, date |-> date])) = Len(cohorts) + 1
      BY <1>2, <3>1, AppendProperties
    <3>. QED BY <1>1, <1>2, <2>1, <3>2 DEF Newest
  <2>2. CASE ~(c > Newest)
    BY <1>1, <1>2, <2>2 DEF Newest
  <2>. QED BY <2>1, <2>2
<1>4. \A p \in Watched : job'[p] = IF p \in S THEN [cohort |-> c, step |-> "run"] ELSE job[p]
  BY <1>1
<1>5. job' \in [Watched -> JobRecords]
  BY <1>1, <1>2 DEF IncidentsInv, IncidentTypeOK, JobRecords
<1>6. \A p \in Watched : Active(p)' => (p \in S /\ job'[p].cohort = c) \/ (Active(p) /\ job'[p] = job[p])
  BY <1>4 DEF Active
<1>7. \A p \in Watched : Active(p) => job'[p] = job[p]
  BY <1>1, <1>4
<1>8. \A d : Over(d)' = Over(d)
  BY DEF Over
<1>9. JobInv'
  BY <1>1, <1>2, <1>3, <1>6 DEF IncidentsInv, JobInv
<1>10. UnreadInv'
  BY <1>2, <1>3, <1>8 DEF IncidentsInv, UnreadInv
<1>11. LateInv'
  <2>1. SUFFICES ASSUME NEW p \in Watched, NEW d \in CohortNumbers, Active(p)',
                        job'[p].cohort < d, p \in Over(d)
                 PROVE  job'[p].cohort \in late'
    BY <1>8 DEF LateInv
  <2>2. CASE job'[p].cohort = c
    <3>1. ~(d > Newest)
      BY <2>1 DEF IncidentsInv, UnreadInv
    <3>. QED BY <1>1, <1>2, <2>1, <2>2, <3>1
  <2>3. CASE Active(p) /\ job'[p] = job[p]
    BY <1>1, <2>1, <2>3 DEF IncidentsInv, LateInv
  <2>. QED BY <1>6, <2>1, <2>2, <2>3
<1>12. orphans' \subseteq [page : Watched, cohort : 1..Newest']
  BY <1>2, <1>3 DEF IncidentsInv, IncidentTypeOK
<1>13. \E p \in Watched : job'[p].cohort = c
  BY <1>1, <1>4
<1>14. late \subseteq late' /\ (c < Newest => c \in late')
  BY <1>1
<1>15. Newest' \in {Newest, Newest + 1}
  BY <1>3
<1>. QED BY <1>3, <1>5, <1>6, <1>7, <1>9, <1>10, <1>11, <1>12, <1>13, <1>14, <1>15

(* Any dispatch but that of a confirmation. *)
LEMMA DispatchKeeps ==
  ASSUME IncidentsInv, NEW S \in SUBSET Watched, NEW date \in Nat,
         NEW kind \in {"nightly", "manual", "confirmation"},
         NEW c \in 1..(Newest + 1), Reserve(c, kind, date, S),
         UNCHANGED <<monitored, orphans, evidenceOfPages, incident, outside, judgedBy, premature>>
  PROVE  IncidentsInv'
<1>1. UNCHANGED <<monitored, orphans, nights, endedWithout, incident, outside, judgedBy, premature>>
  BY DEF evidenceOfPages
<1>2. /\ UnreadInv' /\ JobInv' /\ LateInv' /\ late \subseteq late'
      /\ Newest' \in {Newest, Newest + 1} /\ Newest' >= c /\ Newest' <= MaxCohorts
      /\ c < Newest => c \in late'
      /\ cohorts' \in Seq(CohortRecords) /\ job' \in [Watched -> JobRecords]
      /\ orphans' \subseteq [page : Watched, cohort : 1..Newest']
      /\ \A p \in Watched : Active(p)' => job'[p].cohort = c \/ (Active(p) /\ job'[p] = job[p])
      /\ \A p \in Watched : Active(p) => job'[p] = job[p]
  BY <1>1, ReserveKeeps, ZenonT(30)
<1>3. Newest \in Nat /\ MaxCohorts \in Nat /\ c \in Nat
  BY Numbers DEF IncidentsInv
<1>4. IncidentTypeOK'
  BY <1>1, <1>2, <1>3 DEF IncidentsInv, IncidentTypeOK
<1>5. IncidentInv' /\ VerdictFromALaterCohort'
  BY <1>1, <1>2, <1>3 DEF IncidentsInv, IncidentInv, VerdictFromALaterCohort
<1>6. OrderInv'
  <2>1. SUFFICES ASSUME incident # NoIncident, ~premature, NEW p \in Watched, Active(p)'
                 PROVE  job'[p].cohort >= incident.cohort \/ job'[p].cohort \in late'
    BY <1>1 DEF OrderInv
  <2>2. incident.cohort \in 1..Newest
    BY <2>1 DEF IncidentsInv, IncidentInv
  <2>3. CASE job'[p].cohort = c
    BY <1>2, <1>3, <2>2, <2>3
  <2>4. CASE Active(p) /\ job'[p] = job[p]
    BY <1>2, <2>1, <2>4 DEF IncidentsInv, OrderInv
  <2>. QED BY <1>2, <2>1, <2>3, <2>4
<1>7. JudgedWhenComplete'
  <2>. DEFINE d == incident.confirmation
  <2>1. SUFFICES ASSUME incident.status = "confirming", \A q \in Watched : job'[q].cohort # d,
                        mayEvaluate(d, nights, endedWithout)'
                 PROVE  outside
    BY <1>1 DEF JudgedWhenComplete
  <2>2. mayEvaluate(d, nights, endedWithout)
    BY <1>1, <2>1, SameEvaluation
  <2>3. d # 0
    BY <2>1 DEF IncidentsInv, IncidentInv
  <2>4. \A q \in Watched : job[q].cohort # d
    BY <1>2, <2>1, <2>3 DEF Active, NoJob
  <2>. QED BY <2>1, <2>2, <2>4 DEF IncidentsInv, JudgedWhenComplete
<1>. QED BY <1>2, <1>4, <1>5, <1>6, <1>7 DEF IncidentsInv

LEMMA dispatchFdeNightlyKeeps ==
  ASSUME IncidentsInv, NEW p \in Watched, NEW date \in CohortDates, dispatchFdeNightly(p, date)
  PROVE  IncidentsInv'
<1>1. date \in Nat
  BY IncidentAssumption DEF CohortDates
<1>2. /\ \E c \in 1..(Newest + 1) : Reserve(c, "nightly", date, {p})
      /\ UNCHANGED <<monitored, orphans, evidenceOfPages, incident, outside, judgedBy, premature>>
  BY DEF dispatchFdeNightly
<1>3. {p} \in SUBSET Watched
  OBVIOUS
<1>. QED BY <1>1, <1>2, <1>3, DispatchKeeps

LEMMA dispatchManualKeeps ==
  ASSUME IncidentsInv, dispatchManual
  PROVE  IncidentsInv'
<1>. DEFINE S == {p \in monitored : ~Active(p)}
<1>1. /\ Reserve(Newest + 1, "manual", 0, S)
      /\ UNCHANGED <<monitored, orphans, evidenceOfPages, incident, outside, judgedBy, premature>>
  BY DEF dispatchManual
<1>2. S \in SUBSET Watched
  BY DEF IncidentsInv, IncidentTypeOK
<1>3. Newest + 1 \in 1..(Newest + 1)
  BY Numbers DEF IncidentsInv
<1>. HIDE DEF S
<1>. QED BY <1>1, <1>2, <1>3, DispatchKeeps

(* The confirmation is the newest cohort, and some page runs for it. *)
LEMMA dispatchConfirmationKeeps ==
  ASSUME IncidentsInv, dispatchConfirmation
  PROVE  IncidentsInv'
<1>. DEFINE S == {p \in incident.affected \cap monitored : ~Active(p)}
            c == Newest + 1
<1>1. /\ incident.status = "suspected"
      /\ Reserve(c, "confirmation", 0, S)
      /\ incident' = [incident EXCEPT !.status = "confirming", !.confirmation = c, !.retry = "none"]
      /\ outside' = FALSE
      /\ UNCHANGED <<monitored, orphans, nights, endedWithout, judgedBy, premature>>
  BY DEF dispatchConfirmation, evidenceOfPages
<1>2. Newest \in Nat /\ MaxCohorts \in Nat /\ c \in Nat /\ c \in 1..(Newest + 1) /\ c = Newest + 1
      /\ S \in SUBSET Watched
  BY Numbers DEF IncidentsInv, IncidentTypeOK
<1>. HIDE DEF S, c
<1>3. /\ UnreadInv' /\ JobInv' /\ LateInv' /\ late \subseteq late'
      /\ Newest' \in {Newest, Newest + 1} /\ Newest' >= c /\ Newest' <= MaxCohorts
      /\ cohorts' \in Seq(CohortRecords) /\ job' \in [Watched -> JobRecords]
      /\ orphans' \subseteq [page : Watched, cohort : 1..Newest']
      /\ \A p \in Watched : Active(p)' => job'[p].cohort = c \/ (Active(p) /\ job'[p] = job[p])
      /\ \E p \in Watched : job'[p].cohort = c
  <2>1. 0 \in Nat /\ "confirmation" \in {"nightly", "manual", "confirmation"}
    OBVIOUS
  <2>2. Reserve(c, "confirmation", 0, S)
    BY <1>1
  <2>3. UNCHANGED <<monitored, orphans, nights, endedWithout>>
    BY <1>1
  <2>4. S \in SUBSET Watched /\ c \in 1..(Newest + 1)
    BY <1>2
  <2>. QED BY <2>1, <2>2, <2>3, <2>4, ReserveKeeps, ZenonT(30)
<1>4. Newest' = c
  BY <1>2, <1>3
<1>5. /\ incident' \in IncidentRecords /\ incident'.status = "confirming"
      /\ incident'.confirmation = c /\ incident'.cohort = incident.cohort
      /\ incident # NoIncident /\ incident' # NoIncident
  <2>1. incident \in IncidentRecords
    BY DEF IncidentsInv, IncidentTypeOK
  <2>2. incident # NoIncident
    BY <1>1 DEF NoIncident
  <2>3. /\ incident' \in IncidentRecords /\ incident'.status = "confirming"
        /\ incident'.confirmation = c /\ incident'.cohort = incident.cohort
    BY <1>1, <1>2, <2>1 DEF IncidentRecords
  <2>. QED BY <2>2, <2>3 DEF NoIncident
<1>6. IncidentTypeOK'
  <2>1. Newest' \in 0..MaxCohorts
    BY <1>2, <1>3, <1>4
  <2>2. outside' \in BOOLEAN
    BY <1>1
  <2>. QED BY <1>1, <1>3, <1>5, <2>1, <2>2 DEF IncidentsInv, IncidentTypeOK
<1>7. incident.cohort \in 1..Newest
  BY <1>5 DEF IncidentsInv, IncidentInv
<1>8. IncidentInv'
  BY <1>2, <1>4, <1>5, <1>7 DEF IncidentInv
<1>9. OrderInv'
  BY <1>1, <1>2, <1>3, <1>5, <1>7 DEF IncidentsInv, OrderInv
<1>10. VerdictFromALaterCohort'
  BY <1>5 DEF VerdictFromALaterCohort
<1>11. JudgedWhenComplete'
  BY <1>3, <1>5 DEF JudgedWhenComplete
<1>. QED BY <1>3, <1>6, <1>8, <1>9, <1>10, <1>11 DEF IncidentsInv

LEMMA SetMonitoredKeeps ==
  ASSUME IncidentsInv, NEW p \in Watched, SetMonitored(p)
  PROVE  IncidentsInv'
<1>1. /\ ~Active(p)
      /\ monitored' = IF p \in monitored THEN monitored \ {p} ELSE monitored \cup {p}
      /\ UNCHANGED <<cohorts, job, orphans, nights, endedWithout, incident, outside,
                     judgedBy, premature, late>>
  BY DEF SetMonitored, evidenceOfPages, historyVars
<1>2. Newest' = Newest
  BY <1>1, NewestKept
<1>3. \A q \in Watched : Active(q)' <=> Active(q)
  BY <1>1 DEF Active
<1>4. \A d : Over(d)' = Over(d)
  BY <1>1 DEF Over
<1>5. IncidentTypeOK' /\ UnreadInv' /\ JobInv' /\ LateInv'
  BY <1>1, <1>2, <1>3, <1>4 DEF IncidentsInv, IncidentTypeOK, UnreadInv, JobInv, LateInv
<1>6. IncidentInv' /\ OrderInv' /\ VerdictFromALaterCohort'
  BY <1>1, <1>2, <1>3 DEF IncidentsInv, IncidentInv, OrderInv, VerdictFromALaterCohort
<1>7. JudgedWhenComplete'
  BY <1>1, SameEvaluation DEF IncidentsInv, JudgedWhenComplete, isConfirmation
<1>. QED BY <1>5, <1>6, <1>7 DEF IncidentsInv

LEMMA RetryIsDueKeeps ==
  ASSUME IncidentsInv, RetryIsDue
  PROVE  IncidentsInv'
<1>1. /\ incident.retry = "waiting" /\ incident' = [incident EXCEPT !.retry = "ready"]
      /\ UNCHANGED <<monitored, cohorts, job, orphans, nights, endedWithout, outside,
                     judgedBy, premature, late>>
  BY DEF RetryIsDue, evidenceOfPages, historyVars
<1>2. Newest' = Newest
  BY <1>1, NewestKept
<1>3. \A q \in Watched : Active(q)' <=> Active(q)
  BY <1>1 DEF Active
<1>4. /\ incident' \in IncidentRecords /\ incident'.status = incident.status
      /\ incident'.cohort = incident.cohort /\ incident'.confirmation = incident.confirmation
      /\ incident'.affected = incident.affected /\ incident # NoIncident
  <2>1. incident \in IncidentRecords
    BY DEF IncidentsInv, IncidentTypeOK
  <2>2. incident # NoIncident
    BY <1>1 DEF NoIncident
  <2>3. incident' \in IncidentRecords
    BY <1>1, <2>1 DEF IncidentRecords
  <2>4. /\ incident'.status = incident.status /\ incident'.cohort = incident.cohort
        /\ incident'.confirmation = incident.confirmation
        /\ incident'.affected = incident.affected
    BY <1>1, <2>1 DEF IncidentRecords
  <2>. QED BY <2>2, <2>3, <2>4
<1>5. \A d : Over(d)' = Over(d)
  BY <1>1 DEF Over
<1>6. IncidentTypeOK'
  BY <1>1, <1>2, <1>4 DEF IncidentsInv, IncidentTypeOK
<1>7. UnreadInv' /\ JobInv' /\ LateInv'
  BY <1>1, <1>2, <1>3, <1>5 DEF IncidentsInv, UnreadInv, JobInv, LateInv
<1>8. IncidentInv' /\ OrderInv' /\ VerdictFromALaterCohort'
  BY <1>1, <1>2, <1>3, <1>4 DEF IncidentsInv, IncidentInv, OrderInv, VerdictFromALaterCohort
<1>9. JudgedWhenComplete'
  BY <1>1, <1>4 DEF IncidentsInv, JudgedWhenComplete, mayEvaluate, expectedPageIds, isConfirmation,
        completedPageIds, candidates, previousTrustedNight, isNightOf
<1>. QED BY <1>6, <1>7, <1>8, <1>9 DEF IncidentsInv

LEMMA IncidentsInductive ==
  /\ InitIncidents => IncidentsInv
  /\ IncidentsInv /\ [NextIncidents]_incidentVars => IncidentsInv'
<1>1. ASSUME InitIncidents PROVE IncidentsInv
  <2>1. \A p \in Watched : ~Active(p)
    BY <1>1 DEF InitIncidents, Active
  <2>2. cohorts = <<>> /\ Newest = 0 /\ MaxCohorts \in Nat
    BY <1>1, IncidentAssumption DEF InitIncidents, Newest
  <2>3. PICK trusted \in SUBSET Watched :
            nights = [p \in Watched |->
                         IF p \in trusted
                         THEN <<[cohort |-> 0, dropped |-> FALSE, thrown |-> FALSE]>>
                         ELSE <<>>]
    BY <1>1 DEF InitIncidents
  <2>4. IncidentTypeOK
    <3>1. incident \in IncidentRecords
      BY <1>1 DEF InitIncidents, NoIncident, IncidentRecords
    <3>2. nights \in [Watched -> Seq(NightRecords)]
      <4>1. [cohort |-> 0, dropped |-> FALSE, thrown |-> FALSE] \in NightRecords
        BY DEF NightRecords
      <4>. QED BY <2>3, <4>1
    <3>3. job \in [Watched -> JobRecords]
      BY <1>1 DEF InitIncidents, NoJob, JobRecords
    <3>4. /\ monitored \subseteq Watched /\ orphans = {}
          /\ endedWithout \in [CohortNumbers -> SUBSET Watched]
          /\ outside \in BOOLEAN /\ judgedBy \in Nat /\ premature \in BOOLEAN
      BY <1>1 DEF InitIncidents
    <3>5. cohorts \in Seq(CohortRecords) /\ Newest \in 0..MaxCohorts
      BY <2>2
    <3>. QED BY <3>1, <3>2, <3>3, <3>4, <3>5 DEF IncidentTypeOK
  <2>5. UnreadInv
    <3>1. ASSUME NEW c \in CohortNumbers, NEW p \in Watched, NEW k \in DOMAIN nights[p]
          PROVE  nights[p][k].cohort # c
      BY <2>2, <2>3 DEF CohortNumbers
    <3>2. \A c \in CohortNumbers : endedWithout[c] = {}
      BY <1>1 DEF InitIncidents
    <3>. QED BY <3>1, <3>2 DEF UnreadInv, Over, completedPageIds
  <2>. QED BY <1>1, <2>1, <2>2, <2>4, <2>5
           DEF InitIncidents, IncidentsInv, JobInv, LateInv, IncidentInv, OrderInv,
               JudgedWhenComplete, VerdictFromALaterCohort, NoIncident
<1>2. ASSUME IncidentsInv, NextIncidents PROVE IncidentsInv'
  BY <1>2, RetryIsDueKeeps, dispatchConfirmationKeeps, dispatchManualKeeps,
     dispatchFdeNightlyKeeps, SetMonitoredKeeps, commitWorkflowStrategyKeeps,
     commitWorkflowResultKeeps, commitOrphanKeeps, endWithoutResultKeeps,
     failOutsideKeeps DEF NextIncidents
<1>3. ASSUME IncidentsInv, UNCHANGED incidentVars PROVE IncidentsInv'
  <2>1. UNCHANGED <<monitored, cohorts, job, orphans, nights, endedWithout, incident, outside,
                    judgedBy, premature, late>>
    BY <1>3 DEF incidentVars, evidenceOfPages, historyVars
  <2>2. Newest' = Newest
    BY <2>1, NewestKept
  <2>3. JudgedWhenComplete'
    BY <1>3, <2>1, SameEvaluation DEF IncidentsInv, JudgedWhenComplete
  <2>4. \A d : Over(d)' = Over(d)
    BY <2>1 DEF Over
  <2>. QED BY <1>3, <2>1, <2>2, <2>3, <2>4
           DEF IncidentsInv, IncidentTypeOK, UnreadInv, JobInv, LateInv,
               Active, IncidentInv, OrderInv, VerdictFromALaterCohort
<1>. QED BY <1>1, <1>2, <1>3

(* A confirmation whose pages have all ended with enough readings has been
   judged, unless a job of the cohort was failed where nobody evaluates
   (src/lib/cohortAnomaly.ts), for every number of pages and cohorts. *)
THEOREM IncidentsJudged == SpecIncidents => []JudgedWhenComplete
<1>1. IncidentsInv => JudgedWhenComplete
  BY DEF IncidentsInv
<1>. QED BY <1>1, IncidentsInductive, PTL DEF SpecIncidents

(* The verdict on an incident is taken from readings of a cohort that started
   after the one that raised it, unless the incident was raised before every
   page asked for had ended, or a page came to the judging cohort after a later
   one had started (src/lib/cohortAnomaly.ts, collector-worker/nightly.ts). *)
THEOREM VerdictsAreLater == SpecIncidents => []VerdictFromALaterCohort
<1>1. IncidentsInv => VerdictFromALaterCohort
  BY DEF IncidentsInv
<1>. QED BY <1>1, IncidentsInductive, PTL DEF SpecIncidents

-----------------------------------------------------------------------------
(* EvidenceCycles *)
Runs == [key : Nat, warned : BOOLEAN]

EvidenceTypeOK ==
    /\ compactRuns \in Seq(Runs)
    /\ attempts \in Nat
    /\ DOMAIN staged \subseteq 1..attempts
    /\ \A a \in DOMAIN staged : staged[a] \in Nat

(* Whether a sample carries warnings is part of the sample. *)
SampleInv ==
    \A i, j \in DOMAIN compactRuns :
        compactRuns[i].key = compactRuns[j].key => compactRuns[i].warned = compactRuns[j].warned

(* The samples without warnings are those of the runs without. *)
AnsweredInv ==
    \A key : key \in answered <=>
        \E i \in DOMAIN compactRuns : compactRuns[i].key = key /\ ~compactRuns[i].warned

OutcomeInv ==
    /\ outcome = "retained" => reliable(compactRuns)
    /\ outcome = "inconclusive" => ~reliable(compactRuns)

EvidenceInv == EvidenceTypeOK /\ SampleInv /\ AnsweredInv /\ OutcomeInv

-----------------------------------------------------------------------------
(* The runs that count are as many as the samples without warnings: the first
   run of a sample stands for it. *)
LEMMA EligibleAreAnswered ==
  ASSUME EvidenceInv
  PROVE  Cardinality(eligible(compactRuns)) = Cardinality(answered)
<1>. DEFINE E == eligible(compactRuns)
            f == [i \in E |-> compactRuns[i].key]
<1>1. Len(compactRuns) \in Nat /\ DOMAIN compactRuns = 1..Len(compactRuns)
  BY LenProperties DEF EvidenceInv, EvidenceTypeOK
<1>2. /\ E \subseteq 1..Len(compactRuns)
      /\ \A i \in E : ~compactRuns[i].warned
      /\ \A i \in E : \A j \in 1..(i - 1) : compactRuns[j].key # compactRuns[i].key
  BY <1>1 DEF eligible, firstOf
<1>3. IsFiniteSet(E)
  <2>. HIDE DEF E
  <2>1. IsFiniteSet(1..Len(compactRuns))
    BY <1>1, FS_Interval
  <2>. QED BY <1>2, <2>1, FS_Subset
<1>4. f \in [E -> answered]
  BY <1>1, <1>2 DEF EvidenceInv, AnsweredInv
<1>5. \A i, j \in E : f[i] = f[j] => i = j
  <2>1. SUFFICES ASSUME NEW i \in E, NEW j \in E, i < j PROVE f[i] # f[j]
    BY <1>1, <1>2
  <2>2. i \in 1..(j - 1)
    BY <1>1, <1>2, <2>1
  <2>. QED BY <1>2, <2>2
<1>6. \A key \in answered : \E i \in E : f[i] = key
  <2>1. SUFFICES ASSUME NEW key \in answered PROVE \E i \in E : compactRuns[i].key = key
    OBVIOUS
  <2>. DEFINE S == {i \in DOMAIN compactRuns : compactRuns[i].key = key}
  <2>2. PICK n \in S : ~compactRuns[n].warned
    BY DEF EvidenceInv, AnsweredInv
  <2>3. S \in SUBSET Nat /\ S # {}
    BY <1>1, <2>2
  <2>4. PICK i \in S : \A j \in S : i <= j
    <3>. HIDE DEF S
    <3>. QED BY <2>3, HasLeast
  <2>5. ~compactRuns[i].warned
    BY <2>2, <2>4 DEF EvidenceInv, SampleInv
  <2>6. \A j \in 1..(i - 1) : compactRuns[j].key # compactRuns[i].key
    BY <1>1, <2>4
  <2>. QED BY <1>1, <2>4, <2>5, <2>6 DEF eligible, firstOf
<1>7. f \in Bijection(E, answered)
  <2>. HIDE DEF E, f
  <2>. QED BY <1>4, <1>5, <1>6, Fun_IsBij
<1>. QED BY <1>3, <1>7, FS_Bijection DEF ExistsBijection

(* The next sample is a number, as those that were given are. *)
LEMMA SamplesTyped ==
  ASSUME EvidenceTypeOK
  PROVE  Samples \subseteq Nat
<1>. DEFINE f == [a \in DOMAIN staged |-> staged[a]]
<1>1. IsFiniteSet(DOMAIN staged)
  <2>1. IsFiniteSet(1..attempts)
    BY FS_Interval DEF EvidenceTypeOK
  <2>. QED BY <2>1, FS_Subset DEF EvidenceTypeOK
<1>2. f \in [DOMAIN staged -> Seen] /\ \A t \in Seen : \E a \in DOMAIN staged : f[a] = t
  BY DEF Seen
<1>3. f \in Surjection(DOMAIN staged, Seen)
  BY <1>2, Fun_IsSurj
<1>4. IsFiniteSet(Seen)
  BY <1>1, <1>3, FS_Surjection
<1>5. Cardinality(Seen) \in Nat
  BY <1>4, FS_CardinalityType
<1>6. Seen \subseteq Nat
  BY DEF Seen, EvidenceTypeOK
<1>7. Cardinality(Seen) + 1 \in Nat
  BY <1>5
<1>. QED BY <1>6, <1>7 DEF Samples

LEMMA StagesTyped ==
  ASSUME EvidenceTypeOK, NEW key \in Samples, Requests, Stages(key)
  PROVE  /\ attempts' \in Nat /\ attempts' = attempts + 1 /\ key \in Nat
         /\ DOMAIN staged' = DOMAIN staged \cup {attempts'} /\ DOMAIN staged' \subseteq 1..attempts'
         /\ staged'[attempts'] = key
         /\ \A a \in DOMAIN staged : staged'[a] = staged[a] /\ a # attempts'
         /\ \A a \in DOMAIN staged' : staged'[a] \in Nat
<1>1. attempts' = attempts + 1 /\ attempts' \in Nat /\ attempts \in Nat
  BY DEF Requests, EvidenceTypeOK
<1>2. key \in Nat
  BY SamplesTyped
<1>3. staged' = [a \in DOMAIN staged \cup {attempts'} |-> IF a = attempts' THEN key ELSE staged[a]]
  BY DEF Stages
<1>4. DOMAIN staged' = DOMAIN staged \cup {attempts'} /\ DOMAIN staged' \subseteq 1..attempts'
  BY <1>1, <1>3 DEF EvidenceTypeOK
<1>5. \A a \in DOMAIN staged : a # attempts'
  BY <1>1 DEF EvidenceTypeOK
<1>6. staged'[attempts'] = key /\ \A a \in DOMAIN staged : staged'[a] = staged[a]
  BY <1>3, <1>5
<1>. QED BY <1>1, <1>2, <1>4, <1>5, <1>6 DEF EvidenceTypeOK

LEMMA AnswersKeeps ==
  ASSUME EvidenceInv, NEW key \in Samples, NEW warned \in BOOLEAN, AttemptAnswers(key, warned)
  PROVE  EvidenceInv'
<1>. DEFINE r == [key |-> key, warned |-> warned]
            n == Len(compactRuns)
<1>1. /\ Requests /\ mayCarry(key, warned) /\ Stages(key)
      /\ compactRuns' = Append(compactRuns, r)
      /\ answered' = IF warned THEN answered ELSE answered \cup {key}
      /\ outcome = "measuring" /\ outcome' = outcome
  BY DEF AttemptAnswers, Requests
<1>2. /\ attempts' \in Nat /\ DOMAIN staged' \subseteq 1..attempts' /\ key \in Nat
      /\ \A a \in DOMAIN staged' : staged'[a] \in Nat
  BY <1>1, StagesTyped DEF EvidenceInv
<1>3. compactRuns \in Seq(Runs) /\ r \in Runs
  BY <1>2 DEF EvidenceInv, EvidenceTypeOK, Runs
<1>4. /\ compactRuns' \in Seq(Runs) /\ n \in Nat
      /\ DOMAIN compactRuns = 1..n /\ DOMAIN compactRuns' = 1..(n + 1)
      /\ \A i \in 1..n : compactRuns'[i] = compactRuns[i]
      /\ compactRuns'[n + 1] = r
  <2>. HIDE DEF r
  <2>1. /\ compactRuns' \in Seq(Runs) /\ Len(compactRuns') = n + 1
        /\ compactRuns'[n + 1] = r
        /\ \A i \in 1..n : compactRuns'[i] = compactRuns[i]
    BY <1>1, <1>3, AppendProperties
  <2>. QED BY <1>3, <2>1, LenProperties
<1>5. EvidenceTypeOK'
  BY <1>2, <1>4 DEF EvidenceTypeOK
<1>6. \A i \in DOMAIN compactRuns' : i \in DOMAIN compactRuns \/ i = n + 1
  BY <1>4
<1>7. SampleInv'
  BY <1>1, <1>4, <1>6 DEF EvidenceInv, SampleInv, mayCarry
<1>8. AnsweredInv'
  <2>1. SUFFICES ASSUME NEW k
                 PROVE  k \in answered' <=>
                           \E i \in DOMAIN compactRuns' :
                              compactRuns'[i].key = k /\ ~compactRuns'[i].warned
    BY DEF AnsweredInv
  <2>2. k \in answered <=> \E i \in DOMAIN compactRuns : compactRuns[i].key = k /\ ~compactRuns[i].warned
    BY DEF EvidenceInv, AnsweredInv
  <2>3. k \in answered' <=> k \in answered \/ (k = key /\ ~warned)
    BY <1>1
  <2>4. (\E i \in DOMAIN compactRuns' : compactRuns'[i].key = k /\ ~compactRuns'[i].warned)
          <=> (\E i \in DOMAIN compactRuns : compactRuns[i].key = k /\ ~compactRuns[i].warned)
              \/ (k = key /\ ~warned)
    BY <1>4, <1>6
  <2>. QED BY <2>2, <2>3, <2>4
<1>9. OutcomeInv'
  BY <1>1 DEF OutcomeInv
<1>. QED BY <1>5, <1>7, <1>8, <1>9 DEF EvidenceInv

(* The steps in which no run comes in. *)
LEMMA RunsKept ==
  ASSUME EvidenceInv, compactRuns' = compactRuns, answered' = answered,
         attempts' \in Nat, DOMAIN staged' \subseteq 1..attempts',
         \A a \in DOMAIN staged' : staged'[a] \in Nat,
         OutcomeInv'
  PROVE  EvidenceInv'
BY DEF EvidenceInv, EvidenceTypeOK, SampleInv, AnsweredInv

LEMMA EvidenceInductive ==
  /\ InitEvidence => EvidenceInv
  /\ EvidenceInv /\ [NextEvidence]_evidenceVars => EvidenceInv'
<1>1. ASSUME InitEvidence PROVE EvidenceInv
  <2>1. compactRuns \in Seq(Runs) /\ DOMAIN compactRuns = {}
    BY <1>1, EmptySeq, LenProperties DEF InitEvidence
  <2>. QED BY <1>1, <2>1 DEF InitEvidence, EvidenceInv, EvidenceTypeOK, SampleInv, AnsweredInv, OutcomeInv
<1>2. ASSUME EvidenceInv, NextEvidence PROVE EvidenceInv'
  <2>1. ASSUME NEW key \in Samples, AttemptIsLost(key) PROVE EvidenceInv'
    <3>1. OutcomeInv'
      BY <2>1 DEF AttemptIsLost, Requests, OutcomeInv
    <3>. QED BY <1>2, <2>1, <3>1, StagesTyped, RunsKept DEF AttemptIsLost, EvidenceInv
  <2>2. ASSUME NEW kind, AttemptFails(kind) PROVE EvidenceInv'
    <3>1. OutcomeInv'
      BY <2>2 DEF AttemptFails, Requests, OutcomeInv
    <3>2. /\ attempts \in Nat /\ attempts' = attempts + 1 /\ staged' = staged
          /\ DOMAIN staged \subseteq 1..attempts
      BY <1>2, <2>2 DEF AttemptFails, Requests, EvidenceInv, EvidenceTypeOK
    <3>3. attempts' \in Nat /\ DOMAIN staged' \subseteq 1..attempts'
      BY <3>2
    <3>. QED BY <1>2, <2>2, <3>1, <3>2, <3>3, RunsKept DEF AttemptFails, EvidenceInv, EvidenceTypeOK
  <2>3. ASSUME AggregateAndStage PROVE EvidenceInv'
    <3>1. OutcomeInv'
      BY <2>3 DEF AggregateAndStage, OutcomeInv, reliable, eligible, firstOf
    <3>. QED BY <1>2, <2>3, <3>1, RunsKept DEF AggregateAndStage, EvidenceInv, EvidenceTypeOK
  <2>4. ASSUME WorkflowFails PROVE EvidenceInv'
    <3>1. OutcomeInv'
      BY <2>4 DEF WorkflowFails, OutcomeInv
    <3>. QED BY <1>2, <2>4, <3>1, RunsKept DEF WorkflowFails, EvidenceInv, EvidenceTypeOK
  <2>. QED BY <1>2, <2>1, <2>2, <2>3, <2>4, AnswersKeeps DEF NextEvidence
<1>3. ASSUME EvidenceInv, UNCHANGED evidenceVars PROVE EvidenceInv'
  <2>1. OutcomeInv'
    BY <1>3 DEF evidenceVars, EvidenceInv, OutcomeInv, reliable, eligible, firstOf
  <2>. QED BY <1>3, <2>1, RunsKept DEF evidenceVars, EvidenceInv, EvidenceTypeOK
<1>. QED BY <1>1, <1>2, <1>3

(* A device is called inconclusive only when too few distinct usable answers came
   in, and retained only with enough, whatever was lost, repeated or carried over
   between the cycles (collector-worker/index.ts). *)
THEOREM GivenUpForLack == SpecEvidence => []GivesUpForLack
<1>1. EvidenceInv => GivesUpForLack
  BY EligibleAreAnswered DEF EvidenceInv, OutcomeInv, GivesUpForLack, reliable
<1>. QED BY <1>1, EvidenceInductive, PTL DEF SpecEvidence

-----------------------------------------------------------------------------
(* As long as no report is without a run, the reports are those of the runs, and
   what was summarised last is the first report of every sample. *)
ReportInv ==
    /\ Len(compactRuns) <= Cardinality(DOMAIN staged)
    /\ Cardinality(DOMAIN staged) = Len(compactRuns) =>
         /\ \A n \in 1..Len(compactRuns) :
               staged[Nth(DOMAIN staged, n)] = compactRuns[n].key
         /\ ToSet(summary.raws) = summary.runs
         /\ Len(summary.raws) = Cardinality(summary.runs)

LEMMA StagedIsFinite ==
  ASSUME EvidenceTypeOK
  PROVE  /\ DOMAIN staged \in SUBSET Nat /\ IsFiniteSet(DOMAIN staged)
         /\ Cardinality(DOMAIN staged) \in Nat
         /\ Len(compactRuns) \in Nat /\ DOMAIN compactRuns = 1..Len(compactRuns)
<1>1. IsFiniteSet(1..attempts)
  BY FS_Interval DEF EvidenceTypeOK
<1>2. IsFiniteSet(DOMAIN staged)
  BY <1>1, FS_Subset DEF EvidenceTypeOK
<1>3. DOMAIN staged \in SUBSET Nat
  BY DEF EvidenceTypeOK
<1>. QED BY <1>2, <1>3, FS_CardinalityType, LenProperties DEF EvidenceTypeOK

(* What is summarised is one report for every sample that a run is of. *)
LEMMA SummaryIs ==
  ASSUME EvidenceTypeOK, ReportInv, Cardinality(DOMAIN staged) = Len(compactRuns),
         NEW raws, raws = summarized(stagedAttemptRaws, compactRuns),
         NEW runs, runs = {compactRuns[i].key : i \in firstOf(compactRuns)}
  PROVE  ToSet(raws) = runs /\ Len(raws) = Cardinality(runs)
<1>. DEFINE D == DOMAIN staged
            F == firstOf(compactRuns)
            n == Len(compactRuns)
<1>1. D \in SUBSET Nat /\ IsFiniteSet(D) /\ Cardinality(D) = n /\ n \in Nat
      /\ DOMAIN compactRuns = 1..n
  BY StagedIsFinite
<1>2. \A i \in 1..n : stagedAttemptRaws[i] = compactRuns[i].key
  <2>1. \A i \in 1..n : stagedAttemptRaws[i] = staged[Nth(D, i)]
    BY <1>1, PickedIs DEF stagedAttemptRaws
  <2>. QED BY <2>1 DEF ReportInv
<1>3. F \in SUBSET Nat /\ F \subseteq 1..n /\ IsFiniteSet(F)
  <2>1. F \subseteq 1..n
    BY <1>1 DEF firstOf
  <2>2. IsFiniteSet(1..n)
    BY <1>1, FS_Interval
  <2>3. 1..n \subseteq Nat
    OBVIOUS
  <2>. HIDE DEF F, n
  <2>4. IsFiniteSet(F)
    BY <2>1, <2>2, FS_Subset
  <2>5. F \in SUBSET Nat
    BY <2>1, <2>3
  <2>. QED BY <2>1, <2>4, <2>5
<1>4. /\ Len(raws) = Cardinality(F) /\ DOMAIN raws = 1..Cardinality(F)
      /\ \A k \in 1..Cardinality(F) : Nth(F, k) \in F /\ raws[k] = stagedAttemptRaws[Nth(F, k)]
      /\ \A i \in F : \E k \in 1..Cardinality(F) : raws[k] = stagedAttemptRaws[i]
  <2>1. raws = Picked(stagedAttemptRaws, F)
    BY DEF summarized
  <2>. HIDE DEF F
  <2>. QED BY <1>3, <2>1, PickedIs
<1>5. ToSet(raws) = runs
  <2>1. \A i \in F : stagedAttemptRaws[i] = compactRuns[i].key
    BY <1>2, <1>3
  <2>2. \A k \in DOMAIN raws : raws[k] \in runs
    BY <1>4, <2>1, SMTT(30)
  <2>3. ASSUME NEW i \in F PROVE compactRuns[i].key \in ToSet(raws)
    <3>1. PICK k \in 1..Cardinality(F) : raws[k] = stagedAttemptRaws[i]
      BY <1>4
    <3>2. raws[k] = compactRuns[i].key /\ k \in DOMAIN raws
      BY <1>4, <2>1, <3>1
    <3>. QED BY <3>2 DEF ToSet
  <2>. QED BY <2>2, <2>3 DEF ToSet
<1>6. Cardinality(F) = Cardinality(runs)
  <2>. DEFINE f == [i \in F |-> compactRuns[i].key]
  <2>1. f \in [F -> runs] /\ \A t \in runs : \E i \in F : f[i] = t
    OBVIOUS
  <2>2. \A i, j \in F : f[i] = f[j] => i = j
    <3>1. SUFFICES ASSUME NEW i \in F, NEW j \in F, i < j PROVE f[i] # f[j]
      BY <1>1, <1>3
    <3>2. i \in 1..(j - 1)
      BY <1>1, <1>3, <3>1
    <3>3. compactRuns[i].key # compactRuns[j].key
      BY <3>2 DEF firstOf
    <3>. QED BY <3>3
  <2>3. f \in Bijection(F, runs)
    <3>. HIDE DEF F, f
    <3>. QED BY <2>1, <2>2, Fun_IsBij
  <2>. HIDE DEF F
  <2>. QED BY <1>3, <2>3, FS_Bijection DEF ExistsBijection
<1>. QED BY <1>4, <1>5, <1>6

(* One more report, behind all the others. *)
LEMMA StagesLast ==
  ASSUME EvidenceTypeOK, NEW key \in Samples, Requests, Stages(key)
  PROVE  /\ Cardinality(DOMAIN staged') = Cardinality(DOMAIN staged) + 1
         /\ \A n \in 1..Cardinality(DOMAIN staged) :
               staged'[Nth(DOMAIN staged', n)] = staged[Nth(DOMAIN staged, n)]
         /\ staged'[Nth(DOMAIN staged', Cardinality(DOMAIN staged) + 1)] = key
<1>. DEFINE D == DOMAIN staged
<1>1. /\ attempts' = attempts + 1 /\ attempts \in Nat
      /\ DOMAIN staged' = D \cup {attempts'} /\ D \subseteq 1..attempts
      /\ staged'[attempts'] = key
      /\ \A a \in D : staged'[a] = staged[a]
  BY StagesTyped DEF EvidenceTypeOK
<1>2. D \in SUBSET Nat /\ IsFiniteSet(D)
  BY StagedIsFinite
<1>3. attempts' \in Nat /\ \A a \in D : a < attempts'
  BY <1>1
<1>4. /\ Cardinality(DOMAIN staged') = Cardinality(D) + 1
      /\ \A n \in 1..Cardinality(D) : Nth(DOMAIN staged', n) = Nth(D, n)
      /\ Nth(DOMAIN staged', Cardinality(D) + 1) = attempts'
  <2>. HIDE DEF D
  <2>1. /\ Cardinality(D \cup {attempts'}) = Cardinality(D) + 1
        /\ \A n \in 1..Cardinality(D) : Nth(D \cup {attempts'}, n) = Nth(D, n)
        /\ Nth(D \cup {attempts'}, Cardinality(D) + 1) = attempts'
    BY <1>2, <1>3, NthExtended
  <2>. QED BY <1>1, <2>1
<1>5. \A n \in 1..Cardinality(D) : Nth(D, n) \in D
  BY <1>2, NthIs
<1>. QED BY <1>1, <1>4, <1>5

LEMMA ReportsKept ==
  ASSUME ReportInv, UNCHANGED <<compactRuns, staged, summary>>
  PROVE  ReportInv'
BY DEF ReportInv

LEMMA ReportsInductive ==
  /\ InitEvidence => ReportInv
  /\ EvidenceInv /\ ReportInv /\ [NextEvidence]_evidenceVars => ReportInv'
<1>1. ASSUME InitEvidence PROVE ReportInv
  <2>1. Len(compactRuns) = 0 /\ DOMAIN staged = {} /\ Cardinality(DOMAIN staged) = 0
    BY <1>1, FS_EmptySet DEF InitEvidence
  <2>2. summary.raws = <<>> /\ summary.runs = {} /\ Len(summary.raws) = 0 /\ DOMAIN summary.raws = {}
    BY <1>1 DEF InitEvidence, NoSummary
  <2>3. ToSet(summary.raws) = {}
    BY <2>2 DEF ToSet
  <2>. QED BY <2>1, <2>2, <2>3, FS_EmptySet DEF ReportInv
<1>2. ASSUME EvidenceInv, ReportInv, NextEvidence PROVE ReportInv'
  <2>0. /\ EvidenceTypeOK /\ Len(compactRuns) \in Nat /\ Cardinality(DOMAIN staged) \in Nat
        /\ Len(compactRuns) <= Cardinality(DOMAIN staged)
    BY <1>2, StagedIsFinite DEF EvidenceInv, ReportInv
  <2>1. ASSUME NEW key \in Samples, NEW warned \in BOOLEAN, AttemptAnswers(key, warned)
        PROVE  ReportInv'
    <3>. DEFINE r == [key |-> key, warned |-> warned]
                n == Len(compactRuns)
    <3>1. /\ Requests /\ Stages(key) /\ compactRuns' = Append(compactRuns, r)
          /\ summary' = summary
      BY <2>1 DEF AttemptAnswers, Requests
    <3>2. compactRuns \in Seq(Runs) /\ r \in Runs
      BY <2>0, <2>1, SamplesTyped DEF EvidenceTypeOK, Runs
    <3>3. /\ Len(compactRuns') = n + 1 /\ compactRuns'[n + 1].key = key
          /\ \A i \in 1..n : compactRuns'[i] = compactRuns[i]
      BY <3>1, <3>2, AppendProperties
    <3>4. /\ Cardinality(DOMAIN staged') = Cardinality(DOMAIN staged) + 1
          /\ \A i \in 1..Cardinality(DOMAIN staged) :
                staged'[Nth(DOMAIN staged', i)] = staged[Nth(DOMAIN staged, i)]
          /\ staged'[Nth(DOMAIN staged', Cardinality(DOMAIN staged) + 1)] = key
      BY <2>0, <3>1, StagesLast
    <3>5. Len(compactRuns') <= Cardinality(DOMAIN staged')
      BY <2>0, <3>3, <3>4
    <3>6. Cardinality(DOMAIN staged') = Len(compactRuns') =>
             /\ \A i \in 1..Len(compactRuns') :
                   staged'[Nth(DOMAIN staged', i)] = compactRuns'[i].key
             /\ ToSet(summary'.raws) = summary'.runs
             /\ Len(summary'.raws) = Cardinality(summary'.runs)
      <4>1. SUFFICES ASSUME Cardinality(DOMAIN staged') = Len(compactRuns')
                     PROVE  /\ \A i \in 1..n + 1 :
                                 staged'[Nth(DOMAIN staged', i)] = compactRuns'[i].key
                            /\ ToSet(summary.raws) = summary.runs
                            /\ Len(summary.raws) = Cardinality(summary.runs)
        BY <3>1, <3>3
      <4>2. Cardinality(DOMAIN staged) = n
        BY <2>0, <3>3, <3>4, <4>1
      <4>3. \A i \in 1..n + 1 : i \in 1..n \/ i = n + 1
        BY <2>0
      <4>. QED BY <1>2, <3>3, <3>4, <4>2, <4>3 DEF ReportInv
    <3>. QED BY <3>5, <3>6 DEF ReportInv
  <2>2. ASSUME NEW key \in Samples, AttemptIsLost(key) PROVE ReportInv'
    <3>1. Cardinality(DOMAIN staged') = Cardinality(DOMAIN staged) + 1
          /\ compactRuns' = compactRuns
      BY <2>0, <2>2, StagesLast DEF AttemptIsLost
    <3>. QED BY <2>0, <3>1 DEF ReportInv
  <2>3. ASSUME NEW kind, AttemptFails(kind) PROVE ReportInv'
    BY <1>2, <2>3, ReportsKept DEF AttemptFails, Requests
  <2>4. ASSUME AggregateAndStage PROVE ReportInv'
    <3>1. CASE compactRuns = <<>>
      BY <1>2, <2>4, <3>1, ReportsKept DEF AggregateAndStage
    <3>2. CASE compactRuns # <<>>
      <4>. DEFINE raws == summarized(stagedAttemptRaws, compactRuns)
                  runs == {compactRuns[i].key : i \in firstOf(compactRuns)}
      <4>1. summary' = [raws |-> raws, runs |-> runs] /\ compactRuns' = compactRuns
            /\ staged' = staged
        BY <2>4, <3>2 DEF AggregateAndStage
      <4>2. Cardinality(DOMAIN staged) = Len(compactRuns) =>
              ToSet(raws) = runs /\ Len(raws) = Cardinality(runs)
        BY <1>2, <2>0, SummaryIs
      <4>. HIDE DEF raws, runs
      <4>3. summary'.raws = raws /\ summary'.runs = runs
        BY <4>1
      <4>. QED BY <1>2, <4>1, <4>2, <4>3 DEF ReportInv
    <3>. QED BY <3>1, <3>2
  <2>5. ASSUME WorkflowFails PROVE ReportInv'
    BY <1>2, <2>5, ReportsKept DEF WorkflowFails
  <2>. QED BY <1>2, <2>1, <2>2, <2>3, <2>4, <2>5 DEF NextEvidence
<1>3. ASSUME ReportInv, UNCHANGED evidenceVars PROVE ReportInv'
  BY <1>3, ReportsKept DEF evidenceVars
<1>. QED BY <1>1, <1>2, <1>3

(* The reports a night is described by are those of the runs its scores come
   from, each once, unless a request left a report without a
   run (collector-worker/index.ts). *)
THEOREM ReportsMatchRuns == SpecEvidence => []ReportsAreTheRuns
<1>1. ReportInv => ReportsAreTheRuns
  BY DEF ReportInv, ReportsAreTheRuns
<1>2. EvidenceInv /\ ReportInv /\ [NextEvidence]_evidenceVars => (EvidenceInv /\ ReportInv)'
  BY EvidenceInductive, ReportsInductive
<1>3. InitEvidence => EvidenceInv /\ ReportInv
  BY EvidenceInductive, ReportsInductive
<1>. QED BY <1>1, <1>2, <1>3, PTL DEF SpecEvidence

-----------------------------------------------------------------------------
(* WebflowActivity *)
SyncRecords ==
    [step : {"upsert", "begin", "fetch", "site", "set", "fill", "finish"},
     previous : Nat, published : Nat]

ActivityTypeOK ==
    /\ activity \in Seq({"edit", "publish"})
    /\ connection \in [connected : BOOLEAN, last : Nat]
    /\ events \subseteq Nat
    /\ DOMAIN publishSets \subseteq Nat
    /\ \A i \in DOMAIN publishSets :
          publishSets[i].previous \in Nat /\ publishSets[i].members \subseteq Nat
    /\ syncs \in [Syncs -> {Resting} \cup SyncRecords]
    /\ disturbed \in BOOLEAN

(* The sets cover stretches of time that do not meet, up to a publish of the
   site. *)
StretchInv ==
    \A i \in DOMAIN publishSets :
        /\ publishSets[i].previous < i /\ i <= lastPublished
        /\ \A k \in publishSets[i].members : publishSets[i].previous < k /\ k <= i
        /\ \A j \in DOMAIN publishSets : i < j => i <= publishSets[j].previous

AloneInv == \A s, t \in UnderWay : s = t

(* Every set is of a publish that t has seen. *)
UpTo(t) == \A i \in DOMAIN publishSets : i <= t

RowInv ==
    connection.connected =>
        /\ connection.last <= lastPublished
        /\ (\A s \in Syncs : syncs[s].step \notin {"fill", "finish"}) => UpTo(connection.last)

SyncInv ==
    \A s \in UnderWay :
        /\ syncs[s].published <= lastPublished
        /\ syncs[s].step \in {"fetch", "site", "set"} =>
              syncs[s].previous <= lastPublished /\ UpTo(syncs[s].previous)
        /\ syncs[s].step \in {"upsert", "begin", "fill", "finish"} => UpTo(syncs[s].published)
        /\ syncs[s].step = "set" => syncs[s].previous <= syncs[s].published

Undisturbed == StretchInv /\ AloneInv /\ RowInv /\ SyncInv

ActivityInv == ActivityTypeOK /\ (~disturbed => Undisturbed)

-----------------------------------------------------------------------------
(* The last publish of a log is one of its activities, or there was none. *)
LEMMA LastOf ==
  ASSUME NEW log \in Seq({"edit", "publish"}), NEW last,
         last = Max({i \in DOMAIN log : log[i] = "publish"} \cup {Never})
  PROVE  /\ last \in Nat
         /\ (last \in DOMAIN log /\ log[last] = "publish") \/ last = 0
         /\ \A i \in DOMAIN log : log[i] = "publish" => i <= last
<1>. DEFINE S == {i \in DOMAIN log : log[i] = "publish"} \cup {Never}
<1>1. Len(log) \in Nat /\ DOMAIN log = 1..Len(log)
  BY LenProperties
<1>2. S \in SUBSET Nat /\ S # {} /\ \A x \in S : x <= Len(log)
  BY <1>1 DEF Never
<1>3. last \in S /\ \A x \in S : x <= last
  <2>1. last = Max(S)
    OBVIOUS
  <2>. HIDE DEF S
  <2>. QED BY <1>1, <1>2, <2>1, HasMax
<1>. QED BY <1>2, <1>3 DEF Never

LEMMA LastPublishedIs ==
  ASSUME activity \in Seq({"edit", "publish"})
  PROVE  /\ lastPublished \in Nat
         /\ (lastPublished \in DOMAIN activity /\ activity[lastPublished] = "publish")
               \/ lastPublished = 0
         /\ \A i \in DOMAIN activity : activity[i] = "publish" => i <= lastPublished
BY LastOf DEF lastPublished

LEMMA SameLastPublished ==
  ASSUME activity' = activity
  PROVE  lastPublished' = lastPublished
BY DEF lastPublished

(* A sync rests or is at one of its steps. *)
LEMMA SyncIs ==
  ASSUME ActivityTypeOK, NEW s \in Syncs
  PROVE  /\ s \in UnderWay <=> syncs[s] # Resting
         /\ s \in UnderWay <=> syncs[s].step # "resting"
         /\ s \in UnderWay => syncs[s] \in SyncRecords
BY DEF ActivityTypeOK, UnderWay, Resting, SyncRecords

(* What a step of one sync that was alone leaves to show. *)
LEMMA StepOf ==
  ASSUME ActivityInv, NEW s \in Syncs, NEW r \in {Resting} \cup SyncRecords,
         syncs' = [syncs EXCEPT ![s] = r],
         UnderWay \subseteq {s} \/ disturbed'
  PROVE  /\ syncs' \in [Syncs -> {Resting} \cup SyncRecords] /\ syncs'[s] = r
         /\ \A t \in Syncs : t # s => syncs'[t] = syncs[t]
         /\ disturbed' \/ (UnderWay' \subseteq {s} /\ \A t \in Syncs : t # s => syncs[t].step = "resting"
                                                     /\ syncs'[t].step = "resting")
<1>1. /\ syncs' \in [Syncs -> {Resting} \cup SyncRecords] /\ syncs'[s] = r
      /\ \A t \in Syncs : t # s => syncs'[t] = syncs[t]
  BY DEF ActivityInv, ActivityTypeOK
<1>2. ASSUME UnderWay \subseteq {s}, NEW t \in Syncs, t # s
      PROVE  syncs[t] = Resting /\ syncs[t].step = "resting" /\ syncs'[t] = Resting
  BY <1>1, <1>2 DEF UnderWay, Resting
<1>3. UnderWay \subseteq {s} => UnderWay' \subseteq {s}
  BY <1>2 DEF UnderWay
<1>. QED BY <1>1, <1>2, <1>3

-----------------------------------------------------------------------------
LEMMA HappensKeeps ==
  ASSUME ActivityInv, NEW kind \in {"edit", "publish"}, Happens(kind)
  PROVE  ActivityInv'
<1>1. /\ activity' = Append(activity, kind)
      /\ UNCHANGED <<connection, events, publishSets, syncs, disturbed>>
  BY DEF Happens
<1>2. /\ activity \in Seq({"edit", "publish"}) /\ activity' \in Seq({"edit", "publish"})
      /\ DOMAIN activity \subseteq DOMAIN activity'
      /\ \A i \in DOMAIN activity : activity'[i] = activity[i]
  <2>1. activity \in Seq({"edit", "publish"})
    BY DEF ActivityInv, ActivityTypeOK
  <2>2. /\ activity' \in Seq({"edit", "publish"}) /\ Len(activity') = Len(activity) + 1
        /\ \A i \in 1..Len(activity) : activity'[i] = activity[i]
    BY <1>1, <2>1, AppendProperties
  <2>3. DOMAIN activity = 1..Len(activity) /\ Len(activity) \in Nat
        /\ DOMAIN activity' = 1..Len(activity')
    BY <2>1, <2>2, LenProperties
  <2>. QED BY <2>1, <2>2, <2>3
<1>3. lastPublished \in Nat /\ lastPublished' \in Nat /\ lastPublished <= lastPublished'
  <2>1. lastPublished \in Nat /\ lastPublished' \in Nat
    BY <1>2, LastPublishedIs, LastOf DEF lastPublished
  <2>2. \A i \in DOMAIN activity' : activity'[i] = "publish" => i <= lastPublished'
    BY <1>2, LastOf DEF lastPublished
  <2>3. lastPublished = 0 \/ (lastPublished \in DOMAIN activity /\ activity[lastPublished] = "publish")
    BY <1>2, LastPublishedIs
  <2>. QED BY <1>2, <2>1, <2>2, <2>3
<1>4. ActivityTypeOK'
  BY <1>1, <1>2 DEF ActivityInv, ActivityTypeOK
<1>5. UnderWay' = UnderWay
  BY <1>1 DEF UnderWay
<1>6. ASSUME ~disturbed PROVE Undisturbed'
  <2>1. Undisturbed
    BY <1>6 DEF ActivityInv
  <2>2. StretchInv'
    BY <1>1, <1>3, <2>1 DEF Undisturbed, StretchInv, ActivityInv, ActivityTypeOK
  <2>3. RowInv'
    BY <1>1, <1>3, <2>1 DEF Undisturbed, RowInv, UpTo, ActivityInv, ActivityTypeOK
  <2>4. SyncInv'
    BY <1>1, <1>3, <1>5, <2>1, SyncIs DEF Undisturbed, SyncInv, UpTo, UnderWay, ActivityInv, SyncRecords
  <2>. QED BY <1>1, <1>5, <2>1, <2>2, <2>3, <2>4 DEF Undisturbed, AloneInv
<1>. QED BY <1>1, <1>4, <1>6 DEF ActivityInv

LEMMA disconnectKeeps ==
  ASSUME ActivityInv, disconnectWebflowSite
  PROVE  ActivityInv'
<1>1. /\ connection' = [connected |-> FALSE, last |-> Never]
      /\ UNCHANGED <<activity, events, publishSets, syncs, disturbed>>
  BY DEF disconnectWebflowSite
<1>2. ActivityTypeOK'
  BY <1>1 DEF ActivityInv, ActivityTypeOK, Never
<1>3. lastPublished' = lastPublished /\ UnderWay' = UnderWay
  BY <1>1, SameLastPublished DEF UnderWay
<1>4. ASSUME ~disturbed PROVE Undisturbed'
  BY <1>1, <1>3, <1>4 DEF ActivityInv, Undisturbed, StretchInv, AloneInv, RowInv, SyncInv, UpTo
<1>. QED BY <1>1, <1>2, <1>4 DEF ActivityInv

(* A step of one sync s that leaves the sets alone: what it and the row then
   know is what is left to show. *)
LEMMA SetsKept ==
  ASSUME ActivityInv, NEW s \in Syncs, NEW r \in {Resting} \cup SyncRecords,
         syncs' = [syncs EXCEPT ![s] = r],
         UnderWay \subseteq {s} \/ disturbed', disturbed => disturbed', disturbed' \in BOOLEAN,
         connection' \in [connected : BOOLEAN, last : Nat], events' \subseteq Nat,
         publishSets' = publishSets, activity' = activity,
         ~disturbed' => RowInv' /\ (s \in UnderWay' => SyncInv')
  PROVE  ActivityInv'
<1>1. /\ syncs' \in [Syncs -> {Resting} \cup SyncRecords]
      /\ disturbed' \/ UnderWay' \subseteq {s}
  BY StepOf
<1>2. ActivityTypeOK'
  BY <1>1 DEF ActivityInv, ActivityTypeOK
<1>3. lastPublished' = lastPublished
  BY SameLastPublished
<1>4. ASSUME ~disturbed' PROVE Undisturbed'
  <2>1. StretchInv' /\ AloneInv'
    BY <1>1, <1>3, <1>4 DEF ActivityInv, Undisturbed, StretchInv, AloneInv
  <2>2. SyncInv'
    BY <1>1, <1>4 DEF SyncInv
  <2>. QED BY <1>4, <2>1, <2>2 DEF Undisturbed
<1>. QED BY <1>2, <1>4 DEF ActivityInv

LEMMA validateKeeps ==
  ASSUME ActivityInv, NEW s \in Syncs, validateWebflowSite(s)
  PROVE  ActivityInv'
<1>. DEFINE r == At("upsert", Never, lastPublished)
<1>1. /\ syncs[s] = Resting /\ syncs' = [syncs EXCEPT ![s] = r]
      /\ disturbed' = (disturbed \/ UnderWay # {})
      /\ UNCHANGED <<activity, connection, events, publishSets>>
  BY DEF validateWebflowSite
<1>2. lastPublished \in Nat /\ lastPublished' = lastPublished
  BY <1>1, LastPublishedIs, SameLastPublished DEF ActivityInv, ActivityTypeOK
<1>3. /\ r \in SyncRecords /\ r.step = "upsert" /\ r.published = lastPublished
  BY <1>2 DEF At, SyncRecords, Never
<1>4. /\ disturbed' \in BOOLEAN /\ (disturbed => disturbed') /\ (UnderWay \subseteq {s} \/ disturbed')
      /\ connection' \in [connected : BOOLEAN, last : Nat] /\ events' \subseteq Nat
  BY <1>1 DEF ActivityInv, ActivityTypeOK
<1>. HIDE DEF r
<1>5. /\ syncs'[s] = r /\ \A t \in Syncs : t # s => syncs'[t] = syncs[t]
      /\ disturbed' \/ UnderWay' \subseteq {s}
  BY <1>1, <1>3, <1>4, StepOf
<1>6. ASSUME ~disturbed' PROVE RowInv' /\ SyncInv'
  <2>1. Undisturbed /\ UnderWay = {}
    BY <1>1, <1>6 DEF ActivityInv
  <2>2. RowInv'
    BY <1>1, <1>2, <1>3, <1>5, <2>1 DEF Undisturbed, RowInv, UpTo, UnderWay, Resting
  <2>3. SyncInv'
    BY <1>1, <1>2, <1>3, <1>5, <1>6, <2>1 DEF Undisturbed, StretchInv, SyncInv, UpTo
  <2>. QED BY <2>2, <2>3
<1>. QED BY <1>1, <1>3, <1>4, <1>6, SetsKept

(* A sync that takes one of its steps was alone, or is not counted on. *)
LEMMA OwnStep ==
  ASSUME ActivityInv, NEW s \in Syncs, syncs[s].step # "resting", disturbed' = disturbed
  PROVE  /\ syncs[s] \in SyncRecords /\ s \in UnderWay
         /\ disturbed' \in BOOLEAN /\ (disturbed => disturbed')
         /\ UnderWay \subseteq {s} \/ disturbed'
         /\ ~disturbed' => Undisturbed
BY SyncIs DEF ActivityInv, ActivityTypeOK, Undisturbed, AloneInv

LEMMA connectKeeps ==
  ASSUME ActivityInv, NEW s \in Syncs, connectWebflowSite(s)
  PROVE  ActivityInv'
<1>. DEFINE r == [syncs[s] EXCEPT !.step = "begin"]
<1>1. /\ syncs[s].step = "upsert" /\ syncs' = [syncs EXCEPT ![s] = r]
      /\ connection' = [connected |-> TRUE, last |-> syncs[s].published]
      /\ UNCHANGED <<activity, events, publishSets, disturbed>>
  BY DEF connectWebflowSite
<1>2. /\ syncs[s] \in SyncRecords /\ s \in UnderWay
      /\ disturbed' \in BOOLEAN /\ (disturbed => disturbed') /\ (UnderWay \subseteq {s} \/ disturbed')
      /\ (~disturbed' => Undisturbed)
  BY <1>1, OwnStep
<1>3. /\ r \in SyncRecords /\ r.step = "begin" /\ r.published = syncs[s].published
      /\ syncs[s].published \in Nat
  BY <1>2 DEF SyncRecords
<1>4. connection' \in [connected : BOOLEAN, last : Nat] /\ events' \subseteq Nat
  BY <1>1, <1>3 DEF ActivityInv, ActivityTypeOK
<1>. HIDE DEF r
<1>5. /\ syncs'[s] = r /\ \A t \in Syncs : t # s => syncs'[t] = syncs[t]
      /\ disturbed' \/ UnderWay' \subseteq {s}
  BY <1>1, <1>2, <1>3, StepOf
<1>6. lastPublished' = lastPublished
  BY <1>1, SameLastPublished
<1>7. ASSUME ~disturbed' PROVE RowInv' /\ SyncInv'
  <2>1. /\ syncs[s].published <= lastPublished
        /\ UpTo(syncs[s].published)
    BY <1>1, <1>2, <1>7 DEF Undisturbed, SyncInv
  <2>. QED BY <1>1, <1>3, <1>5, <1>6, <1>7, <2>1 DEF RowInv, SyncInv, UpTo
<1>. QED BY <1>1, <1>2, <1>3, <1>4, <1>7, SetsKept

LEMMA syncKeeps ==
  ASSUME ActivityInv, NEW s \in Syncs, syncWebflowActivity(s)
  PROVE  ActivityInv'
<1>. DEFINE r == At("fetch", connection.last, Never)
<1>1. /\ connection.connected /\ (syncs[s] = Resting \/ syncs[s].step = "begin")
      /\ syncs' = [syncs EXCEPT ![s] = r]
      /\ disturbed' = (disturbed \/ UnderWay \ {s} # {})
      /\ UNCHANGED <<activity, connection, events, publishSets>>
  BY DEF syncWebflowActivity
<1>2. /\ r \in SyncRecords /\ r.step = "fetch" /\ r.previous = connection.last /\ r.published = 0
      /\ lastPublished \in Nat
  BY LastPublishedIs DEF At, SyncRecords, Never, ActivityInv, ActivityTypeOK
<1>3. /\ disturbed' \in BOOLEAN /\ (disturbed => disturbed') /\ (UnderWay \subseteq {s} \/ disturbed')
      /\ connection' \in [connected : BOOLEAN, last : Nat] /\ events' \subseteq Nat
  BY <1>1 DEF ActivityInv, ActivityTypeOK
<1>. HIDE DEF r
<1>4. /\ syncs'[s] = r /\ \A t \in Syncs : t # s => syncs'[t] = syncs[t]
      /\ disturbed' \/ (UnderWay' \subseteq {s} /\ \A t \in Syncs : t # s => syncs[t].step = "resting")
  BY <1>1, <1>2, <1>3, StepOf
<1>5. lastPublished' = lastPublished
  BY <1>1, SameLastPublished
<1>6. ASSUME ~disturbed' PROVE RowInv' /\ SyncInv'
  <2>1. Undisturbed
    BY <1>3, <1>6 DEF ActivityInv
  <2>2. \A t \in Syncs : syncs[t].step \notin {"fill", "finish"}
    BY <1>1, <1>4, <1>6 DEF Resting
  <2>3. connection.connected
    BY DEF syncWebflowActivity
  <2>4. connection.last <= lastPublished /\ UpTo(connection.last)
    BY <2>1, <2>2, <2>3 DEF Undisturbed, RowInv
  <2>. QED BY <1>1, <1>2, <1>4, <1>5, <1>6, <2>4 DEF RowInv, SyncInv, UpTo
<1>. QED BY <1>1, <1>2, <1>3, <1>6, SetsKept

(* The steps between: the log is stored, the site is asked. *)
LEMMA StoreEventsKeeps ==
  ASSUME ActivityInv, NEW s \in Syncs, StoreEvents(s)
  PROVE  ActivityInv'
<1>. DEFINE r == [syncs[s] EXCEPT !.step = "site"]
<1>1. /\ syncs[s].step = "fetch" /\ syncs' = [syncs EXCEPT ![s] = r]
      /\ events' = events \cup DOMAIN activity
      /\ UNCHANGED <<activity, connection, publishSets, disturbed>>
  BY DEF StoreEvents
<1>2. /\ syncs[s] \in SyncRecords /\ s \in UnderWay
      /\ disturbed' \in BOOLEAN /\ (disturbed => disturbed') /\ (UnderWay \subseteq {s} \/ disturbed')
      /\ (~disturbed' => Undisturbed)
  BY <1>1, OwnStep
<1>3. /\ r \in SyncRecords /\ r.step = "site" /\ r.previous = syncs[s].previous
      /\ r.published = syncs[s].published
  BY <1>2 DEF SyncRecords
<1>4. connection' \in [connected : BOOLEAN, last : Nat] /\ events' \subseteq Nat
  BY <1>1, LenProperties DEF ActivityInv, ActivityTypeOK
<1>. HIDE DEF r
<1>5. /\ syncs'[s] = r /\ \A t \in Syncs : t # s => syncs'[t] = syncs[t]
      /\ disturbed' \/ (UnderWay' \subseteq {s} /\ \A t \in Syncs : t # s => syncs[t].step = "resting")
  BY <1>1, <1>2, <1>3, StepOf
<1>6. lastPublished' = lastPublished
  BY <1>1, SameLastPublished
<1>7. ASSUME ~disturbed' PROVE RowInv' /\ SyncInv'
  <2>1. /\ syncs[s].published <= lastPublished /\ syncs[s].previous <= lastPublished
        /\ UpTo(syncs[s].previous)
    BY <1>1, <1>2, <1>7 DEF Undisturbed, SyncInv
  <2>2. \A t \in Syncs : syncs[t].step \notin {"fill", "finish"}
    BY <1>1, <1>5, <1>7
  <2>. QED BY <1>1, <1>2, <1>3, <1>5, <1>6, <1>7, <2>1, <2>2 DEF Undisturbed, RowInv, SyncInv, UpTo
<1>. QED BY <1>1, <1>2, <1>3, <1>4, <1>7, SetsKept

LEMMA AskSiteKeeps ==
  ASSUME ActivityInv, NEW s \in Syncs, AskSite(s)
  PROVE  ActivityInv'
<1>. DEFINE r == [syncs[s] EXCEPT !.step = "set", !.published = lastPublished]
<1>0. lastPublished \in Nat
  BY LastPublishedIs DEF ActivityInv, ActivityTypeOK
<1>1. /\ syncs[s].step = "site" /\ syncs' = [syncs EXCEPT ![s] = r]
      /\ UNCHANGED <<activity, connection, events, publishSets, disturbed>>
  BY DEF AskSite
<1>2. /\ syncs[s] \in SyncRecords /\ s \in UnderWay
      /\ disturbed' \in BOOLEAN /\ (disturbed => disturbed') /\ (UnderWay \subseteq {s} \/ disturbed')
      /\ (~disturbed' => Undisturbed)
  BY <1>1, OwnStep
<1>3. /\ r \in SyncRecords /\ r.step = "set" /\ r.previous = syncs[s].previous
      /\ r.published = lastPublished
  BY <1>0, <1>2 DEF SyncRecords
<1>4. connection' \in [connected : BOOLEAN, last : Nat] /\ events' \subseteq Nat
  BY <1>1 DEF ActivityInv, ActivityTypeOK
<1>. HIDE DEF r
<1>5. /\ syncs'[s] = r /\ \A t \in Syncs : t # s => syncs'[t] = syncs[t]
      /\ disturbed' \/ (UnderWay' \subseteq {s} /\ \A t \in Syncs : t # s => syncs[t].step = "resting")
  BY <1>1, <1>2, <1>3, StepOf
<1>6. lastPublished' = lastPublished
  BY <1>1, SameLastPublished
<1>7. ASSUME ~disturbed' PROVE RowInv' /\ SyncInv'
  <2>1. syncs[s].previous <= lastPublished /\ UpTo(syncs[s].previous)
    BY <1>1, <1>2, <1>7 DEF Undisturbed, SyncInv
  <2>2. \A t \in Syncs : syncs[t].step \notin {"fill", "finish"}
    BY <1>1, <1>5, <1>7
  <2>. QED BY <1>0, <1>1, <1>2, <1>3, <1>5, <1>6, <1>7, <2>1, <2>2
           DEF Undisturbed, RowInv, SyncInv, UpTo
<1>. QED BY <1>1, <1>2, <1>3, <1>4, <1>7, SetsKept

(* The row moves on to the publish whose set is in. *)
LEMMA FinishSyncKeeps ==
  ASSUME ActivityInv, NEW s \in Syncs, FinishSync(s)
  PROVE  ActivityInv'
<1>1. /\ syncs[s].step = "finish" /\ syncs' = [syncs EXCEPT ![s] = Resting]
      /\ connection' = IF connection.connected THEN [connection EXCEPT !.last = syncs[s].published]
                       ELSE connection
      /\ UNCHANGED <<activity, events, publishSets, disturbed>>
  BY DEF FinishSync
<1>2. /\ syncs[s] \in SyncRecords /\ s \in UnderWay
      /\ disturbed' \in BOOLEAN /\ (disturbed => disturbed') /\ (UnderWay \subseteq {s} \/ disturbed')
      /\ (~disturbed' => Undisturbed)
  BY <1>1, OwnStep
<1>3. syncs[s].published \in Nat
  BY <1>2 DEF SyncRecords
<1>4. /\ connection' \in [connected : BOOLEAN, last : Nat] /\ events' \subseteq Nat
      /\ connection'.connected => connection'.last = syncs[s].published
  BY <1>1, <1>3 DEF ActivityInv, ActivityTypeOK
<1>5. syncs'[s] = Resting /\ (disturbed' \/ UnderWay' \subseteq {s})
  BY <1>1, <1>2, StepOf
<1>6. s \notin UnderWay'
  BY <1>5 DEF UnderWay
<1>7. lastPublished' = lastPublished
  BY <1>1, SameLastPublished
<1>8. ASSUME ~disturbed' PROVE RowInv'
  <2>1. syncs[s].published <= lastPublished /\ UpTo(syncs[s].published)
    BY <1>1, <1>2, <1>8 DEF Undisturbed, SyncInv
  <2>. QED BY <1>1, <1>4, <1>7, <2>1 DEF RowInv, UpTo
<1>. QED BY <1>1, <1>2, <1>4, <1>6, <1>8, SetsKept

LEMMA SyncFailsKeeps ==
  ASSUME ActivityInv, NEW s \in Syncs, SyncFails(s)
  PROVE  ActivityInv'
<1>1. /\ syncs[s] # Resting /\ syncs' = [syncs EXCEPT ![s] = Resting]
      /\ disturbed' = (disturbed \/ syncs[s].step \in {"fill", "finish"})
      /\ UNCHANGED <<activity, connection, events, publishSets>>
  BY DEF SyncFails
<1>2. /\ disturbed' \in BOOLEAN /\ (disturbed => disturbed')
      /\ connection' \in [connected : BOOLEAN, last : Nat] /\ events' \subseteq Nat
  BY <1>1 DEF ActivityInv, ActivityTypeOK
<1>3. ASSUME ~disturbed' PROVE Undisturbed /\ UnderWay \subseteq {s}
  BY <1>1, <1>2, <1>3 DEF ActivityInv, Undisturbed, AloneInv, UnderWay
<1>4. syncs'[s] = Resting /\ (\A t \in Syncs : t # s => syncs'[t] = syncs[t])
      /\ (disturbed' \/ \A t \in Syncs : t # s => syncs[t].step = "resting")
  BY <1>1, <1>3, StepOf
<1>5. s \notin UnderWay'
  BY <1>4 DEF UnderWay
<1>6. lastPublished' = lastPublished
  BY <1>1, SameLastPublished
<1>7. ASSUME ~disturbed' PROVE RowInv'
  <2>1. \A t \in Syncs : syncs[t].step \notin {"fill", "finish"}
    BY <1>1, <1>4, <1>7
  <2>. QED BY <1>1, <1>3, <1>6, <1>7, <2>1 DEF Undisturbed, RowInv, UpTo
<1>. QED BY <1>1, <1>2, <1>3, <1>5, <1>7, SetsKept

(* A new set begins where the newest of the others ended. *)
LEMMA InsertKeeps ==
  ASSUME ActivityInv, NEW s \in Syncs, InsertPublishSet(s)
  PROVE  ActivityInv'
<1>. DEFINE at == syncs[s].published
            r == [syncs[s] EXCEPT !.step = "fill"]
<1>1. /\ syncs[s].step = "set" /\ syncs' = [syncs EXCEPT ![s] = r]
      /\ UNCHANGED <<activity, connection, events, disturbed>>
  BY DEF InsertPublishSet
<1>2. /\ syncs[s] \in SyncRecords /\ s \in UnderWay
      /\ disturbed' \in BOOLEAN /\ (disturbed => disturbed') /\ (UnderWay \subseteq {s} \/ disturbed')
      /\ (~disturbed' => Undisturbed)
  BY <1>1, OwnStep
<1>3. /\ r \in SyncRecords /\ r.step = "fill" /\ r.published = at
      /\ at \in Nat /\ syncs[s].previous \in Nat
  BY <1>2 DEF SyncRecords
<1>4. \/ /\ at \notin DOMAIN publishSets /\ syncs[s].previous # at
         /\ publishSets' = [i \in DOMAIN publishSets \cup {at} |->
                              IF i = at THEN [previous |-> syncs[s].previous, members |-> {}]
                              ELSE publishSets[i]]
      \/ publishSets' = publishSets
  BY DEF InsertPublishSet
<1>5. /\ syncs' \in [Syncs -> {Resting} \cup SyncRecords] /\ syncs'[s] = r
      /\ disturbed' \/ UnderWay' \subseteq {s}
  <2>. HIDE DEF r
  <2>. QED BY <1>1, <1>2, <1>3, StepOf
<1>6. lastPublished' = lastPublished
  BY <1>1, SameLastPublished
<1>7. ActivityTypeOK'
  <2>1. /\ DOMAIN publishSets' \subseteq Nat
        /\ \A i \in DOMAIN publishSets' :
              publishSets'[i].previous \in Nat /\ publishSets'[i].members \subseteq Nat
    BY <1>3, <1>4 DEF ActivityInv, ActivityTypeOK
  <2>. QED BY <1>1, <1>2, <1>5, <2>1 DEF ActivityInv, ActivityTypeOK
<1>8. ASSUME ~disturbed' PROVE Undisturbed'
  <2>1. /\ at <= lastPublished /\ UpTo(syncs[s].previous) /\ syncs[s].previous <= at
    BY <1>1, <1>2, <1>8 DEF Undisturbed, SyncInv
  <2>2. lastPublished \in Nat /\ DOMAIN publishSets \subseteq Nat
    BY LastPublishedIs DEF ActivityInv, ActivityTypeOK
  <2>3. \A i \in DOMAIN publishSets' : i <= at
    BY <1>3, <1>4, <2>1, <2>2 DEF UpTo
  <2>4. StretchInv'
    <3>1. CASE publishSets' = publishSets
      BY <1>2, <1>6, <1>8, <3>1 DEF Undisturbed, StretchInv
    <3>2. CASE /\ at \notin DOMAIN publishSets /\ syncs[s].previous # at
               /\ publishSets' = [i \in DOMAIN publishSets \cup {at} |->
                              IF i = at THEN [previous |-> syncs[s].previous, members |-> {}]
                              ELSE publishSets[i]]
      <4>1. DOMAIN publishSets' = DOMAIN publishSets \cup {at}
        BY <3>2
      <4>2. publishSets'[at] = [previous |-> syncs[s].previous, members |-> {}]
        BY <3>2
      <4>3. \A i \in DOMAIN publishSets : publishSets'[i] = publishSets[i]
        BY <3>2
      <4>4. syncs[s].previous < at
        BY <1>3, <2>1, <3>2
      <4>5. \A i \in DOMAIN publishSets : i <= syncs[s].previous /\ i < at
        BY <1>3, <2>1, <2>2, <4>4 DEF UpTo
      <4>6. StretchInv
        BY <1>2, <1>8 DEF Undisturbed
      <4>7. ASSUME NEW i \in DOMAIN publishSets'
            PROVE  /\ publishSets'[i].previous < i /\ i <= lastPublished
                   /\ \A k \in publishSets'[i].members : publishSets'[i].previous < k /\ k <= i
        BY <2>1, <4>1, <4>2, <4>3, <4>4, <4>6 DEF StretchInv
      <4>8. ASSUME NEW i \in DOMAIN publishSets', NEW j \in DOMAIN publishSets', i < j
            PROVE  i <= publishSets'[j].previous
        <5>1. i \in DOMAIN publishSets
          BY <1>3, <2>2, <2>3, <4>1, <4>8
        <5>. QED BY <4>1, <4>2, <4>3, <4>5, <4>6, <4>8, <5>1 DEF StretchInv
      <4>. QED BY <1>6, <4>7, <4>8 DEF StretchInv
    <3>. QED BY <1>4, <3>1, <3>2
  <2>5. AloneInv'
    BY <1>5, <1>8 DEF AloneInv
  <2>6. RowInv'
    BY <1>1, <1>2, <1>3, <1>5, <1>6, <1>8 DEF Undisturbed, RowInv
  <2>7. SyncInv'
    BY <1>3, <1>5, <1>6, <1>8, <2>1, <2>3 DEF SyncInv, UpTo
  <2>. QED BY <2>4, <2>5, <2>6, <2>7 DEF Undisturbed
<1>. QED BY <1>7, <1>8 DEF ActivityInv

LEMMA refreshKeeps ==
  ASSUME ActivityInv, NEW s \in Syncs, refreshPublishSet(s)
  PROVE  ActivityInv'
<1>. DEFINE at == syncs[s].published
            r == [syncs[s] EXCEPT !.step = "finish"]
<1>1. /\ syncs[s].step = "fill" /\ syncs' = [syncs EXCEPT ![s] = r]
      /\ UNCHANGED <<activity, connection, events, disturbed>>
  BY DEF refreshPublishSet
<1>2. /\ syncs[s] \in SyncRecords /\ s \in UnderWay
      /\ disturbed' \in BOOLEAN /\ (disturbed => disturbed') /\ (UnderWay \subseteq {s} \/ disturbed')
      /\ (~disturbed' => Undisturbed)
  BY <1>1, OwnStep
<1>3. /\ r \in SyncRecords /\ r.step = "finish" /\ r.published = at /\ at \in Nat
  BY <1>2 DEF SyncRecords
<1>4. /\ DOMAIN publishSets' = DOMAIN publishSets
      /\ \A i \in DOMAIN publishSets :
            /\ publishSets'[i].previous = publishSets[i].previous
            /\ \/ publishSets'[i].members = publishSets[i].members
               \/ publishSets'[i].members = window(publishSets[i], i)
  <2>1. CASE publishSets' = publishSets
    BY <2>1
  <2>2. CASE /\ at \in DOMAIN publishSets
             /\ publishSets' = [publishSets EXCEPT ![at].members = window(publishSets[at], at)]
    <3>0. DOMAIN publishSets' = DOMAIN publishSets
      BY <2>2
    <3>1. ASSUME NEW i \in DOMAIN publishSets, i # at PROVE publishSets'[i] = publishSets[i]
      BY <2>2, <3>1
    <3>2. publishSets'[at] = [publishSets[at] EXCEPT !.members = window(publishSets[at], at)]
      BY <2>2
    <3>. QED BY <2>2, <3>0, <3>1, <3>2
  <2>. QED BY <2>1, <2>2 DEF refreshPublishSet
<1>5. /\ syncs' \in [Syncs -> {Resting} \cup SyncRecords] /\ syncs'[s] = r
      /\ disturbed' \/ UnderWay' \subseteq {s}
  <2>. HIDE DEF r
  <2>. QED BY <1>1, <1>2, <1>3, StepOf
<1>6. lastPublished' = lastPublished
  BY <1>1, SameLastPublished
<1>7. \A i \in DOMAIN publishSets : \A k \in window(publishSets[i], i) :
          k \in Nat /\ publishSets[i].previous < k /\ k <= i
  BY DEF window, ActivityInv, ActivityTypeOK
<1>8. ActivityTypeOK'
  BY <1>1, <1>2, <1>4, <1>5, <1>7 DEF ActivityInv, ActivityTypeOK
<1>9. ASSUME ~disturbed' PROVE Undisturbed'
  <2>1. at <= lastPublished /\ UpTo(at)
    BY <1>1, <1>2, <1>9 DEF Undisturbed, SyncInv
  <2>2. StretchInv'
    BY <1>2, <1>4, <1>6, <1>7, <1>9 DEF Undisturbed, StretchInv
  <2>3. AloneInv'
    BY <1>5, <1>9 DEF AloneInv
  <2>4. RowInv'
    BY <1>1, <1>2, <1>3, <1>5, <1>6, <1>9 DEF Undisturbed, RowInv
  <2>5. SyncInv'
    BY <1>3, <1>4, <1>5, <1>6, <1>9, <2>1 DEF SyncInv, UpTo
  <2>. QED BY <2>2, <2>3, <2>4, <2>5 DEF Undisturbed
<1>. QED BY <1>8, <1>9 DEF ActivityInv

LEMMA ActivityInductive ==
  /\ InitActivity => ActivityInv
  /\ ActivityInv /\ [NextActivity]_activityVars => ActivityInv'
<1>1. ASSUME InitActivity PROVE ActivityInv
  <2>1. /\ activity = <<"publish", "publish">> /\ activity \in Seq({"edit", "publish"})
        /\ 2 \in DOMAIN activity /\ activity[2] = "publish"
    <3>1. <<"publish", "publish">> \in Seq({"edit", "publish"}) /\ 2 \in DOMAIN <<"publish", "publish">>
      OBVIOUS
    <3>. QED BY <1>1, <3>1 DEF InitActivity
  <2>2. lastPublished \in Nat /\ 2 <= lastPublished
    BY <2>1, LastPublishedIs
  <2>3. UnderWay = {} /\ \A s \in Syncs : syncs[s].step = "resting"
    BY <1>1 DEF InitActivity, UnderWay, Resting
  <2>4. syncs \in [Syncs -> {Resting} \cup SyncRecords] /\ disturbed = FALSE
    BY <1>1 DEF InitActivity
  <2>5. AloneInv /\ SyncInv
    BY <2>3 DEF AloneInv, SyncInv
  <2>6. CASE connection = [connected |-> FALSE, last |-> Never] /\ events = {}
             /\ publishSets = [i \in {} |-> {}]
    <3>1. DOMAIN publishSets = {} /\ connection \in [connected : BOOLEAN, last : Nat]
          /\ connection.connected = FALSE
      BY <2>6 DEF Never
    <3>. QED BY <2>1, <2>4, <2>5, <2>6, <3>1
             DEF ActivityInv, ActivityTypeOK, Undisturbed, StretchInv, RowInv
  <2>7. CASE /\ connection = [connected |-> TRUE, last |-> 2] /\ events = {1, 2}
             /\ publishSets = [i \in {2} |-> [previous |-> 1, members |-> {2}]]
    <3>1. /\ DOMAIN publishSets = {2} /\ publishSets[2].previous = 1
          /\ publishSets[2].members = {2} /\ connection.last = 2
          /\ connection \in [connected : BOOLEAN, last : Nat]
      BY <2>7
    <3>2. ActivityTypeOK
      <4>1. \A i \in DOMAIN publishSets :
               publishSets[i].previous \in Nat /\ publishSets[i].members \subseteq Nat
        BY <3>1
      <4>2. events \subseteq Nat /\ DOMAIN publishSets \subseteq Nat
        BY <2>7, <3>1
      <4>3. activity \in Seq({"edit", "publish"})
        BY <2>1
      <4>4. disturbed \in BOOLEAN
        BY <2>4
      <4>. QED BY <2>4, <3>1, <4>1, <4>2, <4>3, <4>4 DEF ActivityTypeOK
    <3>3. StretchInv
      <4>1. \A i \in DOMAIN publishSets : i = 2 /\ \A k \in publishSets[i].members : k = 2
        BY <3>1
      <4>. QED BY <2>2, <3>1, <4>1 DEF StretchInv
    <3>4. RowInv
      BY <2>2, <3>1 DEF RowInv, UpTo
    <3>. QED BY <2>5, <3>2, <3>3, <3>4 DEF ActivityInv, Undisturbed
  <2>. QED BY <1>1, <2>6, <2>7 DEF InitActivity
<1>2. ASSUME ActivityInv, NextActivity PROVE ActivityInv'
  BY <1>2, HappensKeeps, disconnectKeeps, validateKeeps, connectKeeps, syncKeeps,
     StoreEventsKeeps, AskSiteKeeps, InsertKeeps, refreshKeeps, FinishSyncKeeps, SyncFailsKeeps
     DEF NextActivity
<1>3. ASSUME ActivityInv, UNCHANGED activityVars PROVE ActivityInv'
  <2>1. lastPublished' = lastPublished /\ UnderWay' = UnderWay
    BY <1>3, SameLastPublished DEF activityVars, UnderWay
  <2>. QED BY <1>3, <2>1 DEF activityVars, ActivityInv, ActivityTypeOK, Undisturbed, StretchInv,
                             AloneInv, RowInv, SyncInv, UpTo
<1>. QED BY <1>1, <1>2, <1>3

(* No activity is counted for two publishes, wherever connections come and go,
   unless two syncs were under way at once or one stopped between its set and
   its row (collector-worker/webflow.ts). *)
THEOREM ActivitiesCountedOnce == SpecActivity => []CountedOnce
<1>1. ActivityInv => CountedOnce
  <2>1. SUFFICES ASSUME ActivityInv, ~disturbed, NEW i \in DOMAIN publishSets,
                        NEW j \in DOMAIN publishSets, i < j
                 PROVE  publishSets[i].members \cap publishSets[j].members = {}
    <3>2. ASSUME ActivityInv, NEW i \in DOMAIN publishSets, NEW j \in DOMAIN publishSets, i # j
          PROVE  i < j \/ j < i
      BY <3>2 DEF ActivityInv, ActivityTypeOK
    <3>. QED BY <3>2 DEF CountedOnce
  <2>2. \A k \in publishSets[i].members, m \in publishSets[j].members : k < m
    BY <2>1 DEF ActivityInv, ActivityTypeOK, Undisturbed, StretchInv
  <2>3. \A k \in publishSets[j].members : ~(k < k)
    BY <2>1 DEF ActivityInv, ActivityTypeOK
  <2>. QED BY <2>2, <2>3
<1>. QED BY <1>1, ActivityInductive, PTL DEF SpecActivity

-----------------------------------------------------------------------------
(* The audits of Ora *)

(* What a refresh is about to summarise has its report. *)
Reported(r) == refreshes[r].step = "batch" => refreshes[r].held.scan \in reports

OraInv ==
        /\ OraTypeOK
        /\ \A r \in Refreshes : Reported(r)
        /\ ReportBehindSummary
        /\ StatusHasItsReading

-----------------------------------------------------------------------------
LEMMA ReadingShapes ==
  ASSUME NEW x \in Reading \cup {NoReading}
  PROVE  /\ x.scan \in 0..MaxScans /\ x.complete \in BOOLEAN
         /\ x \in Reading => x.scan \in Scans
         /\ x # NoReading => x \in Reading
         /\ x.complete = TRUE => x \in Reading
         /\ x.scan > 0 => x \in Reading
<1>1. CASE x \in Reading
  <2>1. x.scan \in 1..MaxScans /\ x.complete \in BOOLEAN
    BY <1>1 DEF Reading, Scans
  <2>2. x.scan \in 0..MaxScans
    BY <2>1, OraAssumption
  <2>. QED BY <1>1, <2>1, <2>2 DEF Scans
<1>2. CASE x = NoReading
  <2>1. x.scan = 0 /\ x.complete = FALSE
    BY <1>2 DEF NoReading
  <2>2. 0 \in 0..MaxScans /\ ~(0 > 0)
    BY OraAssumption
  <2>3. x \notin Reading
    <3>. SUFFICES 0 \notin Scans
      BY <2>1 DEF Reading
    <3>. QED BY OraAssumption DEF Scans
  <2>. QED BY <1>2, <2>1, <2>2, <2>3
<1>. QED BY <1>1, <1>2

LEMMA Shapes ==
  ASSUME NEW x \in Refresh
  PROVE  /\ x.step = "ask" => x.force \in BOOLEAN
         /\ x.step = "scan" => x.held \in Reading \cup {NoReading}
         /\ x.step \in {"poll", "report", "batch"} => x.held \in Reading
         /\ x.step = "failed" => x.failure \in Availability /\ x.cooldown \in BOOLEAN
<1>1. CASE x = Idle
  BY <1>1 DEF Idle
<1>2. CASE x \in [step : {"ask"}, force : BOOLEAN]
  BY <1>2
<1>3. CASE x \in [step : {"scan"}, held : Reading \cup {NoReading}]
  BY <1>3
<1>4. CASE x \in [step : {"poll", "report", "batch"}, held : Reading]
  BY <1>4
<1>5. CASE x \in [step : {"failed"}, failure : Availability, cooldown : BOOLEAN]
  BY <1>5
<1>. QED BY <1>1, <1>2, <1>3, <1>4, <1>5 DEF Refresh

LEMMA Made ==
  /\ Idle \in Refresh /\ Idle.step = "idle"
  /\ \A force \in BOOLEAN : [step |-> "ask", force |-> force] \in Refresh
  /\ \A held \in Reading \cup {NoReading} : [step |-> "scan", held |-> held] \in Refresh
  /\ \A step \in {"poll", "report", "batch"}, held \in Reading :
        [step |-> step, held |-> held] \in Refresh
  /\ \A failure \in Availability, cooldown \in BOOLEAN :
        [step |-> "failed", failure |-> failure, cooldown |-> cooldown] \in Refresh
  BY DEF Refresh, Idle

(* A step of one refresh that leaves what is stored alone. *)
LEMMA OneStep ==
  ASSUME OraInv, NEW r \in Refreshes, NEW x \in Refresh, x.step # "batch",
         refreshes' = [refreshes EXCEPT ![r] = x],
         provider' \in Reading \cup {NoReading},
         UNCHANGED <<consented, status, snapshots, reports>>
  PROVE  OraInv'
<1>1. OraTypeOK'
  BY DEF OraInv, OraTypeOK
<1>2. ASSUME NEW q \in Refreshes PROVE Reported(q)'
  BY DEF OraInv, OraTypeOK, Reported
<1>3. ReportBehindSummary' /\ StatusHasItsReading'
  BY DEF OraInv, ReportBehindSummary, StatusHasItsReading
<1>. QED BY <1>1, <1>2, <1>3 DEF OraInv

LEMMA StepsKeep ==
  ASSUME OraInv, NEW r \in Refreshes,
         \/ \E force \in BOOLEAN : refreshExternalAgentAudits(r, force)
         \/ getCachedOraAudit(r)
         \/ scanOraOrigin(r)
         \/ \E failure \in {"rate-limited", "unavailable"},
               cooldown \in BOOLEAN : ScanFails(r, failure, cooldown)
         \/ Poll(r)
         \/ Throws(r)
         \/ DieMidway(r)
  PROVE  OraInv'
<1>1. /\ refreshes \in [Refreshes -> Refresh] /\ refreshes[r] \in Refresh
      /\ provider \in Reading \cup {NoReading}
  BY DEF OraInv, OraTypeOK
<1>2. ASSUME NEW force \in BOOLEAN, refreshExternalAgentAudits(r, force) PROVE OraInv'
  <2>. DEFINE x == [step |-> "ask", force |-> force]
  <2>1. x \in Refresh /\ x.step # "batch"
    BY Made
  <2>. HIDE DEF x
  <2>2. /\ refreshes' = [refreshes EXCEPT ![r] = x]
        /\ UNCHANGED <<consented, provider, status, snapshots, reports>>
    BY <1>2 DEF refreshExternalAgentAudits, x
  <2>. QED BY <1>1, <2>1, <2>2, OneStep
(* A held reading moves on to be reported, polled or replaced. *)
<1>3. ASSUME NEW step \in {"scan", "poll", "report"}, NEW held \in Reading \cup {NoReading},
             step # "scan" => held \in Reading, Goes(r, step, held),
             provider' \in Reading \cup {NoReading},
             UNCHANGED <<consented, status, snapshots, reports>>
      PROVE  OraInv'
  <2>. DEFINE x == [step |-> step, held |-> held]
  <2>1. x \in Refresh /\ x.step # "batch"
    BY <1>3, Made
  <2>. HIDE DEF x
  <2>2. refreshes' = [refreshes EXCEPT ![r] = x]
    BY <1>3 DEF Goes, x
  <2>. QED BY <1>3, <2>1, <2>2, OneStep
<1>4. ASSUME NEW failure \in Availability, NEW cooldown \in BOOLEAN,
             Fails(r, failure, cooldown),
             UNCHANGED <<consented, provider, status, snapshots, reports>>
      PROVE  OraInv'
  <2>. DEFINE x == [step |-> "failed", failure |-> failure, cooldown |-> cooldown]
  <2>1. x \in Refresh /\ x.step # "batch"
    BY Made
  <2>. HIDE DEF x
  <2>2. refreshes' = [refreshes EXCEPT ![r] = x]
    BY <1>4 DEF Fails, x
  <2>. QED BY <1>1, <1>4, <2>1, <2>2, OneStep
<1>5. ASSUME getCachedOraAudit(r) PROVE OraInv'
  <2>1. PICK cached \in {provider, NoReading} :
          \/ cached.complete /\ Goes(r, "report", cached)
          \/ Goes(r, "scan", cached)
    BY <1>5 DEF getCachedOraAudit
  <2>2. cached \in Reading \cup {NoReading}
    BY <1>1
  <2>3. cached.complete => cached \in Reading
    BY <2>2, ReadingShapes
  <2>. QED BY <1>1, <1>3, <1>5, <2>1, <2>2, <2>3 DEF getCachedOraAudit
<1>6. ASSUME scanOraOrigin(r) PROVE OraInv'
  <2>1. PICK held : /\ held \in Reading
                    /\ provider' \in Reading \cup {NoReading}
                    /\ Goes(r, "report", held) \/ Goes(r, "poll", held)
    <3>1. ASSUME provider.scan < MaxScans, NEW complete \in BOOLEAN,
                 provider' = [scan |-> provider.scan + 1, complete |-> complete],
                 Goes(r, IF complete THEN "report" ELSE "poll", provider')
          PROVE  \E held : /\ held \in Reading
                           /\ provider' \in Reading \cup {NoReading}
                           /\ Goes(r, "report", held) \/ Goes(r, "poll", held)
      <4>1. provider.scan \in 0..MaxScans
        BY <1>1, ReadingShapes
      <4>2. provider.scan + 1 \in Scans
        BY <3>1, <4>1, OraAssumption DEF Scans
      <4>3. provider' \in Reading
        BY <3>1, <4>2 DEF Reading
      <4>. QED BY <3>1, <4>3
    <3>2. ASSUME provider.scan > 0,
                 Goes(r, IF provider.complete THEN "report" ELSE "poll", provider),
                 UNCHANGED provider
          PROVE  \E held : /\ held \in Reading
                           /\ provider' \in Reading \cup {NoReading}
                           /\ Goes(r, "report", held) \/ Goes(r, "poll", held)
      <4>1. provider \in Reading
        BY <1>1, <3>2, ReadingShapes
      <4>. QED BY <1>1, <3>2, <4>1
    <3>. QED BY <1>6, <3>1, <3>2 DEF scanOraOrigin
  <2>. QED BY <1>3, <1>6, <2>1 DEF scanOraOrigin
<1>7. ASSUME NEW failure \in {"rate-limited", "unavailable"}, NEW cooldown \in BOOLEAN,
             ScanFails(r, failure, cooldown)
      PROVE  OraInv'
  <2>1. failure \in Availability
    BY DEF Availability
  <2>2. refreshes[r].held # NoReading => refreshes[r].held \in Reading
    BY <1>1, <1>7, Shapes DEF ScanFails
  <2>. QED BY <1>1, <1>3, <1>4, <1>7, <2>1, <2>2 DEF ScanFails
<1>8. ASSUME Poll(r) PROVE OraInv'
  <2>1. refreshes[r].held \in Reading
    BY <1>1, <1>8, Shapes DEF Poll
  <2>2. provider.complete => provider \in Reading
    BY <1>1, ReadingShapes
  <2>. QED BY <1>1, <1>3, <1>8, <2>1, <2>2 DEF Poll
<1>9. ASSUME Throws(r) PROVE OraInv'
  <2>1. "unavailable" \in Availability
    BY DEF Availability
  <2>. QED BY <1>4, <1>9, <2>1 DEF Throws
<1>10. ASSUME DieMidway(r) PROVE OraInv'
  <2>1. Idle \in Refresh /\ Idle.step # "batch"
    BY Made
  <2>. HIDE DEF Idle
  <2>. QED BY <1>1, <1>10, <2>1, OneStep DEF DieMidway
<1>. QED BY <1>2, <1>5, <1>6, <1>7, <1>8, <1>9, <1>10

-----------------------------------------------------------------------------
LEMMA OraInitially == InitOra => OraInv
<1>. SUFFICES ASSUME InitOra PROVE OraInv
  OBVIOUS
<1>1. status \in Status /\ status.latest = 0
  <2>1. 0 \in 0..MaxScans
    BY OraAssumption
  <2>. QED BY <2>1 DEF InitOra, Status, Availability
<1>2. refreshes \in [Refreshes -> Refresh] /\ \A r \in Refreshes : refreshes[r].step # "batch"
  BY Made DEF InitOra
<1>3. OraTypeOK
  BY <1>1, <1>2 DEF InitOra, OraTypeOK
<1>. QED BY <1>1, <1>2, <1>3 DEF OraInv, InitOra, Reported, ReportBehindSummary, StatusHasItsReading

(* A set of readings that is not empty has a newest one. *)
LEMMA HasNewest ==
  ASSUME NEW S \in SUBSET Scans, S # {}
  PROVE  \E n \in S : \A m \in S : m <= n
<1>. DEFINE T == {MaxScans - n : n \in S}
<1>1. S \subseteq Nat /\ MaxScans \in Nat /\ \A n \in S : n <= MaxScans
  BY OraAssumption DEF Scans
<1>2. T \subseteq Nat /\ T # {}
  <2>1. \A n \in S : MaxScans - n \in Nat
    <3>. TAKE n \in S
    <3>1. n \in Nat /\ n <= MaxScans
      BY <1>1
    <3>. QED BY <1>1, <3>1
  <2>. QED BY <2>1
<1>. HIDE DEF T
<1>3. PICK x \in T : \A y \in T : ~ (<<y, x>> \in OpToRel(<, Nat))
  BY <1>2, NatLessThanWellFounded, WFMin
<1>4. \A y \in T : ~ (y < x)
  BY <1>2, <1>3 DEF OpToRel
<1>5. PICK n \in S : x = MaxScans - n
  BY DEF T
<1>6. \A m \in S : MaxScans - m \in T
  BY DEF T
<1>. QED BY <1>1, <1>4, <1>5, <1>6

LEMMA NewestIs ==
  ASSUME NEW S \in SUBSET Scans, S # {}
  PROVE  NewestOf(S) \in S /\ \A m \in S : m <= NewestOf(S)
  BY HasNewest DEF NewestOf

(* The retention pass keeps the newest reading; what it drops is older than
   everything it keeps. *)
LEMMA Retained ==
  ASSUME NEW S \in SUBSET Scans, S # {}
  PROVE  /\ retained(S) \subseteq S
         /\ NewestOf(S) \in retained(S)
         /\ \A n \in S, k \in retained(S) : n \notin retained(S) => n < k
<1>1. S \subseteq Nat /\ Retention \in Nat \ {0}
  BY OraAssumption DEF Scans
<1>2. retained(S) \subseteq S
  BY DEF retained
<1>3. NewestOf(S) \in retained(S)
  <2>1. {m \in S : m > NewestOf(S)} = {}
    <3>. SUFFICES ASSUME NEW m \in S, m > NewestOf(S) PROVE FALSE
      OBVIOUS
    <3>1. m \in Nat /\ NewestOf(S) \in Nat /\ m <= NewestOf(S)
      BY <1>1, NewestIs
    <3>. QED BY <3>1
  <2>2. Cardinality({m \in S : m > NewestOf(S)}) = 0
    BY <2>1, FS_EmptySet
  <2>. QED BY <1>1, <2>2, NewestIs DEF retained
<1>4. ASSUME NEW n \in S, NEW k \in retained(S), n \notin retained(S)
      PROVE  n < k
  <2>0. n \in Nat /\ k \in Nat /\ k \in S
    BY <1>1, <1>2
  <2>. SUFFICES ASSUME k <= n PROVE FALSE
    BY <2>0
  <2>. DEFINE A == {m \in S : m > n}
              B == {m \in S : m > k}
  <2>1. A \subseteq B
    <3>. SUFFICES ASSUME NEW m \in S, m > n PROVE m > k
      OBVIOUS
    <3>1. m \in Nat
      BY <1>1
    <3>. QED BY <2>0, <3>1
  <2>2. IsFiniteSet(S)
    <3>1. IsFiniteSet(1..MaxScans)
      BY OraAssumption, FS_Interval
    <3>. QED BY <3>1, FS_Subset DEF Scans
  <2>3. IsFiniteSet(B)
    BY <2>2, FS_Subset
  <2>4. Cardinality(A) \in Nat /\ Cardinality(B) \in Nat /\ Cardinality(A) <= Cardinality(B)
    BY <2>1, <2>3, FS_Subset, FS_CardinalityType
  <2>5. Cardinality(B) < Retention /\ ~(Cardinality(A) < Retention)
    BY <1>2, <1>4 DEF retained
  <2>. HIDE DEF A, B
  <2>. QED BY <1>1, <2>4, <2>5
<1>. QED BY <1>2, <1>3, <1>4

LEMMA ReportKeeps ==
  ASSUME OraInv, NEW r \in Refreshes, PutReport(r)
  PROVE  OraInv'
<1>. DEFINE held == refreshes[r].held
            x == [step |-> "batch", held |-> held]
<1>1. refreshes \in [Refreshes -> Refresh] /\ refreshes[r] \in Refresh
  BY DEF OraInv, OraTypeOK
<1>2. held \in Reading /\ held.scan \in Scans
  <2>1. held \in Reading
    BY <1>1, Shapes DEF PutReport
  <2>. QED BY <2>1, ReadingShapes
<1>3. x \in Refresh /\ x.held.scan = held.scan
  BY <1>2, Made
<1>4. /\ refreshes' = [refreshes EXCEPT ![r] = x]
      /\ reports' = reports \cup {held.scan}
      /\ UNCHANGED <<consented, provider, status, snapshots>>
  BY DEF PutReport, Goes
<1>. HIDE DEF x
<1>5. refreshes'[r] = x /\ \A q \in Refreshes : q # r => refreshes'[q] = refreshes[q]
  BY <1>1, <1>4
<1>6. OraTypeOK'
  BY <1>2, <1>3, <1>4 DEF OraInv, OraTypeOK
<1>7. ASSUME NEW q \in Refreshes PROVE Reported(q)'
  <2>1. CASE q = r
    BY <1>3, <1>4, <1>5, <2>1 DEF Reported
  <2>2. CASE q # r
    BY <1>4, <1>5, <2>2 DEF OraInv, Reported
  <2>. QED BY <2>1, <2>2
<1>8. ReportBehindSummary' /\ StatusHasItsReading'
  BY <1>4 DEF OraInv, ReportBehindSummary, StatusHasItsReading
<1>. QED BY <1>6, <1>7, <1>8 DEF OraInv

(* The batch, and what it does to the newest reading. *)
LEMMA BatchKeeps ==
  ASSUME OraInv, NEW r \in Refreshes, PersistBatch(r)
  PROVE  OraInv' /\ (snapshots # {} =>
                     snapshots' # {} /\ NewestOf(snapshots) <= NewestOf(snapshots'))
<1>. DEFINE held == refreshes[r].held
            S == snapshots \cup {held.scan}
<1>1. /\ refreshes \in [Refreshes -> Refresh] /\ refreshes[r] \in Refresh
      /\ snapshots \in SUBSET Scans /\ reports \in SUBSET Scans
  BY DEF OraInv, OraTypeOK
<1>2. held \in Reading /\ held.scan \in Scans /\ held.scan \in 0..MaxScans
  <2>1. held \in Reading
    BY <1>1, Shapes DEF PersistBatch
  <2>. QED BY <2>1, ReadingShapes
<1>3. S \in SUBSET Scans /\ S # {} /\ snapshots' = retained(S)
  BY <1>1, <1>2 DEF PersistBatch
<1>4. /\ snapshots' \subseteq S /\ NewestOf(S) \in snapshots'
      /\ \A n \in S, k \in snapshots' : n \notin snapshots' => n < k
  BY <1>3, Retained
<1>5. held.scan \in reports
  BY DEF OraInv, Reported, PersistBatch
<1>6. /\ status' = [status |-> IF held.complete THEN "available" ELSE "pending",
                    latest |-> held.scan, cooling |-> FALSE,
                    recent |-> ~held.complete]
      /\ refreshes' = [refreshes EXCEPT ![r] = Idle]
      /\ UNCHANGED <<consented, provider, reports>>
  BY DEF PersistBatch
<1>7. status' \in Status /\ status'.latest = held.scan
  <2>1. held.complete \in BOOLEAN
    BY <1>2, ReadingShapes
  <2>. HIDE DEF held
  <2>. QED BY <1>2, <1>6, <2>1 DEF Status, Availability
<1>8. /\ refreshes' \in [Refreshes -> Refresh]
      /\ \A q \in Refreshes : refreshes'[q].step = "batch" => refreshes'[q] = refreshes[q]
  <2>1. Idle \in Refresh /\ Idle.step = "idle"
    BY Made
  <2>. HIDE DEF Idle
  <2>. QED BY <1>1, <1>6, <2>1
<1>9. OraTypeOK'
  BY <1>3, <1>4, <1>6, <1>7, <1>8 DEF OraInv, OraTypeOK
<1>10. ASSUME NEW q \in Refreshes PROVE Reported(q)'
  BY <1>6, <1>8 DEF OraInv, Reported
<1>11. ReportBehindSummary'
  BY <1>4, <1>5, <1>6 DEF OraInv, ReportBehindSummary
<1>12. StatusHasItsReading'
  BY <1>4, <1>7 DEF StatusHasItsReading
<1>13. ASSUME snapshots # {}
       PROVE  snapshots' # {} /\ NewestOf(snapshots) <= NewestOf(snapshots')
  <2>1. NewestOf(snapshots) \in S
    BY <1>1, <1>13, NewestIs
  <2>2. NewestOf(snapshots) <= NewestOf(S) /\ NewestOf(S) \in S
    BY <1>3, <2>1, NewestIs
  <2>3. snapshots' \in SUBSET Scans /\ snapshots' # {}
    BY <1>3, <1>4
  <2>4. NewestOf(S) <= NewestOf(snapshots') /\ NewestOf(snapshots') \in Scans
    <3>. DEFINE R == snapshots'
    <3>. HIDE DEF R
    <3>1. R \in SUBSET Scans /\ R # {} /\ NewestOf(S) \in R
      BY <1>4, <2>3 DEF R
    <3>2. NewestOf(S) <= NewestOf(R) /\ NewestOf(R) \in R
      BY <3>1, NewestIs
    <3>3. NewestOf(R) = NewestOf(snapshots')
      BY DEF R
    <3>. QED BY <3>1, <3>2, <3>3
  <2>5. /\ NewestOf(snapshots) \in Nat /\ NewestOf(S) \in Nat
        /\ NewestOf(snapshots') \in Nat
    BY <1>3, <2>1, <2>2, <2>4 DEF Scans
  <2>. QED BY <2>2, <2>3, <2>4, <2>5
<1>. QED BY <1>9, <1>10, <1>11, <1>12, <1>13 DEF OraInv

LEMMA FailureKeeps ==
  ASSUME OraInv, NEW r \in Refreshes, RecordFailure(r)
  PROVE  OraInv'
<1>1. /\ refreshes \in [Refreshes -> Refresh] /\ refreshes[r] \in Refresh
      /\ status \in Status
  BY DEF OraInv, OraTypeOK
<1>2. refreshes[r].failure \in Availability /\ refreshes[r].cooldown \in BOOLEAN
  BY <1>1, Shapes DEF RecordFailure
<1>3. status' \in Status /\ status'.latest = status.latest
  BY <1>1, <1>2 DEF RecordFailure, Status
<1>4. /\ refreshes' \in [Refreshes -> Refresh]
      /\ \A q \in Refreshes : refreshes'[q].step = "batch" => refreshes'[q] = refreshes[q]
  <2>1. Idle \in Refresh /\ Idle.step = "idle"
    BY Made
  <2>. HIDE DEF Idle
  <2>. QED BY <1>1, <2>1 DEF RecordFailure
<1>5. UNCHANGED <<consented, provider, snapshots, reports>>
  BY DEF RecordFailure
<1>6. OraTypeOK'
  BY <1>3, <1>4, <1>5 DEF OraInv, OraTypeOK
<1>7. ASSUME NEW q \in Refreshes PROVE Reported(q)'
  BY <1>4, <1>5 DEF OraInv, Reported
<1>8. ReportBehindSummary' /\ StatusHasItsReading'
  BY <1>3, <1>5 DEF OraInv, ReportBehindSummary, StatusHasItsReading
<1>. QED BY <1>6, <1>7, <1>8 DEF OraInv

LEMMA SurroundingsKeep ==
  ASSUME OraInv,
         SetConsent \/ TimePasses \/ ProviderCompletes \/ UNCHANGED oraVars
  PROVE  OraInv' /\ UNCHANGED snapshots
<1>1. UNCHANGED <<snapshots, reports, refreshes>>
  BY DEF SetConsent, TimePasses, ProviderCompletes, oraVars
<1>2. status' \in Status /\ status'.latest = status.latest
  BY DEF OraInv, OraTypeOK, Status, SetConsent, TimePasses, ProviderCompletes, oraVars
<1>3. provider' \in Reading \cup {NoReading}
  <2>1. provider \in Reading \cup {NoReading}
    BY DEF OraInv, OraTypeOK
  <2>2. ASSUME ProviderCompletes PROVE provider' \in Reading
    <3>1. provider \in Reading
      BY <2>1, <2>2, ReadingShapes DEF ProviderCompletes
    <3>. QED BY <2>2, <3>1 DEF ProviderCompletes, Reading
  <2>. QED BY <2>1, <2>2 DEF SetConsent, TimePasses, oraVars
<1>4. consented' \in BOOLEAN
  BY DEF OraInv, OraTypeOK, SetConsent, TimePasses, ProviderCompletes, oraVars
<1>5. OraTypeOK'
  BY <1>1, <1>2, <1>3, <1>4 DEF OraInv, OraTypeOK
<1>6. ASSUME NEW q \in Refreshes PROVE Reported(q)'
  BY <1>1 DEF OraInv, Reported
<1>7. ReportBehindSummary' /\ StatusHasItsReading'
  BY <1>1, <1>2 DEF OraInv, ReportBehindSummary, StatusHasItsReading
<1>. QED BY <1>1, <1>5, <1>6, <1>7 DEF OraInv

-----------------------------------------------------------------------------
LEMMA OraKept == OraInv /\ [NextOra]_oraVars => OraInv'
<1>. SUFFICES ASSUME OraInv, [NextOra]_oraVars PROVE OraInv'
  OBVIOUS
<1>1. CASE SetConsent \/ TimePasses \/ ProviderCompletes \/ UNCHANGED oraVars
  BY <1>1, SurroundingsKeep
<1>2. ASSUME NEW r \in Refreshes,
             \/ \E force \in BOOLEAN : refreshExternalAgentAudits(r, force)
             \/ getCachedOraAudit(r)
             \/ scanOraOrigin(r)
             \/ \E failure \in {"rate-limited", "unavailable"},
                   cooldown \in BOOLEAN : ScanFails(r, failure, cooldown)
             \/ Poll(r)
             \/ Throws(r)
             \/ DieMidway(r)
      PROVE  OraInv'
  BY <1>2, StepsKeep
<1>3. ASSUME NEW r \in Refreshes, PutReport(r) \/ PersistBatch(r) \/ RecordFailure(r)
      PROVE  OraInv'
  BY <1>3, ReportKeeps, BatchKeeps, FailureKeeps
<1>. QED BY <1>1, <1>2, <1>3 DEF NextOra

LEMMA OraAlways == SpecOra => []OraInv
  BY OraInitially, OraKept, PTL DEF SpecOra

(* What a refresh holds fits the step it is at, whatever the provider
   answers. *)
THEOREM OraTyped == SpecOra => []OraTypeOK
<1>1. OraInv => OraTypeOK
  BY DEF OraInv
<1>. QED BY <1>1, OraAlways, PTL

(* The report is put before the batch (persistExternalAgentAudit), so no
   summary is without one, for any number of refreshes that die anywhere. *)
THEOREM ReportsAreThere == SpecOra => []ReportBehindSummary
<1>1. OraInv => ReportBehindSummary
  BY DEF OraInv
<1>. QED BY <1>1, OraAlways, PTL

(* The status names a reading that is stored, or one the retention pass
   dropped for newer ones. *)
THEOREM StatusIsBehind == SpecOra => []StatusHasItsReading
<1>1. OraInv => StatusHasItsReading
  BY DEF OraInv
<1>. QED BY <1>1, OraAlways, PTL

(* The newest stored reading never gets older: no failure and no late answer
   takes it away, for every retention of at least one. *)
THEOREM NewestStays == SpecOra => NewestReadingStays
<1>1. ASSUME OraInv, [NextOra]_oraVars
      PROVE  [snapshots # {} =>
                 /\ snapshots' # {}
                 /\ NewestOf(snapshots) <= NewestOf(snapshots')]_oraVars
  <2>1. CASE UNCHANGED oraVars
    BY <2>1
  <2>2. ASSUME NEW r \in Refreshes, PersistBatch(r)
        PROVE  snapshots # {} => snapshots' # {} /\ NewestOf(snapshots) <= NewestOf(snapshots')
    BY <1>1, <2>2, BatchKeeps
  <2>3. CASE UNCHANGED snapshots
    <3>1. ASSUME snapshots # {} PROVE NewestOf(snapshots) <= NewestOf(snapshots')
      <4>1. snapshots \in SUBSET Scans
        BY <1>1 DEF OraInv, OraTypeOK
      <4>2. NewestOf(snapshots) \in Scans
        BY <3>1, <4>1, NewestIs
      <4>3. NewestOf(snapshots') = NewestOf(snapshots)
        BY <2>3
      <4>4. NewestOf(snapshots) \in Nat
        BY <4>2 DEF Scans
      <4>. QED BY <4>3, <4>4
    <3>. QED BY <2>3, <3>1
  <2>4. \/ UNCHANGED oraVars
        \/ \E r \in Refreshes : PersistBatch(r)
        \/ UNCHANGED snapshots
    BY <1>1 DEF NextOra, SetConsent, TimePasses, ProviderCompletes,
       refreshExternalAgentAudits, getCachedOraAudit, scanOraOrigin, ScanFails,
       Poll, PutReport, RecordFailure, Throws, DieMidway
  <2>. QED BY <2>1, <2>2, <2>3, <2>4
<1>2. SpecOra => [][NextOra]_oraVars
  BY PTL DEF SpecOra
<1>. QED BY <1>1, <1>2, OraAlways, PTL DEF NewestReadingStays

-----------------------------------------------------------------------------
(* AgentVerification: all that is needed of a state is which checks there are;
   the rest follows from the step that judges. *)
VerificationInv ==
    /\ targets \subseteq Checks
    /\ verification = [status |-> verification.status, results |-> verification.results]

(* An answer that determines as many checks as there are targets, and none of
   them failed, passes every target. *)
LEMMA ResolvedPassesAll ==
  ASSUME VerificationInv, NEW answer \in Answers, verdict(answer) = "resolved"
  PROVE  \A c \in targets : /\ c \in DOMAIN relevant(answer)
                            /\ relevant(answer)[c] = "passed"
<1>1. /\ unresolved(answer) = {} /\ determined(answer) # {}
      /\ Cardinality(determined(answer)) = Cardinality(targets)
  BY Zenon DEF verdict
<1>2. determined(answer) \subseteq targets
  BY DEF determined, relevant
<1>3. IsFiniteSet(targets)
  BY VerificationAssumption, FS_Subset DEF VerificationInv
<1>4. determined(answer) = targets
  BY <1>1, <1>2, <1>3, FS_Subset
<1>5. PICK S \in SUBSET Checks : answer \in [S -> Results]
  BY DEF Answers
<1>6. ASSUME NEW c \in targets PROVE /\ c \in DOMAIN relevant(answer)
                                     /\ relevant(answer)[c] = "passed"
  <2>1. c \in DOMAIN relevant(answer) /\ answer[c] # "unavailable" /\ c \in DOMAIN answer
    BY <1>4 DEF determined, relevant
  <2>2. answer[c] # "failed"
    BY <1>1, <1>4 DEF unresolved
  <2>3. answer[c] = "passed"
    BY <1>5, <2>1, <2>2 DEF Results
  <2>. QED BY <2>1, <2>3 DEF relevant
<1>. QED BY <1>6

(* What a step of a verification may not do. *)
Follows ==
    /\ verification.status # "resolved" /\ verification'.status = "resolved"
          => \A c \in targets' : /\ c \in DOMAIN verification'.results
                                 /\ verification'.results[c] = "passed"
    /\ verification'.status = "returned" /\ verification # verification'
          => taskStatus' # "done"

LEMMA AnswerFollows ==
  ASSUME VerificationInv, NEW v \in Verifiers, NEW answer \in Answers,
         applyAgentVerificationResults(v, answer)
  PROVE  VerificationInv' /\ Follows
<1>1. /\ verification' = [status |-> verdict(answer), results |-> relevant(answer)]
      /\ targets' = targets
      /\ taskStatus' = IF verdict(answer) = "returned" /\ taskStatus = "done"
                        THEN "in-progress" ELSE taskStatus
  BY DEF applyAgentVerificationResults
<1>2. VerificationInv'
  BY <1>1 DEF VerificationInv
<1>3. verification'.status = "resolved"
          => \A c \in targets' : /\ c \in DOMAIN verification'.results
                                 /\ verification'.results[c] = "passed"
  BY <1>1, ResolvedPassesAll
<1>4. verification'.status = "returned" => taskStatus' # "done"
  BY <1>1
<1>. QED BY <1>2, <1>3, <1>4 DEF Follows

LEMMA VerificationStep ==
  ASSUME VerificationInv, [NextVerification]_verificationVars
  PROVE  VerificationInv' /\ Follows
<1>1. CASE reconcileAgentIssueRecs
  BY <1>1 DEF reconcileAgentIssueRecs, VerificationInv, Follows
<1>2. ASSUME NEW to, MoveTask(to) PROVE VerificationInv' /\ Follows
  BY <1>2 DEF MoveTask, VerificationInv, Follows
<1>3. ASSUME NEW v \in Verifiers,
             \/ verifyAgentIssueTask(v) \/ recordAgentVerificationFailure(v)
             \/ AbandonVerification(v)
      PROVE  VerificationInv' /\ Follows
  <2>1. /\ targets' = targets
        /\ verification' \in {verification, [verification EXCEPT !.status = "verifying"]}
    BY <1>3 DEF verifyAgentIssueTask, recordAgentVerificationFailure, AbandonVerification
  <2>. QED BY <2>1 DEF VerificationInv, Follows
<1>4. CASE UNCHANGED verificationVars
  BY <1>4 DEF verificationVars, VerificationInv, Follows
<1>. QED BY <1>1, <1>2, <1>3, <1>4, AnswerFollows DEF NextVerification

(* A verification turns resolved only by an answer that passes every check the
   task expects at that moment, and a failed check never leaves the task done -
   for every set of checks and however many calls answer in whatever order. *)
THEOREM VerdictsFollow == SpecVerification => VerdictFollowsTheAnswers
<1>1. InitVerification => VerificationInv
  BY DEF InitVerification, VerificationInv
<1>2. VerificationInv /\ [NextVerification]_verificationVars => VerificationInv' /\ Follows
  BY VerificationStep
<1>3. SpecVerification => [][Follows]_verificationVars
  BY <1>1, <1>2, PTL DEF SpecVerification
<1>4. VerdictFollowsTheAnswers <=> [][Follows]_verificationVars
  BY DEF VerdictFollowsTheAnswers, Follows
<1>. QED BY <1>3, <1>4
==============================================================================
