----------------------------- MODULE OraAudits -----------------------------
(* The external audit of one origin (collector-worker/oraRefresh.ts, ora.ts and
   oraClient.ts).  Several refreshes may be under way: each reads what is
   stored, asks the provider for the reading it holds, has it scan again when
   that one is too old, and stores the answer - the raw report first, then the
   summary, the status and the retention pass in one batch.

   A reading is the number of the scan it comes from: scannedAt. *)
EXTENDS FiniteSets, Naturals

CONSTANTS Refreshes,  \* concurrent refreshes of the origin
          MaxScans,   \* bound on the scans the provider makes
          Retention   \* EXTERNAL_AGENT_AUDIT_RETENTION_SNAPSHOTS

ASSUME OraAssumption == MaxScans \in Nat /\ Retention \in Nat \ {0}

VARIABLES consented,  \* externalAgentAuditEnabled of a live project
          provider,   \* the newest scan the provider holds, and is it complete?
          status,     \* the row of agent_audit_status
          snapshots,  \* the readings in agent_audit_snapshots
          reports,    \* the raw reports in the bucket
          refreshes   \* the refreshes

oraVars == <<consented, provider, status, snapshots, reports, refreshes>>

Scans == 1..MaxScans
Reading == [scan : Scans, complete : BOOLEAN]
NoReading == [scan |-> 0, complete |-> FALSE]

Availability == {"none", "available", "pending", "rate-limited", "not-found",
                 "unavailable", "error"}

(* latest: latest_scanned_at; cooling: next_eligible_at lies ahead; recent: a
   pending attempt is younger than ORA_IN_FLIGHT_WINDOW_MS. *)
Status == [status : Availability, latest : 0..MaxScans, cooling : BOOLEAN,
           recent : BOOLEAN]

(* What a refresh is about to do, and what it holds for it: the cached reading
   a scan may fall back on, the reading to store, or the failure to record. *)
Idle == [step |-> "idle"]
Refresh ==
    {Idle} \cup [step : {"ask"}, force : BOOLEAN]
           \cup [step : {"scan"}, held : Reading \cup {NoReading}]
           \cup [step : {"poll", "report", "batch"}, held : Reading]
           \cup [step : {"failed"}, failure : Availability,
                 cooldown : BOOLEAN]

NewestOf(S) == CHOOSE n \in S : \A m \in S : m <= n

-----------------------------------------------------------------------------
InitOra ==
    /\ consented \in BOOLEAN
    /\ provider = NoReading
    /\ status = [status |-> "none", latest |-> 0, cooling |-> FALSE,
                 recent |-> FALSE]
    /\ snapshots = {}
    /\ reports = {}
    /\ refreshes = [r \in Refreshes |-> Idle]

SetConsent ==
    /\ consented' = ~consented
    /\ UNCHANGED <<provider, status, snapshots, reports, refreshes>>

(* Time: a cooldown ends, an attempt grows old. *)
TimePasses ==
    /\ status.cooling \/ status.recent
    /\ \E cooling \in {FALSE, status.cooling} :
          status' = [status EXCEPT !.cooling = cooling, !.recent = FALSE]
    /\ UNCHANGED <<consented, provider, snapshots, reports, refreshes>>

(* The provider's scan goes on by itself, and others may ask for one. *)
ProviderCompletes ==
    /\ provider.scan > 0 /\ ~provider.complete
    /\ provider' = [provider EXCEPT !.complete = TRUE]
    /\ UNCHANGED <<consented, status, snapshots, reports, refreshes>>

-----------------------------------------------------------------------------
(* The gate, and the deferral a stored status asks for. *)
deferralFor(force) == ~force /\ (status.cooling \/ status.recent)

refreshExternalAgentAudits(r, force) ==
    /\ refreshes[r] = Idle
    /\ consented
    /\ ~deferralFor(force)
    /\ refreshes' = [refreshes EXCEPT ![r] = [step |-> "ask", force |-> force]]
    /\ UNCHANGED <<consented, provider, status, snapshots, reports>>

Goes(r, step, held) ==
    refreshes' = [refreshes EXCEPT ![r] = [step |-> step, held |-> held]]

Fails(r, failure, cooldown) ==
    refreshes' = [refreshes EXCEPT ![r] =
        [step |-> "failed", failure |-> failure, cooldown |-> cooldown]]

(* getCachedOraAudit: the reading the provider holds, if it answers; one that
   is complete, young enough and not forced away is enough. *)
getCachedOraAudit(r) ==
    /\ refreshes[r].step = "ask"
    /\ \E cached \in {provider, NoReading} :
          \/ /\ cached.complete /\ ~refreshes[r].force
             /\ Goes(r, "report", cached)
          \/ Goes(r, "scan", cached)
    /\ UNCHANGED <<consented, provider, status, snapshots, reports>>

(* scanOraOrigin: a new scan, complete or not yet, or the one the provider
   still finds fresh. *)
scanOraOrigin(r) ==
    /\ refreshes[r].step = "scan"
    /\ \/ /\ provider.scan < MaxScans
          /\ \E complete \in BOOLEAN :
                /\ provider' = [scan |-> provider.scan + 1,
                                complete |-> complete]
                /\ Goes(r, IF complete THEN "report" ELSE "poll", provider')
       \/ /\ provider.scan > 0
          /\ Goes(r, IF provider.complete THEN "report" ELSE "poll", provider)
          /\ UNCHANGED provider
    /\ UNCHANGED <<consented, status, snapshots, reports>>

(* The scan is refused or fails: the reading the provider held stands in for
   it, without one the failure is recorded.  A cooldown comes only with the
   refusal of a rate limit. *)
ScanFails(r, failure, cooldown) ==
    /\ refreshes[r].step = "scan"
    /\ cooldown => failure = "rate-limited"
    /\ IF refreshes[r].held # NoReading
       THEN Goes(r, "report", refreshes[r].held)
       ELSE Fails(r, failure, cooldown)
    /\ UNCHANGED <<consented, provider, status, snapshots, reports>>

(* A poll brings the complete reading, or the polling budget or a failed poll
   ends it with the incomplete one. *)
Poll(r) ==
    /\ refreshes[r].step = "poll"
    /\ \/ /\ provider.scan = refreshes[r].held.scan /\ provider.complete
          /\ Goes(r, "report", provider)
       \/ Goes(r, "report", refreshes[r].held)
    /\ UNCHANGED <<consented, provider, status, snapshots, reports>>

MutPutReportLost(r) ==     \* the batch does not wait for the report
    /\ refreshes[r].step = "report"
    /\ Goes(r, "batch", refreshes[r].held)
    /\ UNCHANGED <<consented, provider, status, snapshots, reports>>

(* persistExternalAgentAudit: the report... *)
PutReport(r) ==
    /\ refreshes[r].step = "report"
    /\ reports' = reports \cup {refreshes[r].held.scan}
    /\ Goes(r, "batch", refreshes[r].held)
    /\ UNCHANGED <<consented, provider, status, snapshots>>

retained(S) ==
    {n \in S : Cardinality({m \in S : m > n}) < Retention}

PersistBatch(r) ==
    LET held == refreshes[r].held
    IN /\ refreshes[r].step = "batch"
       /\ snapshots' = retained(snapshots \cup {held.scan})
       /\ status' = [status |-> IF held.complete THEN "available"
                                ELSE "pending",
                     latest |-> held.scan, cooling |-> FALSE,
                     recent |-> ~held.complete]
       /\ refreshes' = [refreshes EXCEPT ![r] = Idle]
       /\ UNCHANGED <<consented, provider, reports>>

MutFailureForgets(r) ==     \* a failure takes the readings along
    /\ refreshes[r].step = "failed"
    /\ status' = [status EXCEPT !.status = refreshes[r].failure,
                     !.cooling = refreshes[r].cooldown, !.recent = FALSE]
    /\ snapshots' = {}
    /\ refreshes' = [refreshes EXCEPT ![r] = Idle]
    /\ UNCHANGED <<consented, provider, reports>>

(* recordExternalAgentAuditStatus: the failure is recorded and the last
   reading is left in place. *)
RecordFailure(r) ==
    /\ refreshes[r].step = "failed"
    /\ status' = [status EXCEPT !.status = refreshes[r].failure,
                     !.cooling = refreshes[r].cooldown, !.recent = FALSE]
    /\ refreshes' = [refreshes EXCEPT ![r] = Idle]
    /\ UNCHANGED <<consented, provider, snapshots, reports>>

(* A step throws, and its failure is recorded; or the worker dies. *)
Throws(r) ==
    /\ refreshes[r] # Idle /\ refreshes[r].step # "failed"
    /\ Fails(r, "unavailable", FALSE)
    /\ UNCHANGED <<consented, provider, status, snapshots, reports>>

DieMidway(r) ==
    /\ refreshes[r] # Idle
    /\ refreshes' = [refreshes EXCEPT ![r] = Idle]
    /\ UNCHANGED <<consented, provider, status, snapshots, reports>>

NextOra ==
    \/ SetConsent
    \/ TimePasses
    \/ ProviderCompletes
    \/ \E r \in Refreshes :
          \/ \E force \in BOOLEAN : refreshExternalAgentAudits(r, force)
          \/ getCachedOraAudit(r)
          \/ scanOraOrigin(r)
          \/ \E failure \in {"rate-limited", "unavailable"},
                cooldown \in BOOLEAN : ScanFails(r, failure, cooldown)
          \/ Poll(r)
          \/ PutReport(r)
          \/ PersistBatch(r)
          \/ RecordFailure(r)
          \/ Throws(r)
          \/ DieMidway(r)

SpecOra == InitOra /\ [][NextOra]_oraVars

-----------------------------------------------------------------------------
(* The shape of the state. *)
OraTypeOK ==
    /\ consented \in BOOLEAN
    /\ provider \in Reading \cup {NoReading}
    /\ status \in Status
    /\ snapshots \subseteq Scans
    /\ reports \subseteq Scans
    /\ refreshes \in [Refreshes -> Refresh]

(* No summary points at a report that is not there, wherever a refresh dies
   and whichever refreshes store the same reading. *)
ReportBehindSummary == snapshots \subseteq reports

(* What the status calls the latest reading is stored, or the retention pass
   dropped it for newer ones only: refreshes that finish out of order may put
   the status behind the readings, never ahead of them. *)
StatusHasItsReading ==
    status.latest # 0 =>
        \/ status.latest \in snapshots
        \/ snapshots # {} /\ \A n \in snapshots : status.latest < n

(* Neither a failure, nor an older answer that comes late, nor the retention
   pass takes away the newest reading. *)
NewestReadingStays ==
    [][snapshots # {} =>
          /\ snapshots' # {}
          /\ NewestOf(snapshots) <= NewestOf(snapshots')]_oraVars
=============================================================================
