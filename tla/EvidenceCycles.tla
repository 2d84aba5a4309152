--------------------------- MODULE EvidenceCycles ---------------------------
(* How the workflow of a page measures one device (collector-worker/index.ts,
   src/lib/psiCore.ts and src/lib/lighthouseEvidence.ts): cycles of paced
   PageSpeed requests, hours apart, until enough distinct measurements without
   warnings are in.  Every request is a step of the workflow: its report is put
   into the bucket before the step returns, and a step that fails after that
   leaves a report without a run.  PageSpeed may answer a request with a
   measurement it gave before. *)
EXTENDS FiniteSetsExt, Naturals, Places, SequencesExt

CONSTANTS Requested,       \* payload.runs                (5 in the code)
          MinimumRuns,     \* MINIMUM_TRUSTED_RUNS        (3 in the code)
          MaxCycles        \* EVIDENCE_RETRY_MAX_CYCLES   (8 in the code)

ASSUME EvidenceAssumption ==
    /\ Requested \in Nat \ {0} /\ MinimumRuns \in Nat \ {0}
    /\ MaxCycles \in Nat \ {0}

VARIABLES compactRuns, \* the answers so far: sample key, warned?
          staged,      \* attempt -> the sample its report in the bucket is of
          attempts,    \* requests so far
          cycle, slot, \* the loops
          summary,     \* what was aggregated last, or NoSummary
          outcome,     \* "measuring", "retained", "inconclusive", "failed"
          answered     \* history: the samples without warnings that came in

evidenceVars == <<compactRuns, staged, attempts, cycle, slot, summary, outcome,
                  answered>>

NoSummary == [raws |-> <<>>, runs |-> {}]

minimumTrustedRuns == Min({MinimumRuns, Requested})

(* The first run of every sample, and the place it has among the runs. *)
firstOf(runs) ==
    {i \in DOMAIN runs : \A j \in 1..(i - 1) : runs[j].key # runs[i].key}

eligible(runs) == {i \in firstOf(runs) : ~runs[i].warned}

reliable(runs) == Cardinality(eligible(runs)) >= minimumTrustedRuns

-----------------------------------------------------------------------------
InitEvidence ==
    /\ compactRuns = <<>>
    /\ staged = [a \in {} |-> 0]
    /\ attempts = 0
    /\ cycle = 1
    /\ slot = 1
    /\ summary = NoSummary
    /\ outcome = "measuring"
    /\ answered = {}

(* PageSpeed answers with a sample it gave before, or with the next one. *)
Seen == {staged[a] : a \in DOMAIN staged}
Samples == Seen \cup {Cardinality(Seen) + 1}

(* Another request of this cycle: as long as there is a slot and the runs are
   not reliable yet. *)
Requests ==
    /\ outcome = "measuring"
    /\ slot <= Requested
    /\ ~reliable(compactRuns)
    /\ attempts' = attempts + 1
    /\ UNCHANGED <<cycle, summary, outcome>>

Stages(key) == staged' = [a \in DOMAIN staged \cup {attempts'} |->
                             IF a = attempts' THEN key ELSE staged[a]]

(* Whether a sample carries warnings is part of the sample. *)
mayCarry(key, warned) ==
    \A i \in DOMAIN compactRuns : compactRuns[i].key = key => compactRuns[i].warned = warned

AttemptAnswers(key, warned) ==
    /\ Requests
    /\ mayCarry(key, warned)
    /\ Stages(key)
    /\ compactRuns' = Append(compactRuns, [key |-> key, warned |-> warned])
    /\ answered' = IF warned THEN answered ELSE answered \cup {key}
    /\ slot' = slot + 1

(* The step fails although the report is in the bucket. *)
AttemptIsLost(key) ==
    /\ Requests
    /\ Stages(key)
    /\ slot' = slot + 1
    /\ UNCHANGED <<compactRuns, answered>>

(* A transient failure uses up the slot, one of quota or target the cycle. *)
AttemptFails(kind) ==
    /\ Requests
    /\ slot' = IF kind = "transient" THEN slot + 1 ELSE Requested + 1
    /\ UNCHANGED <<compactRuns, staged, answered>>

(* stagedAttemptRaws: the reports that are there, in the order of the attempts. *)
stagedAttemptRaws == Picked(staged, DOMAIN staged)

MutSummarizeEvery(raws, runs) == raws     \* a sample given twice counts twice

(* Of the reports those are summarised that stand in the place of the first run
   of a sample; the others, and those behind the last run, are left out. *)
summarized(raws, runs) == Picked(raws, firstOf(runs))

MutAggregateAfresh ==     \* every cycle begins with no runs
    /\ outcome = "measuring"
    /\ slot > Requested \/ reliable(compactRuns)
    /\ IF reliable(compactRuns)
       THEN outcome' = "retained" /\ UNCHANGED <<cycle, slot, compactRuns>>
       ELSE IF cycle < MaxCycles
       THEN cycle' = cycle + 1 /\ slot' = 1 /\ compactRuns' = <<>> /\ UNCHANGED outcome
       ELSE outcome' = "inconclusive" /\ UNCHANGED <<cycle, slot, compactRuns>>
    /\ UNCHANGED <<staged, attempts, answered, summary>>

(* The cycle ends: what there is is aggregated, and retained when it is
   reliable; otherwise the next cycle adds to it. *)
AggregateAndStage ==
    /\ outcome = "measuring"
    /\ slot > Requested \/ reliable(compactRuns)
    /\ IF compactRuns = <<>> THEN UNCHANGED summary
       ELSE summary' = [raws |-> summarized(stagedAttemptRaws, compactRuns),
                        runs |-> {compactRuns[i].key : i \in firstOf(compactRuns)}]
    /\ IF reliable(compactRuns)
       THEN outcome' = "retained" /\ UNCHANGED <<cycle, slot>>
       ELSE IF cycle < MaxCycles
       THEN cycle' = cycle + 1 /\ slot' = 1 /\ UNCHANGED outcome
       ELSE outcome' = "inconclusive" /\ UNCHANGED <<cycle, slot>>
    /\ UNCHANGED <<compactRuns, staged, attempts, answered>>

(* A step that may not fail runs out of retries, and the job with it. *)
WorkflowFails ==
    /\ outcome = "measuring"
    /\ outcome' = "failed"
    /\ UNCHANGED <<compactRuns, staged, attempts, cycle, slot, summary, answered>>

NextEvidence ==
    \/ \E key \in Samples :
          \/ \E warned \in BOOLEAN : AttemptAnswers(key, warned)
          \/ AttemptIsLost(key)
    \/ \E kind \in {"transient", "quota"} : AttemptFails(kind)
    \/ AggregateAndStage
    \/ WorkflowFails

SpecEvidence == InitEvidence /\ [][NextEvidence]_evidenceVars

-----------------------------------------------------------------------------
(* The measurements the night is described by - benchmark, paints, blocking
   time, culprits - are those its scores come from, each counted once, unless a
   request left a report without a run: from there on every report stands in
   the place of another run. *)
ReportsAreTheRuns ==
    Cardinality(DOMAIN staged) = Len(compactRuns) =>
        /\ ToSet(summary.raws) = summary.runs
        /\ Len(summary.raws) = Cardinality(summary.runs)

(* A device is called inconclusive only when too few distinct measurements
   without warnings came in over all cycles, and retained only with enough:
   neither a repeated sample, nor a failed request, nor the hours in between
   change the count. *)
GivesUpForLack ==
    outcome \in {"retained", "inconclusive"} =>
        (outcome = "retained" <=> Cardinality(answered) >= minimumTrustedRuns)
=============================================================================
