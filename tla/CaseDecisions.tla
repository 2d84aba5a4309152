--------------------------- MODULE CaseDecisions ---------------------------
(* One remediation as the screen and the digest derive it
   (src/lib/issue-cases.ts): the records the pages keep of one finding, each
   with the legacy pair of lifecycles, are read by fromRec, folded by
   groupByCause and handed the append-only log of decisions, replayed oldest
   first.  Collections, verifications and people rewrite the records; people
   append to the log; nothing rewrites the log.

   The records of a finding share their cause and their steps, so their
   remediation has one key.  A log entry names that key, or a key the same
   steps had before they were reclassified. *)
EXTENDS IssueCase, Sequences, FiniteSetsExt

CONSTANT MaxLog         \* bound on the decisions taken

VARIABLES source,       \* what found it: "lighthouse", "crux", "agent"
          recs,         \* the pages that keep a record, and the record
          caseDecisions \* the log

decisionVars == <<source, recs, caseDecisions>>

(* check is what the newest check says: "back" for a regressed field
   lifecycle or a returned verification, "settled" for a field lifecycle that
   resolved, "open" for everything else. *)
Records == [status : {"inbox", "task", "ignored"},
            taskStatus : {"todo", "in-progress", "done"},
            check : {"open", "settled", "back"}]

Entries ==
    [decision : {"exclude", "include"}, key : {"current"}, pageId : Pages]
        \cup [decision : {"accept", "dismiss"}, key : {"current", "stranded"}]

-----------------------------------------------------------------------------
(* Deriving the case. *)

PROGRESS_RANK == [new |-> 0, todo |-> 1, in_progress |-> 2, fixed |-> 3,
                  resolved |-> 4]

stateFromRecStatus(status) == IF status = "task" THEN "todo" ELSE "new"

stateFromTaskStatus(taskStatus) ==
    CASE taskStatus = "in-progress" -> "in_progress"
      [] taskStatus = "done" -> "resolved"
      [] taskStatus = "todo" -> "new"

(* The legacy pair, then the newest check on top of it. *)
fromRec(rec) ==
    LET triage == stateFromRecStatus(rec.status)
        work == stateFromTaskStatus(rec.taskStatus)
        merged == IF PROGRESS_RANK[work] > PROGRESS_RANK[triage]
                  THEN work ELSE triage
    IN CASE rec.check = "back" -> "reopened"
         [] rec.check = "settled" -> "resolved"
         [] rec.check = "open" ->
               IF rec.status = "ignored" THEN "dismissed" ELSE merged

MERGE_PRECEDENCE == [reopened |-> 0, new |-> 1, in_progress |-> 2, todo |-> 3,
                     fixed |-> 4, resolved |-> 5, dismissed |-> 6]

(* groupByCause: every page of the finding, in its most urgent state. *)
mostUrgent(states) ==
    CHOOSE st \in states :
        \A other \in states : MERGE_PRECEDENCE[st] <= MERGE_PRECEDENCE[other]

groupByCause(records, documented) ==
    [state |-> mostUrgent({fromRec(records[p]) : p \in DOMAIN records}),
     steps |-> documented, pageIds |-> DOMAIN records, excluded |-> {},
     checkpoints |-> [i \in {} |-> {}]]

MutMatchAnyKey(log) == DOMAIN log     \* reattached from a key the steps lost

(* The places of the log where this very remediation was decided about. *)
matchDecisions(log) == {n \in DOMAIN log : log[n].key = "current"}

MutReplayOnNewOnly(iss, entry) ==     \* a case that came back takes no decision
    CASE entry.decision = "exclude" ->
            IF mayExclude(iss, entry.pageId)
            THEN excludePage(iss, entry.pageId) ELSE iss
      [] entry.decision = "include" ->
            IF mayInclude(iss, entry.pageId)
            THEN includePage(iss, entry.pageId) ELSE iss
      [] entry.decision \in {"accept", "dismiss"} ->
            IF iss.state = "new" /\ mayApply(iss, entry.decision, "person")
            THEN applyAction(iss, entry.decision) ELSE iss

(* One entry onto the case, skipped where the model would refuse it. *)
replay(iss, entry) ==
    CASE entry.decision = "exclude" ->
            IF mayExclude(iss, entry.pageId)
            THEN excludePage(iss, entry.pageId) ELSE iss
      [] entry.decision = "include" ->
            IF mayInclude(iss, entry.pageId)
            THEN includePage(iss, entry.pageId) ELSE iss
      [] entry.decision \in {"accept", "dismiss"} ->
            IF mayApply(iss, entry.decision, "person")
            THEN applyAction(iss, entry.decision) ELSE iss

applyCaseDecisions(iss, log) ==
    LET matched == matchDecisions(log)
        after[n \in 0..Len(log)] ==
            IF n = 0 THEN iss
            ELSE IF n \in matched THEN replay(after[n - 1], log[n])
            ELSE after[n - 1]
    IN after[Len(log)]

Documented == source = "agent"

Grouped(records) == groupByCause(records, Documented)

HasCase == DOMAIN recs # {}

(* issueCasesFrom: the case on the screen, when a page keeps a record. *)
CaseOf(records, log) == applyCaseDecisions(Grouped(records), log)

-----------------------------------------------------------------------------
InitDecisions ==
    /\ source \in {"lighthouse", "crux", "agent"}
    /\ recs = [p \in {} |-> {}]
    /\ caseDecisions = <<>>

SetRec(p, rec) == recs' = [q \in DOMAIN recs \cup {p} |->
                              IF q = p THEN rec ELSE recs[q]]

(* A collection finds the problem on a page that keeps no record of it; a
   record that is there keeps its lifecycles. *)
FileRecord(p) ==
    /\ p \notin DOMAIN recs
    /\ SetRec(p, [status |-> "inbox", taskStatus |-> "todo", check |-> "open"])
    /\ UNCHANGED <<source, caseDecisions>>

(* The page is removed with its records, or a collection finds that Webflow
   owns the finding and drops the page's record. *)
DropRecord(p) ==
    /\ p \in DOMAIN recs
    /\ recs' = [q \in DOMAIN recs \ {p} |-> recs[q]]
    /\ UNCHANGED <<source, caseDecisions>>

setRecStatus(p, status) ==
    /\ p \in DOMAIN recs
    /\ SetRec(p, [recs[p] EXCEPT
                     !.status = status,
                     !.taskStatus = IF status = "task" THEN "todo" ELSE @])
    /\ UNCHANGED <<source, caseDecisions>>

advanceTask(p, to) ==
    /\ p \in DOMAIN recs
    /\ SetRec(p, [recs[p] EXCEPT !.taskStatus = to])
    /\ UNCHANGED <<source, caseDecisions>>

(* A change marker completes the task of a page that has this record. *)
completeTask(p) ==
    /\ p \in DOMAIN recs
    /\ SetRec(p, [recs[p] EXCEPT !.taskStatus = "done"])
    /\ UNCHANGED <<source, caseDecisions>>

(* A reconciliation judges a field record (FieldWindows): through the
   corroborated and verifying statuses every check leads to every other. *)
FieldCheck(p, check) ==
    /\ source = "crux"
    /\ p \in DOMAIN recs
    /\ SetRec(p, [recs[p] EXCEPT !.check = check])
    /\ UNCHANGED <<source, caseDecisions>>

(* A verification answers (AgentVerification): returned work is open again. *)
Verified(p, returned) ==
    /\ source = "agent"
    /\ p \in DOMAIN recs
    /\ SetRec(p, [recs[p] EXCEPT
                     !.check = IF returned THEN "back" ELSE "open",
                     !.taskStatus = IF returned /\ @ = "done"
                                    THEN "in-progress" ELSE @])
    /\ UNCHANGED <<source, caseDecisions>>

recordCaseDecision(entry) ==
    /\ Len(caseDecisions) < MaxLog
    /\ caseDecisions' = Append(caseDecisions, entry)
    /\ UNCHANGED <<source, recs>>

NextDecisions ==
    \/ \E p \in Pages :
          \/ FileRecord(p)
          \/ DropRecord(p)
          \/ \E status \in {"task", "ignored"} : setRecStatus(p, status)
          \/ \E to \in {"todo", "in-progress"} : advanceTask(p, to)
          \/ completeTask(p)
          \/ \E check \in {"open", "settled", "back"} : FieldCheck(p, check)
          \/ \E returned \in BOOLEAN : Verified(p, returned)
    \/ \E entry \in Entries : recordCaseDecision(entry)

SpecDecisions == InitDecisions /\ [][NextDecisions]_decisionVars

-----------------------------------------------------------------------------
(* A page is excluded only by the last word on it, and the state differs from
   the one the evidence gives only by a decision about this very remediation
   that the evidence allows: nothing is reattached from a key it lost. *)
DecidedByItsOwnLog ==
    HasCase =>
        LET iss == CaseOf(recs, caseDecisions)
            words(p) == {i \in DOMAIN caseDecisions :
                            /\ caseDecisions[i].decision
                                  \in {"exclude", "include"}
                            /\ caseDecisions[i].pageId = p}
        IN /\ \A p \in iss.excluded :
                 /\ words(p) # {}
                 /\ caseDecisions[Max(words(p))].decision = "exclude"
           /\ iss.state # Grouped(recs).state =>
                 /\ Grouped(recs).state \in {"new", "reopened"}
                 /\ \E i \in DOMAIN caseDecisions :
                       /\ caseDecisions[i].decision \in {"accept", "dismiss"}
                       /\ caseDecisions[i].key = "current"
                       /\ ISSUE_TRANSITIONS[caseDecisions[i].decision].to
                             = iss.state

(* A decision the case allows when it is taken shows on the case at once,
   whatever was decided before it. *)
LegalDecisionTakesEffect ==
    [][\A entry \in Entries :
          /\ HasCase
          /\ caseDecisions' = Append(caseDecisions, entry)
          /\ entry.key = "current"
          => LET before == CaseOf(recs, caseDecisions)
                 now == CaseOf(recs, caseDecisions')
             IN CASE entry.decision = "exclude" ->
                        mayExclude(before, entry.pageId)
                            => entry.pageId \in now.excluded
                  [] entry.decision = "include" ->
                        entry.pageId \notin now.excluded
                  [] entry.decision \in {"accept", "dismiss"} ->
                        mayApply(before, entry.decision, "person")
                            => now.state
                               = ISSUE_TRANSITIONS[entry.decision].to]_decisionVars

(* "A check found the problem back.  Needs a new decision"
   (vocabulary.ts, WORK_STATE_MEANS): at the check that finds the problem
   back nobody can have decided about it yet, so the case waits in Decide. *)
ReturnNeedsANewDecision ==
    [][(/\ HasCase /\ HasCase'
        /\ Grouped(recs).state # "reopened"
        /\ Grouped(recs)'.state = "reopened")
       => CaseOf(recs, caseDecisions)'.state = "reopened"]_decisionVars
=============================================================================
