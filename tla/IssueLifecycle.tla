--------------------------- MODULE IssueLifecycle ---------------------------
(* One issue case as people and the checkpoint evaluator move it: the actions
   of src/lib/issue-case.ts a person fires, and src/lib/checkpoint-evaluation.ts
   that applies one reading at a time.

   A call the code answers with an IssueCaseError leaves the case as it was:
   its action is not enabled here. *)
EXTENDS IssueCase

VARIABLES
    issue,          \* the case
    reread          \* history, read by the properties alone: the checkpoints of
                    \* this fix whose result a later reading changed

issueVars == <<issue, reread>>

withCheckpoint(iss, interval, result, attempts) ==
    [iss EXCEPT !.checkpoints[interval] =
        [result |-> result, attempts |-> attempts]]

-----------------------------------------------------------------------------
(* A case as fromRec and groupByCause derive it: some pages, all counted, no
   checkpoint, and a state read off the legacy pair of the records. *)
InitIssue ==
    /\ issue \in [state : WORK_STATES \ {"fixed"}, steps : BOOLEAN,
                  pageIds : (SUBSET Pages) \ {{}}, excluded : {{}},
                  checkpoints : [{} -> Checkpoint]]
    /\ reread = {}

(* A person fires one of the transitions of the table. *)
PersonMove(action) ==
    /\ mayApply(issue, action, "person")
    /\ issue' = applyAction(issue, action)
    /\ reread' = IF action = "mark_fixed" THEN {} ELSE reread

Accept == PersonMove("accept")
Dismiss == PersonMove("dismiss")
Start == PersonMove("start")
MarkFixed == PersonMove("mark_fixed")
Reopen == PersonMove("reopen")

ExcludePage(p) ==
    /\ mayExclude(issue, p)
    /\ issue' = excludePage(issue, p)
    /\ UNCHANGED reread

IncludePage(p) ==
    /\ mayInclude(issue, p)
    /\ issue' = includePage(issue, p)
    /\ UNCHANGED reread

-----------------------------------------------------------------------------
(* The evaluator.  A reading is taken for any checkpoint the case has, in any
   order and again after the checkpoint was read: a retry moves a checkpoint
   past the ones after it, nothing asks whether a result stands already, and
   the case has moved on meanwhile. *)
Waiting(checkpoints) ==
    {i \in DOMAIN checkpoints : checkpoints[i].result = "scheduled"}

Overwrites(interval, result) ==
    reread' = reread \cup
        {i \in {interval} : issue.checkpoints[i].result \notin {"scheduled", result}}

(* Rule 1: a disagreement on a counted page reopens the case there and cancels
   what is still scheduled; on no counted page it is recorded. *)
Disagreed(interval, named) ==
    /\ interval \in DOMAIN issue.checkpoints
    /\ LET cameBack == named \cap includedPages(issue)
           marked == withCheckpoint(issue, interval, "disagreed",
                                    issue.checkpoints[interval].attempts)
           kept == {interval} \cup
                       (DOMAIN issue.checkpoints \ Waiting(issue.checkpoints))
           cancelled == [marked EXCEPT !.checkpoints =
                            [i \in kept |-> marked.checkpoints[i]]]
       IN \/ /\ cameBack = {}
             /\ issue' = withCheckpoint(issue, interval, "disagreed", 1)
          \/ /\ cameBack # {}
             /\ mayApply(cancelled, "reopen", "system")
             /\ issue' = reopenForPages(cancelled, cameBack)
    /\ Overwrites(interval, "disagreed")

(* Rule 2: the first failure to read buys one retry and leaves the result, the
   next is recorded. *)
Unavailable(interval) ==
    /\ interval \in DOMAIN issue.checkpoints
    /\ LET old == issue.checkpoints[interval]
           result == IF old.attempts = 0 THEN old.result ELSE "unavailable"
       IN /\ issue' = withCheckpoint(issue, interval, result, 1)
          /\ Overwrites(interval, result)

(* Rules 3 and 5: an agreement is recorded, and resolves the case once the
   checkpoints agree; in a state that cannot be resolved the call throws. *)
Agreed(interval) ==
    /\ interval \in DOMAIN issue.checkpoints
    /\ LET agreed == withCheckpoint(issue, interval, "agreed", 1)
       IN \/ /\ checkpointsAgree(agreed.checkpoints)
             /\ mayApply(agreed, "resolve", "system")
             /\ issue' = applyAction(agreed, "resolve")
          \/ /\ ~checkpointsAgree(agreed.checkpoints)
             /\ issue' = agreed
    /\ Overwrites(interval, "agreed")

NextIssue ==
    \/ Accept
    \/ Dismiss
    \/ Start
    \/ MarkFixed
    \/ Reopen
    \/ \E p \in Pages : ExcludePage(p) \/ IncludePage(p)
    \/ \E i \in Intervals :
          \/ \E named \in SUBSET Pages : Disagreed(i, named)
          \/ Unavailable(i)
          \/ Agreed(i)

SpecIssue == InitIssue /\ [][NextIssue]_issueVars

-----------------------------------------------------------------------------
(* The shape of a case. *)
IssueTypeOK == issue \in Cases /\ reread \subseteq Intervals

(* However exclusions, inclusions and the narrowing of a reopened case follow
   one another, a case counts at least one of the pages it covers: there is
   something to accept, to measure and to reopen on. *)
AlwaysCounts == includedPages(issue) # {}

(* A case that went through a fix is Resolved only by the reading that held
   for the whole span: the 30-day checkpoint of that fix agreed, or did until
   it was read again - a second reading that fails or disagrees on no counted
   page replaces the agreement and leaves the case Resolved.  A case without
   checkpoints was resolved before checkpoints existed. *)
ResolvedHeld ==
    (issue.state = "resolved" /\ DOMAIN issue.checkpoints # {})
        => /\ RESOLVING_INTERVAL \in DOMAIN issue.checkpoints
           /\ \/ issue.checkpoints[RESOLVING_INTERVAL].result = "agreed"
              \/ RESOLVING_INTERVAL \in reread

(* A Fixed case that waits for no reading any more is one that a disagreement
   was noted on, whose 30-day check could not be taken, or that lost another
   checkpoint's result to a second reading that could not be taken: no reading
   is due that would move it.  Every other fix is still being checked. *)
FixedIsWatched ==
    (issue.state = "fixed" /\ Waiting(issue.checkpoints) = {})
        => \E i \in DOMAIN issue.checkpoints :
              \/ issue.checkpoints[i].result = "disagreed"
              \/ /\ i \in reread \cup {RESOLVING_INTERVAL}
                 /\ issue.checkpoints[i].result = "unavailable"
=============================================================================
