----------------------------- MODULE IssueCase -----------------------------
(* The issue case of src/lib/issue-case.ts as a value: its seven work states
   with the transition table of src/lib/vocabulary.ts, the pages it covers and
   the pages it counts, and the checkpoints a fix schedules.

   Where the code throws an IssueCaseError the matching "may" operator is
   false.  History, owner, evidence and wording are data no property here
   tells apart. *)
EXTENDS FiniteSets, Naturals

CONSTANT Pages          \* the pages of the watchlist

ASSUME PagesAssumption == IsFiniteSet(Pages) /\ Pages # {}

WORK_STATES == {"new", "todo", "in_progress", "fixed", "resolved",
                "reopened", "dismissed"}

(* From which states, to which, and who may fire it. *)
ISSUE_TRANSITIONS ==
    [accept     |-> [from |-> {"new", "reopened"}, to |-> "todo",
                     actor |-> {"person"}],
     dismiss    |-> [from |-> {"new", "reopened"}, to |-> "dismissed",
                     actor |-> {"person"}],
     start      |-> [from |-> {"todo"}, to |-> "in_progress",
                     actor |-> {"person"}],
     mark_fixed |-> [from |-> {"in_progress"}, to |-> "fixed",
                     actor |-> {"person"}],
     resolve    |-> [from |-> {"fixed"}, to |-> "resolved",
                     actor |-> {"system"}],
     reopen     |-> [from |-> {"fixed", "resolved", "dismissed"},
                     to |-> "reopened", actor |-> {"person", "system"}]]

Intervals == {"2d", "7d", "30d"}
RESOLVING_INTERVAL == "30d"

(* attempts tells whether the checkpoint was tried: the code tells none from
   any number, so 1 stands for once or more. *)
Checkpoint == [result : {"scheduled", "agreed", "disagreed", "unavailable"},
               attempts : 0..1]

(* A case keeps some of the three checkpoints: none before the first fix, all
   while a fix is watched, fewer once a disagreement cancelled the rest. *)
Schedules == UNION {[S -> Checkpoint] : S \in SUBSET Intervals}

Cases == [state : WORK_STATES, steps : BOOLEAN, pageIds : SUBSET Pages,
          excluded : SUBSET Pages, checkpoints : Schedules]

-----------------------------------------------------------------------------
includedPages(iss) == iss.pageIds \ iss.excluded

mayExclude(iss, p) ==
    /\ p \in includedPages(iss)
    /\ Cardinality(includedPages(iss)) > 1

excludePage(iss, p) == [iss EXCEPT !.excluded = @ \cup {p}]

mayInclude(iss, p) == p \in iss.excluded

includePage(iss, p) == [iss EXCEPT !.excluded = @ \ {p}]

-----------------------------------------------------------------------------
MutScheduleTheNear ==     \* the 30-day checkpoint is not scheduled
    [i \in Intervals \ {RESOLVING_INTERVAL} |->
        [result |-> "scheduled", attempts |-> 0]]

scheduleCheckpoints ==
    [i \in Intervals |-> [result |-> "scheduled", attempts |-> 0]]

MutCheckpointsAgreeEarly(checkpoints) ==     \* any agreement is enough
    /\ \A i \in DOMAIN checkpoints : checkpoints[i].result # "disagreed"
    /\ \E i \in DOMAIN checkpoints : checkpoints[i].result = "agreed"

checkpointsAgree(checkpoints) ==
    /\ \A i \in DOMAIN checkpoints : checkpoints[i].result # "disagreed"
    /\ RESOLVING_INTERVAL \in DOMAIN checkpoints
    /\ checkpoints[RESOLVING_INTERVAL].result = "agreed"

(* The guards of applyAction; the reason of a dismissal is always given. *)
mayApply(iss, action, by) ==
    /\ iss.state \in ISSUE_TRANSITIONS[action].from
    /\ by \in ISSUE_TRANSITIONS[action].actor
    /\ action = "accept" => iss.steps
    /\ action = "resolve" => checkpointsAgree(iss.checkpoints)

applyAction(iss, action) ==
    [iss EXCEPT !.state = ISSUE_TRANSITIONS[action].to,
                !.checkpoints = IF action = "mark_fixed"
                                THEN scheduleCheckpoints ELSE @]

(* The case reopens on the pages that came back and covers only those. *)
reopenForPages(iss, returned) ==
    [applyAction(iss, "reopen") EXCEPT !.pageIds = iss.pageIds \cap returned]
=============================================================================
