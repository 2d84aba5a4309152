--------------------------- MODULE FindingsProofs ----------------------------
(* Proofs about the findings and what is decided on them: the lifecycle of an
   issue case, the log of its decisions, the windows of field data, and the
   follow-ups in Slack - for every number of pages, readings, decisions,
   windows and invocations. *)
EXTENDS IssueLifecycle, CaseDecisions, FieldWindows, FollowUps, OrderLemmas,
        SequenceTheorems

-----------------------------------------------------------------------------
(* The lifecycle of an issue case *)

(* A fix keeps its three checkpoints for as long as it is watched, and its
   30-day reading agrees only when another one disagreed on no counted page,
   or could not be taken a second time. *)
WatchedAt(state, s, again) ==
    state = "fixed" =>
        /\ DOMAIN s = Intervals
        /\ s[RESOLVING_INTERVAL].result = "agreed"
               => \E i \in Intervals : \/ s[i].result = "disagreed"
                                      \/ /\ s[i].result = "unavailable"
                                         /\ i \in again

HeldAt(state, s, again) ==
    (state = "resolved" /\ DOMAIN s # {}) =>
        /\ RESOLVING_INTERVAL \in DOMAIN s
        /\ s[RESOLVING_INTERVAL].result = "agreed" \/ RESOLVING_INTERVAL \in again

GoodCase(c, again) ==
    /\ c \in Cases
    /\ again \subseteq Intervals
    /\ includedPages(c) # {}
    /\ WatchedAt(c.state, c.checkpoints, again)
    /\ HeldAt(c.state, c.checkpoints, again)

LifecycleInv == GoodCase(issue, reread)

-----------------------------------------------------------------------------
LEMMA CheckpointTable ==
  /\ ISSUE_TRANSITIONS["accept"].to = "todo"
  /\ ISSUE_TRANSITIONS["dismiss"].to = "dismissed"
  /\ ISSUE_TRANSITIONS["start"].to = "in_progress"
  /\ ISSUE_TRANSITIONS["mark_fixed"].to = "fixed"
  /\ ISSUE_TRANSITIONS["resolve"].to = "resolved"
  /\ ISSUE_TRANSITIONS["reopen"].to = "reopened"
  /\ ISSUE_TRANSITIONS["resolve"].from = {"fixed"}
  BY DEF ISSUE_TRANSITIONS

LEMMA SchedulesAre ==
  ASSUME NEW s
  PROVE  s \in Schedules <=> DOMAIN s \subseteq Intervals /\ s \in [DOMAIN s -> Checkpoint]
  BY DEF Schedules

(* Moving a case changes its state, and the checkpoints only when fixed. *)
LEMMA Moving ==
  ASSUME NEW c \in Cases, NEW action \in {"accept", "dismiss", "start", "resolve", "reopen"}
  PROVE  LET d == applyAction(c, action)
         IN /\ d \in Cases
            /\ d.state = ISSUE_TRANSITIONS[action].to
            /\ d.checkpoints = c.checkpoints
            /\ d.pageIds = c.pageIds /\ d.excluded = c.excluded
<1>1. ISSUE_TRANSITIONS[action].to \in WORK_STATES
  BY CheckpointTable DEF WORK_STATES
<1>2. action # "mark_fixed"
  OBVIOUS
<1>3. applyAction(c, action) = [c EXCEPT !.state = ISSUE_TRANSITIONS[action].to]
  BY <1>2 DEF applyAction, Cases
<1>. HIDE DEF ISSUE_TRANSITIONS
<1>. QED BY <1>1, <1>3 DEF Cases

LEMMA Fixing ==
  ASSUME NEW c \in Cases
  PROVE  LET d == applyAction(c, "mark_fixed")
         IN /\ d \in Cases
            /\ d.state = "fixed"
            /\ d.checkpoints = scheduleCheckpoints
            /\ d.pageIds = c.pageIds /\ d.excluded = c.excluded
<1>1. scheduleCheckpoints \in Schedules
  BY SchedulesAre DEF scheduleCheckpoints, Checkpoint
<1>2. applyAction(c, "mark_fixed") = [c EXCEPT !.state = "fixed", !.checkpoints = scheduleCheckpoints]
  BY CheckpointTable DEF applyAction, Cases
<1>. QED BY <1>1, <1>2 DEF Cases, WORK_STATES

(* A reading changes the checkpoint it was taken for and nothing else. *)
LEMMA Marking ==
  ASSUME NEW c \in Cases, NEW i \in DOMAIN c.checkpoints, NEW n \in 0..1,
         NEW r \in {"scheduled", "agreed", "disagreed", "unavailable"}
  PROVE  LET d == withCheckpoint(c, i, r, n)
         IN /\ d \in Cases
            /\ d.state = c.state
            /\ d.pageIds = c.pageIds /\ d.excluded = c.excluded
            /\ DOMAIN d.checkpoints = DOMAIN c.checkpoints
            /\ d.checkpoints[i] = [result |-> r, attempts |-> n]
            /\ \A j \in DOMAIN c.checkpoints : j # i => d.checkpoints[j] = c.checkpoints[j]
<1>. DEFINE v == [result |-> r, attempts |-> n]
            s == c.checkpoints
            t == [s EXCEPT ![i] = v]
<1>1. s \in [DOMAIN s -> Checkpoint] /\ DOMAIN s \subseteq Intervals
  BY SchedulesAre DEF Cases
<1>2. v \in Checkpoint
  BY DEF Checkpoint
<1>3. t \in [DOMAIN s -> Checkpoint] /\ DOMAIN t = DOMAIN s
  BY <1>1, <1>2
<1>4. t \in Schedules
  BY <1>1, <1>3, SchedulesAre
<1>5. withCheckpoint(c, i, r, n) = [c EXCEPT !.checkpoints = t]
  BY DEF withCheckpoint, Cases
<1>6. t[i] = v /\ \A j \in DOMAIN s : j # i => t[j] = s[j]
  BY <1>1
<1>. HIDE DEF t, v
<1>7. [c EXCEPT !.checkpoints = t] \in Cases
  BY <1>4 DEF Cases
<1>8. /\ [c EXCEPT !.checkpoints = t].checkpoints = t
      /\ [c EXCEPT !.checkpoints = t].state = c.state
      /\ [c EXCEPT !.checkpoints = t].pageIds = c.pageIds
      /\ [c EXCEPT !.checkpoints = t].excluded = c.excluded
  BY DEF Cases
<1>. QED BY <1>3, <1>5, <1>6, <1>7, <1>8 DEF v

LEMMA DisagreeingIs ==
  ASSUME NEW c \in Cases, NEW i \in DOMAIN c.checkpoints, NEW n \in 0..1,
         NEW d, d = withCheckpoint(c, i, "disagreed", n)
  PROVE  /\ d \in Cases
         /\ d.state = c.state
         /\ d.pageIds = c.pageIds /\ d.excluded = c.excluded
         /\ DOMAIN d.checkpoints = DOMAIN c.checkpoints
         /\ d.checkpoints[i] = [result |-> "disagreed", attempts |-> n]
         /\ \A j \in DOMAIN c.checkpoints : j # i => d.checkpoints[j] = c.checkpoints[j]
<1>1. "disagreed" \in {"scheduled", "agreed", "disagreed", "unavailable"}
  OBVIOUS
<1>. QED BY <1>1, Marking, SMTT(30)

LEMMA ReadingIs ==
  ASSUME NEW c \in Cases, NEW i \in DOMAIN c.checkpoints
  PROVE  /\ i \in Intervals
         /\ c.checkpoints[i] \in Checkpoint
         /\ c.checkpoints[i].attempts \in 0..1
         /\ c.checkpoints[i].result \in {"scheduled", "agreed", "disagreed", "unavailable"}
  BY SchedulesAre DEF Cases, Checkpoint

(* What a reading puts into the history. *)
LEMMA OverwritingIs ==
  ASSUME reread \subseteq Intervals, NEW i \in Intervals, NEW r, Overwrites(i, r)
  PROVE  /\ reread' \subseteq Intervals /\ reread \subseteq reread'
         /\ issue.checkpoints[i].result \notin {"scheduled", r} => i \in reread'
  BY DEF Overwrites

-----------------------------------------------------------------------------
LEMMA InitGood == InitIssue => LifecycleInv
<1>. SUFFICES ASSUME InitIssue PROVE GoodCase(issue, reread)
  BY DEF LifecycleInv
<1>1. DOMAIN issue.checkpoints = {} /\ issue.checkpoints \in Schedules
  BY SchedulesAre DEF InitIssue
<1>2. issue \in Cases
  BY <1>1 DEF InitIssue, Cases
<1>3. includedPages(issue) # {}
  BY DEF InitIssue, includedPages
<1>4. issue.state # "fixed"
  BY DEF InitIssue
<1>. QED BY <1>1, <1>2, <1>3, <1>4 DEF GoodCase, WatchedAt, HeldAt, InitIssue

(* A person's transitions: only marking it fixed touches the checkpoints. *)
LEMMA PersonGood ==
  ASSUME LifecycleInv, NEW action \in {"accept", "dismiss", "start", "mark_fixed", "reopen"},
         PersonMove(action)
  PROVE  LifecycleInv'
<1>. SUFFICES ASSUME NEW d, d = applyAction(issue, action) PROVE GoodCase(d, reread')
  BY DEF PersonMove, LifecycleInv
<1>0. GoodCase(issue, reread) /\ issue \in Cases
  BY DEF LifecycleInv, GoodCase
<1>1. CASE action = "mark_fixed"
  <2>1. /\ d \in Cases /\ d.state = "fixed" /\ d.checkpoints = scheduleCheckpoints
        /\ d.pageIds = issue.pageIds /\ d.excluded = issue.excluded
    BY <1>0, <1>1, Fixing
  <2>2. includedPages(d) # {}
    BY <1>0, <2>1 DEF GoodCase, includedPages
  <2>3. reread' \subseteq Intervals
    BY <1>1 DEF PersonMove
  <2>4. /\ DOMAIN scheduleCheckpoints = Intervals
        /\ scheduleCheckpoints[RESOLVING_INTERVAL].result = "scheduled"
    BY DEF scheduleCheckpoints, Intervals, RESOLVING_INTERVAL
  <2>. QED BY <2>1, <2>2, <2>3, <2>4 DEF GoodCase, WatchedAt, HeldAt
<1>2. CASE action # "mark_fixed"
  <2>1. action \in {"accept", "dismiss", "start", "resolve", "reopen"}
    BY <1>2
  <2>2. /\ d \in Cases /\ d.state = ISSUE_TRANSITIONS[action].to
        /\ d.checkpoints = issue.checkpoints
        /\ d.pageIds = issue.pageIds /\ d.excluded = issue.excluded
    BY <1>0, <2>1, Moving
  <2>3. d.state \notin {"fixed", "resolved"}
    BY <1>2, <2>2, CheckpointTable
  <2>4. includedPages(d) # {}
    BY <1>0, <2>2 DEF GoodCase, includedPages
  <2>5. reread' = reread
    BY <1>2 DEF PersonMove
  <2>. QED BY <1>0, <2>2, <2>3, <2>4, <2>5 DEF GoodCase, WatchedAt, HeldAt
<1>. QED BY <1>1, <1>2

LEMMA ExcludeGood ==
  ASSUME LifecycleInv, NEW p \in Pages, ExcludePage(p)
  PROVE  LifecycleInv'
<1>. SUFFICES ASSUME NEW d, d = excludePage(issue, p) PROVE GoodCase(d, reread)
  BY DEF ExcludePage, LifecycleInv
<1>0. GoodCase(issue, reread) /\ issue \in Cases
  BY DEF LifecycleInv, GoodCase
<1>1. d = [issue EXCEPT !.excluded = issue.excluded \cup {p}]
  BY <1>0 DEF excludePage, Cases
<1>2. d \in Cases
  BY <1>0, <1>1 DEF Cases
<1>3. /\ d.state = issue.state /\ d.checkpoints = issue.checkpoints
      /\ d.pageIds = issue.pageIds /\ d.excluded = issue.excluded \cup {p}
  BY <1>0, <1>1 DEF Cases
<1>4. includedPages(issue) # {p}
  <2>1. Cardinality(includedPages(issue)) > 1
    BY DEF ExcludePage, mayExclude
  <2>2. Cardinality({p}) = 1
    BY FS_Singleton
  <2>. QED BY <2>1, <2>2
<1>5. includedPages(d) # {}
  BY <1>3, <1>4 DEF includedPages, ExcludePage, mayExclude
<1>. QED BY <1>0, <1>2, <1>3, <1>5 DEF GoodCase

LEMMA IncludeGood ==
  ASSUME LifecycleInv, NEW p \in Pages, IncludePage(p)
  PROVE  LifecycleInv'
<1>. SUFFICES ASSUME NEW d, d = includePage(issue, p) PROVE GoodCase(d, reread)
  BY DEF IncludePage, LifecycleInv
<1>0. GoodCase(issue, reread) /\ issue \in Cases
  BY DEF LifecycleInv, GoodCase
<1>1. d = [issue EXCEPT !.excluded = issue.excluded \ {p}]
  BY <1>0 DEF includePage, Cases
<1>2. d \in Cases
  BY <1>0, <1>1 DEF Cases
<1>3. /\ d.state = issue.state /\ d.checkpoints = issue.checkpoints
      /\ d.pageIds = issue.pageIds /\ d.excluded = issue.excluded \ {p}
  BY <1>0, <1>1 DEF Cases
<1>4. includedPages(d) # {}
  BY <1>0, <1>3 DEF GoodCase, includedPages
<1>. QED BY <1>0, <1>2, <1>3, <1>4 DEF GoodCase

-----------------------------------------------------------------------------
(* A disagreement that is only noted, on pages the case does not count. *)
LEMMA NotedGood ==
  ASSUME LifecycleInv, NEW i \in DOMAIN issue.checkpoints, Overwrites(i, "disagreed"),
         NEW d, d = withCheckpoint(issue, i, "disagreed", 1)
  PROVE  GoodCase(d, reread')
<1>0. GoodCase(issue, reread) /\ issue \in Cases
  BY DEF LifecycleInv, GoodCase
<1>1. i \in Intervals /\ issue.checkpoints[i].result \in {"scheduled", "agreed", "disagreed", "unavailable"}
  BY <1>0, ReadingIs
<1>2. /\ reread' \subseteq Intervals /\ reread \subseteq reread'
      /\ issue.checkpoints[i].result \notin {"scheduled", "disagreed"} => i \in reread'
  BY <1>0, <1>1, OverwritingIs DEF GoodCase
<1>4. /\ d \in Cases
      /\ d.state = issue.state
      /\ d.pageIds = issue.pageIds /\ d.excluded = issue.excluded
      /\ DOMAIN d.checkpoints = DOMAIN issue.checkpoints
      /\ d.checkpoints[i] = [result |-> "disagreed", attempts |-> 1]
      /\ \A j \in DOMAIN issue.checkpoints :
            j # i => d.checkpoints[j] = issue.checkpoints[j]
  BY <1>0, DisagreeingIs, SMTT(30)
<1>5. includedPages(d) # {}
  BY <1>0, <1>4 DEF GoodCase, includedPages
<1>7. WatchedAt(d.state, d.checkpoints, reread')
  BY <1>0, <1>1, <1>4, SMTT(30) DEF GoodCase, WatchedAt
<1>8. HeldAt(d.state, d.checkpoints, reread')
  BY <1>0, <1>1, <1>2, <1>4 DEF GoodCase, HeldAt
<1>. QED BY <1>2, <1>4, <1>5, <1>7, <1>8 DEF GoodCase

(* A disagreement on counted pages reopens the case on those. *)
LEMMA ReopenedGood ==
  ASSUME LifecycleInv, NEW i \in DOMAIN issue.checkpoints, Overwrites(i, "disagreed"),
         NEW cameBack \in SUBSET includedPages(issue), cameBack # {},
         NEW kept,
         kept = {i} \cup (DOMAIN issue.checkpoints \ Waiting(issue.checkpoints)),
         NEW marked,
         marked = withCheckpoint(issue, i, "disagreed", issue.checkpoints[i].attempts),
         NEW cancelled,
         cancelled = [marked EXCEPT !.checkpoints = [j \in kept |-> marked.checkpoints[j]]],
         NEW d, d = reopenForPages(cancelled, cameBack)
  PROVE  GoodCase(d, reread')
<1>0. GoodCase(issue, reread) /\ issue \in Cases
  BY DEF LifecycleInv, GoodCase
<1>1. i \in Intervals /\ issue.checkpoints[i].attempts \in 0..1
  BY <1>0, ReadingIs
<1>2. reread' \subseteq Intervals
  BY <1>0, <1>1, OverwritingIs DEF GoodCase
<1>3. /\ marked \in Cases
      /\ marked.pageIds = issue.pageIds /\ marked.excluded = issue.excluded
      /\ DOMAIN marked.checkpoints = DOMAIN issue.checkpoints
  <2>. DEFINE n == issue.checkpoints[i].attempts
  <2>1. n \in 0..1 /\ marked = withCheckpoint(issue, i, "disagreed", n)
    BY <1>1
  <2>. HIDE DEF n
  <2>2. issue \in Cases /\ i \in DOMAIN issue.checkpoints /\ n \in 0..1
    BY <1>0, <2>1
  <2>. QED BY <2>1, <2>2, DisagreeingIs, SMTT(30)
<1>. DEFINE s == [j \in kept |-> marked.checkpoints[j]]
<1>4. kept \subseteq DOMAIN issue.checkpoints /\ kept \subseteq Intervals
  BY <1>0, <1>1, SchedulesAre DEF Cases
<1>5. \A j \in kept : s[j] \in Checkpoint
  BY <1>3, <1>4, SchedulesAre DEF Cases
<1>6. s \in [kept -> Checkpoint] /\ DOMAIN s = kept
  BY <1>5
<1>7. s \in Schedules
  BY <1>4, <1>6, SchedulesAre
<1>. HIDE DEF s
<1>8. /\ cancelled \in Cases /\ cancelled.checkpoints = s
      /\ cancelled.pageIds = issue.pageIds /\ cancelled.excluded = issue.excluded
  <2>1. cancelled = [marked EXCEPT !.checkpoints = s]
    BY DEF s
  <2>. QED BY <1>3, <1>7, <2>1 DEF Cases
<1>. DEFINE o == applyAction(cancelled, "reopen")
<1>9. /\ o \in Cases /\ o.state = "reopened" /\ o.checkpoints = s
      /\ o.pageIds = issue.pageIds /\ o.excluded = issue.excluded
  BY <1>8, Moving, CheckpointTable
<1>10. d = [o EXCEPT !.pageIds = issue.pageIds \cap cameBack]
  BY <1>8 DEF reopenForPages
<1>. HIDE DEF o
<1>11. /\ d \in Cases /\ d.state = "reopened" /\ d.checkpoints = s
       /\ d.pageIds = issue.pageIds \cap cameBack /\ d.excluded = issue.excluded
  BY <1>9, <1>10 DEF Cases
<1>12. includedPages(d) # {}
  BY <1>11 DEF includedPages
<1>. QED BY <1>2, <1>11, <1>12 DEF GoodCase, WatchedAt, HeldAt

LEMMA DisagreedGood ==
  ASSUME LifecycleInv, NEW i \in Intervals, NEW named \in SUBSET Pages, Disagreed(i, named)
  PROVE  LifecycleInv'
<1>. DEFINE cameBack == named \cap includedPages(issue)
            marked == withCheckpoint(issue, i, "disagreed", issue.checkpoints[i].attempts)
            kept == {i} \cup (DOMAIN issue.checkpoints \ Waiting(issue.checkpoints))
            cancelled == [marked EXCEPT !.checkpoints = [j \in kept |-> marked.checkpoints[j]]]
<1>1. i \in DOMAIN issue.checkpoints /\ Overwrites(i, "disagreed")
  BY DEF Disagreed
<1>2. CASE issue' = withCheckpoint(issue, i, "disagreed", 1)
  BY <1>1, <1>2, NotedGood DEF LifecycleInv
<1>3. CASE cameBack # {} /\ issue' = reopenForPages(cancelled, cameBack)
  <2>. HIDE DEF marked, kept, cancelled
  <2>1. \A d : d = reopenForPages(cancelled, cameBack) => GoodCase(d, reread')
    BY <1>1, <1>3, ReopenedGood DEF marked, kept, cancelled
  <2>. QED BY <1>3, <2>1 DEF LifecycleInv
<1>. QED BY <1>2, <1>3 DEF Disagreed

(* A reading that could not be taken twice stands in for the disagreement it
   replaces: its checkpoint is read again. *)
LEMMA UnavailableGood ==
  ASSUME LifecycleInv, NEW i \in Intervals, Unavailable(i)
  PROVE  LifecycleInv'
<1>. DEFINE old == issue.checkpoints[i]
            r == IF old.attempts = 0 THEN old.result ELSE "unavailable"
<1>0. GoodCase(issue, reread) /\ issue \in Cases /\ i \in DOMAIN issue.checkpoints
  BY DEF LifecycleInv, GoodCase, Unavailable
<1>1. old.result \in {"scheduled", "agreed", "disagreed", "unavailable"}
  BY <1>0, ReadingIs
<1>. SUFFICES ASSUME NEW d, d = withCheckpoint(issue, i, r, 1) PROVE GoodCase(d, reread')
  BY <1>1 DEF Unavailable, LifecycleInv
<1>2. r \in {old.result, "unavailable"} /\ r \in {"scheduled", "agreed", "disagreed", "unavailable"}
  BY <1>1
<1>2a. Overwrites(i, r)
  BY DEF Unavailable
<1>2b. /\ reread' \subseteq Intervals /\ reread \subseteq reread'
       /\ old.result \notin {"scheduled", r} => i \in reread'
  BY <1>0, <1>2a, OverwritingIs DEF GoodCase
<1>. HIDE DEF r
<1>3. /\ d \in Cases
      /\ d.state = issue.state
      /\ d.pageIds = issue.pageIds /\ d.excluded = issue.excluded
      /\ DOMAIN d.checkpoints = DOMAIN issue.checkpoints
      /\ d.checkpoints[i] = [result |-> r, attempts |-> 1]
      /\ \A j \in DOMAIN issue.checkpoints :
            j # i => d.checkpoints[j] = issue.checkpoints[j]
  <2>1. 1 \in 0..1
    OBVIOUS
  <2>. QED BY <1>0, <1>2, <2>1, Marking
<1>5. includedPages(d) # {}
  BY <1>0, <1>3 DEF GoodCase, includedPages
<1>6. d.checkpoints[i].result = r
  BY <1>3
<1>7. WatchedAt(d.state, d.checkpoints, reread')
  <2>. SUFFICES ASSUME d.state = "fixed"
                PROVE  /\ DOMAIN d.checkpoints = Intervals
                       /\ d.checkpoints[RESOLVING_INTERVAL].result = "agreed"
                             => \E j \in Intervals :
                                   \/ d.checkpoints[j].result = "disagreed"
                                   \/ /\ d.checkpoints[j].result = "unavailable"
                                      /\ j \in reread'
    BY DEF WatchedAt
  <2>1. /\ DOMAIN issue.checkpoints = Intervals
        /\ issue.checkpoints[RESOLVING_INTERVAL].result = "agreed"
              => \E j \in Intervals :
                    \/ issue.checkpoints[j].result = "disagreed"
                    \/ /\ issue.checkpoints[j].result = "unavailable"
                       /\ j \in reread
    BY <1>0, <1>3 DEF GoodCase, WatchedAt
  <2>2. RESOLVING_INTERVAL \in Intervals
    BY DEF RESOLVING_INTERVAL, Intervals
  <2>4. ASSUME d.checkpoints[RESOLVING_INTERVAL].result = "agreed"
        PROVE  \E j \in Intervals :
                  \/ d.checkpoints[j].result = "disagreed"
                  \/ /\ d.checkpoints[j].result = "unavailable"
                     /\ j \in reread'
    <3>1. issue.checkpoints[RESOLVING_INTERVAL].result = "agreed"
      BY <1>2, <1>3, <1>6, <2>1, <2>2, <2>4
    <3>2. PICK j \in Intervals :
             \/ issue.checkpoints[j].result = "disagreed"
             \/ /\ issue.checkpoints[j].result = "unavailable"
                /\ j \in reread
      BY <2>1, <3>1
    <3>3. CASE j # i
      BY <1>2b, <1>3, <2>1, <3>2, <3>3
    <3>4. CASE j = i
      BY <1>2, <1>2b, <1>6, <3>2, <3>4
    <3>. QED BY <3>3, <3>4
  <2>. QED BY <1>3, <2>1, <2>4
<1>8. HeldAt(d.state, d.checkpoints, reread')
  BY <1>0, <1>1, <1>2, <1>2b, <1>3, <1>6 DEF GoodCase, HeldAt
<1>. QED BY <1>2b, <1>3, <1>5, <1>7, <1>8 DEF GoodCase

LEMMA AgreedGood ==
  ASSUME LifecycleInv, NEW i \in Intervals, Agreed(i)
  PROVE  LifecycleInv'
<1>0. GoodCase(issue, reread) /\ issue \in Cases /\ i \in DOMAIN issue.checkpoints
  BY DEF LifecycleInv, GoodCase, Agreed
<1>1. issue.checkpoints[i].result \in {"scheduled", "agreed", "disagreed", "unavailable"}
  BY <1>0, ReadingIs
<1>2. reread' \subseteq Intervals /\ reread \subseteq reread'
  BY <1>0, OverwritingIs DEF GoodCase, Agreed
<1>3. PICK g : /\ g = withCheckpoint(issue, i, "agreed", 1)
               /\ \/ /\ checkpointsAgree(g.checkpoints)
                     /\ issue' = applyAction(g, "resolve")
                  \/ /\ ~checkpointsAgree(g.checkpoints)
                     /\ issue' = g
  BY DEF Agreed
<1>4. /\ g \in Cases
      /\ g.state = issue.state
      /\ g.pageIds = issue.pageIds /\ g.excluded = issue.excluded
      /\ DOMAIN g.checkpoints = DOMAIN issue.checkpoints
      /\ g.checkpoints[i] = [result |-> "agreed", attempts |-> 1]
      /\ \A j \in DOMAIN issue.checkpoints :
            j # i => g.checkpoints[j] = issue.checkpoints[j]
  <2>1. 1 \in 0..1
    OBVIOUS
  <2>. QED BY <1>0, <1>3, <2>1, Marking
<1>5. includedPages(g) # {}
  BY <1>0, <1>4 DEF GoodCase, includedPages
<1>7. CASE checkpointsAgree(g.checkpoints) /\ issue' = applyAction(g, "resolve")
  <2>. SUFFICES ASSUME NEW d, d = applyAction(g, "resolve") PROVE GoodCase(d, reread')
    BY <1>7 DEF LifecycleInv
  <2>1. /\ d \in Cases /\ d.state = "resolved" /\ d.checkpoints = g.checkpoints
        /\ d.pageIds = g.pageIds /\ d.excluded = g.excluded
    BY <1>4, Moving, CheckpointTable
  <2>2. includedPages(d) # {}
    BY <1>5, <2>1 DEF includedPages
  <2>. QED BY <1>2, <1>7, <2>1, <2>2 DEF GoodCase, WatchedAt, HeldAt, checkpointsAgree
<1>8. CASE ~checkpointsAgree(g.checkpoints) /\ issue' = g
  <2>1. WatchedAt(g.state, g.checkpoints, reread')
    <3>. SUFFICES ASSUME g.state = "fixed"
                  PROVE  /\ DOMAIN g.checkpoints = Intervals
                         /\ g.checkpoints[RESOLVING_INTERVAL].result = "agreed"
                               => \E j \in Intervals : g.checkpoints[j].result = "disagreed"
      BY DEF WatchedAt
    <3>1. DOMAIN g.checkpoints = Intervals
      BY <1>0, <1>4 DEF GoodCase, WatchedAt
    <3>. QED BY <1>8, <3>1 DEF checkpointsAgree, Intervals, RESOLVING_INTERVAL
  <2>2. HeldAt(g.state, g.checkpoints, reread')
    BY <1>0, <1>1, <1>2, <1>4 DEF GoodCase, HeldAt
  <2>. QED BY <1>2, <1>4, <1>5, <1>8, <2>1, <2>2 DEF GoodCase, LifecycleInv
<1>. QED BY <1>3, <1>7, <1>8

-----------------------------------------------------------------------------
LEMMA NextGood == LifecycleInv /\ [NextIssue]_issueVars => LifecycleInv'
<1>. SUFFICES ASSUME LifecycleInv, [NextIssue]_issueVars PROVE LifecycleInv'
  OBVIOUS
<1>1. CASE Accept
  BY <1>1, PersonGood DEF Accept
<1>2. CASE Dismiss
  BY <1>2, PersonGood DEF Dismiss
<1>3. CASE Start
  BY <1>3, PersonGood DEF Start
<1>4. CASE MarkFixed
  BY <1>4, PersonGood DEF MarkFixed
<1>5. CASE Reopen
  BY <1>5, PersonGood DEF Reopen
<1>6. CASE \E p \in Pages : ExcludePage(p) \/ IncludePage(p)
  BY <1>6, ExcludeGood, IncludeGood
<1>7. CASE \E i \in Intervals : \E named \in SUBSET Pages : Disagreed(i, named)
  BY <1>7, DisagreedGood
<1>8. CASE \E i \in Intervals : Unavailable(i)
  BY <1>8, UnavailableGood
<1>9. CASE \E i \in Intervals : Agreed(i)
  BY <1>9, AgreedGood
<1>10. CASE UNCHANGED issueVars
  BY <1>10 DEF issueVars, LifecycleInv
<1>. QED BY <1>1, <1>2, <1>3, <1>4, <1>5, <1>6, <1>7, <1>8, <1>9, <1>10 DEF NextIssue

LEMMA AlwaysGood == SpecIssue => []LifecycleInv
  BY InitGood, NextGood, PTL DEF SpecIssue

(* Whatever people and readings do, the case keeps its shape. *)
THEOREM IssueTyped == SpecIssue => []IssueTypeOK
<1>1. LifecycleInv => IssueTypeOK
  BY DEF LifecycleInv, GoodCase, IssueTypeOK
<1>. QED BY <1>1, AlwaysGood, PTL

(* Exclusions, inclusions and reopening on the pages that came back never
   leave a case that counts no page (mayExclude's and reopenForPages'
   guards). *)
THEOREM CountsAPage == SpecIssue => []AlwaysCounts
<1>1. LifecycleInv => AlwaysCounts
  BY DEF LifecycleInv, GoodCase, AlwaysCounts
<1>. QED BY <1>1, AlwaysGood, PTL

(* A fix is Resolved by its 30-day agreement alone, whatever readings follow
   and overwrite: where that agreement does not stand any more, the 30-day
   checkpoint was read again. *)
THEOREM ResolvedByItsSpan == SpecIssue => []ResolvedHeld
<1>1. LifecycleInv => ResolvedHeld
  BY DEF LifecycleInv, GoodCase, HeldAt, ResolvedHeld
<1>. QED BY <1>1, AlwaysGood, PTL

(* A Fixed case waits for a reading, unless its 30-day check could not be
   taken, one disagreed on pages it does not count, or a second reading that
   could not be taken replaced a result. *)
THEOREM FixesAreWatched == SpecIssue => []FixedIsWatched
<1>1. LifecycleInv => FixedIsWatched
  <2>. SUFFICES ASSUME LifecycleInv, issue.state = "fixed", Waiting(issue.checkpoints) = {}
                PROVE  \E i \in DOMAIN issue.checkpoints :
                          \/ issue.checkpoints[i].result = "disagreed"
                          \/ /\ i \in reread \cup {RESOLVING_INTERVAL}
                             /\ issue.checkpoints[i].result = "unavailable"
    BY DEF FixedIsWatched
  <2>1. /\ DOMAIN issue.checkpoints = Intervals
        /\ issue.checkpoints[RESOLVING_INTERVAL].result = "agreed"
              => \E j \in Intervals :
                    \/ issue.checkpoints[j].result = "disagreed"
                    \/ /\ issue.checkpoints[j].result = "unavailable"
                       /\ j \in reread
    BY DEF LifecycleInv, GoodCase, WatchedAt
  <2>2. RESOLVING_INTERVAL \in Intervals
    BY DEF RESOLVING_INTERVAL, Intervals
  <2>3. issue.checkpoints[RESOLVING_INTERVAL].result \in {"agreed", "disagreed", "unavailable"}
    <3>1. issue.checkpoints[RESOLVING_INTERVAL] \in Checkpoint
      BY <2>1, <2>2, SchedulesAre DEF LifecycleInv, GoodCase, Cases
    <3>2. issue.checkpoints[RESOLVING_INTERVAL].result # "scheduled"
      BY <2>1, <2>2 DEF Waiting
    <3>. QED BY <3>1, <3>2 DEF Checkpoint
  <2>. QED BY <2>1, <2>2, <2>3
<1>. QED BY <1>1, AlwaysGood, PTL

-----------------------------------------------------------------------------
(* The decisions: the case is what its own log makes of it, entry by entry. *)

\* g is the case after each entry of the log, the first n ones.
Replays(g, iss, log, n) ==
    g = [k \in 0..n |-> IF k = 0 THEN iss
                        ELSE IF k \in matchDecisions(log) THEN replay(g[k - 1], log[k])
                        ELSE g[k - 1]]

LEMMA ReplayExists ==
    ASSUME NEW iss, NEW log, NEW n \in Nat
    PROVE  \E g : Replays(g, iss, log, n)
<1> DEFINE S == {k \in Nat : \E g : Replays(g, iss, log, k)}
<1>1. 0 \in S
  <2> DEFINE g == [k \in 0..0 |-> iss]
  <2>1. Replays(g, iss, log, 0)
    BY DEF Replays
  <2> QED BY <2>1
<1>2. ASSUME NEW k \in S PROVE k + 1 \in S
  <2>1. PICK g : Replays(g, iss, log, k)
    OBVIOUS
  <2> DEFINE last == IF k + 1 \in matchDecisions(log) THEN replay(g[k], log[k + 1]) ELSE g[k]
             h == [j \in 0..k + 1 |-> IF j = k + 1 THEN last ELSE g[j]]
  <2>2. \A j \in 0..k : h[j] = g[j]
    OBVIOUS
  <2>3. h[k + 1] = last
    OBVIOUS
  <2>4. \A j \in 0..k : g[j] = IF j = 0 THEN iss
                        ELSE IF j \in matchDecisions(log) THEN replay(g[j - 1], log[j])
                        ELSE g[j - 1]
    BY <2>1 DEF Replays
  <2>5. h[k + 1] = IF k + 1 = 0 THEN iss
                        ELSE IF k + 1 \in matchDecisions(log) THEN replay(h[k + 1 - 1], log[k + 1])
                        ELSE h[k + 1 - 1]
    BY <2>2, <2>3
  <2>6. \A j \in 0..k + 1 : j \in 0..k \/ j = k + 1
    OBVIOUS
  <2>7. \A j \in 0..k + 1 : h[j] = IF j = 0 THEN iss
                        ELSE IF j \in matchDecisions(log) THEN replay(h[j - 1], log[j])
                        ELSE h[j - 1]
    <3> HIDE DEF h, last
    <3> TAKE j \in 0..k + 1
    <3>1. CASE j \in 0..k
      <4>1. j # 0 => j - 1 \in 0..k
        BY <3>1
      <4> QED BY <2>2, <2>4, <3>1, <4>1
    <3>2. CASE j = k + 1
      BY <2>5, <3>2
    <3> QED BY <2>6, <3>1, <3>2
  <2>8. h = [j \in 0..k + 1 |-> h[j]]
    OBVIOUS
  <2>9. Replays(h, iss, log, k + 1)
    <3> HIDE DEF h, last
    <3> QED BY <2>7, <2>8 DEF Replays
  <2> QED BY <2>9
<1> HIDE DEF S
<1>3. S = Nat
  BY <1>1, <1>2, NatInd DEF S
<1> QED BY <1>3 DEF S

LEMMA Applied ==
    ASSUME NEW iss, NEW log, Len(log) \in Nat
    PROVE  \E g : Replays(g, iss, log, Len(log)) /\ applyCaseDecisions(iss, log) = g[Len(log)]
<1>1. \E g : Replays(g, iss, log, Len(log))
  BY ReplayExists
<1> QED
  BY <1>1 DEF applyCaseDecisions, Replays

\* A case as a record: what EXCEPT needs of it.
IsCase(x) == x = [state |-> x.state, steps |-> x.steps, pageIds |-> x.pageIds,
                  excluded |-> x.excluded, checkpoints |-> x.checkpoints]

LEMMA GroupedIs ==
    ASSUME NEW records
    PROVE  IsCase(Grouped(records)) /\ Grouped(records).excluded = {}
BY DEF IsCase, Grouped, groupByCause

\* What one entry does to the case.
LEMMA OneEntry ==
    ASSUME NEW iss, IsCase(iss), NEW entry \in Entries
    PROVE  /\ IsCase(replay(iss, entry))
           /\ entry.decision = "exclude" =>
                /\ replay(iss, entry).state = iss.state
                /\ replay(iss, entry).excluded \subseteq iss.excluded \cup {entry.pageId}
                /\ mayExclude(iss, entry.pageId) =>
                     entry.pageId \in replay(iss, entry).excluded
           /\ entry.decision = "include" =>
                /\ replay(iss, entry).state = iss.state
                /\ replay(iss, entry).excluded \subseteq iss.excluded \ {entry.pageId}
           /\ entry.decision \in {"accept", "dismiss"} =>
                /\ replay(iss, entry).excluded = iss.excluded
                /\ \/ replay(iss, entry).state = iss.state
                   \/ /\ iss.state \in {"new", "reopened"}
                      /\ replay(iss, entry).state = ISSUE_TRANSITIONS[entry.decision].to
                /\ mayApply(iss, entry.decision, "person") =>
                     replay(iss, entry).state = ISSUE_TRANSITIONS[entry.decision].to
<1>1. entry.decision \in {"exclude", "include", "accept", "dismiss"}
  BY DEF Entries
<1>2. CASE entry.decision = "exclude"
  <2>1. replay(iss, entry) = IF mayExclude(iss, entry.pageId)
                             THEN excludePage(iss, entry.pageId) ELSE iss
    BY <1>2 DEF replay
  <2>2. IsCase(excludePage(iss, entry.pageId))
        /\ excludePage(iss, entry.pageId).state = iss.state
        /\ excludePage(iss, entry.pageId).excluded = iss.excluded \cup {entry.pageId}
    BY DEF IsCase, excludePage
  <2> QED BY <1>2, <2>1, <2>2
<1>3. CASE entry.decision = "include"
  <2>1. replay(iss, entry) = IF mayInclude(iss, entry.pageId)
                             THEN includePage(iss, entry.pageId) ELSE iss
    BY <1>3 DEF replay
  <2>2. IsCase(includePage(iss, entry.pageId))
        /\ includePage(iss, entry.pageId).state = iss.state
        /\ includePage(iss, entry.pageId).excluded = iss.excluded \ {entry.pageId}
    BY DEF IsCase, includePage
  <2>3. mayInclude(iss, entry.pageId) <=> entry.pageId \in iss.excluded
    BY DEF mayInclude
  <2> QED BY <1>3, <2>1, <2>2, <2>3
<1>4. CASE entry.decision \in {"accept", "dismiss"}
  <2>1. replay(iss, entry) = IF mayApply(iss, entry.decision, "person")
                             THEN applyAction(iss, entry.decision) ELSE iss
    BY <1>4 DEF replay
  <2>2. IsCase(applyAction(iss, entry.decision))
        /\ applyAction(iss, entry.decision).state = ISSUE_TRANSITIONS[entry.decision].to
        /\ applyAction(iss, entry.decision).excluded = iss.excluded
    <3> DEFINE to == ISSUE_TRANSITIONS[entry.decision].to
               points == IF entry.decision = "mark_fixed" THEN scheduleCheckpoints
                         ELSE iss.checkpoints
    <3>1. applyAction(iss, entry.decision)
            = [iss EXCEPT !.state = to, !.checkpoints = points]
      BY DEF applyAction
    <3> HIDE DEF to, points
    <3>2. applyAction(iss, entry.decision)
            = [state |-> to, steps |-> iss.steps, pageIds |-> iss.pageIds,
               excluded |-> iss.excluded, checkpoints |-> points]
      BY <3>1 DEF IsCase
    <3>3. applyAction(iss, entry.decision).state = to
      BY <3>2
    <3>4. applyAction(iss, entry.decision).excluded = iss.excluded
      BY <3>2
    <3>5. IsCase(applyAction(iss, entry.decision))
      BY <3>2 DEF IsCase
    <3> QED BY <3>3, <3>4, <3>5 DEF to
  <2>3. mayApply(iss, entry.decision, "person") => iss.state \in {"new", "reopened"}
    BY <1>4 DEF mayApply, ISSUE_TRANSITIONS
  <2> QED BY <1>4, <2>1, <2>2, <2>3
<1> QED BY <1>1, <1>2, <1>3, <1>4

\* What the entries so far have to show for the case as it is.
Decided(x, first, log, n) ==
    /\ IsCase(x)
    /\ \A p \in x.excluded : \E i \in 1..n :
          /\ log[i].decision = "exclude" /\ log[i].pageId = p
          /\ \A j \in (i + 1)..n :
                ~ (log[j].decision \in {"exclude", "include"} /\ log[j].pageId = p)
    /\ x.state # first.state =>
          /\ first.state \in {"new", "reopened"}
          /\ \E i \in 1..n : /\ log[i].decision \in {"accept", "dismiss"}
                             /\ log[i].key = "current"
                             /\ ISSUE_TRANSITIONS[log[i].decision].to = x.state

\* A decision about another remediation is neither exclusion nor inclusion.
LEMMA OthersKeepPages ==
    ASSUME NEW entry \in Entries, entry.key # "current"
    PROVE  entry.decision \notin {"exclude", "include"}
BY DEF Entries

LEMMA DecidedGrows ==
    ASSUME NEW x, NEW first, NEW log \in Seq(Entries), NEW n \in Nat, n + 1 \in DOMAIN log,
           Decided(x, first, log, n),
           NEW y, y = IF n + 1 \in matchDecisions(log) THEN replay(x, log[n + 1]) ELSE x
    PROVE  Decided(y, first, log, n + 1)
<1> DEFINE entry == log[n + 1]
<1>1. entry \in Entries
  BY ElementOfSeq, LenProperties
<1>2. IsCase(x)
  BY DEF Decided
<1>3. n + 1 \in 1..n + 1 /\ \A i \in 1..n : i \in 1..n + 1
  OBVIOUS
<1>4. \A i \in 1..n : \A j \in (i + 1)..n + 1 : j \in (i + 1)..n \/ j = n + 1
  OBVIOUS
<1>5. ASSUME NEW p \in x.excluded,
             ~ (entry.decision \in {"exclude", "include"} /\ entry.pageId = p)
      PROVE  \E i \in 1..n + 1 :
               /\ log[i].decision = "exclude" /\ log[i].pageId = p
               /\ \A j \in (i + 1)..n + 1 :
                     ~ (log[j].decision \in {"exclude", "include"} /\ log[j].pageId = p)
  <2>1. PICK i \in 1..n :
          /\ log[i].decision = "exclude" /\ log[i].pageId = p
          /\ \A j \in (i + 1)..n :
                ~ (log[j].decision \in {"exclude", "include"} /\ log[j].pageId = p)
    BY DEF Decided
  <2>2. \A j \in (i + 1)..n + 1 :
           ~ (log[j].decision \in {"exclude", "include"} /\ log[j].pageId = p)
    BY <1>4, <1>5, <2>1
  <2> QED BY <1>3, <2>1, <2>2
<1>6. x.state # first.state =>
        /\ first.state \in {"new", "reopened"}
        /\ \E i \in 1..n + 1 : /\ log[i].decision \in {"accept", "dismiss"}
                               /\ log[i].key = "current"
                               /\ ISSUE_TRANSITIONS[log[i].decision].to = x.state
  BY <1>3 DEF Decided
<1>7. (n + 1)..n + 1 = {n + 1} /\ (n + 1 + 1)..n + 1 = {}
  OBVIOUS
<1>8. CASE n + 1 \notin matchDecisions(log)
  <2>1. entry.decision \notin {"exclude", "include"}
    BY <1>1, <1>8, OthersKeepPages DEF matchDecisions
  <2>2. y = x
    BY <1>8
  <2> HIDE DEF entry
  <2> QED
    BY <1>2, <1>5, <1>6, <2>1, <2>2 DEF Decided
<1>9. CASE n + 1 \in matchDecisions(log)
  <2>1. y = replay(x, entry) /\ entry.key = "current"
    BY <1>9 DEF matchDecisions
  <2>2. entry.decision \in {"exclude", "include", "accept", "dismiss"}
    BY <1>1 DEF Entries
  <2>3. CASE entry.decision = "exclude"
    <3>1. /\ IsCase(y) /\ y.state = x.state
          /\ y.excluded \subseteq x.excluded \cup {entry.pageId}
      BY <1>1, <1>2, <2>1, <2>3, OneEntry
    <3>2. ASSUME NEW p \in y.excluded
          PROVE  \E i \in 1..n + 1 :
                   /\ log[i].decision = "exclude" /\ log[i].pageId = p
                   /\ \A j \in (i + 1)..n + 1 :
                         ~ (log[j].decision \in {"exclude", "include"} /\ log[j].pageId = p)
      <4>1. CASE p = entry.pageId
        BY <1>3, <1>7, <2>3, <4>1
      <4>2. CASE p # entry.pageId
        BY <1>5, <3>1, <4>2
      <4> QED BY <4>1, <4>2
    <3> QED BY <1>6, <3>1, <3>2 DEF Decided
  <2>4. CASE entry.decision = "include"
    <3>1. /\ IsCase(y) /\ y.state = x.state
          /\ y.excluded \subseteq x.excluded \ {entry.pageId}
      BY <1>1, <1>2, <2>1, <2>4, OneEntry
    <3> HIDE DEF entry
    <3> QED BY <1>5, <1>6, <3>1 DEF Decided
  <2>5. CASE entry.decision \in {"accept", "dismiss"}
    <3>1. /\ IsCase(y) /\ y.excluded = x.excluded
          /\ \/ y.state = x.state
             \/ /\ x.state \in {"new", "reopened"}
                /\ y.state = ISSUE_TRANSITIONS[entry.decision].to
      BY <1>1, <1>2, <2>1, <2>5, OneEntry
    <3>2. \A p \in y.excluded : \E i \in 1..n + 1 :
                   /\ log[i].decision = "exclude" /\ log[i].pageId = p
                   /\ \A j \in (i + 1)..n + 1 :
                         ~ (log[j].decision \in {"exclude", "include"} /\ log[j].pageId = p)
      BY <1>5, <2>5, <3>1
    <3>3. y.state # first.state =>
            /\ first.state \in {"new", "reopened"}
            /\ \E i \in 1..n + 1 : /\ log[i].decision \in {"accept", "dismiss"}
                                   /\ log[i].key = "current"
                                   /\ ISSUE_TRANSITIONS[log[i].decision].to = y.state
      <4>1. CASE y.state = x.state
        BY <1>6, <4>1
      <4>2. CASE y.state # x.state
        <5>1. /\ x.state \in {"new", "reopened"}
              /\ y.state = ISSUE_TRANSITIONS[entry.decision].to
          BY <3>1, <4>2
        <5>2. first.state \in {"new", "reopened"}
          BY <1>6, <5>1
        <5> QED BY <1>3, <2>1, <2>5, <5>1, <5>2
      <4> QED BY <4>1, <4>2
    <3> QED BY <3>1, <3>2, <3>3 DEF Decided
  <2> QED BY <2>2, <2>3, <2>4, <2>5
<1> QED BY <1>8, <1>9

LEMMA AlwaysDecided ==
    ASSUME NEW first, IsCase(first), first.excluded = {}, NEW log \in Seq(Entries)
    PROVE  Decided(applyCaseDecisions(first, log), first, log, Len(log))
<1>1. Len(log) \in Nat /\ DOMAIN log = 1..Len(log)
  BY LenProperties
<1>2. PICK g : Replays(g, first, log, Len(log)) /\ applyCaseDecisions(first, log) = g[Len(log)]
  BY <1>1, Applied
<1>3. \A k \in 0..Len(log) :
         g[k] = IF k = 0 THEN first
                ELSE IF k \in matchDecisions(log) THEN replay(g[k - 1], log[k])
                ELSE g[k - 1]
  BY <1>2 DEF Replays
<1> DEFINE S == {k \in Nat : k <= Len(log) => Decided(g[k], first, log, k)}
<1>4. 0 \in S
  <2>1. g[0] = first
    BY <1>1, <1>3
  <2> QED BY <2>1 DEF Decided
<1>5. ASSUME NEW k \in S PROVE k + 1 \in S
  <2> SUFFICES ASSUME k + 1 <= Len(log) PROVE Decided(g[k + 1], first, log, k + 1)
    OBVIOUS
  <2>1. k \in Nat /\ k <= Len(log) /\ k + 1 \in DOMAIN log /\ k + 1 \in 0..Len(log) /\ k + 1 # 0
    BY <1>1
  <2>2. Decided(g[k], first, log, k)
    BY <2>1
  <2>3. g[k + 1] = IF k + 1 \in matchDecisions(log) THEN replay(g[k], log[k + 1]) ELSE g[k]
    <3>1. k + 1 - 1 = k
      BY <2>1
    <3> QED BY <1>3, <2>1, <3>1
  <2> QED BY <2>1, <2>2, <2>3, DecidedGrows
<1>6. S = Nat
  <2> HIDE DEF S
  <2>1. S \in SUBSET Nat
    BY DEF S
  <2> QED BY <1>4, <1>5, <2>1, NatInd
<1> QED BY <1>1, <1>2, <1>6

\* The entry appended last is replayed last.
LEMMA LastReplayed ==
    ASSUME NEW first, NEW log \in Seq(Entries), NEW entry \in Entries, entry.key = "current"
    PROVE  applyCaseDecisions(first, Append(log, entry))
             = replay(applyCaseDecisions(first, log), entry)
<1> DEFINE more == Append(log, entry)
           n == Len(log)
<1>1. /\ n \in Nat /\ DOMAIN log = 1..n /\ Len(more) = n + 1 /\ DOMAIN more = 1..n + 1
      /\ more[n + 1] = entry /\ \A k \in 1..n : more[k] = log[k]
  BY LenProperties, AppendProperties
<1> HIDE DEF more, n
<1>2. PICK g : Replays(g, first, log, n) /\ applyCaseDecisions(first, log) = g[n]
  BY <1>1, Applied DEF n
<1>3. PICK h : Replays(h, first, more, n + 1) /\ applyCaseDecisions(first, more) = h[n + 1]
  <2>1. Len(more) \in Nat /\ Len(more) = n + 1
    BY <1>1
  <2> QED BY <2>1, Applied
<1>4. /\ \A k \in 0..n :
           g[k] = IF k = 0 THEN first
                  ELSE IF k \in matchDecisions(log) THEN replay(g[k - 1], log[k])
                  ELSE g[k - 1]
      /\ \A k \in 0..n + 1 :
           h[k] = IF k = 0 THEN first
                  ELSE IF k \in matchDecisions(more) THEN replay(h[k - 1], more[k])
                  ELSE h[k - 1]
  BY <1>2, <1>3 DEF Replays
<1>5. n + 1 \in matchDecisions(more)
      /\ \A k \in 1..n : k \in matchDecisions(log) <=> k \in matchDecisions(more)
  BY <1>1 DEF matchDecisions
<1> DEFINE S == {k \in Nat : k <= n => g[k] = h[k]}
<1>6. 0 \in S
  <2>1. 0 \in 0..n /\ 0 \in 0..n + 1
    BY <1>1
  <2> QED BY <1>4, <2>1
<1>7. ASSUME NEW k \in S PROVE k + 1 \in S
  <2> SUFFICES ASSUME k + 1 <= n PROVE g[k + 1] = h[k + 1]
    OBVIOUS
  <2>1. /\ k \in Nat /\ k <= n /\ k + 1 \in 1..n /\ k + 1 \in 0..n /\ k + 1 \in 0..n + 1
        /\ k + 1 # 0 /\ k + 1 - 1 = k
    BY <1>1
  <2>2. g[k] = h[k] /\ more[k + 1] = log[k + 1]
    BY <1>1, <2>1
  <2> QED BY <1>4, <1>5, <2>1, <2>2
<1>8. S = Nat
  <2> HIDE DEF S
  <2>1. S \in SUBSET Nat
    BY DEF S
  <2> QED BY <1>6, <1>7, <2>1, NatInd
<1>9. g[n] = h[n]
  BY <1>1, <1>8
<1>10. h[n + 1] = replay(h[n], entry)
  <2>1. n + 1 \in 0..n + 1 /\ n + 1 # 0 /\ n + 1 - 1 = n
    BY <1>1
  <2> QED BY <1>1, <1>4, <1>5, <2>1
<1> QED BY <1>2, <1>3, <1>9, <1>10 DEF more

LEMMA LogTyped == SpecDecisions => [](caseDecisions \in Seq(Entries))
<1>1. InitDecisions => caseDecisions \in Seq(Entries)
  BY DEF InitDecisions
<1>2. caseDecisions \in Seq(Entries) /\ [NextDecisions]_decisionVars
        => (caseDecisions \in Seq(Entries))'
  <2> SUFFICES ASSUME caseDecisions \in Seq(Entries), [NextDecisions]_decisionVars
               PROVE  caseDecisions' \in Seq(Entries)
    OBVIOUS
  <2>1. ASSUME NEW entry \in Entries, recordCaseDecision(entry)
        PROVE  caseDecisions' \in Seq(Entries)
    BY <2>1, AppendProperties DEF recordCaseDecision
  <2> QED
    BY <2>1 DEF NextDecisions, decisionVars, FileRecord, DropRecord, setRecStatus,
                advanceTask, completeTask, FieldCheck, Verified
<1> QED BY <1>1, <1>2, PTL DEF SpecDecisions

THEOREM DecidedByOwnLog == SpecDecisions => []DecidedByItsOwnLog
<1>1. caseDecisions \in Seq(Entries) => DecidedByItsOwnLog
  <2> SUFFICES ASSUME caseDecisions \in Seq(Entries) PROVE DecidedByItsOwnLog
    OBVIOUS
  <2> DEFINE iss == CaseOf(recs, caseDecisions)
             words(p) == {i \in DOMAIN caseDecisions :
                            /\ caseDecisions[i].decision \in {"exclude", "include"}
                            /\ caseDecisions[i].pageId = p}
             n == Len(caseDecisions)
  <2>1. n \in Nat /\ DOMAIN caseDecisions = 1..n
    BY LenProperties
  <2>2. Decided(iss, Grouped(recs), caseDecisions, n)
    BY GroupedIs, AlwaysDecided DEF CaseOf
  <2>3. ASSUME NEW p \in iss.excluded
        PROVE  words(p) # {} /\ caseDecisions[Max(words(p))].decision = "exclude"
    <3> HIDE DEF iss, n
    <3>1. PICK i \in 1..n :
            /\ caseDecisions[i].decision = "exclude" /\ caseDecisions[i].pageId = p
            /\ \A j \in (i + 1)..n :
                 ~ (caseDecisions[j].decision \in {"exclude", "include"}
                    /\ caseDecisions[j].pageId = p)
      BY <2>2 DEF Decided
    <3>2. i \in words(p)
      BY <2>1, <3>1
    <3>3. \A j \in words(p) : j \in Nat /\ i >= j
      <4> TAKE j \in words(p)
      <4>1. j \in 1..n /\ j \notin (i + 1)..n
        BY <2>1, <3>1
      <4> QED BY <2>1, <4>1
    <3>4. Max(words(p)) \in words(p) /\ \A j \in words(p) : Max(words(p)) >= j
      <4> HIDE DEF words
      <4> QED BY <3>2, <3>3 DEF Max
    <3>5. Max(words(p)) = i
      <4> HIDE DEF words
      <4>1. Max(words(p)) \in Nat /\ i \in Nat /\ Max(words(p)) >= i /\ i >= Max(words(p))
        BY <3>2, <3>3, <3>4
      <4> QED BY <4>1
    <3> QED BY <3>1, <3>2, <3>5
  <2>4. iss.state # Grouped(recs).state =>
            /\ Grouped(recs).state \in {"new", "reopened"}
            /\ \E i \in DOMAIN caseDecisions :
                  /\ caseDecisions[i].decision \in {"accept", "dismiss"}
                  /\ caseDecisions[i].key = "current"
                  /\ ISSUE_TRANSITIONS[caseDecisions[i].decision].to = iss.state
    <3> HIDE DEF iss
    <3> QED BY <2>1, <2>2 DEF Decided
  <2> QED BY <2>3, <2>4 DEF DecidedByItsOwnLog
<1> QED BY <1>1, LogTyped, PTL

THEOREM DecisionsTakeEffect == SpecDecisions => LegalDecisionTakesEffect
<1> DEFINE Effect ==
      \A entry \in Entries :
          /\ HasCase
          /\ caseDecisions' = Append(caseDecisions, entry)
          /\ entry.key = "current"
          => LET before == CaseOf(recs, caseDecisions)
                 now == CaseOf(recs, caseDecisions')
             IN CASE entry.decision = "exclude" ->
                        mayExclude(before, entry.pageId)
                            => entry.pageId \in now.excluded
                  [] entry.decision = "include" ->
                        entry.pageId \notin now.excluded
                  [] entry.decision \in {"accept", "dismiss"} ->
                        mayApply(before, entry.decision, "person")
                            => now.state
                               = ISSUE_TRANSITIONS[entry.decision].to
<1>1. caseDecisions \in Seq(Entries) => Effect
  <2> SUFFICES ASSUME caseDecisions \in Seq(Entries), NEW entry \in Entries,
                      caseDecisions' = Append(caseDecisions, entry), entry.key = "current"
               PROVE  LET before == CaseOf(recs, caseDecisions)
                          now == CaseOf(recs, caseDecisions')
                      IN CASE entry.decision = "exclude" ->
                                 mayExclude(before, entry.pageId)
                                     => entry.pageId \in now.excluded
                           [] entry.decision = "include" ->
                                 entry.pageId \notin now.excluded
                           [] entry.decision \in {"accept", "dismiss"} ->
                                 mayApply(before, entry.decision, "person")
                                     => now.state
                                        = ISSUE_TRANSITIONS[entry.decision].to
    OBVIOUS
  <2> DEFINE before == CaseOf(recs, caseDecisions)
             now == CaseOf(recs, caseDecisions')
  <2>1. IsCase(before)
    <3>1. Decided(before, Grouped(recs), caseDecisions, Len(caseDecisions))
      BY GroupedIs, AlwaysDecided DEF CaseOf
    <3> QED BY <3>1 DEF Decided
  <2>2. now = replay(before, entry)
    BY LastReplayed DEF CaseOf
  <2>3. entry.decision \in {"exclude", "include", "accept", "dismiss"}
    BY DEF Entries
  <2> HIDE DEF before, now
  <2>4. entry.decision = "exclude" =>
          (mayExclude(before, entry.pageId) => entry.pageId \in now.excluded)
    BY <2>1, <2>2, OneEntry
  <2>5. entry.decision = "include" => entry.pageId \notin now.excluded
    BY <2>1, <2>2, OneEntry
  <2>6. entry.decision \in {"accept", "dismiss"} =>
          (mayApply(before, entry.decision, "person")
             => now.state = ISSUE_TRANSITIONS[entry.decision].to)
    BY <2>1, <2>2, OneEntry
  <2> QED BY <2>3, <2>4, <2>5, <2>6 DEF before, now
<1>2. caseDecisions \in Seq(Entries) => [Effect]_decisionVars
  BY <1>1
<1> QED BY <1>2, LogTyped, PTL DEF LegalDecisionTakesEffect

-----------------------------------------------------------------------------
(* FieldWindows: the count of a lifecycle against the windows that were good.
   One that is verifying has counted the window it was judged by last, and one
   that is resolved has counted another before it. *)
FieldStatus == {"none", "active", "verifying", "corroborated", "resolved", "regressed"}

Lives == [status : FieldStatus, last : Nat, good : Nat]

Counted(life, windows) ==
    /\ life.status \in {"verifying", "resolved"} => life.last \in windows
    /\ life.status \notin {"verifying", "resolved"} => life.good = 0
    /\ life.status = "verifying" => life.good = 1
    /\ life.status = "resolved" => \E a, b \in windows : a # b
    /\ life.status = "none" => life = NoLifecycle

FieldInv ==
    /\ evidence \in Evidence
    /\ held \in {NoEvidence} \cup Evidence
    /\ fieldLifecycle \in [Strategies -> Lives]
    /\ goodSince \in [Strategies -> SUBSET (1..MaxWindow)]
    /\ \A s \in Strategies : Counted(fieldLifecycle[s], goodSince[s])

(* What the same judgement makes of the windows that were good. *)
GoodAfter(life, windows, end, good, lab) ==
    IF life = NoLifecycle THEN {}
    ELSE IF good THEN windows \cup {end}
    ELSE IF lab = "none" THEN windows ELSE {}

LEMMA JudgedCounts ==
  ASSUME NEW life \in Lives, NEW windows, Counted(life, windows),
         NEW end \in 1..MaxWindow, NEW good \in BOOLEAN,
         NEW lab \in {"none", "explains", "silent"}
  PROVE  /\ Judged(life, end, good, lab) \in Lives
         /\ Counted(Judged(life, end, good, lab), GoodAfter(life, windows, end, good, lab))
<1>. DEFINE after == GoodAfter(life, windows, end, good, lab)
<1>0. end \in Nat
  BY FieldAssumption
<1>1. CASE life = NoLifecycle
  <2>1. after = {}
    BY <1>1 DEF GoodAfter
  <2>. QED BY <1>0, <1>1, <2>1 DEF Judged, NoLifecycle, initialLifecycle, Counted, Lives, FieldStatus
<1>2. CASE life # NoLifecycle /\ good
  <2>1. after = windows \cup {end}
    BY <1>2 DEF GoodAfter
  <2>2. Judged(life, end, good, lab) = GoodWindow(life, end)
    BY <1>2 DEF Judged, evaluateExistingLifecycle
  <2>3. GoodWindow(life, end) \in Lives
    BY <1>0 DEF GoodWindow, Lives, FieldStatus
  <2>4. CASE life.last # end \/ life.status \notin {"verifying", "resolved"}
    <3>. DEFINE next == GoodWindow(life, end)
    <3>1. /\ next.status = IF life.good + 1 >= 2 THEN "resolved" ELSE "verifying"
          /\ next.last = end /\ next.good = life.good + 1
      BY <2>4 DEF GoodWindow
    <3>0. life.good \in Nat
      BY DEF Lives
    <3>2. CASE life.status \notin {"verifying", "resolved"}
      <4>1. life.good = 0
        BY <3>2 DEF Counted
      <4>2. next.status = "verifying" /\ next.good = 1 /\ next.last \in after
        BY <2>1, <3>1, <4>1
      <4>. QED BY <2>2, <2>3, <4>2 DEF Counted
    <3>3. CASE life.status = "verifying"
      <4>1. life.good = 1 /\ life.last \in windows /\ life.last # end
        BY <2>4, <3>3 DEF Counted
      <4>2. next.status = "resolved" /\ life.last \in after /\ end \in after /\ next.last = end
        BY <2>1, <3>1, <4>1
      <4>. QED BY <2>2, <2>3, <4>1, <4>2 DEF Counted
    <3>4. CASE life.status = "resolved"
      <4>1. PICK a \in windows, b \in windows : a # b
        BY <3>4 DEF Counted
      <4>2. a \in after /\ b \in after
        BY <2>1
      <4>3. next.status = "verifying" => next.good = 1
        BY <3>0, <3>1
      <4>4. next.status \in {"resolved", "verifying"} /\ next.last \in after
        BY <2>1, <3>1
      <4>. QED BY <2>2, <2>3, <4>1, <4>2, <4>3, <4>4 DEF Counted
    <3>5. life.status \in {"verifying", "resolved"} \/ life.status \notin {"verifying", "resolved"}
      OBVIOUS
    <3>. QED BY <2>2, <2>3, <3>2, <3>3, <3>4, <3>5
  <2>5. CASE ~(life.last # end \/ life.status \notin {"verifying", "resolved"})
    BY <1>2, <2>1, <2>2, <2>5 DEF GoodWindow, Counted
  <2>. QED BY <2>2, <2>3, <2>4, <2>5
<1>3. CASE life # NoLifecycle /\ ~good /\ lab = "none"
  <2>1. after = windows
    BY <1>3 DEF GoodAfter
  <2>. QED BY <1>3, <2>1 DEF Judged, evaluateExistingLifecycle
<1>4. CASE life # NoLifecycle /\ ~good /\ lab # "none"
  <2>1. after = {}
    BY <1>4 DEF GoodAfter
  <2>2. Judged(life, end, good, lab) = PoorWindow(life, end, lab)
    BY <1>4 DEF Judged, evaluateExistingLifecycle
  <2>3. /\ PoorWindow(life, end, lab) \in Lives
        /\ PoorWindow(life, end, lab).status \in {"active", "corroborated", "regressed"}
        /\ PoorWindow(life, end, lab).good = 0
    BY <1>0 DEF PoorWindow, Lives, FieldStatus, Counted
  <2>. QED BY <2>1, <2>2, <2>3 DEF Counted
<1>. QED BY <1>1, <1>2, <1>3, <1>4

LEMMA ReconcileKeeps ==
  ASSUME FieldInv, NEW read \in Evidence, Reconcile(read)
  PROVE  /\ evidence' \in Evidence
         /\ fieldLifecycle' \in [Strategies -> Lives]
         /\ goodSince' \in [Strategies -> SUBSET (1..MaxWindow)]
         /\ \A s \in Strategies : Counted(fieldLifecycle'[s], goodSince'[s])
<1>1. PICK lab \in [Strategies -> {"none", "explains", "silent"}] :
          /\ fieldLifecycle' = [s \in Strategies |->
                Judged(fieldLifecycle[s], read.end, read.good[s], lab[s])]
          /\ goodSince' = [s \in Strategies |->
                IF fieldLifecycle[s] = NoLifecycle THEN {}
                ELSE IF read.good[s] THEN goodSince[s] \cup {read.end}
                ELSE IF lab[s] = "none" THEN goodSince[s] ELSE {}]
  BY DEF Reconcile
<1>2. ASSUME NEW s \in Strategies
      PROVE  /\ Judged(fieldLifecycle[s], read.end, read.good[s], lab[s]) \in Lives
             /\ goodSince'[s] \in SUBSET (1..MaxWindow)
             /\ Counted(Judged(fieldLifecycle[s], read.end, read.good[s], lab[s]), goodSince'[s])
  <2>1. /\ fieldLifecycle[s] \in Lives /\ read.end \in 1..MaxWindow
        /\ read.good[s] \in BOOLEAN /\ lab[s] \in {"none", "explains", "silent"}
        /\ Counted(fieldLifecycle[s], goodSince[s]) /\ goodSince[s] \in SUBSET (1..MaxWindow)
    BY DEF FieldInv, Evidence
  <2>2. goodSince'[s] = GoodAfter(fieldLifecycle[s], goodSince[s], read.end, read.good[s], lab[s])
    BY <1>1 DEF GoodAfter
  <2>3. goodSince'[s] \in {{}, goodSince[s] \cup {read.end}, goodSince[s]}
    BY <2>2 DEF GoodAfter
  <2>4. goodSince'[s] \in SUBSET (1..MaxWindow)
    BY <2>1, <2>3
  <2>5. /\ Judged(fieldLifecycle[s], read.end, read.good[s], lab[s]) \in Lives
        /\ Counted(Judged(fieldLifecycle[s], read.end, read.good[s], lab[s]), goodSince'[s])
    BY <2>1, <2>2, JudgedCounts, ZenonT(30)
  <2>. QED BY <2>4, <2>5
<1>3. fieldLifecycle' \in [Strategies -> Lives]
  BY <1>1, <1>2
<1>4. DOMAIN goodSince' = Strategies /\ goodSince' = [s \in Strategies |-> goodSince'[s]]
  BY <1>1, Zenon
<1>5. goodSince' \in [Strategies -> SUBSET (1..MaxWindow)]
  BY <1>2, <1>4
<1>6. \A s \in Strategies : Counted(fieldLifecycle'[s], goodSince'[s])
  BY <1>1, <1>2
<1>. QED BY <1>3, <1>5, <1>6 DEF Reconcile, FieldInv

(* The whole recommendation is resolved when every device with a lifecycle is. *)
LEMMA ResolvedMeansAll ==
  ASSUME FieldInv, fieldRecommendationLifecycleStatus = "resolved",
         NEW s \in Strategies, fieldLifecycle[s] # NoLifecycle
  PROVE  fieldLifecycle[s].status = "resolved"
<1>. DEFINE has(i) == \E d \in Strategies : fieldLifecycle[d].status = WorstFirst[i]
            first == {i \in 1..5 : has(i) /\ \A j \in 1..(i - 1) : ~has(j)}
<1>1. WorstFirst[1] = "regressed" /\ WorstFirst[2] = "active" /\ WorstFirst[3] = "verifying"
      /\ WorstFirst[4] = "corroborated" /\ WorstFirst[5] = "resolved"
  BY DEF WorstFirst
<1>2. fieldRecommendationLifecycleStatus
        = IF first = {} THEN "none" ELSE WorstFirst[CHOOSE i \in first : TRUE]
  BY Zenon DEF fieldRecommendationLifecycleStatus
<1>3. PICK i \in first : WorstFirst[i] = "resolved"
  <2>1. first # {}
    BY <1>2
  <2>2. (CHOOSE i \in first : TRUE) \in first
    BY <2>1, Zenon
  <2>. QED BY <1>2, <2>1, <2>2
<1>4. i = 5
  BY <1>1, <1>3
<1>5. \A j \in 1..4 : ~has(j)
  BY <1>3, <1>4
<1>6. ~has(1) /\ ~has(2) /\ ~has(3) /\ ~has(4)
  BY <1>5
<1>7. fieldLifecycle[s].status \in {"none", "resolved"}
  BY <1>1, <1>6 DEF FieldInv, Lives, FieldStatus
<1>. QED BY <1>7 DEF FieldInv, Counted

(* A field recommendation reads as resolved only when each of its devices had
   two distinct good windows since it last was judged not good - for however
   many devices and windows, in whatever order they are judged. *)
THEOREM SettledByTwo == SpecField => []SettledHeldTwice
<1>1. InitField => FieldInv
  BY FieldAssumption DEF InitField, FieldInv, Evidence, NoEvidence, NoLifecycle, Lives, FieldStatus, Counted
<1>2. FieldInv /\ [NextField]_fieldVars => FieldInv'
  <2>. SUFFICES ASSUME FieldInv, [NextField]_fieldVars PROVE FieldInv'
    OBVIOUS
  <2>1. CASE RefreshCrux
    BY <2>1, FieldAssumption DEF RefreshCrux, FieldInv, Evidence
  <2>2. CASE ReadEvidence
    BY <2>2 DEF ReadEvidence, FieldInv
  <2>3. CASE ReconcileHeld
    BY <2>3, ReconcileKeeps DEF ReconcileHeld, FieldInv
  <2>4. CASE ReconcileCurrent
    BY <2>4, ReconcileKeeps DEF ReconcileCurrent, FieldInv
  <2>5. CASE UNCHANGED fieldVars
    BY <2>5 DEF fieldVars, FieldInv
  <2>. QED BY <2>1, <2>2, <2>3, <2>4, <2>5 DEF NextField
<1>3. FieldInv => SettledHeldTwice
  <2>. SUFFICES ASSUME FieldInv, fieldRecommendationLifecycleStatus = "resolved",
                       NEW s \in Strategies, fieldLifecycle[s] # NoLifecycle
                PROVE  Cardinality(goodSince[s]) >= 2
    BY DEF SettledHeldTwice
  <2>1. PICK a \in goodSince[s], b \in goodSince[s] : a # b
    BY ResolvedMeansAll DEF FieldInv, Counted
  <2>2. IsFiniteSet(goodSince[s])
    <3>1. IsFiniteSet(1..MaxWindow)
      BY FieldAssumption, FS_Interval
    <3>. QED BY <3>1, FS_Subset DEF FieldInv
  <2>3. IsFiniteSet({a}) /\ Cardinality({a}) = 1
    BY FS_Singleton
  <2>4. Cardinality({a} \cup {b}) = 2
    BY <2>1, <2>3, FS_AddElement
  <2>5. {a} \cup {b} \subseteq goodSince[s]
    BY <2>1
  <2>6. Cardinality({a} \cup {b}) <= Cardinality(goodSince[s]) /\ Cardinality(goodSince[s]) \in Nat
    BY <2>2, <2>5, FS_Subset, FS_CardinalityType
  <2>. QED BY <2>4, <2>6
<1>. QED BY <1>1, <1>2, <1>3, PTL DEF SpecField

-----------------------------------------------------------------------------
(* The follow-ups *)

(* Where an invocation holds a follow-up by a claim of its own, the stored
   claim is that one, or a newer one made when it was a window old. *)
Stamped(c, i) ==
    (Holds(c, i) /\ calls[c].raced = FALSE) =>
        \/ followUps[i].since = calls[c].age
        \/ followUps[i].since + ClaimWindow <= calls[c].age

Apart(c, d, i) ==
    (c # d /\ Holds(c, i) /\ Holds(d, i)
            /\ calls[c].raced = FALSE /\ calls[d].raced = FALSE)
        => \/ calls[c].age - calls[d].age >= ClaimWindow
           \/ calls[d].age - calls[c].age >= ClaimWindow

(* An accepted answer is one Slack gave for the item at hand. *)
Answered(c) == calls[c].accepted = TRUE => calls[c].pc = "finish" /\ calls[c].item \in told

SentAccepted(i) == followUps[i].sent = TRUE => i \in told

FollowUpsInv ==
        /\ FollowUpsTypeOK
        /\ \A c \in Invocations, i \in Items : Stamped(c, i)
        /\ \A c, d \in Invocations, i \in Items : Apart(c, d, i)
        /\ \A c \in Invocations : Answered(c)
        /\ \A i \in Items : SentAccepted(i)

-----------------------------------------------------------------------------
LEMMA Numbers ==
  /\ ClaimWindow \in Nat \ {0} /\ MaxLife \in Nat /\ MaxRetryAfter \in Nat
  /\ LongAgo = ClaimWindow + MaxLife + 1 /\ NoDelay = -MaxLife
  /\ LongAgo \in Nat /\ NoDelay \in Int
  /\ LongAgo \in 0..LongAgo /\ NoDelay \in NoDelay..MaxRetryAfter
  BY FollowUpAssumption DEF LongAgo, NoDelay

(* A step that keeps the items' claims and what every invocation holds, and
   loses nothing Slack accepted, keeps the invariant. *)
LEMMA StampsKept ==
  ASSUME FollowUpsInv, FollowUpsTypeOK',
         \A i \in Items : followUps'[i].since = followUps[i].since,
         \A c \in Invocations, i \in Items :
            (calls'[c].pc \in {"deliver", "finish"} /\ calls'[c].item = i /\ calls'[c].raced = FALSE)
                => Holds(c, i) /\ calls[c].raced = FALSE /\ calls'[c].age = calls[c].age,
         \A c \in Invocations : Answered(c)',
         \A i \in Items : SentAccepted(i)'
  PROVE  FollowUpsInv'
<1>1. ASSUME NEW c \in Invocations, NEW i \in Items
      PROVE  Stamped(c, i)'
  BY DEF Stamped, Holds, FollowUpsInv
<1>2. ASSUME NEW c \in Invocations, NEW d \in Invocations, NEW i \in Items
      PROVE  Apart(c, d, i)'
  BY DEF Apart, Holds, FollowUpsInv
<1>. QED BY <1>1, <1>2 DEF FollowUpsInv

LEMMA FollowUpsInitially == InitFollowUps => FollowUpsInv
<1>. SUFFICES ASSUME InitFollowUps PROVE FollowUpsInv
  OBVIOUS
<1>1. PICK i \in Items :
        calls = [c \in Invocations |->
                      [pc |-> "idle", age |-> 0, todo |-> {}, item |-> i,
                       claimed |-> FALSE, raced |-> FALSE,
                       accepted |-> FALSE, retryAfter |-> 0,
                       asked |-> FALSE]]
  BY DEF InitFollowUps
<1>2. \A c \in Invocations : calls[c] \in Call /\ calls[c].pc = "idle" /\ calls[c].accepted = FALSE
  BY <1>1, Numbers DEF Call, Steps
<1>3. followUps \in [Items -> FollowUp]
  BY Numbers DEF InitFollowUps, FollowUp
<1>4. FollowUpsTypeOK
  BY <1>1, <1>2, <1>3 DEF InitFollowUps, FollowUpsTypeOK
<1>5. \A j \in Items : SentAccepted(j)
  BY DEF InitFollowUps, SentAccepted
<1>. QED BY <1>2, <1>4, <1>5 DEF FollowUpsInv, Stamped, Apart, Answered, Holds

(* Time moves a claim and the invocations that made it alike. *)
LEMMA TickKeeps ==
  ASSUME FollowUpsInv, Tick
  PROVE  FollowUpsInv'
<1>0. FollowUpsTypeOK
  BY DEF FollowUpsInv
<1>1. \A i \in Items :
         /\ followUps[i] \in FollowUp
         /\ followUps'[i] = [followUps[i] EXCEPT
              !.since = IF @ < LongAgo THEN @ + 1 ELSE LongAgo,
              !.delay = IF @ > NoDelay THEN @ - 1 ELSE NoDelay]
  BY <1>0 DEF Tick, FollowUpsTypeOK
<1>2. ASSUME NEW i \in Items
      PROVE  /\ followUps'[i] \in FollowUp
             /\ followUps'[i].sent = followUps[i].sent
             /\ followUps'[i].since = IF followUps[i].since < LongAgo
                                      THEN followUps[i].since + 1 ELSE LongAgo
  <2>. DEFINE since == IF followUps[i].since < LongAgo
                       THEN followUps[i].since + 1 ELSE LongAgo
              delay == IF followUps[i].delay > NoDelay
                       THEN followUps[i].delay - 1 ELSE NoDelay
  <2>1. followUps[i].since \in 0..LongAgo /\ followUps[i].delay \in NoDelay..MaxRetryAfter
    BY <1>1 DEF FollowUp
  <2>2. since \in 0..LongAgo /\ delay \in NoDelay..MaxRetryAfter
    BY <2>1, Numbers
  <2>3. followUps'[i] = [followUps[i] EXCEPT !.since = since, !.delay = delay]
    BY <1>1 DEF FollowUp
  <2>. HIDE DEF since, delay
  <2>4. followUps'[i] \in FollowUp /\ followUps'[i].sent = followUps[i].sent
        /\ followUps'[i].since = since
    BY <1>1, <2>2, <2>3 DEF FollowUp
  <2>. QED BY <2>4 DEF since
<1>3. \A c \in Invocations :
         /\ calls[c] \in Call
         /\ Busy(c) => calls[c].age < MaxLife
         /\ calls'[c] = [calls[c] EXCEPT !.age = IF Busy(c) THEN @ + 1 ELSE 0]
  BY <1>0 DEF Tick, FollowUpsTypeOK
<1>4. ASSUME NEW c \in Invocations
      PROVE  /\ calls'[c] \in Call
             /\ calls'[c].pc = calls[c].pc /\ calls'[c].item = calls[c].item
             /\ calls'[c].raced = calls[c].raced /\ calls'[c].accepted = calls[c].accepted
             /\ calls[c].age \in 0..MaxLife
             /\ calls[c].pc # "idle" => calls[c].age < MaxLife /\ calls'[c].age = calls[c].age + 1
  <2>. DEFINE age == IF Busy(c) THEN calls[c].age + 1 ELSE 0
  <2>1. calls[c] \in Call /\ calls[c].age \in 0..MaxLife
    BY <1>3 DEF Call
  <2>2. age \in 0..MaxLife
    <3>1. CASE Busy(c)
      <4>1. calls[c].age < MaxLife
        BY <1>3, <3>1
      <4>. QED BY <2>1, <3>1, <4>1, Numbers
    <3>2. CASE ~Busy(c)
      BY <3>2, Numbers
    <3>. QED BY <3>1, <3>2
  <2>3. calls'[c] = [calls[c] EXCEPT !.age = age]
    BY <1>3, <2>1 DEF Call
  <2>4. calls[c].pc # "idle" => calls[c].age < MaxLife /\ age = calls[c].age + 1
    BY <1>3 DEF Busy
  <2>. HIDE DEF age
  <2>. QED BY <2>1, <2>2, <2>3, <2>4 DEF Call
<1>5. FollowUpsTypeOK'
  BY <1>0, <1>2, <1>4 DEF Tick, FollowUpsTypeOK
<1>6. ASSUME NEW c \in Invocations, NEW i \in Items
      PROVE  Stamped(c, i)'
  <2>. SUFFICES ASSUME calls[c].pc \in {"deliver", "finish"}, calls[c].item = i, calls[c].raced = FALSE
                PROVE  \/ followUps'[i].since = calls'[c].age
                       \/ followUps'[i].since + ClaimWindow <= calls'[c].age
    BY <1>4 DEF Stamped, Holds
  <2>1. \/ followUps[i].since = calls[c].age
        \/ followUps[i].since + ClaimWindow <= calls[c].age
    BY DEF FollowUpsInv, Stamped, Holds
  <2>2. followUps[i].since \in Nat
    <3>1. followUps[i].since \in 0..LongAgo
      BY <1>1 DEF FollowUp
    <3>. QED BY <3>1, Numbers
  <2>3. calls[c].age < MaxLife /\ calls'[c].age = calls[c].age + 1 /\ calls[c].age \in 0..MaxLife
    BY <1>4
  <2>4. followUps[i].since < LongAgo
    BY <2>1, <2>2, <2>3, Numbers
  <2>5. followUps'[i].since = followUps[i].since + 1
    BY <1>2, <2>4
  <2>. QED BY <2>1, <2>2, <2>3, <2>5, Numbers
<1>7. ASSUME NEW c \in Invocations, NEW d \in Invocations, NEW i \in Items
      PROVE  Apart(c, d, i)'
  <2>. SUFFICES ASSUME c # d, Holds(c, i), Holds(d, i),
                       calls[c].raced = FALSE, calls[d].raced = FALSE
                PROVE  \/ calls'[c].age - calls'[d].age >= ClaimWindow
                       \/ calls'[d].age - calls'[c].age >= ClaimWindow
    BY <1>4 DEF Apart, Holds
  <2>1. \/ calls[c].age - calls[d].age >= ClaimWindow
        \/ calls[d].age - calls[c].age >= ClaimWindow
    BY DEF FollowUpsInv, Apart
  <2>2. /\ calls'[c].age = calls[c].age + 1 /\ calls'[d].age = calls[d].age + 1
        /\ calls[c].age \in 0..MaxLife /\ calls[d].age \in 0..MaxLife
    BY <1>4 DEF Holds
  <2>. QED BY <2>1, <2>2, Numbers
<1>8. \A c \in Invocations : Answered(c)'
  <2>1. told' = told
    BY DEF Tick
  <2>2. \A c \in Invocations : Answered(c)
    BY DEF FollowUpsInv
  <2>. QED BY <1>4, <2>1, <2>2 DEF Answered
<1>9. \A i \in Items : SentAccepted(i)'
  BY <1>2 DEF FollowUpsInv, SentAccepted, Tick
<1>. QED BY <1>5, <1>6, <1>7, <1>8, <1>9 DEF FollowUpsInv

-----------------------------------------------------------------------------
(* What an invocation may become without its claims being touched. *)
Next_(c, r) ==
    /\ r \in Call
    /\ (r.pc \in {"deliver", "finish"} /\ r.raced = FALSE) =>
          /\ calls[c].pc \in {"deliver", "finish"} /\ calls[c].item = r.item
          /\ calls[c].raced = FALSE /\ calls[c].age = r.age
    /\ r.accepted = TRUE => r.pc = "finish" /\ r.item \in told'

LEMMA CallSteps ==
  ASSUME FollowUpsInv, NEW c \in Invocations, NEW r, Next_(c, r),
         calls' = [calls EXCEPT ![c] = r],
         told \subseteq told', told' \subseteq Items,
         FollowUpsTypeOK' \/ UNCHANGED <<followUps, pageMonitored, earlierNight>>,
         \A i \in Items : followUps'[i].since = followUps[i].since,
         \A i \in Items : SentAccepted(i)'
  PROVE  FollowUpsInv'
<1>1. calls \in [Invocations -> Call] /\ FollowUpsTypeOK
  BY DEF FollowUpsInv, FollowUpsTypeOK
<1>2. /\ calls' \in [Invocations -> Call]
      /\ calls'[c] = r /\ \A d \in Invocations : d # c => calls'[d] = calls[d]
  BY <1>1 DEF Next_
<1>3. FollowUpsTypeOK'
  BY <1>1, <1>2 DEF FollowUpsTypeOK
<1>4. ASSUME NEW d \in Invocations
      PROVE  Answered(d)'
  <2>1. Answered(d)
    BY DEF FollowUpsInv
  <2>2. CASE d = c
    BY <1>2, <2>2 DEF Answered, Next_
  <2>3. CASE d # c
    BY <1>2, <2>1, <2>3 DEF Answered
  <2>. QED BY <2>2, <2>3
<1>5. ASSUME NEW d \in Invocations, NEW i \in Items,
             calls'[d].pc \in {"deliver", "finish"}, calls'[d].item = i,
             calls'[d].raced = FALSE
      PROVE  Holds(d, i) /\ calls[d].raced = FALSE /\ calls'[d].age = calls[d].age
  BY <1>2, <1>5 DEF Holds, Next_
<1>. QED BY <1>3, <1>4, <1>5, StampsKept

(* The fields of a record of an invocation, for the steps below. *)
LEMMA CallFields ==
  ASSUME NEW r
  PROVE  r \in Call => /\ r.pc \in Steps /\ r.age \in 0..MaxLife
                       /\ r.todo \subseteq Items /\ r.item \in Items
                       /\ r.claimed \in BOOLEAN /\ r.raced \in BOOLEAN
                       /\ r.accepted \in BOOLEAN /\ r.retryAfter \in 0..MaxRetryAfter
                       /\ r.asked \in BOOLEAN
  BY DEF Call

LEMMA SameDocument ==
  ASSUME FollowUpsInv, UNCHANGED <<followUps, pageMonitored, earlierNight, told>>
  PROVE  /\ told \subseteq told' /\ told' \subseteq Items
         /\ \A i \in Items : followUps'[i].since = followUps[i].since
         /\ \A i \in Items : SentAccepted(i)'
  BY DEF FollowUpsInv, FollowUpsTypeOK, SentAccepted

LEMMA InvokeKeeps ==
  ASSUME FollowUpsInv, NEW c \in Invocations, Invoke(c)
  PROVE  FollowUpsInv'
<1>. DEFINE r == [calls[c] EXCEPT !.pc = "loop", !.age = 0, !.todo = Due]
<1>1. calls \in [Invocations -> Call] /\ calls[c] \in Call
  BY DEF FollowUpsInv, FollowUpsTypeOK
<1>2. Due \subseteq Items /\ 0 \in 0..MaxLife
  BY Numbers DEF Due
<1>3. calls' = [calls EXCEPT ![c] = r]
  BY <1>1 DEF Invoke, Call
<1>4. r \in Call /\ r.pc = "loop" /\ r.accepted = calls[c].accepted
  BY <1>1, <1>2 DEF Call, Steps
<1>5. calls[c].accepted = FALSE
  BY <1>1, CallFields DEF FollowUpsInv, Answered, Invoke
<1>6. Next_(c, r)
  BY <1>4, <1>5 DEF Next_
<1>7. UNCHANGED <<followUps, pageMonitored, earlierNight, told>>
  BY DEF Invoke
<1>. HIDE DEF r
<1>. QED BY <1>3, <1>6, <1>7, CallSteps, SameDocument

LEMMA CandidateKeeps ==
  ASSUME FollowUpsInv, NEW c \in Invocations, NextCandidate(c)
  PROVE  FollowUpsInv'
<1>1. calls \in [Invocations -> Call] /\ calls[c] \in Call
  BY DEF FollowUpsInv, FollowUpsTypeOK
<1>2. calls[c].accepted = FALSE /\ calls[c].pc = "loop"
  BY <1>1, CallFields DEF FollowUpsInv, Answered, NextCandidate
<1>3. UNCHANGED <<followUps, pageMonitored, earlierNight, told>>
  BY DEF NextCandidate
<1>4. ASSUME NEW i \in calls[c].todo,
             calls' = [calls EXCEPT ![c].pc = "claim", ![c].item = i,
                                    ![c].todo = @ \ {i},
                                    ![c].claimed = FALSE, ![c].raced = FALSE]
      PROVE  FollowUpsInv'
  <2>. DEFINE r == [calls[c] EXCEPT !.pc = "claim", !.item = i, !.todo = @ \ {i},
                                    !.claimed = FALSE, !.raced = FALSE]
  <2>1. calls' = [calls EXCEPT ![c] = r]
    BY <1>1, <1>4 DEF Call
  <2>2. r \in Call /\ r.pc = "claim" /\ r.accepted = calls[c].accepted
    BY <1>1, <1>4 DEF Call, Steps
  <2>3. Next_(c, r)
    BY <1>2, <2>2 DEF Next_
  <2>. HIDE DEF r
  <2>. QED BY <1>3, <2>1, <2>3, CallSteps, SameDocument
<1>5. ASSUME calls' = [calls EXCEPT ![c].pc = "idle", ![c].age = 0]
      PROVE  FollowUpsInv'
  <2>. DEFINE r == [calls[c] EXCEPT !.pc = "idle", !.age = 0]
  <2>1. calls' = [calls EXCEPT ![c] = r]
    BY <1>1, <1>5 DEF Call
  <2>2. r \in Call /\ r.pc = "idle" /\ r.accepted = calls[c].accepted
    <3>1. 0 \in 0..MaxLife
      BY Numbers
    <3>. QED BY <1>1, <3>1 DEF Call, Steps
  <2>3. Next_(c, r)
    BY <1>2, <2>2 DEF Next_
  <2>. HIDE DEF r
  <2>. QED BY <1>3, <2>1, <2>3, CallSteps, SameDocument
<1>. QED BY <1>4, <1>5 DEF NextCandidate

LEMMA LostKeeps ==
  ASSUME FollowUpsInv, NEW c \in Invocations, LoseSwap(c)
  PROVE  FollowUpsInv'
<1>. DEFINE r == [calls[c] EXCEPT !.claimed = TRUE]
<1>1. calls \in [Invocations -> Call] /\ calls[c] \in Call
  BY DEF FollowUpsInv, FollowUpsTypeOK
<1>2. calls[c].accepted = FALSE
  BY <1>1, CallFields DEF FollowUpsInv, Answered, LoseSwap
<1>3. calls' = [calls EXCEPT ![c] = r]
  BY DEF LoseSwap
<1>4. r \in Call /\ r.pc = "claim" /\ r.accepted = calls[c].accepted
  BY <1>1 DEF Call, Steps, LoseSwap
<1>5. Next_(c, r)
  BY <1>2, <1>4 DEF Next_
<1>6. UNCHANGED <<followUps, pageMonitored, earlierNight, told>>
  BY DEF LoseSwap
<1>. HIDE DEF r
<1>. QED BY <1>3, <1>5, <1>6, CallSteps, SameDocument

LEMMA DieKeeps ==
  ASSUME FollowUpsInv, NEW c \in Invocations, Die(c)
  PROVE  FollowUpsInv'
<1>. DEFINE r == [calls[c] EXCEPT !.pc = "idle", !.age = 0, !.todo = {},
                    !.claimed = FALSE, !.raced = FALSE,
                    !.accepted = FALSE, !.asked = FALSE,
                    !.retryAfter = 0]
<1>1. calls \in [Invocations -> Call] /\ calls[c] \in Call
  BY DEF FollowUpsInv, FollowUpsTypeOK
<1>2. calls' = [calls EXCEPT ![c] = r]
  BY <1>1 DEF Die, Call
<1>3. 0 \in 0..MaxLife /\ 0 \in 0..MaxRetryAfter
  BY Numbers
<1>4. r \in Call /\ r.pc = "idle" /\ r.accepted = FALSE
  BY <1>1, <1>3 DEF Call, Steps
<1>5. Next_(c, r)
  BY <1>4 DEF Next_
<1>6. UNCHANGED <<followUps, pageMonitored, earlierNight, told>>
  BY DEF Die
<1>. HIDE DEF r
<1>. QED BY <1>2, <1>5, <1>6, CallSteps, SameDocument

LEMMA DeliverKeeps ==
  ASSUME FollowUpsInv, NEW c \in Invocations, Deliver(c)
  PROVE  FollowUpsInv'
<1>1. calls \in [Invocations -> Call] /\ calls[c] \in Call
  BY DEF FollowUpsInv, FollowUpsTypeOK
<1>2. PICK accepted \in BOOLEAN, asked \in BOOLEAN, n \in 0..MaxRetryAfter :
          /\ calls' = [calls EXCEPT ![c].pc = "finish",
                          ![c].accepted = accepted, ![c].asked = asked,
                          ![c].retryAfter = n]
          /\ told' = IF accepted THEN told \cup {calls[c].item} ELSE told
  BY DEF Deliver
<1>. DEFINE r == [calls[c] EXCEPT !.pc = "finish", !.accepted = accepted,
                                  !.asked = asked, !.retryAfter = n]
<1>3. calls' = [calls EXCEPT ![c] = r]
  BY <1>1, <1>2 DEF Call
<1>4. /\ r \in Call /\ r.pc = "finish" /\ r.item = calls[c].item /\ r.item \in Items
      /\ r.raced = calls[c].raced /\ r.age = calls[c].age
  BY <1>1 DEF Call, Steps
<1>5. r.accepted = accepted
  BY <1>1 DEF Call
<1>6. told \subseteq told' /\ told' \subseteq Items /\ (accepted = TRUE => r.item \in told')
  BY <1>2, <1>4 DEF FollowUpsInv, FollowUpsTypeOK
<1>. HIDE DEF r
<1>7. Next_(c, r)
  BY <1>4, <1>5, <1>6 DEF Next_, Deliver
<1>8. UNCHANGED <<followUps, pageMonitored, earlierNight>>
  BY DEF Deliver
<1>9. \A i \in Items : SentAccepted(i)'
  BY <1>6, <1>8 DEF FollowUpsInv, SentAccepted
<1>. QED BY <1>3, <1>6, <1>7, <1>8, <1>9, CallSteps

(* One follow-up changes in a way that leaves its claim alone. *)
LEMMA ItemChange ==
  ASSUME FollowUpsInv, NEW i \in Items, NEW f \in FollowUp,
         followUps' = [followUps EXCEPT ![i] = f],
         f.since = followUps[i].since,
         f.sent = TRUE => i \in told',
         told' = told
  PROVE  /\ followUps' \in [Items -> FollowUp]
         /\ \A j \in Items : followUps'[j].since = followUps[j].since
         /\ \A j \in Items : SentAccepted(j)'
<1>1. followUps \in [Items -> FollowUp]
  BY DEF FollowUpsInv, FollowUpsTypeOK
<1>2. /\ followUps'[i] = f
      /\ \A j \in Items : j # i => followUps'[j] = followUps[j]
  BY <1>1
<1>3. \A j \in Items : SentAccepted(j)
  BY DEF FollowUpsInv
<1>. QED BY <1>1, <1>2, <1>3 DEF SentAccepted

LEMMA FinishKeeps ==
  ASSUME FollowUpsInv, NEW c \in Invocations, finishFollowUp(c)
  PROVE  FollowUpsInv'
<1>. DEFINE i == calls[c].item
            mine == /\ followUps[i].stored /\ ~followUps[i].sent
                    /\ followUps[i].since = calls[c].age
            delay == IF calls[c].asked THEN calls[c].retryAfter - calls[c].age
                                       ELSE NoDelay
            f == [followUps[i] EXCEPT !.sent = calls[c].accepted, !.delay = delay]
            r == [calls[c] EXCEPT !.pc = "loop", !.accepted = FALSE,
                       !.asked = FALSE, !.retryAfter = 0,
                       !.claimed = FALSE, !.raced = FALSE]
<1>1. /\ calls \in [Invocations -> Call] /\ calls[c] \in Call
      /\ followUps \in [Items -> FollowUp] /\ told \subseteq Items
      /\ pageMonitored \in BOOLEAN /\ earlierNight \in BOOLEAN
  BY DEF FollowUpsInv, FollowUpsTypeOK
<1>2. i \in Items /\ followUps[i] \in FollowUp
  BY <1>1, CallFields
<1>3. calls' = [calls EXCEPT ![c] = r]
  BY <1>1 DEF finishFollowUp, Call
<1>4. 0 \in 0..MaxRetryAfter
  BY Numbers
<1>5. r \in Call /\ r.pc = "loop" /\ r.accepted = FALSE
  BY <1>1, <1>4 DEF Call, Steps
<1>6. Next_(c, r)
  BY <1>5 DEF Next_
<1>7. told' = told /\ UNCHANGED <<pageMonitored, earlierNight>>
  BY DEF finishFollowUp
<1>8. \/ UNCHANGED followUps
      \/ followUps' = [followUps EXCEPT ![i] = f]
  <2>1. CASE mine
    <3>1. followUps' = [followUps EXCEPT ![i].sent = calls[c].accepted, ![i].delay = delay]
      BY <2>1 DEF finishFollowUp
    <3>. QED BY <1>1, <1>2, <3>1 DEF FollowUp
  <2>2. CASE ~mine
    BY <2>2 DEF finishFollowUp
  <2>. QED BY <2>1, <2>2
<1>9. delay \in NoDelay..MaxRetryAfter
  BY <1>1, CallFields, Numbers
<1>10. f \in FollowUp /\ f.since = followUps[i].since
  <2>1. calls[c].accepted \in BOOLEAN
    BY <1>1, CallFields
  <2>. HIDE DEF delay
  <2>. QED BY <1>2, <1>9, <2>1 DEF FollowUp
<1>11. f.sent = calls[c].accepted
  BY <1>2 DEF FollowUp
<1>12. calls[c].accepted = TRUE => i \in told
  BY DEF FollowUpsInv, Answered
<1>. HIDE DEF f, r, i
<1>13. CASE UNCHANGED followUps
  BY <1>3, <1>6, <1>7, <1>13, CallSteps, SameDocument
<1>14. CASE followUps' = [followUps EXCEPT ![i] = f]
  <2>1. /\ followUps' \in [Items -> FollowUp]
        /\ \A j \in Items : followUps'[j].since = followUps[j].since
        /\ \A j \in Items : SentAccepted(j)'
    BY <1>2, <1>7, <1>10, <1>11, <1>12, <1>14, ItemChange
  <2>2. calls' \in [Invocations -> Call]
    BY <1>1, <1>3, <1>5
  <2>3. FollowUpsTypeOK'
    BY <1>1, <1>7, <2>1, <2>2 DEF FollowUpsTypeOK
  <2>. QED BY <1>1, <1>3, <1>6, <1>7, <2>1, <2>3, CallSteps
<1>. QED BY <1>8, <1>13, <1>14

(* The claim: it asks for a window since the last one, so the invocations
   that hold the follow-up are a window older than the one that gets it. *)
LEMMA ClaimKeeps ==
  ASSUME FollowUpsInv, NEW c \in Invocations, claimFollowUp(c)
  PROVE  FollowUpsInv'
<1>. DEFINE i == calls[c].item
            age == calls[c].age
            claim == Claimable(i, age)
            goesOn == claim \/ calls[c].claimed
            f == [followUps[i] EXCEPT !.since = age]
            r == [calls[c] EXCEPT !.pc = IF goesOn THEN "deliver" ELSE "loop",
                       !.claimed = goesOn, !.raced = goesOn /\ ~claim]
<1>1. /\ calls \in [Invocations -> Call] /\ calls[c] \in Call
      /\ followUps \in [Items -> FollowUp] /\ told \subseteq Items
      /\ pageMonitored \in BOOLEAN /\ earlierNight \in BOOLEAN
  BY DEF FollowUpsInv, FollowUpsTypeOK
<1>2. i \in Items /\ followUps[i] \in FollowUp /\ age \in 0..MaxLife
  BY <1>1, CallFields
<1>3. calls' = [calls EXCEPT ![c] = r]
  BY <1>1 DEF claimFollowUp, Call
<1>4. claim \in BOOLEAN /\ goesOn \in BOOLEAN
  BY <1>1, CallFields DEF Claimable
<1>5. /\ r \in Call /\ r.item = i /\ r.age = age /\ r.accepted = calls[c].accepted
      /\ r.pc \in {"deliver", "loop"} /\ (r.pc = "deliver" => goesOn)
  <2>. HIDE DEF goesOn, claim
  <2>. QED BY <1>1, <1>4 DEF Call, Steps
<1>6. r.raced = (goesOn /\ ~claim)
  BY <1>1 DEF Call
<1>7. (r.pc = "deliver" /\ r.raced = FALSE) => claim
  BY <1>5, <1>6
<1>8. calls[c].accepted = FALSE /\ calls[c].pc = "claim"
  BY <1>1, CallFields DEF FollowUpsInv, Answered, claimFollowUp
<1>9. told' = told /\ UNCHANGED <<pageMonitored, earlierNight>>
  BY DEF claimFollowUp
<1>10. /\ claim => followUps' = [followUps EXCEPT ![i] = f]
       /\ ~claim => UNCHANGED followUps
  <2>1. ASSUME claim PROVE followUps' = [followUps EXCEPT ![i] = f]
    <3>1. followUps' = [followUps EXCEPT ![i].since = age]
      BY <2>1 DEF claimFollowUp
    <3>. QED BY <1>1, <1>2, <3>1 DEF FollowUp
  <2>2. ASSUME ~claim PROVE UNCHANGED followUps
    BY <2>2 DEF claimFollowUp
  <2>. QED BY <2>1, <2>2
<1>11. f \in FollowUp /\ f.since = age /\ f.sent = followUps[i].sent
  <2>1. age \in 0..LongAgo
    BY <1>2, Numbers
  <2>. HIDE DEF age
  <2>. QED BY <1>2, <2>1 DEF FollowUp
<1>12. claim => followUps[i].since - age >= ClaimWindow
  BY DEF Claimable
<1>. HIDE DEF f, r, i, age, claim, goesOn
<1>13. CASE ~claim
  <2>1. Next_(c, r)
    BY <1>5, <1>7, <1>8, <1>13 DEF Next_
  <2>. QED BY <1>3, <1>9, <1>10, <1>13, <2>1, CallSteps, SameDocument
<1>14. CASE claim
  <2>1. /\ followUps' \in [Items -> FollowUp] /\ followUps'[i] = f
        /\ \A j \in Items : j # i => followUps'[j] = followUps[j]
    BY <1>1, <1>2, <1>10, <1>11, <1>14
  <2>2. /\ calls' \in [Invocations -> Call] /\ calls'[c] = r
        /\ \A d \in Invocations : d # c => calls'[d] = calls[d]
    BY <1>1, <1>3, <1>5
  <2>3. FollowUpsTypeOK'
    BY <1>1, <1>9, <2>1, <2>2 DEF FollowUpsTypeOK
  <2>4. \A j \in Items : SentAccepted(j)'
    <3>1. \A j \in Items : SentAccepted(j)
      BY DEF FollowUpsInv
    <3>. QED BY <1>9, <1>11, <2>1, <3>1 DEF SentAccepted
  <2>5. ASSUME NEW d \in Invocations
        PROVE  Answered(d)'
    <3>1. Answered(d)
      BY DEF FollowUpsInv
    <3>2. CASE d = c
      BY <1>5, <1>8, <2>2, <3>2 DEF Answered
    <3>3. CASE d # c
      BY <1>9, <2>2, <3>1, <3>3 DEF Answered
    <3>. QED BY <3>2, <3>3
  <2>6. followUps[i].since \in Nat /\ age \in Nat /\ ClaimWindow \in Nat \ {0}
    <3>1. followUps[i].since \in 0..LongAgo
      BY <1>2 DEF FollowUp
    <3>. QED BY <1>2, <3>1, Numbers
  <2>7. \A d \in Invocations : calls[d].age \in Nat
    <3>1. \A d \in Invocations : calls[d].age \in 0..MaxLife
      BY <1>1 DEF Call
    <3>. QED BY <3>1, Numbers
  (* Whoever holds it already claimed it a window before this claim. *)
  <2>8. ASSUME NEW d \in Invocations, d # c, Holds(d, i), calls[d].raced = FALSE
        PROVE  age + ClaimWindow <= calls[d].age
    <3>1. \/ followUps[i].since = calls[d].age
          \/ followUps[i].since + ClaimWindow <= calls[d].age
      BY <1>2, <2>8 DEF FollowUpsInv, Stamped
    <3>. QED BY <1>12, <1>14, <2>6, <2>7, <3>1
  <2>9. ASSUME NEW d \in Invocations, NEW j \in Items
        PROVE  Stamped(d, j)'
    <3>1. Stamped(d, j)
      BY DEF FollowUpsInv
    <3>2. CASE j # i
      BY <1>5, <2>1, <2>2, <3>1, <3>2 DEF Stamped, Holds
    <3>3. CASE j = i /\ d = c
      BY <1>5, <1>11, <2>1, <2>2, <3>3 DEF Stamped
    <3>4. CASE j = i /\ d # c
      BY <1>11, <2>1, <2>2, <2>8, <3>4 DEF Stamped, Holds
    <3>. QED BY <3>2, <3>3, <3>4
  <2>10. ASSUME NEW d \in Invocations, NEW e \in Invocations, NEW j \in Items
         PROVE  Apart(d, e, j)'
    <3>1. Apart(d, e, j)
      BY DEF FollowUpsInv
    <3>2. CASE d # c /\ e # c
      BY <2>2, <3>1, <3>2 DEF Apart, Holds
    <3>3. CASE j # i
      BY <1>5, <2>2, <3>1, <3>3 DEF Apart, Holds
    <3>4. CASE j = i /\ d = c /\ e # c
      <4>1. calls'[d].age = age /\ calls'[e] = calls[e]
        BY <1>5, <2>2, <3>4
      <4>2. ASSUME Holds(e, j), calls[e].raced = FALSE
            PROVE  calls'[e].age - calls'[d].age >= ClaimWindow
        <5>1. age + ClaimWindow <= calls[e].age
          BY <2>8, <3>4, <4>2
        <5>. QED BY <2>6, <2>7, <4>1, <5>1
      <4>3. Holds(e, j)' => Holds(e, j)
        BY <4>1 DEF Holds
      <4>. QED BY <3>4, <4>1, <4>2, <4>3 DEF Apart
    <3>5. CASE j = i /\ e = c /\ d # c
      <4>1. calls'[e].age = age /\ calls'[d] = calls[d]
        BY <1>5, <2>2, <3>5
      <4>2. ASSUME Holds(d, j), calls[d].raced = FALSE
            PROVE  calls'[d].age - calls'[e].age >= ClaimWindow
        <5>1. age + ClaimWindow <= calls[d].age
          BY <2>8, <3>5, <4>2
        <5>. QED BY <2>6, <2>7, <4>1, <5>1
      <4>3. Holds(d, j)' => Holds(d, j)
        BY <4>1 DEF Holds
      <4>. QED BY <3>5, <4>1, <4>2, <4>3 DEF Apart
    <3>6. CASE d = c /\ e = c
      BY <3>6 DEF Apart
    <3>. QED BY <3>2, <3>3, <3>4, <3>5, <3>6
  <2>. QED BY <2>3, <2>4, <2>5, <2>9, <2>10 DEF FollowUpsInv
<1>. QED BY <1>13, <1>14

-----------------------------------------------------------------------------
(* Steps that leave the invocations alone. *)
LEMMA OthersKeep ==
  ASSUME FollowUpsInv, UNCHANGED <<calls, told>>, FollowUpsTypeOK',
         \A j \in Items : followUps'[j].since = followUps[j].since,
         \A j \in Items : SentAccepted(j)'
  PROVE  FollowUpsInv'
<1>1. ASSUME NEW c \in Invocations
      PROVE  Answered(c)'
  BY DEF FollowUpsInv, Answered
<1>. QED BY <1>1, StampsKept DEF Holds

LEMMA DueKeeps ==
  ASSUME FollowUpsInv, NEW i \in Items, NEW due \in BOOLEAN, SetDue(i, due)
  PROVE  FollowUpsInv'
<1>. DEFINE f == [followUps[i] EXCEPT !.due = due]
<1>1. /\ calls \in [Invocations -> Call] /\ followUps \in [Items -> FollowUp]
      /\ followUps[i] \in FollowUp /\ told \subseteq Items
  BY DEF FollowUpsInv, FollowUpsTypeOK
<1>2. f \in FollowUp /\ f.since = followUps[i].since /\ f.sent = followUps[i].sent
  BY <1>1 DEF FollowUp
<1>3. followUps' = [followUps EXCEPT ![i] = f] /\ UNCHANGED <<pageMonitored, earlierNight, calls, told>>
  BY DEF SetDue
<1>4. f.sent = TRUE => i \in told'
  BY <1>2, <1>3 DEF FollowUpsInv, SentAccepted
<1>. HIDE DEF f
<1>5. /\ followUps' \in [Items -> FollowUp]
      /\ \A j \in Items : followUps'[j].since = followUps[j].since
      /\ \A j \in Items : SentAccepted(j)'
  BY <1>2, <1>3, <1>4, ItemChange
<1>6. FollowUpsTypeOK'
  BY <1>3, <1>5 DEF FollowUpsInv, FollowUpsTypeOK
<1>. QED BY <1>3, <1>5, <1>6, OthersKeep

LEMMA DeleteKeeps ==
  ASSUME FollowUpsInv, NEW i \in Items, DeleteMarker(i)
  PROVE  FollowUpsInv'
<1>. DEFINE f == [followUps[i] EXCEPT !.stored = FALSE]
<1>1. /\ calls \in [Invocations -> Call] /\ followUps \in [Items -> FollowUp]
      /\ followUps[i] \in FollowUp /\ told \subseteq Items
  BY DEF FollowUpsInv, FollowUpsTypeOK
<1>2. f \in FollowUp /\ f.since = followUps[i].since /\ f.sent = followUps[i].sent
  BY <1>1 DEF FollowUp
<1>3. followUps' = [followUps EXCEPT ![i] = f] /\ UNCHANGED <<pageMonitored, earlierNight, calls, told>>
  BY DEF DeleteMarker
<1>4. f.sent = TRUE => i \in told'
  BY <1>2, <1>3 DEF FollowUpsInv, SentAccepted
<1>. HIDE DEF f
<1>5. /\ followUps' \in [Items -> FollowUp]
      /\ \A j \in Items : followUps'[j].since = followUps[j].since
      /\ \A j \in Items : SentAccepted(j)'
  BY <1>2, <1>3, <1>4, ItemChange
<1>6. FollowUpsTypeOK'
  BY <1>3, <1>5 DEF FollowUpsInv, FollowUpsTypeOK
<1>. QED BY <1>3, <1>5, <1>6, OthersKeep

LEMMA FlagKeeps ==
  ASSUME FollowUpsInv, SetPageFlag
  PROVE  FollowUpsInv'
<1>1. FollowUpsTypeOK' /\ UNCHANGED <<followUps, calls, told>>
  BY DEF FollowUpsInv, FollowUpsTypeOK, SetPageFlag
<1>2. \A j \in Items : SentAccepted(j)'
  BY <1>1 DEF FollowUpsInv, SentAccepted
<1>. QED BY <1>1, <1>2, OthersKeep

LEMMA FollowUpsKept == FollowUpsInv /\ [NextFollowUps]_followUpVars => FollowUpsInv'
<1>. SUFFICES ASSUME FollowUpsInv, [NextFollowUps]_followUpVars PROVE FollowUpsInv'
  OBVIOUS
<1>1. CASE Tick
  BY <1>1, TickKeeps
<1>2. CASE SetPageFlag
  BY <1>2, FlagKeeps
<1>3. ASSUME NEW i \in Items, NEW due \in BOOLEAN, SetDue(i, due) PROVE FollowUpsInv'
  BY <1>3, DueKeeps
<1>4. ASSUME NEW i \in Items, DeleteMarker(i) PROVE FollowUpsInv'
  BY <1>4, DeleteKeeps
<1>5. ASSUME NEW c \in Invocations,
             Invoke(c) \/ LoseSwap(c) \/ Proceed(c) \/ Deliver(c) \/ Die(c)
      PROVE  FollowUpsInv'
  BY <1>5, InvokeKeeps, LostKeeps, CandidateKeeps, ClaimKeeps, FinishKeeps,
     DeliverKeeps, DieKeeps DEF Proceed
<1>6. CASE UNCHANGED followUpVars
  <2>1. UNCHANGED <<followUps, pageMonitored, earlierNight, calls, told>>
    BY <1>6 DEF followUpVars
  <2>2. FollowUpsTypeOK'
    BY <2>1 DEF FollowUpsInv, FollowUpsTypeOK
  <2>. QED BY <2>1, <2>2, SameDocument, OthersKeep
<1>. QED BY <1>1, <1>2, <1>3, <1>4, <1>5, <1>6 DEF NextFollowUps

LEMMA FollowUpsAlways == SpecFollowUps => []FollowUpsInv
  BY FollowUpsInitially, FollowUpsKept, PTL DEF SpecFollowUps

(* The stored follow-ups and the invocations keep their shape: a retry delay
   and the age of a claim stay within their bounds. *)
THEOREM FollowUpsTyped == SpecFollowUps => []FollowUpsTypeOK
<1>1. FollowUpsInv => FollowUpsTypeOK
  BY DEF FollowUpsInv
<1>. QED BY <1>1, FollowUpsAlways, PTL

(* Two invocations that each hold a claim of their own on one follow-up made
   those claims a claim window apart (claimFollowUp's guard). *)
THEOREM ClaimsApart == SpecFollowUps => []ClaimsAreApart
<1>1. FollowUpsInv => ClaimsAreApart
  <2>. SUFFICES ASSUME FollowUpsInv, NEW c \in Invocations, NEW d \in Invocations, NEW i \in Items,
                       c # d, Holds(c, i), Holds(d, i), ~calls[c].raced, ~calls[d].raced
                PROVE  \/ calls[c].age - calls[d].age >= ClaimWindow
                       \/ calls[d].age - calls[c].age >= ClaimWindow
    BY DEF ClaimsAreApart
  <2>1. calls[c].raced \in BOOLEAN /\ calls[d].raced \in BOOLEAN
    BY CallFields DEF FollowUpsInv, FollowUpsTypeOK
  <2>2. calls[c].raced = FALSE /\ calls[d].raced = FALSE
    BY <2>1
  <2>3. Apart(c, d, i)
    BY DEF FollowUpsInv
  <2>. QED BY <2>2, <2>3 DEF Apart
<1>. QED BY <1>1, FollowUpsAlways, PTL

(* A follow-up is sent only when Slack accepted it (finishFollowUp). *)
THEOREM SentWasAccepted == SpecFollowUps => []SentWasTold
<1>1. FollowUpsInv => SentWasTold
  <2>. SUFFICES ASSUME FollowUpsInv, NEW i \in Items, followUps[i].sent PROVE i \in told
    BY DEF SentWasTold
  <2>1. followUps[i].sent \in BOOLEAN
    BY DEF FollowUpsInv, FollowUpsTypeOK, FollowUp
  <2>2. followUps[i].sent = TRUE
    BY <2>1
  <2>. QED BY <2>2 DEF FollowUpsInv, SentAccepted
<1>. QED BY <1>1, FollowUpsAlways, PTL
==============================================================================
