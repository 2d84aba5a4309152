------------------------ MODULE CollectionJobsProofs ------------------------
(* Proofs about CollectionJobs, for every number of pages, jobs, callers,
   pollers and cycles.

   Every action is shown to be one of eight changes of the document (DocStep);
   what the properties say of the document is then proved change by change. *)
EXTENDS CollectionJobs, SequenceTheorems, TLAPS

JobStates == {"none"} \cup ActiveStates \cup SettledStates
PageStates == {"none", "failed"} \cup ActiveStates
CallerPCs == {"idle", "retry", "mark", "post", "posted", "fail", "create", "note", "giveUp"}
PollerPCs == {"idle", "fetch", "mark", "premark", "remark", "read", "append", "settle", "fail"}

JobRec == [st : JobStates, page : Pages, kind : {"run", "baseline"}, stale : BOOLEAN]
PageRec == [run : Jobs \cup {NoJob}, rs : PageStates, base : Jobs \cup {NoJob}]
WfRec == [pc : WorkflowPCs, cycle : 1 .. MaxCycles, kept : SUBSET Evidence]
CallerRec == [pc : CallerPCs, held : SUBSET Jobs, queued : BOOLEAN]
PollerRec == [pc : PollerPCs, job : Jobs \cup {NoJob}, snap : {"none"} \cup ActiveStates]

JobT == job \in [Jobs -> JobRec]
PageT == page \in [Pages -> PageRec]
DocT == /\ JobT /\ PageT
        /\ nights \in [Pages -> Seq(Jobs)]
        /\ archived \in BOOLEAN
        /\ created \in Seq(Jobs)

(* Where a workflow is past its first step its job is in the document; and only
   a workflow that ends without evidence makes its job inconclusive. *)
WorkPCs == {"collect", "wait", "asleep", "resume", "read", "commit", "undecided"}

WfKnown(j) ==
    /\ wf[j].pc \in WorkPCs => job[j].st # "none"
    /\ wf[j].pc \in {"wait", "asleep", "resume"} => wf[j].cycle < MaxCycles
    /\ job[j].st = "inconclusive" => wf[j].pc \in {"undecided", "errored"}

CallerKnown(c) == caller[c].pc # "idle" => caller[c].held # {}

PollerKnown(r) ==
    poller[r].pc # "idle" => poller[r].job \in Jobs /\ job[poller[r].job].st # "none"

WfT == wf \in [Jobs -> WfRec] /\ \A j \in Jobs : WfKnown(j)
CallerT == caller \in [Callers -> CallerRec] /\ \A c \in Callers : CallerKnown(c)
PollerT == poller \in [Pollers -> PollerRec] /\ \A r \in Pollers : PollerKnown(r)

Typed == DocT /\ WfT /\ CallerT /\ PollerT

LEMMA TypedIsTypeOK == Typed => TypeOK
  BY DEF Typed, DocT, JobT, PageT, WfT, CallerT, PollerT, TypeOK, JobRec, PageRec,
     WfRec, CallerRec, PollerRec, JobStates, PageStates, CallerPCs, PollerPCs

-----------------------------------------------------------------------------
(* The changes of the document. *)
SameJobs == \A i \in Jobs : job'[i].st = job[i].st /\ job'[i].page = job[i].page

Becomes(j, s) ==
    \A i \in Jobs : /\ job'[i].page = job[i].page
                    /\ job'[i].st = IF i = j THEN s ELSE job[i].st

(* The page of j, if it is reserved for j, gets the state s. *)
PageGets(j, s) ==
    \A p \in Pages :
        /\ page'[p].run = page[p].run
        /\ page'[p].rs = IF Reserves(j) /\ p = job[j].page THEN s ELSE page[p].rs

Still == SameJobs /\ UNCHANGED <<page, nights, created>> /\ archived' \in {archived, FALSE}

Marks(j, s) ==
    /\ Active(j) /\ s \in ActiveStates
    /\ Becomes(j, s) /\ PageGets(j, s)
    /\ UNCHANGED <<nights, archived, created>>

Settles(j, s, r) ==
    /\ job[j].st # "none" /\ s \in SettledStates /\ r \in {"none", "failed"}
    /\ job[j].st = "succeeded" => s = "succeeded"
    /\ Becomes(j, s) /\ PageGets(j, r)
    /\ UNCHANGED <<nights, archived, created>>

GivesUp(S) ==
    /\ \A i \in Jobs :
        /\ job'[i].page = job[i].page
        /\ job'[i].st = IF i \in S /\ job[i].st # "none" THEN "failed" ELSE job[i].st
    /\ \A p \in Pages :
        /\ page'[p].run = page[p].run
        /\ page'[p].rs = IF page[p].run \in S THEN "failed" ELSE page[p].rs
    /\ UNCHANGED <<nights, archived, created>>

Adds(j) ==
    /\ Reserves(j) /\ AddNight(j) /\ SameJobs
    /\ \A p \in Pages :
        page'[p].run = page[p].run /\ page'[p].rs \in {page[p].rs, "none"}
    /\ UNCHANGED <<archived, created>>

Reserved(p, j, s, old) ==
    /\ ~archived /\ job[j].st = "none" /\ s \in ActiveStates
    /\ old \in ActiveOn(p) \/ ActiveOn(p) = {}
    /\ \A i \in Jobs :
        /\ job'[i].page = IF i = j THEN p ELSE job[i].page
        /\ job'[i].st = IF i = j THEN s
                        ELSE IF i = old /\ i \in ActiveOn(p) THEN "failed" ELSE job[i].st
    /\ \A q \in Pages :
        /\ page'[q].run = IF q = p THEN j ELSE page[q].run
        /\ page'[q].rs = IF q = p THEN s ELSE page[q].rs
    /\ created' = Append(created, j)
    /\ UNCHANGED <<nights, archived>>

DocStep ==
    \/ Still
    \/ \E j \in Jobs :
          \/ \E s \in ActiveStates : Marks(j, s)
          \/ \E s \in SettledStates, r \in {"none", "failed"} : Settles(j, s, r)
          \/ Adds(j)
          \/ \E p \in Pages, s \in ActiveStates : \E old : Reserved(p, j, s, old)
    \/ \E c \in Nightlies : caller[c].pc = "giveUp" /\ GivesUp(caller[c].held)
    \/ Recover
    \/ Archive

(* No job leaves the document, and none becomes inconclusive. *)
Grows == \A j \in Jobs : job[j].st # "none" => job'[j].st # "none"
NoneUndecided ==
    \A j \in Jobs : job'[j].st = "inconclusive" => job[j].st = "inconclusive"

-----------------------------------------------------------------------------
LEMMA States ==
  /\ ActiveStates \subseteq JobStates /\ SettledStates \subseteq JobStates
  /\ ActiveStates \subseteq PageStates /\ {"none", "failed"} \subseteq PageStates
  /\ ActiveStates \cap SettledStates = {}
  /\ "none" \notin ActiveStates \cup SettledStates
  /\ "queued" \in ActiveStates /\ "dispatching" \in ActiveStates
  /\ "running" \in ActiveStates /\ "waiting" \in ActiveStates
  /\ "failed" \in SettledStates /\ "succeeded" \in SettledStates
  /\ "inconclusive" \in SettledStates
  BY DEF JobStates, PageStates, ActiveStates, SettledStates

LEMMA JobFields ==
  ASSUME JobT, NEW j \in Jobs
  PROVE  /\ job[j] \in JobRec /\ job[j].st \in JobStates /\ job[j].page \in Pages
         /\ job[j].stale \in BOOLEAN
  BY DEF JobT, JobRec

LEMMA SetsJob ==
  ASSUME JobT, NEW j \in Jobs, NEW s \in JobStates, SetJob(j, s)
  PROVE  JobT' /\ Becomes(j, s)
<1>. DEFINE v == [job[j] EXCEPT !.st = s, !.stale = FALSE]
<1>1. v \in JobRec /\ v.st = s /\ v.page = job[j].page
  BY DEF JobT, JobRec
<1>2. job' = [job EXCEPT ![j] = v]
  BY DEF SetJob, JobT, JobRec
<1>. HIDE DEF v
<1>3. job' \in [Jobs -> JobRec]
  BY <1>1, <1>2 DEF JobT
<1>4. \A i \in Jobs : job'[i] = IF i = j THEN v ELSE job[i]
  BY <1>2 DEF JobT
<1>. QED BY <1>1, <1>3, <1>4 DEF JobT, Becomes

LEMMA Touches ==
  ASSUME JobT, NEW j \in Jobs, Touch(j)
  PROVE  JobT' /\ SameJobs
<1>. DEFINE v == [job[j] EXCEPT !.stale = FALSE]
<1>1. v \in JobRec /\ v.st = job[j].st /\ v.page = job[j].page
  BY DEF JobT, JobRec
<1>2. job' = [job EXCEPT ![j] = v]
  BY DEF Touch
<1>. HIDE DEF v
<1>3. job' \in [Jobs -> JobRec]
  BY <1>1, <1>2 DEF JobT
<1>4. \A i \in Jobs : job'[i] = IF i = j THEN v ELSE job[i]
  BY <1>2 DEF JobT
<1>. QED BY <1>1, <1>3, <1>4 DEF JobT, SameJobs

LEMMA SetsPage ==
  ASSUME JobT, PageT, NEW j \in Jobs, NEW s \in PageStates, SetPage(j, s)
  PROVE  PageT' /\ PageGets(j, s)
<1>1. CASE ~Reserves(j)
  <2>1. page' = page
    BY <1>1 DEF SetPage
  <2>. QED BY <1>1, <2>1 DEF PageT, PageGets
<1>2. CASE Reserves(j)
  <2>. DEFINE q == job[j].page
              v == [page[q] EXCEPT !.rs = s]
  <2>1. q \in Pages
    BY JobFields
  <2>2. v \in PageRec /\ v.rs = s /\ v.run = page[q].run
    BY <2>1 DEF PageT, PageRec
  <2>3. page' = [page EXCEPT ![q] = v]
    BY <1>2 DEF SetPage
  <2>. HIDE DEF v, q
  <2>4. page' \in [Pages -> PageRec]
    BY <2>1, <2>2, <2>3 DEF PageT
  <2>5. \A p \in Pages : page'[p] = IF p = q THEN v ELSE page[p]
    BY <2>1, <2>3 DEF PageT
  <2>. QED BY <1>2, <2>2, <2>4, <2>5 DEF PageT, PageGets, q
<1>. QED BY <1>1, <1>2

LEMMA MarksJob ==
  ASSUME DocT, NEW j \in Jobs, NEW s \in ActiveStates, MarkJob(j, s),
         UNCHANGED <<nights, archived, created>>
  PROVE  DocT' /\ (Marks(j, s) \/ Still)
<1>1. CASE Active(j) /\ Reserves(j)
  <2>1. SetJob(j, s) /\ SetPage(j, s)
    BY <1>1 DEF MarkJob
  <2>2. JobT' /\ Becomes(j, s) /\ PageT' /\ PageGets(j, s)
    BY <2>1, SetsJob, SetsPage, States DEF DocT
  <2>. QED BY <1>1, <2>2 DEF DocT, Marks
<1>2. CASE ~(Active(j) /\ Reserves(j))
  <2>1. UNCHANGED <<job, page>>
    BY <1>2 DEF MarkJob
  <2>. QED BY <2>1 DEF DocT, JobT, PageT, Still, SameJobs
<1>. QED BY <1>1, <1>2

LEMMA FailsJob ==
  ASSUME DocT, NEW j \in Jobs, FailJob(j), UNCHANGED <<nights, archived, created>>
  PROVE  DocT' /\ (Settles(j, "failed", "failed") \/ Still)
<1>1. CASE job[j].st \in {"none", "succeeded"}
  <2>1. UNCHANGED <<job, page>>
    BY <1>1 DEF FailJob
  <2>. QED BY <2>1 DEF DocT, JobT, PageT, Still, SameJobs
<1>2. CASE job[j].st \notin {"none", "succeeded"}
  <2>1. SetJob(j, "failed") /\ SetPage(j, "failed")
    BY <1>2 DEF FailJob
  <2>2. JobT' /\ Becomes(j, "failed") /\ PageT' /\ PageGets(j, "failed")
    BY <2>1, SetsJob, SetsPage, States DEF DocT
  <2>. QED BY <1>2, <2>2, States DEF DocT, Settles
<1>. QED BY <1>1, <1>2

LEMMA Succeeds ==
  ASSUME DocT, NEW j \in Jobs, job[j].st # "none", Succeed(j),
         UNCHANGED <<nights, archived, created>>
  PROVE  DocT' /\ Settles(j, "succeeded", "none")
<1>. DEFINE q == job[j].page
            v == [page[q] EXCEPT !.base = IF job[j].kind = "baseline" THEN j ELSE @,
                                 !.rs = IF Reserves(j) THEN "none" ELSE @]
<1>1. q \in Pages
  BY JobFields DEF DocT
<1>2. page[q] \in PageRec
  BY <1>1 DEF DocT, PageT
<1>3. v \in PageRec /\ v.run = page[q].run
      /\ v.rs = IF Reserves(j) THEN "none" ELSE page[q].rs
  BY <1>2 DEF PageRec, PageStates
<1>4. page' = [page EXCEPT ![q] = v] /\ SetJob(j, "succeeded")
  BY <1>1, <1>2 DEF Succeed, PageRec, DocT, PageT
<1>5. JobT' /\ Becomes(j, "succeeded")
  BY <1>4, SetsJob, States DEF DocT
<1>. HIDE DEF v, q
<1>6. page' \in [Pages -> PageRec] /\ \A p \in Pages : page'[p] = IF p = q THEN v ELSE page[p]
  BY <1>1, <1>3, <1>4 DEF DocT, PageT
<1>7. PageGets(j, "none")
  BY <1>3, <1>6 DEF PageGets, q
<1>. QED BY <1>5, <1>6, <1>7, States DEF DocT, PageT, Settles

LEMMA ProgressIs ==
  ASSUME DocT, NEW j \in Jobs, NEW s \in ActiveStates \cup {"same"}, EvidenceProgress(j, s),
         job[j].st \notin {"none", "failed"}
  PROVE  DocT' /\ ((\E t \in ActiveStates : Marks(j, t)) \/ Still)
<1>. UNCHANGED <<nights, archived, created>>
  BY DEF EvidenceProgress
<1>1. CASE job[j].st \in {"succeeded", "inconclusive"}
  <2>1. UNCHANGED <<job, page>>
    BY <1>1 DEF EvidenceProgress
  <2>. QED BY <2>1 DEF DocT, JobT, PageT, Still, SameJobs
<1>2. CASE job[j].st \notin {"succeeded", "inconclusive"} /\ s = "same"
  <2>1. Touch(j) /\ UNCHANGED page
    BY <1>2 DEF EvidenceProgress
  <2>. QED BY <2>1, Touches DEF DocT, PageT, Still
<1>3. CASE job[j].st \notin {"succeeded", "inconclusive"} /\ s # "same"
  <2>1. SetJob(j, s) /\ SetPage(j, s) /\ s \in ActiveStates
    BY <1>3 DEF EvidenceProgress
  <2>2. JobT' /\ Becomes(j, s) /\ PageT' /\ PageGets(j, s)
    BY <2>1, SetsJob, SetsPage, States DEF DocT
  <2>3. Active(j)
    BY <1>3, JobFields DEF DocT, Active, JobStates, SettledStates
  <2>. QED BY <2>1, <2>2, <2>3 DEF DocT, Marks
<1>. QED BY <1>1, <1>2, <1>3

LEMMA AddsNight ==
  ASSUME DocT, NEW j \in Jobs, AddNight(j)
  PROVE  nights' \in [Pages -> Seq(Jobs)]
<1>1. job[j].page \in Pages
  BY JobFields DEF DocT
<1>2. Append(nights[job[j].page], j) \in Seq(Jobs)
  BY <1>1, AppendProperties DEF DocT
<1>. QED BY <1>1, <1>2 DEF AddNight, DocT

LEMMA ReservesPage ==
  ASSUME DocT, NEW p \in Pages, NEW j \in Jobs, NEW k \in {"run", "baseline"},
         NEW s \in ActiveStates, Reserve(p, j, k, s), ~archived, job[j].st = "none"
  PROVE  DocT' /\ \E old : Reserved(p, j, s, old)
<1>1. PICK old \in ActiveOn(p) \cup {NoJob} :
        /\ old = NoJob => ActiveOn(p) = {}
        /\ job' = [x \in Jobs |->
                     IF x = j THEN [st |-> s, page |-> p, kind |-> k, stale |-> FALSE]
                     ELSE IF x = old THEN [job[x] EXCEPT !.st = "failed", !.stale = FALSE]
                     ELSE job[x]]
        /\ page' = [page EXCEPT ![p].run = j, ![p].rs = s]
        /\ created' = Append(created, j)
        /\ UNCHANGED <<nights, archived>>
  BY DEF Reserve
<1>2. old \in ActiveOn(p) \/ (ActiveOn(p) = {} /\ old \notin Jobs)
  BY <1>1, JobsAssumption
<1>3. [st |-> s, page |-> p, kind |-> k, stale |-> FALSE] \in JobRec
  BY States DEF JobRec
<1>4. ASSUME NEW x \in Jobs
      PROVE  LET v == [job[x] EXCEPT !.st = "failed", !.stale = FALSE]
             IN v \in JobRec /\ v.st = "failed" /\ v.page = job[x].page
  BY States DEF JobRec, DocT, JobT
<1>5. JobT'
  BY <1>1, <1>3, <1>4 DEF DocT, JobT
<1>6. ASSUME NEW i \in Jobs
      PROVE  /\ job'[i].page = IF i = j THEN p ELSE job[i].page
             /\ job'[i].st = IF i = j THEN s
                        ELSE IF i = old /\ i \in ActiveOn(p) THEN "failed" ELSE job[i].st
  BY <1>1, <1>2, <1>4
<1>. DEFINE v == [page[p] EXCEPT !.run = j, !.rs = s]
<1>7. v \in PageRec /\ v.run = j /\ v.rs = s
  BY States DEF DocT, PageT, PageRec
<1>8. page' = [page EXCEPT ![p] = v]
  BY <1>1 DEF DocT, PageT, PageRec
<1>. HIDE DEF v
<1>9. PageT' /\ \A q \in Pages : page'[q] = IF q = p THEN v ELSE page[q]
  BY <1>7, <1>8 DEF DocT, PageT
<1>10. created' \in Seq(Jobs)
  BY <1>1, AppendProperties DEF DocT
<1>11. \A q \in Pages :
        /\ page'[q].run = IF q = p THEN j ELSE page[q].run
        /\ page'[q].rs = IF q = p THEN s ELSE page[q].rs
  BY <1>7, <1>9
<1>12. Reserved(p, j, s, old)
  BY <1>1, <1>2, <1>6, <1>11 DEF Reserved
<1>. QED BY <1>1, <1>5, <1>9, <1>10, <1>12 DEF DocT

-----------------------------------------------------------------------------
(* What the processes keep for themselves. *)
LEMMA SameDocument ==
  ASSUME DocT, UNCHANGED document
  PROVE  DocT' /\ Still /\ Grows /\ NoneUndecided
  BY DEF document, DocT, JobT, PageT, Still, SameJobs, Grows, NoneUndecided

LEMMA WfSame ==
  ASSUME WfT, Grows, NoneUndecided, UNCHANGED wf
  PROVE  WfT'
  BY DEF WfT, WfKnown, Grows, NoneUndecided

LEMMA CallersSame ==
  ASSUME CallerT, UNCHANGED caller
  PROVE  CallerT'
  BY DEF CallerT, CallerKnown

LEMMA PollersSame ==
  ASSUME PollerT, Grows, UNCHANGED poller
  PROVE  PollerT'
  BY DEF PollerT, PollerKnown, Grows

LEMMA WfMoves ==
  ASSUME WfT, Grows, NEW j \in Jobs, NEW w \in WfRec, wf' = [wf EXCEPT ![j] = w],
         w.pc \in WorkPCs => job'[j].st # "none",
         w.pc \in {"wait", "asleep", "resume"} => w.cycle < MaxCycles,
         \A i \in Jobs : job'[i].st = "inconclusive" =>
            \/ i # j /\ job[i].st = "inconclusive"
            \/ i = j /\ w.pc \in {"undecided", "errored"}
  PROVE  WfT'
<1>1. wf' \in [Jobs -> WfRec] /\ \A i \in Jobs : wf'[i] = IF i = j THEN w ELSE wf[i]
  BY DEF WfT
<1>2. ASSUME NEW i \in Jobs PROVE WfKnown(i)'
  <2>1. WfKnown(i)
    BY DEF WfT
  <2>2. CASE i = j
    BY <1>1, <2>2 DEF WfKnown
  <2>3. CASE i # j
    BY <1>1, <2>1, <2>3 DEF WfKnown, Grows
  <2>. QED BY <2>2, <2>3
<1>. QED BY <1>1, <1>2 DEF WfT

(* The usual move: only the program counter, or nothing when it is not saved. *)
LEMMA WfGoes ==
  ASSUME WfT, Grows, NoneUndecided, NEW j \in Jobs, NEW l \in WorkflowPCs,
         wf' = [wf EXCEPT ![j].pc = l] \/ UNCHANGED wf,
         l \in WorkPCs => job'[j].st # "none",
         l \in {"wait", "asleep", "resume"} => wf[j].cycle < MaxCycles,
         job'[j].st = "inconclusive" => l \in {"undecided", "errored"}
  PROVE  WfT'
<1>1. CASE UNCHANGED wf
  BY <1>1, WfSame
<1>2. CASE wf' = [wf EXCEPT ![j].pc = l]
  <2>. DEFINE w == [wf[j] EXCEPT !.pc = l]
  <2>1. w \in WfRec /\ w.pc = l /\ w.cycle = wf[j].cycle
    BY DEF WfT, WfRec
  <2>2. wf' = [wf EXCEPT ![j] = w]
    BY <1>2
  <2>. HIDE DEF w
  <2>3. \A i \in Jobs : job'[i].st = "inconclusive" =>
            \/ i # j /\ job[i].st = "inconclusive"
            \/ i = j /\ w.pc \in {"undecided", "errored"}
    BY <2>1 DEF NoneUndecided
  <2>. QED BY <2>1, <2>2, <2>3, WfMoves
<1>. QED BY <1>1, <1>2

LEMMA CallerMoves ==
  ASSUME CallerT, NEW c \in Callers, NEW x \in CallerRec, caller' = [caller EXCEPT ![c] = x],
         x.pc # "idle" => x.held # {}
  PROVE  CallerT'
<1>1. caller' \in [Callers -> CallerRec]
      /\ \A d \in Callers : caller'[d] = IF d = c THEN x ELSE caller[d]
  BY DEF CallerT
<1>. QED BY <1>1 DEF CallerT, CallerKnown

LEMMA CallerGoes ==
  ASSUME CallerT, NEW c \in Callers, NEW l \in CallerPCs, Goto(c, l), caller[c].pc # "idle"
  PROVE  CallerT'
<1>. DEFINE x == [caller[c] EXCEPT !.pc = l]
<1>1. x \in CallerRec /\ x.held = caller[c].held
  BY DEF CallerT, CallerRec
<1>2. caller' = [caller EXCEPT ![c] = x]
  BY DEF Goto
<1>3. caller[c].held # {}
  BY DEF CallerT, CallerKnown
<1>. HIDE DEF x
<1>. QED BY <1>1, <1>2, <1>3, CallerMoves

LEMMA IdleIs == Idle \in CallerRec /\ Idle.pc = "idle"
  BY DEF Idle, CallerRec, CallerPCs

LEMMA CallerEnds ==
  ASSUME CallerT, NEW c \in Callers, Done(c)
  PROVE  CallerT'
<1>1. caller' = [caller EXCEPT ![c] = Idle]
  BY DEF Done
<1>. HIDE DEF Idle
<1>. QED BY <1>1, IdleIs, CallerMoves

LEMMA HeldIs ==
  ASSUME CallerT, NEW c \in Callers, caller[c].pc # "idle"
  PROVE  Held(c) \in Jobs /\ Held(c) \in caller[c].held
<1>1. caller[c].held \subseteq Jobs /\ caller[c].held # {}
  BY DEF CallerT, CallerRec, CallerKnown
<1>. QED BY <1>1 DEF Held

LEMMA PollerMoves ==
  ASSUME PollerT, Grows, NEW r \in Pollers, NEW x \in PollerRec, poller' = [poller EXCEPT ![r] = x],
         x.pc # "idle" => x.job \in Jobs /\ job'[x.job].st # "none"
  PROVE  PollerT'
<1>1. poller' \in [Pollers -> PollerRec]
      /\ \A q \in Pollers : poller'[q] = IF q = r THEN x ELSE poller[q]
  BY DEF PollerT
<1>. QED BY <1>1 DEF PollerT, PollerKnown, Grows

LEMMA PollGoes ==
  ASSUME PollerT, Grows, NEW r \in Pollers, NEW l \in PollerPCs,
         PollTo(r, l) \/ PollEnds(r), poller[r].pc # "idle"
  PROVE  PollerT'
<1>1. poller[r].job \in Jobs /\ job'[poller[r].job].st # "none"
  BY DEF PollerT, PollerKnown, Grows
<1>2. CASE PollTo(r, l)
  <2>. DEFINE x == [poller[r] EXCEPT !.pc = l]
  <2>1. x \in PollerRec /\ x.job = poller[r].job
    BY DEF PollerT, PollerRec
  <2>2. poller' = [poller EXCEPT ![r] = x]
    BY <1>2 DEF PollTo
  <2>. HIDE DEF x
  <2>. QED BY <1>1, <2>1, <2>2, PollerMoves
<1>3. CASE PollEnds(r)
  <2>1. NotPolled \in PollerRec /\ NotPolled.pc = "idle"
    BY DEF NotPolled, PollerRec, PollerPCs
  <2>2. poller' = [poller EXCEPT ![r] = NotPolled]
    BY <1>3 DEF PollEnds
  <2>. HIDE DEF NotPolled
  <2>. QED BY <2>1, <2>2, PollerMoves
<1>. QED BY <1>2, <1>3

LEMMA PollEndsWell ==
  ASSUME PollerT, Grows, NEW r \in Pollers, PollEnds(r)
  PROVE  PollerT'
<1>1. NotPolled \in PollerRec /\ NotPolled.pc = "idle"
  BY DEF NotPolled, PollerRec, PollerPCs
<1>2. poller' = [poller EXCEPT ![r] = NotPolled]
  BY DEF PollEnds
<1>. HIDE DEF NotPolled
<1>. QED BY <1>1, <1>2, PollerMoves

(* A change of the document loses no job, and leaves none undecided. *)
LEMMA DocGrows ==
  ASSUME DocT,
         \/ Still
         \/ \E j \in Jobs :
              \/ \E s \in ActiveStates : Marks(j, s)
              \/ \E s \in SettledStates \ {"inconclusive"}, r \in {"none", "failed"} : Settles(j, s, r)
              \/ Adds(j)
              \/ \E p \in Pages, s \in ActiveStates : \E old : Reserved(p, j, s, old)
         \/ \E S \in SUBSET Jobs : GivesUp(S)
         \/ Archive
         \/ Recover
  PROVE  Grows /\ NoneUndecided
<1>1. CASE Still
  BY <1>1 DEF Still, SameJobs, Grows, NoneUndecided
<1>2. ASSUME NEW j \in Jobs, NEW s \in ActiveStates, Marks(j, s)
      PROVE  Grows /\ NoneUndecided
  BY <1>2, States DEF Marks, Becomes, Grows, NoneUndecided
<1>3. ASSUME NEW j \in Jobs, NEW s \in SettledStates \ {"inconclusive"}, NEW r, Settles(j, s, r)
      PROVE  Grows /\ NoneUndecided
  BY <1>3, States DEF Settles, Becomes, Grows, NoneUndecided
<1>4. ASSUME NEW j \in Jobs, Adds(j)
      PROVE  Grows /\ NoneUndecided
  BY <1>4 DEF Adds, SameJobs, Grows, NoneUndecided
<1>5. ASSUME NEW j \in Jobs, NEW p \in Pages, NEW s \in ActiveStates, NEW old,
             Reserved(p, j, s, old)
      PROVE  Grows /\ NoneUndecided
  BY <1>5, States DEF Reserved, Grows, NoneUndecided
<1>6. ASSUME NEW S \in SUBSET Jobs, GivesUp(S)
      PROVE  Grows /\ NoneUndecided
  BY <1>6 DEF GivesUp, Grows, NoneUndecided
<1>7. ASSUME NEW j \in Jobs
      PROVE  LET v == [job[j] EXCEPT !.st = "failed", !.stale = FALSE] IN v.st = "failed"
  BY JobFields DEF DocT, JobRec
<1>8. CASE Archive
  BY <1>7, <1>8 DEF Archive, Grows, NoneUndecided
<1>9. CASE Recover
  BY <1>7, <1>9 DEF Recover, Grows, NoneUndecided
<1>. QED BY <1>1, <1>2, <1>3, <1>4, <1>5, <1>6, <1>8, <1>9

-----------------------------------------------------------------------------
(* Every action keeps the types and is one of the changes. *)
Fine == Typed' /\ DocStep

(* A step of one caller that leaves the document and the rest alone. *)
LEMMA CallerOnly ==
  ASSUME Typed, CallerT', UNCHANGED <<document, wf, poller>>
  PROVE  Fine
<1>1. DocT' /\ Still /\ Grows /\ NoneUndecided
  BY SameDocument DEF Typed
<1>. QED BY <1>1, WfSame, PollersSame DEF Typed, Fine, DocStep

(* One that changes the document, too. *)
LEMMA CallerAndDocument ==
  ASSUME Typed, CallerT', DocT', DocStep, Grows, NoneUndecided, UNCHANGED <<wf, poller>>
  PROVE  Fine
  BY WfSame, PollersSame DEF Typed, Fine

LEMMA Created ==
  ASSUME Typed, NEW S \in SUBSET Jobs, Create(S), Grows, NoneUndecided
  PROVE  WfT'
<1>1. ASSUME NEW j \in Jobs
      PROVE  LET w == [wf[j] EXCEPT !.pc = "created"]
             IN w \in WfRec /\ w.pc = "created"
  BY DEF Typed, WfT, WfRec, WorkflowPCs
<1>2. /\ wf' \in [Jobs -> WfRec]
      /\ \A j \in Jobs : \/ wf'[j] = wf[j]
                         \/ wf[j].pc = "none" /\ wf'[j].pc = "created"
  BY <1>1 DEF Create, Typed, WfT
<1>3. ASSUME NEW j \in Jobs PROVE WfKnown(j)'
  BY <1>2 DEF Typed, WfT, WfKnown, Grows, NoneUndecided, WorkPCs
<1>. QED BY <1>2, <1>3 DEF WfT

LEMMA EnqueueLostFine ==
  ASSUME Typed, NEW c \in Callers, EnqueueLost(c)
  PROVE  Fine
<1>1. PICK j \in Jobs :
        caller' = [caller EXCEPT ![c] = [pc |-> "retry", held |-> {j}, queued |-> FALSE]]
  BY DEF EnqueueLost
<1>. DEFINE x == [pc |-> "retry", held |-> {j}, queued |-> FALSE]
<1>2. x \in CallerRec /\ x.held = {j}
  BY <1>1 DEF CallerRec, CallerPCs
<1>3. caller' = [caller EXCEPT ![c] = x]
  BY <1>1
<1>. HIDE DEF x
<1>4. CallerT'
  BY <1>2, <1>3, CallerMoves DEF Typed
<1>. QED BY <1>4, CallerOnly DEF EnqueueLost

LEMMA EnqueueFine ==
  ASSUME Typed, NEW c \in Callers, NEW p \in Pages, NEW j \in Jobs,
         NEW k \in {"run", "baseline"}, Enqueue(c, p, j, k)
  PROVE  Fine
<1>1. DocT' /\ \E old : Reserved(p, j, "queued", old)
  BY ReservesPage, States DEF Enqueue, Unused, Typed
<1>2. Grows /\ NoneUndecided /\ DocStep
  BY <1>1, DocGrows, States DEF Typed, DocStep
<1>. DEFINE x == [pc |-> "mark", held |-> {j}, queued |-> TRUE]
<1>3. x \in CallerRec /\ x.held = {j}
  BY DEF CallerRec, CallerPCs
<1>4. caller' = [caller EXCEPT ![c] = x] \/ Done(c)
  BY DEF Enqueue
<1>. HIDE DEF x
<1>5. CallerT'
  BY <1>3, <1>4, CallerMoves, CallerEnds DEF Typed
<1>. QED BY <1>1, <1>2, <1>5, CallerAndDocument DEF Enqueue

LEMMA PostFine ==
  ASSUME Typed, NEW c \in Callers, Post(c)
  PROVE  Fine
<1>1. DocT' /\ Still /\ Grows /\ NoneUndecided
  BY SameDocument DEF Typed, Post
<1>2. CallerT'
  BY CallerGoes DEF Typed, Post, CallerPCs
<1>3. WfT'
  <2>1. caller[c].held \in SUBSET Jobs
    BY DEF Typed, CallerT, CallerRec
  <2>. QED BY <1>1, <2>1, Created, WfSame DEF Post, Typed
<1>4. PollerT'
  BY <1>1, PollersSame DEF Post, Typed
<1>. QED BY <1>1, <1>2, <1>3, <1>4 DEF Fine, Typed, DocStep

LEMMA DispatchFine ==
  ASSUME Typed, NEW c \in Callers,
         MarkDispatching(c) \/ RecordPosted(c) \/ DispatchFailed(c)
  PROVE  Fine
<1>1. Held(c) \in Jobs
  BY HeldIs DEF Typed, MarkDispatching, RecordPosted, DispatchFailed
<1>2. UNCHANGED <<nights, archived, created, wf, poller>>
  BY DEF MarkDispatching, RecordPosted, DispatchFailed
<1>3. CallerT'
  BY CallerGoes, CallerEnds DEF Typed, MarkDispatching, RecordPosted, DispatchFailed, CallerPCs
<1>4. CASE MarkJob(Held(c), "dispatching")
  <2>1. DocT' /\ (Marks(Held(c), "dispatching") \/ Still)
    BY <1>1, <1>2, <1>4, MarksJob, States DEF Typed
  <2>. QED BY <1>1, <1>2, <1>3, <2>1, DocGrows, CallerAndDocument, States DEF Typed, DocStep
<1>5. CASE Touch(Held(c)) /\ UNCHANGED page
  <2>1. DocT' /\ Still
    BY <1>1, <1>2, <1>5, Touches DEF Typed, DocT, PageT, Still
  <2>. QED BY <1>2, <1>3, <2>1, DocGrows, CallerAndDocument DEF Typed, DocStep
<1>6. CASE UNCHANGED <<job, page>>
  BY <1>2, <1>3, <1>6, CallerOnly DEF document
<1>7. CASE FailJob(Held(c))
  <2>1. DocT' /\ (Settles(Held(c), "failed", "failed") \/ Still)
    BY <1>1, <1>2, <1>7, FailsJob DEF Typed
  <2>2. "failed" \in SettledStates \ {"inconclusive"}
    BY States
  <2>. QED BY <1>1, <1>2, <1>3, <2>1, <2>2, DocGrows, CallerAndDocument, States DEF Typed, DocStep
<1>. QED BY <1>4, <1>5, <1>6, <1>7 DEF MarkDispatching, RecordPosted, DispatchFailed

LEMMA AppFine ==
  ASSUME Typed, NEW c \in Users \cup Crons, AppStep(c)
  PROVE  Fine
<1>1. c \in Callers
  BY DEF Callers
<1>2. CASE EnqueueLost(c)
  BY <1>1, <1>2, EnqueueLostFine
<1>3. CASE EnqueueCoalesced(c)
  <2>1. CallerT'
    BY <1>1, <1>3, CallerEnds DEF EnqueueCoalesced, Typed
  <2>. QED BY <1>3, <2>1, CallerOnly DEF EnqueueCoalesced
<1>4. CASE NotConfigured(c)
  <2>1. CallerT'
    BY <1>1, <1>4, CallerGoes DEF NotConfigured, Typed, CallerPCs
  <2>. QED BY <1>4, <2>1, CallerOnly DEF NotConfigured
<1>5. ASSUME NEW p \in Pages, NEW j \in Jobs,
             NEW k \in IF c \in Users THEN Kinds ELSE {"run"}, Enqueue(c, p, j, k)
      PROVE  Fine
  <2>1. k \in {"run", "baseline"}
    BY JobsAssumption
  <2>. QED BY <1>1, <1>5, <2>1, EnqueueFine
<1>6. CASE Post(c)
  BY <1>1, <1>6, PostFine
<1>7. CASE MarkDispatching(c) \/ RecordPosted(c) \/ DispatchFailed(c)
  BY <1>1, <1>7, DispatchFine
<1>. QED BY <1>2, <1>3, <1>4, <1>5, <1>6, <1>7 DEF AppStep

(* The worker's dispatch. *)
LEMMA NightlyFine ==
  ASSUME Typed, NEW c \in Nightlies, NightlyStep(c)
  PROVE  Fine
<1>1. c \in Callers
  BY DEF Callers
<1>2. ASSUME NEW j \in Jobs, NightlyLost(c, j) PROVE Fine
  <2>. DEFINE x == [pc |-> "retry", held |-> {j}, queued |-> TRUE]
  <2>1. x \in CallerRec /\ x.held = {j}
    BY DEF CallerRec, CallerPCs
  <2>2. caller' = [caller EXCEPT ![c] = x]
    BY <1>2 DEF NightlyLost
  <2>. HIDE DEF x
  <2>3. CallerT'
    BY <1>1, <2>1, <2>2, CallerMoves DEF Typed
  <2>. QED BY <1>2, <2>3, CallerOnly DEF NightlyLost
<1>3. CASE NightlyCoalesced(c)
  <2>1. CallerT'
    BY <1>1, <1>3, CallerGoes DEF NightlyCoalesced, Typed, CallerPCs
  <2>. QED BY <1>3, <2>1, CallerOnly DEF NightlyCoalesced
<1>4. ASSUME NEW p \in Pages, NEW j \in Jobs, NightlyReserve(c, p, j) PROVE Fine
  <2>1. DocT' /\ \E old : Reserved(p, j, "dispatching", old)
    BY <1>4, ReservesPage, States DEF NightlyReserve, Unused, Typed
  <2>2. Grows /\ NoneUndecided /\ DocStep
    BY <2>1, DocGrows, States DEF Typed, DocStep
  <2>. DEFINE x == [caller[c] EXCEPT !.pc = "create", !.held = @ \cup {j}]
  <2>3. x \in CallerRec /\ j \in x.held
    BY <1>1 DEF Typed, CallerT, CallerRec, CallerPCs
  <2>4. caller' = [caller EXCEPT ![c] = x]
    BY <1>1, <1>4 DEF NightlyReserve, Typed, CallerT, CallerRec
  <2>. HIDE DEF x
  <2>5. CallerT'
    BY <1>1, <2>3, <2>4, CallerMoves DEF Typed
  <2>. QED BY <1>4, <2>1, <2>2, <2>5, CallerAndDocument DEF NightlyReserve
<1>5. CASE NightlyCreate(c)
  <2>1. DocT' /\ Still /\ Grows /\ NoneUndecided
    BY <1>5, SameDocument DEF Typed, NightlyCreate
  <2>2. CallerT'
    BY <1>1, <1>5, CallerGoes DEF Typed, NightlyCreate, CallerPCs
  <2>3. caller[c].held \in SUBSET Jobs
    BY <1>1 DEF Typed, CallerT, CallerRec
  <2>4. WfT'
    BY <1>5, <2>1, <2>3, Created DEF NightlyCreate
  <2>5. PollerT'
    BY <1>5, <2>1, PollersSame DEF NightlyCreate, Typed
  <2>. QED BY <2>1, <2>2, <2>4, <2>5 DEF Fine, Typed, DocStep
<1>6. CASE NightlyNote(c)
  <2>1. CallerT'
    BY <1>1, <1>6, CallerGoes, CallerEnds DEF Typed, NightlyNote, CallerPCs
  <2>2. UNCHANGED <<page, nights, archived, created, wf, poller>>
    BY <1>6 DEF NightlyNote
  <2>3. CASE UNCHANGED job
    BY <2>1, <2>2, <2>3, CallerOnly DEF document
  <2>4. CASE job' = [j \in Jobs |-> IF j \in caller[c].held /\ Active(j)
                                   THEN [job[j] EXCEPT !.stale = FALSE] ELSE job[j]]
    <3>1. ASSUME NEW j \in Jobs
          PROVE  LET v == [job[j] EXCEPT !.stale = FALSE]
                 IN v \in JobRec /\ v.st = job[j].st /\ v.page = job[j].page
      BY DEF Typed, DocT, JobT, JobRec
    <3>2. JobT' /\ SameJobs
      BY <2>4, <3>1 DEF Typed, DocT, JobT, SameJobs
    <3>3. DocT' /\ Still
      BY <2>2, <3>2 DEF Typed, DocT, PageT, Still
    <3>. QED BY <2>1, <2>2, <3>3, DocGrows, CallerAndDocument DEF Typed, DocStep
  <2>. QED BY <1>6, <2>3, <2>4 DEF NightlyNote
<1>7. CASE NightlyGiveUp(c)
  <2>1. CallerT'
    BY <1>1, <1>7, CallerEnds DEF Typed, NightlyGiveUp
  <2>2. UNCHANGED <<nights, archived, created, wf, poller>>
    BY <1>7 DEF NightlyGiveUp
  <2>3. ASSUME NEW j \in Jobs
        PROVE  LET v == [job[j] EXCEPT !.st = "failed", !.stale = FALSE]
               IN v \in JobRec /\ v.st = "failed" /\ v.page = job[j].page
    BY States DEF Typed, DocT, JobT, JobRec
  <2>4. ASSUME NEW p \in Pages
        PROVE  LET v == [page[p] EXCEPT !.rs = "failed"]
               IN v \in PageRec /\ v.rs = "failed" /\ v.run = page[p].run
    BY DEF Typed, DocT, PageT, PageRec, PageStates
  <2>5. DocT'
    BY <1>7, <2>2, <2>3, <2>4 DEF NightlyGiveUp, Typed, DocT, JobT, PageT
  <2>6. GivesUp(caller[c].held)
    BY <1>7, <2>3, <2>4 DEF NightlyGiveUp, GivesUp
  <2>7. caller[c].held \in SUBSET Jobs
    BY <1>1 DEF Typed, CallerT, CallerRec
  <2>8. Grows /\ NoneUndecided
    BY <2>6, <2>7, DocGrows DEF Typed
  <2>9. DocStep
    BY <1>7, <2>6 DEF NightlyGiveUp, DocStep
  <2>. QED BY <2>1, <2>2, <2>5, <2>8, <2>9, CallerAndDocument
<1>. QED BY <1>2, <1>3, <1>4, <1>5, <1>6, <1>7 DEF NightlyStep

-----------------------------------------------------------------------------
(* Workflows. *)
LEMMA WorkflowAndDocument ==
  ASSUME Typed, WfT', DocT', DocStep, Grows, UNCHANGED <<caller, poller>>
  PROVE  Fine
  BY CallersSame, PollersSame DEF Typed, Fine

LEMMA WorkflowOnly ==
  ASSUME Typed, NEW j \in Jobs, NEW l \in WorkflowPCs,
         wf' = [wf EXCEPT ![j].pc = l] \/ UNCHANGED wf,
         l \in WorkPCs => job[j].st # "none",
         l \in {"wait", "asleep", "resume"} => wf[j].cycle < MaxCycles,
         job[j].st = "inconclusive" => l \in {"undecided", "errored"},
         UNCHANGED <<document, caller, poller>>
  PROVE  Fine
<1>1. DocT' /\ Still /\ Grows /\ NoneUndecided
  BY SameDocument DEF Typed
<1>2. WfT'
  <2>1. job' = job
    BY DEF document
  <2>. QED BY <1>1, <2>1, WfGoes DEF Typed
<1>. QED BY <1>1, <1>2, WorkflowAndDocument DEF DocStep

LEMMA WfFacts ==
  ASSUME Typed, NEW j \in Jobs
  PROVE  /\ wf[j] \in WfRec /\ wf[j].cycle \in 1 .. MaxCycles /\ wf[j].pc \in WorkflowPCs
         /\ wf[j].pc \in WorkPCs => job[j].st # "none"
         /\ wf[j].pc \in {"wait", "asleep", "resume"} => wf[j].cycle < MaxCycles
         /\ job[j].st = "inconclusive" => wf[j].pc \in {"undecided", "errored"}
         /\ job[j] \in JobRec /\ job[j].st \in JobStates
  BY DEF Typed, DocT, JobT, JobRec, WfT, WfRec, WfKnown

LEMMA PCs ==
  /\ WorkPCs \subseteq WorkflowPCs /\ "failing" \in WorkflowPCs /\ "failing" \notin WorkPCs
  /\ "complete" \in WorkflowPCs /\ "complete" \notin WorkPCs
  /\ "errored" \in WorkflowPCs /\ "errored" \notin WorkPCs
  BY DEF WorkPCs, WorkflowPCs, WorkflowEnds

LEMMA ThrowFine ==
  ASSUME Typed, NEW j \in Jobs, Throw(j), wf[j].pc \notin {"undecided", "errored"},
         UNCHANGED <<caller, poller>>
  PROVE  Fine
  BY WfFacts, WorkflowOnly, PCs DEF Throw

(* A step that marks progress and moves on, saved or not. *)
LEMMA ProgressFine ==
  ASSUME Typed, NEW j \in Jobs, NEW s \in ActiveStates \cup {"same"},
         EvidenceProgress(j, s), ~Cancelled(j),
         wf[j].pc \in {"collect", "wait", "asleep", "resume"}, WfT' \/
         \E l \in WorkPCs :
            /\ wf' = [wf EXCEPT ![j].pc = l] \/ UNCHANGED wf
            /\ l \in {"wait", "asleep", "resume"} => wf[j].cycle < MaxCycles,
         UNCHANGED <<caller, poller>>
  PROVE  Fine
<1>1. job[j].st \notin {"none", "failed", "inconclusive"}
  BY WfFacts DEF Cancelled, WorkPCs
<1>2. DocT' /\ ((\E t \in ActiveStates : Marks(j, t)) \/ Still)
  BY <1>1, ProgressIs DEF Typed
<1>3. Grows /\ NoneUndecided /\ DocStep
  BY <1>2, DocGrows DEF Typed, DocStep
<1>4. WfT'
  <2>1. job'[j].st \notin {"none", "inconclusive"}
    BY <1>1, <1>3 DEF Grows, NoneUndecided
  <2>. QED BY <1>3, <2>1, WfGoes, PCs DEF Typed
<1>. QED BY <1>2, <1>3, <1>4, WorkflowAndDocument

LEMMA StartRunFine ==
  ASSUME Typed, NEW j \in Jobs, NEW saved \in BOOLEAN, StartRun(j, saved)
  PROVE  Fine
<1>1. CASE archived \/ ~Reserves(j) \/ job[j].st = "failed"
  <2>1. Throw(j) /\ wf[j].pc = "created" /\ UNCHANGED <<caller, poller>>
    BY <1>1 DEF StartRun
  <2>. QED BY <2>1, ThrowFine
<1>2. CASE ~(archived \/ ~Reserves(j) \/ job[j].st = "failed")
  <2>1. /\ Saved(j, "collect", saved) /\ wf[j].pc = "created"
        /\ UNCHANGED <<nights, archived, created, caller, poller>>
    BY <1>2 DEF StartRun
  <2>2. job[j].st \notin {"none", "failed", "inconclusive"}
    BY <1>2, <2>1, WfFacts DEF Reserves
  <2>3. CASE job[j].st = "succeeded"
    <3>1. UNCHANGED <<document, caller, poller>>
      BY <1>2, <2>1, <2>3 DEF StartRun, document
    <3>. QED BY <2>1, <2>2, <3>1, WorkflowOnly, PCs DEF Saved, WorkPCs
  <2>4. CASE job[j].st # "succeeded"
    <3>1. SetJob(j, "running") /\ SetPage(j, "running")
      BY <1>2, <2>4 DEF StartRun
    <3>2. JobT' /\ Becomes(j, "running") /\ PageT' /\ PageGets(j, "running")
      BY <3>1, SetsJob, SetsPage, States DEF Typed, DocT
    <3>3. Active(j)
      BY <2>2, <2>4, WfFacts DEF Active, JobStates, SettledStates
    <3>4. DocT' /\ Marks(j, "running")
      BY <2>1, <3>2, <3>3, States DEF Typed, DocT, Marks
    <3>5. Grows /\ NoneUndecided /\ DocStep
      BY <3>4, DocGrows, States DEF Typed, DocStep
    <3>6. WfT'
      <4>1. job'[j].st = "running"
        BY <3>2 DEF Becomes
      <4>. QED BY <2>1, <3>5, <4>1, WfGoes, PCs DEF Saved, Typed, WorkPCs
    <3>. QED BY <2>1, <3>4, <3>5, <3>6, WorkflowAndDocument
  <2>. QED BY <2>3, <2>4
<1>. QED BY <1>1, <1>2

LEMMA EvidenceFine ==
  ASSUME Typed, NEW j \in Jobs, NEW e \in Evidence, NEW saved \in BOOLEAN,
         CommitEvidence(j, e, saved)
  PROVE  Fine
<1>1. wf[j].pc = "collect" /\ UNCHANGED <<caller, poller>>
  BY DEF CommitEvidence
<1>2. CASE Refused(j)
  BY <1>1, <1>2, ThrowFine DEF CommitEvidence
<1>3. CASE ~Refused(j)
  <2>1. /\ AddNight(j) /\ Touch(j) /\ Reserves(j)
        /\ wf' = IF saved THEN [wf EXCEPT ![j].kept = @ \cup {e}] ELSE wf
        /\ UNCHANGED <<page, archived, created>>
    BY <1>3 DEF CommitEvidence, Refused
  <2>2. JobT' /\ SameJobs /\ nights' \in [Pages -> Seq(Jobs)]
    BY <2>1, Touches, AddsNight DEF Typed, DocT
  <2>3. DocT' /\ Adds(j)
    BY <2>1, <2>2 DEF Typed, DocT, PageT, Adds
  <2>4. Grows /\ NoneUndecided /\ DocStep
    BY <2>3, DocGrows DEF Typed, DocStep
  <2>5. WfT'
    <3>1. CASE ~saved
      BY <2>1, <2>4, <3>1, WfSame DEF Typed
    <3>2. CASE saved
      <4>. DEFINE w == [wf[j] EXCEPT !.kept = @ \cup {e}]
      <4>1. w \in WfRec /\ w.pc = "collect"
        BY <1>1 DEF Typed, WfT, WfRec
      <4>2. wf' = [wf EXCEPT ![j] = w]
        BY <2>1, <3>2
      <4>. HIDE DEF w
      <4>3. job'[j].st = job[j].st /\ job[j].st \notin {"none", "inconclusive"}
        BY <1>1, <2>2, WfFacts DEF SameJobs, WorkPCs
      <4>. QED BY <2>4, <4>1, <4>2, <4>3, WfMoves DEF Typed, NoneUndecided
    <3>. QED BY <3>1, <3>2
  <2>. QED BY <1>1, <2>3, <2>4, <2>5, WorkflowAndDocument
<1>. QED BY <1>2, <1>3

LEMMA CycleFine ==
  ASSUME Typed, NEW j \in Jobs, NEW saved \in BOOLEAN,
         EndCycle(j, saved) \/ StartWait(j, saved) \/ Wake(j) \/ Resume(j, saved)
  PROVE  Fine
<1>0. UNCHANGED <<caller, poller>>
  BY DEF EndCycle, StartWait, Wake, Resume
<1>1. CASE Throw(j)
  BY <1>0, <1>1, ThrowFine DEF EndCycle, StartWait, Wake, Resume
<1>2. CASE EndCycle(j, saved) /\ ~Throw(j)
  <2>. DEFINE l == IF Strategies \subseteq wf[j].kept THEN "read"
                   ELSE IF wf[j].cycle < MaxCycles THEN "wait" ELSE "undecided"
  <2>1. ~Cancelled(j) /\ wf[j].pc = "collect" /\ EvidenceProgress(j, "same") /\ Saved(j, l, saved)
    BY <1>2 DEF EndCycle
  <2>2. l \in WorkPCs /\ (l \in {"wait", "asleep", "resume"} => wf[j].cycle < MaxCycles)
    BY DEF WorkPCs
  <2>. HIDE DEF l
  <2>. QED BY <1>0, <2>1, <2>2, ProgressFine DEF Saved
<1>3. CASE StartWait(j, saved) /\ ~Throw(j)
  <2>1. ~Cancelled(j) /\ wf[j].pc = "wait" /\ EvidenceProgress(j, "waiting")
        /\ Saved(j, "asleep", saved) /\ wf[j].cycle < MaxCycles
    BY <1>3, WfFacts DEF StartWait
  <2>2. "asleep" \in WorkPCs
    BY DEF WorkPCs
  <2>. QED BY <1>0, <2>1, <2>2, ProgressFine, States DEF Saved
<1>4. CASE Wake(j)
  <2>1. wf[j].pc = "asleep" /\ wf' = [wf EXCEPT ![j].pc = "resume"] /\ UNCHANGED <<document, caller, poller>>
    BY <1>4 DEF Wake
  <2>. QED BY <2>1, WfFacts, WorkflowOnly, PCs DEF WorkPCs
<1>5. CASE Resume(j, saved) /\ ~Throw(j)
  <2>1. /\ ~Cancelled(j) /\ wf[j].pc = "resume" /\ EvidenceProgress(j, "running")
        /\ wf' = IF saved THEN [wf EXCEPT ![j].pc = "collect", ![j].cycle = @ + 1] ELSE wf
    BY <1>5 DEF Resume
  <2>2. job[j].st \notin {"none", "failed", "inconclusive"} /\ wf[j].cycle < MaxCycles
        /\ wf[j].cycle \in 1 .. MaxCycles
    BY <2>1, WfFacts DEF Cancelled, WorkPCs
  <2>3. DocT' /\ ((\E t \in ActiveStates : Marks(j, t)) \/ Still)
    BY <2>1, <2>2, ProgressIs, States DEF Typed
  <2>4. Grows /\ NoneUndecided
    BY <2>3, DocGrows DEF Typed
  <2>5. WfT'
    <3>1. CASE ~saved
      BY <2>1, <2>4, <3>1, WfSame DEF Typed
    <3>2. CASE saved
      <4>. DEFINE w == [wf[j] EXCEPT !.pc = "collect", !.cycle = @ + 1]
      <4>1. wf[j].cycle + 1 \in 1 .. MaxCycles
        BY <2>2, JobsAssumption
      <4>2. w \in WfRec /\ w.pc = "collect"
        BY <4>1 DEF Typed, WfT, WfRec, WorkflowPCs
      <4>3. wf' = [wf EXCEPT ![j] = w]
        BY <2>1, <3>2 DEF Typed, WfT, WfRec
      <4>. HIDE DEF w
      <4>4. job'[j].st \notin {"none", "inconclusive"}
        BY <2>2, <2>4 DEF Grows, NoneUndecided
      <4>. QED BY <2>4, <4>2, <4>3, <4>4, WfMoves DEF Typed, NoneUndecided
    <3>. QED BY <3>1, <3>2
  <2>. QED BY <1>0, <2>1, <2>5, ProgressFine, States
<1>. QED BY <1>1, <1>2, <1>3, <1>4, <1>5

LEMMA EndFine ==
  ASSUME Typed, NEW j \in Jobs, NEW saved \in BOOLEAN,
         \/ ReadForCommit(j) \/ CommitResult(j, saved)
         \/ MarkInconclusive(j, saved) \/ MarkFailed(j, saved)
  PROVE  Fine
<1>0. UNCHANGED <<caller, poller>>
  BY DEF ReadForCommit, CommitResult, MarkInconclusive, MarkFailed
<1>1. CASE Throw(j) /\ (ReadForCommit(j) \/ CommitResult(j, saved))
  BY <1>0, <1>1, ThrowFine DEF ReadForCommit, CommitResult
<1>2. CASE ReadForCommit(j) /\ ~Throw(j)
  <2>1. /\ wf[j].pc = "read" /\ UNCHANGED <<document, caller, poller>>
        /\ \E l \in {"complete", "commit"} : wf' = [wf EXCEPT ![j].pc = l]
    BY <1>2 DEF ReadForCommit
  <2>. QED BY <2>1, WfFacts, WorkflowOnly, PCs DEF WorkPCs
<1>3. CASE CommitResult(j, saved) /\ ~Throw(j)
  <2>1. /\ wf[j].pc = "commit" /\ Succeed(j) /\ UNCHANGED <<nights, archived, created>>
        /\ \E l \in {"complete", "read"} : wf' = [wf EXCEPT ![j].pc = l]
    BY <1>3 DEF CommitResult
  <2>2. job[j].st # "none"
    BY <2>1, WfFacts DEF WorkPCs
  <2>3. DocT' /\ Settles(j, "succeeded", "none")
    BY <2>1, <2>2, Succeeds DEF Typed
  <2>4. Grows /\ NoneUndecided /\ DocStep
    BY <2>3, DocGrows, States DEF Typed, DocStep
  <2>5. job'[j].st = "succeeded"
    BY <2>3 DEF Settles, Becomes
  <2>6. WfT'
    BY <2>1, <2>4, <2>5, WfGoes, PCs DEF Typed, WorkPCs
  <2>. QED BY <1>0, <2>3, <2>4, <2>6, WorkflowAndDocument
<1>4. CASE MarkInconclusive(j, saved)
  <2>1. /\ wf[j].pc = "undecided" /\ UNCHANGED <<nights, archived, created>>
        /\ Saved(j, "errored", saved)
    BY <1>4 DEF MarkInconclusive
  <2>2. CASE job[j].st \in {"none", "succeeded", "failed"}
    <3>1. UNCHANGED document
      BY <1>4, <2>1, <2>2 DEF MarkInconclusive, document
    <3>. QED BY <1>0, <2>1, <3>1, WorkflowOnly, PCs DEF Saved
  <2>3. CASE job[j].st \notin {"none", "succeeded", "failed"}
    <3>1. SetJob(j, "inconclusive") /\ SetPage(j, "none")
      BY <1>4, <2>3 DEF MarkInconclusive
    <3>2. JobT' /\ Becomes(j, "inconclusive") /\ PageT' /\ PageGets(j, "none")
      BY <3>1, SetsJob, SetsPage, States DEF Typed, DocT
    <3>3. DocT' /\ Settles(j, "inconclusive", "none")
      BY <2>1, <2>3, <3>2, States DEF Typed, DocT, Settles
    <3>4. Grows /\ DocStep
      BY <3>3, States DEF Settles, Becomes, Grows, DocStep
    <3>5. WfT'
      <4>1. PICK l \in {"undecided", "errored"} : wf' = [wf EXCEPT ![j].pc = l]
        BY <2>1 DEF Saved, Typed, WfT, WfRec
      <4>. DEFINE w == [wf[j] EXCEPT !.pc = l]
      <4>2. w \in WfRec /\ w.pc = l
        BY DEF Typed, WfT, WfRec, WorkflowPCs, WorkflowEnds
      <4>3. wf' = [wf EXCEPT ![j] = w]
        BY <4>1
      <4>4. job'[j].st # "none"
        BY <3>2 DEF Becomes
      <4>5. \A i \in Jobs : job'[i].st = "inconclusive" => i = j \/ job[i].st = "inconclusive"
        BY <3>2 DEF Becomes
      <4>. HIDE DEF w
      <4>. QED BY <3>4, <4>1, <4>2, <4>3, <4>4, <4>5, WfMoves DEF Typed
    <3>. QED BY <1>0, <3>3, <3>4, <3>5, WorkflowAndDocument
  <2>. QED BY <2>2, <2>3
<1>5. CASE MarkFailed(j, saved)
  <2>1. /\ wf[j].pc = "failing" /\ UNCHANGED <<nights, archived, created>>
        /\ Saved(j, "errored", saved) /\ (FailJob(j) \/ UNCHANGED <<job, page>>)
    BY <1>5 DEF MarkFailed
  <2>2. DocT' /\ (Settles(j, "failed", "failed") \/ Still)
    <3>1. CASE FailJob(j)
      BY <2>1, <3>1, FailsJob DEF Typed
    <3>2. CASE UNCHANGED <<job, page>>
      BY <2>1, <3>2, SameDocument DEF Typed, document
    <3>. QED BY <2>1, <3>1, <3>2
  <2>3. Grows /\ NoneUndecided /\ DocStep
    <3>1. "failed" \in SettledStates \ {"inconclusive"}
      BY States
    <3>. QED BY <2>2, <3>1, DocGrows, States DEF Typed, DocStep
  <2>4. WfT'
    BY <2>1, <2>3, WfGoes, PCs DEF Typed, Saved
  <2>. QED BY <1>0, <2>2, <2>3, <2>4, WorkflowAndDocument
<1>. QED BY <1>1, <1>2, <1>3, <1>4, <1>5

LEMMA WorkflowFine ==
  ASSUME Typed, NEW j \in Jobs, NEW saved \in BOOLEAN, WorkflowStep(j, saved)
  PROVE  Fine
  BY StartRunFine, EvidenceFine, CycleFine, EndFine DEF WorkflowStep

LEMMA BreakFine ==
  ASSUME Typed, NEW j \in Jobs, WorkflowBreaks(j)
  PROVE  Fine
<1>1. /\ UNCHANGED <<document, caller, poller>>
      /\ \/ wf' = [wf EXCEPT ![j].pc = "errored"]
         \/ wf' = [wf EXCEPT ![j].pc = "failing"] /\ wf[j].pc \notin {"undecided", "errored"}
  BY DEF WorkflowBreaks, WorkflowEnds
<1>. QED BY <1>1, WfFacts, WorkflowOnly, PCs

-----------------------------------------------------------------------------
(* Pollers, processes that die, time, recovery and archiving. *)
LEMMA PollerAndDocument ==
  ASSUME Typed, NEW r \in Pollers, NEW l \in PollerPCs, poller[r].pc # "idle",
         PollTo(r, l) \/ PollEnds(r),
         DocT', DocStep, Grows, NoneUndecided, UNCHANGED <<wf, caller>>
  PROVE  Fine
  BY PollGoes, WfSame, CallersSame DEF Typed, Fine

LEMMA PollerOnly ==
  ASSUME Typed, NEW r \in Pollers, NEW l \in PollerPCs, poller[r].pc # "idle",
         PollTo(r, l) \/ PollEnds(r), UNCHANGED <<document, wf, caller>>
  PROVE  Fine
<1>1. DocT' /\ Still /\ Grows /\ NoneUndecided
  BY SameDocument DEF Typed
<1>. QED BY <1>1, PollerAndDocument DEF DocStep

LEMMA PollSnapshotFine ==
  ASSUME Typed, NEW r \in Pollers, NEW j \in Jobs, PollSnapshot(r, j)
  PROVE  Fine
<1>1. DocT' /\ Still /\ Grows /\ NoneUndecided
  BY SameDocument DEF Typed, PollSnapshot
<1>. DEFINE x == [pc |-> "fetch", job |-> j, snap |-> job[j].st]
<1>2. x \in PollerRec /\ x.job = j
  BY DEF PollSnapshot, Active, PollerRec, PollerPCs
<1>3. job'[j].st # "none"
  BY <1>1, States DEF PollSnapshot, Active, Grows
<1>4. poller' = [poller EXCEPT ![r] = x]
  BY DEF PollSnapshot
<1>. HIDE DEF x
<1>5. PollerT'
  BY <1>1, <1>2, <1>3, <1>4, PollerMoves DEF Typed
<1>. QED BY <1>1, <1>5, WfSame, CallersSame DEF Typed, Fine, DocStep, PollSnapshot

LEMMA PollReadsFine ==
  ASSUME Typed, NEW r \in Pollers,
         PollStatus(r) \/ PollRequestFails(r) \/ PollRead(r) \/ PollerDies(r)
  PROVE  Fine
<1>1. poller[r].pc # "idle" /\ UNCHANGED <<document, wf, caller>>
  BY DEF PollStatus, PollRequestFails, PollRead, PollerDies
<1>2. \E l \in PollerPCs : PollTo(r, l) \/ PollEnds(r)
  BY DEF PollStatus, PollRequestFails, PollRead, PollerDies, PollerPCs
<1>. QED BY <1>1, <1>2, PollerOnly

LEMMA PollWritesFine ==
  ASSUME Typed, NEW r \in Pollers, PollMark(r) \/ PollFail(r) \/ PollAppend(r) \/ PollSettle(r)
  PROVE  Fine
<1>. DEFINE j == poller[r].job
<1>1. /\ poller[r].pc # "idle" /\ UNCHANGED <<archived, created, wf, caller>>
      /\ \E l \in PollerPCs : PollTo(r, l) \/ PollEnds(r)
  BY DEF PollMark, PollFail, PollAppend, PollSettle, PollerPCs
<1>2. j \in Jobs /\ job[j].st # "none"
  BY <1>1 DEF Typed, PollerT, PollerKnown
<1>. SUFFICES DocT' /\ (Still \/ Marks(j, "running") \/ Settles(j, "failed", "failed")
                          \/ Settles(j, "succeeded", "none") \/ Adds(j))
  <2>1. {"failed", "succeeded"} \subseteq SettledStates \ {"inconclusive"}
    BY States
  <2>. QED BY <1>1, <1>2, <2>1, DocGrows, PollerAndDocument, States DEF Typed, DocStep
<1>. HIDE DEF j
<1>3. CASE PollMark(r)
  <2>1. MarkJob(j, "running") /\ UNCHANGED <<nights, archived, created>>
    BY <1>3 DEF PollMark, j
  <2>. QED BY <1>2, <2>1, MarksJob, States DEF Typed
<1>4. CASE PollFail(r)
  <2>1. FailJob(j) /\ UNCHANGED <<nights, archived, created>>
    BY <1>4 DEF PollFail, j
  <2>. QED BY <1>2, <2>1, FailsJob DEF Typed
<1>5. CASE PollSettle(r)
  <2>1. Succeed(j) /\ UNCHANGED <<nights, archived, created>>
    BY <1>5 DEF PollSettle, j
  <2>. QED BY <1>2, <2>1, Succeeds DEF Typed
<1>6. CASE PollAppend(r)
  <2>1. /\ UNCHANGED <<job, archived, created>>
        /\ \/ UNCHANGED <<page, nights>>
           \/ Reserves(j) /\ AddNight(j) /\ SetPage(j, "none")
    BY <1>6 DEF PollAppend, j
  <2>2. CASE UNCHANGED <<page, nights>>
    BY <2>1, <2>2, SameDocument DEF Typed, document
  <2>3. CASE Reserves(j) /\ AddNight(j) /\ SetPage(j, "none")
    <3>1. PageT' /\ PageGets(j, "none") /\ nights' \in [Pages -> Seq(Jobs)]
      BY <1>2, <2>3, SetsPage, AddsNight, States DEF Typed, DocT
    <3>. QED BY <2>1, <2>3, <3>1 DEF Typed, DocT, JobT, Adds, SameJobs, PageGets
  <2>. QED BY <2>1, <2>2, <2>3
<1>. QED BY <1>3, <1>4, <1>5, <1>6

LEMMA CallerDiesFine ==
  ASSUME Typed, NEW c \in Callers, CallerDies(c)
  PROVE  Fine
  BY CallerEnds, CallerOnly DEF CallerDies, Typed

LEMMA DocumentOnly ==
  ASSUME Typed, DocT', DocStep, Grows, NoneUndecided, UNCHANGED <<wf, caller, poller>>
  PROVE  Fine
  BY WfSame, CallersSame, PollersSame DEF Typed, Fine

LEMMA FailedRecord ==
  ASSUME JobT, NEW j \in Jobs
  PROVE  LET v == [job[j] EXCEPT !.st = "failed", !.stale = FALSE]
         IN  v \in JobRec /\ v.st = "failed" /\ v.page = job[j].page
  BY States DEF JobT, JobRec

LEMMA AgeFine ==
  ASSUME Typed, NEW j \in Jobs, Age(j)
  PROVE  Fine
<1>. DEFINE v == [job[j] EXCEPT !.stale = TRUE]
<1>1. v \in JobRec /\ v.st = job[j].st /\ v.page = job[j].page
  BY DEF Typed, DocT, JobT, JobRec
<1>2. job' = [job EXCEPT ![j] = v]
  BY DEF Age
<1>. HIDE DEF v
<1>3. JobT' /\ SameJobs
  BY <1>1, <1>2 DEF Typed, DocT, JobT, SameJobs
<1>4. DocT' /\ Still
  BY <1>3 DEF Age, Typed, DocT, PageT, Still
<1>. QED BY <1>4, DocGrows, DocumentOnly DEF Age, Typed, DocStep

LEMMA RecoverIs ==
  ASSUME Typed, Recover
  PROVE  \E s \in [Pages -> PageStates] :
            page' = [p \in Pages |-> [page[p] EXCEPT !.rs = s[p]]]
<1>. DEFINE On(p) == {j \in ActiveOn(p) : Reserves(j)}
            After(j) == IF job[j].stale THEN "failed" ELSE job[j].st
<1>1. PICK expired \in SUBSET Pages :
        page' = [p \in Pages |-> [page[p] EXCEPT
                    !.rs = IF On(p) # {} THEN After(CHOOSE j \in On(p) : TRUE)
                           ELSE IF p \in expired /\ @ \in ActiveStates THEN "failed"
                           ELSE @]]
  BY DEF Recover
<1>. DEFINE s == [p \in Pages |->
                    IF On(p) # {} THEN After(CHOOSE j \in On(p) : TRUE)
                    ELSE IF p \in expired /\ page[p].rs \in ActiveStates THEN "failed"
                    ELSE page[p].rs]
<1>2. ASSUME NEW p \in Pages PROVE s[p] \in PageStates
  <2>1. \A j \in On(p) : After(j) \in PageStates
    BY States DEF ActiveOn, Active
  <2>2. page[p].rs \in PageStates /\ "failed" \in PageStates
    BY States DEF Typed, DocT, PageT, PageRec
  <2>3. CASE On(p) # {}
    <3>1. (CHOOSE j \in On(p) : TRUE) \in On(p)
      BY <2>3
    <3>. QED BY <2>1, <2>3, <3>1
  <2>4. CASE On(p) = {}
    BY <2>2, <2>4
  <2>. QED BY <2>3, <2>4
<1>3. page' = [p \in Pages |-> [page[p] EXCEPT !.rs = s[p]]]
  BY <1>1
<1>4. s \in [Pages -> PageStates]
  BY <1>2
<1>. QED BY <1>3, <1>4

LEMMA RecoverFine ==
  ASSUME Typed, Recover
  PROVE  Fine
<1>1. UNCHANGED <<nights, archived, created, wf, caller, poller>>
  BY DEF Recover
<1>2. JobT'
  BY FailedRecord DEF Recover, Typed, DocT, JobT
<1>3. PageT'
  <2>1. PICK s \in [Pages -> PageStates] :
          page' = [p \in Pages |-> [page[p] EXCEPT !.rs = s[p]]]
    BY RecoverIs
  <2>2. ASSUME NEW p \in Pages PROVE [page[p] EXCEPT !.rs = s[p]] \in PageRec
    BY DEF Typed, DocT, PageT, PageRec
  <2>. QED BY <2>1, <2>2 DEF PageT
<1>4. DocT'
  BY <1>1, <1>2, <1>3 DEF Typed, DocT
<1>. QED BY <1>1, <1>4, DocGrows, DocumentOnly DEF Typed, DocStep

LEMMA ArchiveFine ==
  ASSUME Typed, Archive
  PROVE  Fine
<1>1. /\ page' = [p \in Pages |-> [page[p] EXCEPT !.run = NoJob, !.rs = "none"]]
      /\ job' = [j \in Jobs |-> IF Active(j)
                              THEN [job[j] EXCEPT !.st = "failed", !.stale = FALSE] ELSE job[j]]
      /\ archived' = TRUE /\ UNCHANGED <<nights, created, wf, caller, poller>>
  BY DEF Archive
<1>2. JobT'
  BY <1>1, FailedRecord DEF Typed, DocT, JobT
<1>3. ASSUME NEW p \in Pages
      PROVE  [page[p] EXCEPT !.run = NoJob, !.rs = "none"] \in PageRec
  BY States DEF Typed, DocT, PageT, PageRec
<1>4. DocT'
  BY <1>1, <1>2, <1>3 DEF Typed, DocT, PageT
<1>. QED BY <1>1, <1>4, DocGrows, DocumentOnly DEF Typed, DocStep

LEMMA RestoreFine ==
  ASSUME Typed, Restore
  PROVE  Fine
<1>1. DocT' /\ Still
  BY DEF Restore, Typed, DocT, JobT, PageT, Still, SameJobs
<1>. QED BY <1>1, DocGrows, DocumentOnly DEF Restore, Typed, DocStep

LEMMA NextFine ==
  ASSUME Typed, [Next]_vars
  PROVE  Fine
<1>1. CASE UNCHANGED vars
  <2>1. DocT' /\ Still /\ Grows /\ NoneUndecided
    BY <1>1, SameDocument DEF Typed, vars, document
  <2>. QED BY <1>1, <2>1, DocumentOnly DEF vars, DocStep
<1>2. ASSUME NEW c \in Users \cup Crons, AppStep(c) PROVE Fine
  BY <1>2, AppFine
<1>3. ASSUME NEW c \in Nightlies, NightlyStep(c) PROVE Fine
  BY <1>3, NightlyFine
<1>4. ASSUME NEW c \in Callers, CallerDies(c) PROVE Fine
  BY <1>4, CallerDiesFine
<1>5. ASSUME NEW j \in Jobs, NEW saved \in BOOLEAN, WorkflowStep(j, saved) PROVE Fine
  BY <1>5, WorkflowFine
<1>6. ASSUME NEW j \in Jobs, WorkflowBreaks(j) \/ Age(j) PROVE Fine
  BY <1>6, BreakFine, AgeFine
<1>7. ASSUME NEW r \in Pollers, PollStep(r) \/ PollerDies(r) PROVE Fine
  BY <1>7, PollSnapshotFine, PollReadsFine, PollWritesFine DEF PollStep
<1>8. CASE Recover \/ Archive \/ Restore
  BY <1>8, RecoverFine, ArchiveFine, RestoreFine
<1>. QED BY <1>1, <1>2, <1>3, <1>4, <1>5, <1>6, <1>7, <1>8 DEF Next

LEMMA InitTyped == Init => Typed
<1>. SUFFICES ASSUME Init PROVE Typed
  OBVIOUS
<1>1. PICK p \in Pages :
        job = [j \in Jobs |-> [st |-> "none", page |-> p, kind |-> "run", stale |-> FALSE]]
  BY DEF Init
<1>2. JobT /\ \A j \in Jobs : job[j].st = "none"
  BY <1>1 DEF JobT, JobRec, JobStates
<1>3. PageT
  BY DEF Init, PageT, PageRec, PageStates
<1>4. DocT
  BY <1>2, <1>3, EmptySeq DEF Init, DocT
<1>5. WfT
  BY <1>2, JobsAssumption DEF Init, WfT, WfRec, WfKnown, WorkflowPCs, WorkPCs
<1>6. CallerT
  BY IdleIs DEF Init, CallerT, CallerKnown
<1>7. PollerT
  BY DEF Init, PollerT, PollerKnown, PollerRec, PollerPCs, NotPolled
<1>. QED BY <1>4, <1>5, <1>6, <1>7 DEF Typed

(* The values of every variable stay in their types: no action puts a job, a
   page, a workflow or a process in a state the code has no name for. *)
THEOREM JobsTyped == Spec => []TypeOK
<1>1. Init => Typed
  BY InitTyped
<1>2. Typed /\ [Next]_vars => Typed'
  BY NextFine DEF Fine
<1>. QED BY <1>1, <1>2, TypedIsTypeOK, PTL DEF Spec

-----------------------------------------------------------------------------
(* The page and its jobs. *)
Told == Typed /\ PageTellsRun /\ ArchivedIsQuiet

LEMMA OneActive ==
  ASSUME Told, NEW p \in Pages, NEW j \in ActiveOn(p)
  PROVE  page[p].run = j
  BY DEF Told, PageTellsRun, ActiveOn, Reserves

LEMMA PageRun ==
  ASSUME Told, NEW p \in Pages, page[p].rs \in ActiveStates
  PROVE  \E j \in ActiveOn(p) : page[p].run = j /\ page[p].rs = job[j].st
  BY DEF Told, PageTellsRun

LEMMA ToldKept ==
  ASSUME Told, Typed',
         NEW p \in Pages, page'[p].run = page[p].run,
         page'[p].rs \in ActiveStates => page'[p].rs = page[p].rs,
         \A i \in ActiveOn(p) : /\ job'[i].page = p
                                /\ page'[p].rs \in ActiveStates => job'[i].st = job[i].st
  PROVE  page'[p].rs \in ActiveStates =>
            \E j \in ActiveOn(p)' : page'[p].run = j /\ page'[p].rs = job'[j].st
<1>. SUFFICES ASSUME page'[p].rs \in ActiveStates
              PROVE  \E j \in ActiveOn(p)' : page'[p].run = j /\ page'[p].rs = job'[j].st
  OBVIOUS
<1>1. PICK j \in ActiveOn(p) : page[p].run = j /\ page[p].rs = job[j].st
  BY PageRun
<1>2. j \in Jobs /\ job'[j].page = p /\ job'[j].st \in ActiveStates
  BY <1>1 DEF ActiveOn
<1>. QED BY <1>1, <1>2 DEF ActiveOn, Active

(* Changes after which a job is active only if it was, and its page still says so. *)
LEMMA ToldFewer ==
  ASSUME Told, Typed',
         \A i \in Jobs : /\ job'[i].page = job[i].page
                         /\ Active(i)' => job'[i].st = job[i].st,
         \A p \in Pages :
            /\ page'[p].run = page[p].run
            /\ page'[p].rs \in ActiveStates =>
                  /\ page'[p].rs = page[p].rs
                  /\ \A i \in ActiveOn(p) : job'[i].st = job[i].st,
         archived' \in {archived, FALSE}
  PROVE  Told'
<1>1. \A j \in Jobs : Active(j)' => Active(j)
  BY DEF Active
<1>2. ASSUME NEW j \in Jobs, Active(j)' PROVE Reserves(j)'
  <2>1. Reserves(j) /\ job[j].page \in Pages
    BY <1>1, <1>2, JobFields DEF Told, PageTellsRun, Typed, DocT
  <2>. QED BY <1>2, <2>1 DEF Reserves, Active
<1>3. ASSUME NEW p \in Pages, page'[p].rs \in ActiveStates
      PROVE  \E j \in ActiveOn(p)' : page'[p].run = j /\ page'[p].rs = job'[j].st
  BY <1>3, ToldKept DEF ActiveOn
<1>4. PageTellsRun'
  BY <1>2, <1>3 DEF PageTellsRun
<1>5. ArchivedIsQuiet'
  BY <1>1 DEF Told, ArchivedIsQuiet
<1>. QED BY <1>4, <1>5 DEF Told

LEMMA ToldStill ==
  ASSUME Told, Typed', Still
  PROVE  Told'
  BY ToldFewer DEF Still, SameJobs, ActiveOn

LEMMA ToldAdds ==
  ASSUME Told, Typed', NEW j \in Jobs, Adds(j)
  PROVE  Told'
  BY ToldFewer, States DEF Adds, SameJobs, ActiveOn

LEMMA ToldMarks ==
  ASSUME Told, Typed', NEW j \in Jobs, NEW s \in ActiveStates, Marks(j, s)
  PROVE  Told'
<1>1. Reserves(j) /\ job[j].page \in Pages /\ j \in ActiveOn(job[j].page)
  BY JobFields DEF Told, PageTellsRun, Marks, Typed, DocT, ActiveOn
<1>2. \A i \in Jobs : /\ job'[i].page = job[i].page
                      /\ job'[i].st = IF i = j THEN s ELSE job[i].st
                      /\ Active(i)' => Active(i)
  BY DEF Marks, Becomes, Active
<1>3. ASSUME NEW i \in Jobs, Active(i)' PROVE Reserves(i)'
  <2>1. Reserves(i) /\ job[i].page \in Pages
    BY <1>2, <1>3, JobFields DEF Told, PageTellsRun, Typed, DocT
  <2>. QED BY <1>2, <1>3, <2>1, States DEF Reserves, Active, Marks, PageGets
<1>4. ASSUME NEW p \in Pages, page'[p].rs \in ActiveStates
      PROVE  \E i \in ActiveOn(p)' : page'[p].run = i /\ page'[p].rs = job'[i].st
  <2>1. CASE p = job[j].page
    <3>1. page'[p].run = j /\ page'[p].rs = s /\ job'[j].st = s /\ job'[j].page = p
      BY <1>1, <1>2, <2>1 DEF Marks, PageGets, Reserves
    <3>. QED BY <3>1 DEF ActiveOn, Active
  <2>2. CASE p # job[j].page
    <3>1. page'[p].run = page[p].run /\ page'[p].rs = page[p].rs
      BY <2>2 DEF Marks, PageGets
    <3>2. \A i \in ActiveOn(p) : job'[i].page = p /\ job'[i].st = job[i].st
      BY <1>2, <2>2 DEF ActiveOn
    <3>. QED BY <1>4, <3>1, <3>2, ToldKept
  <2>. QED BY <2>1, <2>2
<1>5. PageTellsRun'
  BY <1>3, <1>4 DEF PageTellsRun
<1>6. ArchivedIsQuiet'
  BY <1>2 DEF Told, ArchivedIsQuiet, Marks
<1>. QED BY <1>5, <1>6 DEF Told

LEMMA ToldSettles ==
  ASSUME Told, Typed', NEW j \in Jobs, NEW s \in SettledStates, NEW r \in {"none", "failed"},
         Settles(j, s, r)
  PROVE  Told'
<1>1. r \notin ActiveStates /\ s \notin ActiveStates
  BY States DEF ActiveStates
<1>2. \A i \in Jobs : /\ job'[i].page = job[i].page
                      /\ Active(i)' => job'[i].st = job[i].st
  BY <1>1 DEF Settles, Becomes, Active
<1>3. ASSUME NEW p \in Pages, page'[p].rs \in ActiveStates
      PROVE  /\ page'[p].rs = page[p].rs
             /\ \A i \in ActiveOn(p) : job'[i].st = job[i].st
  <2>1. page'[p].rs = page[p].rs /\ ~(Reserves(j) /\ p = job[j].page)
    BY <1>1, <1>3 DEF Settles, PageGets
  <2>2. ASSUME NEW i \in ActiveOn(p) PROVE i # j
    BY <2>1, OneActive DEF ActiveOn, Settles, Reserves
  <2>. QED BY <2>1, <2>2 DEF Settles, Becomes, ActiveOn
<1>. QED BY <1>2, <1>3, ToldFewer DEF Settles, PageGets

LEMMA ToldGivesUp ==
  ASSUME Told, Typed', NEW S \in SUBSET Jobs, GivesUp(S)
  PROVE  Told'
<1>1. \A i \in Jobs : /\ job'[i].page = job[i].page
                      /\ Active(i)' => job'[i].st = job[i].st
  BY States DEF GivesUp, Active
<1>2. ASSUME NEW p \in Pages, page'[p].rs \in ActiveStates
      PROVE  /\ page'[p].rs = page[p].rs
             /\ \A i \in ActiveOn(p) : job'[i].st = job[i].st
  <2>1. page'[p].rs = page[p].rs /\ page[p].run \notin S
    BY <1>2, States DEF GivesUp
  <2>2. ASSUME NEW i \in ActiveOn(p) PROVE i \notin S
    BY <2>1, OneActive
  <2>. QED BY <2>1, <2>2 DEF GivesUp, ActiveOn
<1>. QED BY <1>1, <1>2, ToldFewer DEF GivesUp

LEMMA ToldReserved ==
  ASSUME Told, Typed', NEW j \in Jobs, NEW p \in Pages, NEW s \in ActiveStates, NEW old,
         Reserved(p, j, s, old)
  PROVE  Told'
<1>1. \A i \in ActiveOn(p) : i = old /\ i # j
  BY OneActive, States DEF Reserved, ActiveOn, Active
<1>2. ASSUME NEW i \in Jobs, i # j, Active(i)'
      PROVE  /\ Active(i) /\ job'[i].st = job[i].st
             /\ job'[i].page = job[i].page /\ job[i].page # p
  BY <1>1, <1>2, States DEF Reserved, Active, ActiveOn
<1>3. ASSUME NEW i \in Jobs, Active(i)' PROVE Reserves(i)'
  <2>1. CASE i = j
    BY <2>1, States DEF Reserves, Reserved
  <2>2. CASE i # j
    <3>1. Reserves(i) /\ job[i].page \in Pages
      BY <1>2, <1>3, <2>2, JobFields DEF Told, PageTellsRun, Typed, DocT
    <3>. QED BY <1>2, <1>3, <2>2, <3>1 DEF Reserves, Reserved
  <2>. QED BY <2>1, <2>2
<1>4. ASSUME NEW q \in Pages, page'[q].rs \in ActiveStates
      PROVE  \E i \in ActiveOn(q)' : page'[q].run = i /\ page'[q].rs = job'[i].st
  <2>1. CASE q = p
    <3>1. page'[q].run = j /\ page'[q].rs = s /\ job'[j].st = s /\ job'[j].page = q
      BY <2>1 DEF Reserved
    <3>. QED BY <3>1 DEF ActiveOn, Active
  <2>2. CASE q # p
    <3>1. page'[q].run = page[q].run /\ page'[q].rs = page[q].rs
      BY <2>2 DEF Reserved
    <3>2. \A i \in ActiveOn(q) : job'[i].page = q /\ job'[i].st = job[i].st
      BY <2>2, States DEF Reserved, ActiveOn, Active
    <3>. QED BY <1>4, <3>1, <3>2, ToldKept
  <2>. QED BY <2>1, <2>2
<1>5. PageTellsRun'
  BY <1>3, <1>4 DEF PageTellsRun
<1>6. ArchivedIsQuiet'
  BY DEF ArchivedIsQuiet, Reserved
<1>. QED BY <1>5, <1>6 DEF Told

LEMMA ToldRecover ==
  ASSUME Told, Typed', Recover
  PROVE  Told'
<1>. DEFINE On(p) == {j \in ActiveOn(p) : Reserves(j)}
            After(j) == IF job[j].stale THEN "failed" ELSE job[j].st
<1>1. PICK expired \in SUBSET Pages :
        page' = [p \in Pages |-> [page[p] EXCEPT
                    !.rs = IF On(p) # {} THEN After(CHOOSE j \in On(p) : TRUE)
                           ELSE IF p \in expired /\ @ \in ActiveStates THEN "failed"
                           ELSE @]]
  BY DEF Recover
<1>2. ASSUME NEW i \in Jobs
      PROVE  /\ job'[i].page = job[i].page
             /\ job'[i].st = IF Active(i) /\ job[i].stale THEN "failed" ELSE job[i].st
             /\ Active(i)' => job'[i].st = job[i].st
  BY FailedRecord, States DEF Recover, Told, PageTellsRun, Typed, DocT, Active
<1>3. ASSUME NEW p \in Pages
      PROVE  /\ page'[p].run = page[p].run
             /\ page'[p].rs \in ActiveStates =>
                    \E j \in ActiveOn(p)' : page'[p].run = j /\ page'[p].rs = job'[j].st
  <2>. DEFINE x == IF On(p) # {} THEN After(CHOOSE j \in On(p) : TRUE)
                   ELSE IF p \in expired /\ page[p].rs \in ActiveStates THEN "failed"
                   ELSE page[p].rs
              v == [page[p] EXCEPT !.rs = x]
  <2>1. page'[p] = v
    BY <1>1
  <2>2. v.run = page[p].run /\ v.rs = x
    BY DEF Told, Typed, DocT, PageT, PageRec
  <2>. HIDE DEF v
  <2>3. CASE On(p) = {}
    <3>1. ActiveOn(p) = {}
      BY <2>3 DEF Told, PageTellsRun, ActiveOn
    <3>2. page[p].rs \notin ActiveStates
      BY <3>1, PageRun
    <3>. QED BY <2>1, <2>2, <2>3, <3>2, States
  <2>4. CASE On(p) # {}
    <3>1. PICK j \in On(p) : j = CHOOSE i \in On(p) : TRUE
      BY <2>4
    <3>2. x = After(j) /\ page[p].run = j /\ j \in Jobs /\ job[j].page = p /\ Active(j)
      BY <2>4, <3>1, OneActive DEF ActiveOn
    <3>3. page'[p].run = j /\ (page'[p].rs \in ActiveStates => page'[p].rs = job[j].st /\ ~job[j].stale)
      BY <2>1, <2>2, <3>2, States DEF ActiveStates
    <3>4. ~job[j].stale => job'[j].st = job[j].st /\ job'[j].page = p
      BY <1>2, <3>2
    <3>. QED BY <3>2, <3>3, <3>4 DEF ActiveOn, Active
  <2>. QED BY <2>3, <2>4
<1>4. ASSUME NEW i \in Jobs, Active(i)' PROVE Reserves(i)'
  <2>1. Active(i) /\ Reserves(i) /\ job[i].page \in Pages
    BY <1>2, <1>4, JobFields DEF Active, Told, PageTellsRun, Typed, DocT
  <2>. QED BY <1>2, <1>3, <1>4, <2>1 DEF Reserves, Active
<1>5. PageTellsRun'
  BY <1>3, <1>4 DEF PageTellsRun
<1>6. ArchivedIsQuiet'
  BY <1>2 DEF Told, ArchivedIsQuiet, Active, Recover
<1>. QED BY <1>5, <1>6 DEF Told

LEMMA ToldArchive ==
  ASSUME Told, Typed', Archive
  PROVE  Told'
<1>1. ASSUME NEW j \in Jobs PROVE ~Active(j)'
  BY FailedRecord, States DEF Archive, Told, Typed, DocT, Active
<1>2. ASSUME NEW p \in Pages PROVE page'[p].rs \notin ActiveStates
  <2>. DEFINE v == [page[p] EXCEPT !.run = NoJob, !.rs = "none"]
  <2>1. v.rs = "none"
    BY DEF Told, Typed, DocT, PageT, PageRec
  <2>2. page'[p] = v
    BY DEF Archive
  <2>. HIDE DEF v
  <2>. QED BY <2>1, <2>2, States
<1>. QED BY <1>1, <1>2 DEF Told, PageTellsRun, ArchivedIsQuiet

LEMMA ToldNext ==
  ASSUME Told, [Next]_vars
  PROVE  Told'
<1>1. Typed' /\ DocStep
  BY NextFine DEF Told, Fine
<1>2. ASSUME NEW c \in Nightlies, GivesUp(caller[c].held) PROVE Told'
  <2>1. caller[c].held \in SUBSET Jobs
    BY DEF Told, Typed, CallerT, CallerRec, Callers
  <2>. QED BY <1>1, <1>2, <2>1, ToldGivesUp
<1>. QED BY <1>1, <1>2, ToldStill, ToldMarks, ToldSettles, ToldAdds, ToldReserved,
            ToldRecover, ToldArchive DEF DocStep

LEMMA InitTold == Init => Told
<1>. SUFFICES ASSUME Init PROVE Told
  OBVIOUS
<1>1. \A j \in Jobs : ~Active(j)
  BY States DEF Init, Active
<1>2. \A p \in Pages : page[p].rs \notin ActiveStates
  BY States DEF Init
<1>. QED BY <1>1, <1>2, InitTyped DEF Told, PageTellsRun, ArchivedIsQuiet

(* A page and its jobs never disagree, whatever callers, workflows, pollers,
   recovery and archiving do to them at the same time. *)
THEOREM PageTells == Spec => []PageTellsRun
<1>1. Told /\ [Next]_vars => Told'
  BY ToldNext
<1>2. Told => PageTellsRun
  BY DEF Told
<1>. QED BY <1>1, <1>2, InitTold, PTL DEF Spec

(* No work of an archived project comes back to life. *)
THEOREM Quiet == Spec => []ArchivedIsQuiet
<1>1. Told /\ [Next]_vars => Told'
  BY ToldNext
<1>2. Told => ArchivedIsQuiet
  BY DEF Told
<1>. QED BY <1>1, <1>2, InitTold, PTL DEF Spec

-----------------------------------------------------------------------------
(* The order of the history.  The page is reserved for the newest of its jobs,
   and only the job it is reserved for enters the history. *)
Newest(j, p) ==
    /\ job[j].st # "none" /\ job[j].page = p
    /\ \E n \in DOMAIN created :
        /\ created[n] = j
        /\ \A m \in DOMAIN created : job[created[m]].page = p => m <= n

Kept(j, p) ==
    /\ job[j].st # "none" /\ job[j].page = p
    /\ \E n \in DOMAIN created : created[n] = j

Hist ==
    /\ DocT
    /\ \A n \in DOMAIN created : job[created[n]].st # "none"
    /\ \A p \in Pages : page[p].run # NoJob => Newest(page[p].run, p)
    /\ \A p \in Pages : \A a \in DOMAIN nights[p] : Kept(nights[p][a], p)
    /\ NightsInOrder

LEMMA HistSame ==
  ASSUME Hist, DocT', UNCHANGED <<nights, created>>,
         \A j \in Jobs : /\ job'[j].page = job[j].page
                         /\ job[j].st # "none" => job'[j].st # "none",
         \A p \in Pages : page'[p].run \in {page[p].run, NoJob}
  PROVE  Hist'
<1>1. \A n \in DOMAIN created : created[n] \in Jobs
  BY DEF Hist, DocT
<1>2. \A p \in Pages : page[p].run \in Jobs \cup {NoJob}
  BY DEF Hist, DocT, PageT, PageRec
<1>3. \A p \in Pages : \A a \in DOMAIN nights[p] : nights[p][a] \in Jobs
  BY DEF Hist, DocT
<1>4. \A n \in DOMAIN created' : job'[created'[n]].st # "none"
  BY <1>1 DEF Hist
<1>5. ASSUME NEW p \in Pages, page'[p].run # NoJob PROVE Newest(page[p].run, p)'
  <2>1. page[p].run \in Jobs /\ Newest(page[p].run, p) /\ page'[p].run = page[p].run
    BY <1>2, <1>5 DEF Hist
  <2>. QED BY <1>1, <2>1 DEF Newest
<1>6. ASSUME NEW p \in Pages, NEW a \in DOMAIN nights[p] PROVE Kept(nights[p][a], p)'
  <2>1. nights[p][a] \in Jobs /\ Kept(nights[p][a], p)
    BY <1>3 DEF Hist
  <2>. QED BY <2>1 DEF Kept
<1>7. NightsInOrder'
  BY DEF Hist, NightsInOrder
<1>. QED BY <1>4, <1>5, <1>6, <1>7 DEF Hist

LEMMA HistReserved ==
  ASSUME Hist, DocT', NEW j \in Jobs, NEW p \in Pages, NEW s \in ActiveStates, NEW old,
         Reserved(p, j, s, old)
  PROVE  Hist'
<1>. DEFINE N == Len(created)
<1>1. /\ N \in Nat /\ DOMAIN created = 1 .. N /\ DOMAIN created' = 1 .. (N + 1)
      /\ \A n \in 1 .. N : created'[n] = created[n] /\ created[n] \in Jobs
      /\ created'[N + 1] = j
  BY DEF Reserved, Hist, DocT
<1>2. \A i \in Jobs : job[i].st # "none" =>
        i # j /\ job'[i].st # "none" /\ job'[i].page = job[i].page
  BY States DEF Reserved
<1>3. job'[j].st # "none" /\ job'[j].page = p
  BY States DEF Reserved
<1>4. \A n \in 1 .. N : /\ created[n] # j
                        /\ job'[created[n]].st # "none"
                        /\ job'[created[n]].page = job[created[n]].page
  BY <1>1, <1>2 DEF Hist
<1>5. ASSUME NEW n \in DOMAIN created' PROVE job'[created'[n]].st # "none"
  BY <1>1, <1>3, <1>4
<1>6. ASSUME NEW q \in Pages, page'[q].run # NoJob PROVE Newest(page[q].run, q)'
  <2>1. CASE q = p
    <3>1. page'[q].run = j
      BY <2>1 DEF Reserved
    <3>2. \A m \in 1 .. (N + 1) : m <= N + 1
      BY <1>1
    <3>3. N + 1 \in 1 .. (N + 1)
      BY <1>1
    <3>. QED BY <1>1, <1>3, <2>1, <3>1, <3>2, <3>3 DEF Newest
  <2>2. CASE q # p
    <3>1. page'[q].run = page[q].run /\ page[q].run # NoJob
      BY <1>6, <2>2 DEF Reserved
    <3>2. page[q].run \in Jobs /\ Newest(page[q].run, q)
      BY <3>1 DEF Hist, DocT, PageT, PageRec
    <3>3. PICK n \in 1 .. N : /\ created[n] = page[q].run
                              /\ \A m \in 1 .. N : job[created[m]].page = q => m <= n
      BY <1>1, <3>2 DEF Newest
    <3>4. n \in 1 .. (N + 1)
      BY <1>1
    <3>5. \A m \in 1 .. (N + 1) : m = N + 1 \/ m \in 1 .. N
      BY <1>1
    <3>6. \A m \in 1 .. (N + 1) : job'[created'[m]].page = q => m <= n
      BY <1>1, <1>3, <1>4, <2>2, <3>3, <3>5
    <3>7. job'[page[q].run].st # "none" /\ job'[page[q].run].page = q
      BY <1>2, <3>2 DEF Newest
    <3>. QED BY <1>1, <3>1, <3>3, <3>4, <3>6, <3>7 DEF Newest
  <2>. QED BY <2>1, <2>2
<1>7. ASSUME NEW q \in Pages, NEW a \in DOMAIN nights[q] PROVE Kept(nights[q][a], q)'
  <2>1. nights[q][a] \in Jobs /\ Kept(nights[q][a], q)
    BY DEF Hist, DocT
  <2>2. PICK n \in 1 .. N : created[n] = nights[q][a]
    BY <1>1, <2>1 DEF Kept
  <2>3. n \in 1 .. (N + 1) /\ created'[n] = nights[q][a] /\ nights' = nights
    BY <1>1, <2>2 DEF Reserved
  <2>4. job'[nights[q][a]].st # "none" /\ job'[nights[q][a]].page = q
    BY <1>2, <2>1 DEF Kept
  <2>. QED BY <1>1, <2>3, <2>4 DEF Kept
<1>8. NightsInOrder'
  <2>. SUFFICES ASSUME NEW q \in Pages, NEW a \in DOMAIN nights[q], NEW b \in DOMAIN nights[q],
                       a < b
                PROVE  \E m, n \in 1 .. (N + 1) : m < n /\ created'[m] = nights[q][a]
                                               /\ created'[n] = nights[q][b]
    BY <1>1 DEF NightsInOrder, Reserved
  <2>1. PICK m \in 1 .. N, n \in 1 .. N :
          m < n /\ created[m] = nights[q][a] /\ created[n] = nights[q][b]
    BY <1>1 DEF Hist, NightsInOrder
  <2>2. m \in 1 .. (N + 1) /\ n \in 1 .. (N + 1)
    BY <1>1
  <2>. QED BY <1>1, <2>1, <2>2
<1>9. UNCHANGED nights
  BY DEF Reserved
<1>. QED BY <1>5, <1>6, <1>7, <1>8, <1>9 DEF Hist

LEMMA HistAdds ==
  ASSUME Hist, DocT', NEW j \in Jobs, Adds(j)
  PROVE  Hist'
<1>. DEFINE p == job[j].page
<1>1. p \in Pages /\ Reserves(j) /\ page[p].run = j
  BY JobFields DEF Hist, DocT, Adds, Reserves
<1>2. CASE NightIn(j)
  <2>1. UNCHANGED nights
    BY <1>2 DEF Adds, AddNight
  <2>. QED BY <2>1, HistSame DEF Adds, SameJobs
<1>3. CASE ~NightIn(j)
  <2>1. nights' = [nights EXCEPT ![p] = Append(@, j)] /\ UNCHANGED created
    BY <1>3 DEF Adds, AddNight
  <2>. DEFINE L == Len(nights[p])
              t == Append(nights[p], j)
  <2>2. /\ L \in Nat /\ DOMAIN nights[p] = 1 .. L /\ DOMAIN t = 1 .. (L + 1)
        /\ \A a \in 1 .. L : t[a] = nights[p][a] /\ nights[p][a] \in Jobs
        /\ t[L + 1] = j
    BY <1>1 DEF Hist, DocT
  <2>3. nights'[p] = t /\ \A q \in Pages : q # p => nights'[q] = nights[q]
    BY <1>1, <2>1 DEF Hist, DocT
  <2>4. \A a \in 1 .. L : nights[p][a] # j
    BY <1>1, <1>3, <2>2 DEF NightIn, ToSet, Reserves
  <2>5. NoJob # j /\ Newest(j, p)
    BY <1>1, JobsAssumption DEF Hist
  <2>6. PICK n \in DOMAIN created :
          created[n] = j /\ \A m \in DOMAIN created : job[created[m]].page = p => m <= n
    BY <2>5 DEF Newest
  <2>. HIDE DEF L, t, p
  <2>7. \A i \in Jobs : job'[i].st = job[i].st /\ job'[i].page = job[i].page
    BY DEF Adds, SameJobs
  <2>8. Kept(j, p)
    BY <2>5, <2>6 DEF Kept, Newest
  <2>9. ASSUME NEW i \in Jobs, NEW q, Kept(i, q) PROVE Kept(i, q)'
    BY <2>1, <2>7, <2>9 DEF Kept
  <2>10. ASSUME NEW q \in Pages, NEW a \in DOMAIN nights'[q]
         PROVE  Kept(nights[q][a], q)'
    <3>1. nights'[q][a] \in Jobs
      BY DEF DocT
    <3>2. Kept(nights'[q][a], q)
      <4>1. CASE q # p
        BY <2>3, <4>1 DEF Hist
      <4>2. CASE q = p /\ a = L + 1
        BY <2>2, <2>3, <2>8, <4>2
      <4>3. CASE q = p /\ a # L + 1
        <5>1. a \in 1 .. L
          BY <2>2, <2>3, <4>3
        <5>. QED BY <1>1, <2>2, <2>3, <4>3, <5>1 DEF Hist
      <4>. QED BY <4>1, <4>2, <4>3
    <3>3. PICK i \in Jobs : i = nights'[q][a]
      BY <3>1
    <3>4. Kept(i, q)'
      BY <2>9, <3>2, <3>3
    <3>. QED BY <3>3, <3>4 DEF Kept
  <2>11. NightsInOrder'
    <3>. SUFFICES ASSUME NEW q \in Pages, NEW a \in DOMAIN nights'[q], NEW b \in DOMAIN nights'[q],
                         a < b
                  PROVE  \E m, k \in DOMAIN created : m < k /\ created[m] = nights'[q][a]
                                                 /\ created[k] = nights'[q][b]
      BY <2>1 DEF NightsInOrder
    <3>1. CASE q # p
      BY <2>3, <3>1 DEF Hist, NightsInOrder
    <3>2. CASE q = p /\ b # L + 1
      <4>1. a \in 1 .. L /\ b \in 1 .. L
        BY <2>2, <2>3, <3>2
      <4>. QED BY <1>1, <2>2, <2>3, <3>2, <4>1 DEF Hist, NightsInOrder
    <3>3. CASE q = p /\ b = L + 1
      <4>1. a \in 1 .. L /\ nights'[q][a] = nights[p][a] /\ nights'[q][b] = j
        BY <2>2, <2>3, <3>3
      <4>2. Kept(nights[p][a], p) /\ nights[p][a] # j
        BY <1>1, <2>2, <2>4, <4>1 DEF Hist
      <4>3. PICK m \in DOMAIN created : created[m] = nights[p][a] /\ job[created[m]].page = p
        BY <4>2 DEF Kept
      <4>4. m <= n /\ m # n
        BY <2>6, <4>2, <4>3
      <4>5. m \in Nat /\ n \in Nat
        BY DEF Hist, DocT
      <4>6. m < n
        BY <4>4, <4>5
      <4>. QED BY <2>6, <4>1, <4>3, <4>6
    <3>. QED BY <3>1, <3>2, <3>3
  <2>. \A m \in DOMAIN created : created[m] \in Jobs /\ job[created[m]].st # "none"
    BY DEF Hist, DocT
  <2>12. \A m \in DOMAIN created' : job'[created'[m]].st # "none"
    BY <2>1, <2>7
  <2>13. ASSUME NEW q \in Pages, page'[q].run # NoJob PROVE Newest(page[q].run, q)'
    <3>1. page'[q].run = page[q].run /\ page[q].run \in Jobs /\ Newest(page[q].run, q)
      BY <2>13 DEF Adds, Hist, DocT, PageT, PageRec
    <3>2. PICK i \in Jobs : i = page[q].run /\ i = page'[q].run
      BY <3>1
    <3>3. /\ job[i].st # "none" /\ job[i].page = q
          /\ \E k \in DOMAIN created : /\ created[k] = i
                /\ \A m \in DOMAIN created : job[created[m]].page = q => m <= k
      BY <3>1, <3>2 DEF Newest
    <3>4. Newest(i, q)'
      BY <2>1, <2>7, <3>3 DEF Newest
    <3>. QED BY <3>2, <3>4 DEF Newest
  <2>. QED BY <2>10, <2>11, <2>12, <2>13 DEF Hist
<1>. QED BY <1>2, <1>3

LEMMA HistNext ==
  ASSUME Typed, Hist, [Next]_vars
  PROVE  Hist'
<1>1. DocT' /\ DocStep
  BY NextFine DEF Fine, Typed
<1>2. CASE Still
  BY <1>1, <1>2, HistSame DEF Still, SameJobs
<1>3. ASSUME NEW j \in Jobs, NEW s \in ActiveStates, Marks(j, s) PROVE Hist'
  BY <1>1, <1>3, HistSame, States DEF Marks, Becomes, PageGets
<1>4. ASSUME NEW j \in Jobs, NEW s \in SettledStates, NEW r \in {"none", "failed"},
             Settles(j, s, r)
      PROVE  Hist'
  BY <1>1, <1>4, HistSame, States DEF Settles, Becomes, PageGets
<1>5. ASSUME NEW c \in Nightlies, GivesUp(caller[c].held) PROVE Hist'
  BY <1>1, <1>5, HistSame, States DEF GivesUp
<1>6. CASE Recover
  <2>1. \A j \in Jobs : /\ job'[j].page = job[j].page
                        /\ job[j].st # "none" => job'[j].st # "none"
    BY <1>6, FailedRecord DEF Recover, Typed, DocT
  <2>2. \A p \in Pages : page'[p].run = page[p].run
    <3>1. PICK s : page' = [p \in Pages |-> [page[p] EXCEPT !.rs = s[p]]]
      BY <1>6, RecoverIs
    <3>. QED BY <3>1 DEF Typed, DocT, PageT, PageRec
  <2>. QED BY <1>1, <1>6, <2>1, <2>2, HistSame DEF Recover
<1>7. CASE Archive
  <2>1. \A j \in Jobs : /\ job'[j].page = job[j].page
                        /\ job[j].st # "none" => job'[j].st # "none"
    BY <1>7, FailedRecord DEF Archive, Typed, DocT
  <2>2. \A p \in Pages : page'[p].run = NoJob
    BY <1>7 DEF Archive, Typed, DocT, PageT, PageRec
  <2>. QED BY <1>1, <1>7, <2>1, <2>2, HistSame DEF Archive
<1>. QED BY <1>1, <1>2, <1>3, <1>4, <1>5, <1>6, <1>7, HistAdds, HistReserved DEF DocStep

LEMMA InitHist == Init => Hist
<1>. SUFFICES ASSUME Init PROVE Hist
  OBVIOUS
<1>1. created = <<>> /\ \A p \in Pages : nights[p] = <<>> /\ page[p].run = NoJob
  BY DEF Init
<1>. QED BY <1>1, InitTyped DEF Hist, Typed, NightsInOrder

(* The history of a page grows in the order in which its runs were reserved,
   however late a superseded run commits. *)
THEOREM HistoryInOrder == Spec => []NightsInOrder
<1>1. Init => Typed /\ Hist
  BY InitTyped, InitHist
<1>2. Typed /\ Hist /\ [Next]_vars => (Typed /\ Hist)'
  BY NextFine, HistNext DEF Fine
<1>3. Hist => NightsInOrder
  BY DEF Hist
<1>. QED BY <1>1, <1>2, <1>3, PTL DEF Spec

(* A run that succeeded is not overruled by anything late but the dispatch that
   gives its batch up. *)
THEOREM SuccessStays == Spec => SuccessIsFinal
<1>. DEFINE Final == \A j \in Jobs : job[j].st = "succeeded" =>
                \/ job'[j].st = "succeeded"
                \/ \E c \in Nightlies : j \in caller[c].held /\ caller[c].pc = "giveUp"
<1>1. ASSUME Typed, [Next]_vars PROVE Final
  <2>1. DocStep
    BY <1>1, NextFine DEF Fine
  <2>2. CASE Recover
    BY <2>2, States DEF Recover, Active, ActiveStates
  <2>3. CASE Archive
    BY <2>3, States DEF Archive, Active, ActiveStates
  <2>4. ASSUME NEW j \in Jobs, NEW s \in ActiveStates, Marks(j, s) PROVE Final
    BY <2>4, States DEF Marks, Becomes, Active, ActiveStates
  <2>5. ASSUME NEW j \in Jobs, NEW s \in SettledStates, NEW r, Settles(j, s, r) PROVE Final
    BY <2>5 DEF Settles, Becomes
  <2>6. ASSUME NEW j \in Jobs, NEW p \in Pages, NEW s \in ActiveStates, NEW old,
               Reserved(p, j, s, old)
        PROVE  Final
    BY <2>6, States DEF Reserved, ActiveOn, Active, ActiveStates
  <2>7. ASSUME NEW c \in Nightlies, caller[c].pc = "giveUp", GivesUp(caller[c].held)
        PROVE  Final
    BY <2>7 DEF GivesUp
  <2>8. CASE Still
    BY <2>8 DEF Still, SameJobs
  <2>9. ASSUME NEW j \in Jobs, Adds(j) PROVE Final
    BY <2>9 DEF Adds, SameJobs
  <2>. QED BY <2>1, <2>2, <2>3, <2>4, <2>5, <2>6, <2>7, <2>8, <2>9 DEF DocStep
<1>2. Typed /\ [Next]_vars => Typed'
  BY NextFine DEF Fine
<1>3. Typed /\ [Next]_vars => [Final]_vars
  BY <1>1
<1>. QED BY <1>2, <1>3, InitTyped, PTL DEF Spec, SuccessIsFinal

-----------------------------------------------------------------------------
(* The refinement: a reservation takes the page, and everything else either
   settles live jobs or changes nothing that SingleFlight sees. *)
Settled(j) == job[j].st \in SettledStates

Holds ==
    \A p \in Pages : /\ \A j \in ActiveOn(p) : HolderOf(p) = j
                     /\ ActiveOn(p) = {} => HolderOf(p) = NoJob

LEMMA HolderOne == Told => Holds
<1>. SUFFICES ASSUME Told, NEW p \in Pages
              PROVE  /\ \A j \in ActiveOn(p) : HolderOf(p) = j
                     /\ ActiveOn(p) = {} => HolderOf(p) = NoJob
  BY DEF Holds
<1>1. ASSUME NEW j \in ActiveOn(p) PROVE HolderOf(p) = j
  <2>1. (CHOOSE i \in ActiveOn(p) : TRUE) \in ActiveOn(p)
    OBVIOUS
  <2>2. (CHOOSE i \in ActiveOn(p) : TRUE) = j
    BY <2>1, OneActive
  <2>. QED BY <2>2 DEF HolderOf
<1>. QED BY <1>1 DEF HolderOf

LEMMA HolderOneNext == Told' => Holds'
<1>1. Told => Holds
  BY HolderOne
<1>. QED BY <1>1, PTL

(* The jobs that stop being active end. *)
LEMMA FlightEnds ==
  ASSUME Told, Told',
         \A i \in Jobs : /\ job'[i].page = job[i].page
                         /\ Active(i)' => Active(i)
                         /\ Settled(i)' <=> Settled(i) \/ (Active(i) /\ ~Active(i)')
  PROVE  [Flight!Next]_(Flight!vars)
<1>1. PICK h : h = [p \in Pages |-> HolderOf(p)]
  OBVIOUS
<1>2. PICK k : k = [p \in Pages |-> HolderOf(p)']
  OBVIOUS
<1>3. PICK E : E = {j \in Jobs : Settled(j)}
  OBVIOUS
<1>4. PICK F : F = {j \in Jobs : Settled(j)'}
  OBVIOUS
<1>5. Holds /\ Holds'
  BY HolderOne, HolderOneNext
<1>6. \A j \in Jobs : Active(j) => job[j].page \in Pages /\ h[job[j].page] = j
  BY <1>1, <1>5, JobFields DEF Holds, ActiveOn, Told, Typed, DocT
<1>7. F \ E = {j \in Jobs : Active(j) /\ ~Active(j)'}
  BY <1>3, <1>4, States DEF Settled, Active
<1>8. F = E \cup (F \ E)
  BY <1>3, <1>4
<1>9. ASSUME NEW p \in Pages
      PROVE  k[p] = IF h[p] \in F \ E THEN NoJob ELSE h[p]
  <2>1. CASE ActiveOn(p) = {}
    <3>1. ActiveOn(p)' = {}
      BY <2>1 DEF ActiveOn
    <3>2. h[p] = NoJob /\ k[p] = NoJob
      BY <1>1, <1>2, <1>5, <2>1, <3>1 DEF Holds
    <3>. QED BY <3>2
  <2>2. ASSUME NEW j \in ActiveOn(p) PROVE k[p] = IF h[p] \in F \ E THEN NoJob ELSE h[p]
    <3>1. h[p] = j /\ j \in Jobs /\ Active(j)
      BY <1>1, <1>5 DEF Holds, ActiveOn
    <3>2. CASE Active(j)'
      <4>1. j \in ActiveOn(p)' /\ j \notin F \ E
        BY <1>7, <3>2 DEF ActiveOn
      <4>2. k[p] = j
        BY <1>2, <1>5, <4>1 DEF Holds
      <4>. QED BY <3>1, <4>1, <4>2
    <3>3. CASE ~Active(j)'
      <4>1. j \in F \ E
        BY <1>7, <3>1, <3>3
      <4>2. ActiveOn(p)' = {}
        <5>1. \A i \in ActiveOn(p) : i = j
          BY <1>1, <1>5, <3>1 DEF Holds
        <5>. QED BY <3>3, <5>1 DEF ActiveOn
      <4>3. k[p] = NoJob
        BY <1>2, <1>5, <4>2 DEF Holds
      <4>. QED BY <3>1, <4>1, <4>3
    <3>. QED BY <3>2, <3>3
  <2>. QED BY <2>1, <2>2
<1>10. k = [p \in Pages |-> IF h[p] \in F \ E THEN NoJob ELSE h[p]]
  BY <1>2, <1>9
<1>11. F \ E \subseteq {h[p] : p \in Pages} \ {NoJob}
  BY <1>6, <1>7, JobsAssumption
<1>12. CASE F = E
  <2>1. k = h
    BY <1>1, <1>10, <1>12
  <2>. QED BY <1>1, <1>2, <1>3, <1>4, <1>12, <2>1 DEF Flight!vars, Settled
<1>13. CASE F # E
  <2>1. F \ E # {}
    BY <1>8, <1>13
  <2>2. Flight!End
    BY <1>1, <1>2, <1>3, <1>4, <1>8, <1>10, <1>11, <2>1 DEF Flight!End, Flight!Live, Settled
  <2>. QED BY <2>2 DEF Flight!Next
<1>. QED BY <1>12, <1>13

LEMMA FlightTakes ==
  ASSUME Told, Told', NEW j \in Jobs, NEW p \in Pages, NEW s \in ActiveStates, NEW old,
         Reserved(p, j, s, old)
  PROVE  Flight!Next
<1>1. PICK h : h = [q \in Pages |-> HolderOf(q)]
  OBVIOUS
<1>2. PICK k : k = [q \in Pages |-> HolderOf(q)']
  OBVIOUS
<1>3. PICK E : E = {i \in Jobs : Settled(i)}
  OBVIOUS
<1>4. PICK F : F = {i \in Jobs : Settled(i)'}
  OBVIOUS
<1>5. Holds /\ Holds'
  BY HolderOne, HolderOneNext
<1>6. \A q \in Pages : h[q] = NoJob \/ (h[q] \in ActiveOn(q) /\ \A i \in ActiveOn(q) : i = h[q])
  BY <1>1, <1>5 DEF Holds
<1>7. ASSUME NEW q \in Pages PROVE h[q] # j
  <2>1. j \notin ActiveOn(q)
    BY States DEF Reserved, ActiveOn, Active
  <2>. QED BY <1>6, <2>1, JobsAssumption
<1>8. j \notin E
  BY <1>3, States DEF Reserved, Settled
<1>9. ASSUME NEW q \in Pages PROVE k[q] = IF q = p THEN j ELSE h[q]
  <2>1. CASE q = p
    <3>1. j \in ActiveOn(q)'
      BY <2>1 DEF Reserved, ActiveOn, Active
    <3>. QED BY <1>2, <1>5, <2>1, <3>1 DEF Holds
  <2>2. CASE q # p
    <3>1. ActiveOn(q)' = ActiveOn(q)
      BY <2>2, States DEF Reserved, ActiveOn, Active
    <3>. QED BY <1>1, <1>2, <1>5, <2>2, <3>1 DEF Holds
  <2>. QED BY <2>1, <2>2
<1>10. k = [h EXCEPT ![p] = j]
  BY <1>1, <1>2, <1>9
<1>11. ASSUME NEW i \in Jobs PROVE i \in F <=> (i \in E \/ i = h[p])
  <2>1. CASE i = j
    BY <1>4, <1>7, <1>8, <2>1, States DEF Reserved, Settled
  <2>2. CASE i # j
    <3>1. CASE i \in ActiveOn(p)
      <4>1. i = old /\ i = h[p]
        <5>1. i = h[p] /\ old \in ActiveOn(p)
          BY <1>1, <1>5, <3>1 DEF Holds, Reserved
        <5>. QED BY <1>6, <3>1, <5>1, JobsAssumption DEF ActiveOn
      <4>. QED BY <1>4, <2>2, <3>1, <4>1, States DEF Reserved, Settled
    <3>2. CASE i \notin ActiveOn(p)
      <4>1. i # h[p]
        BY <1>6, <3>2, JobsAssumption
      <4>. QED BY <1>3, <1>4, <2>2, <3>2, <4>1 DEF Reserved, Settled
    <3>. QED BY <3>1, <3>2
  <2>. QED BY <2>1, <2>2
<1>12. F = E \cup ({h[p]} \ {NoJob})
  <2>1. h[p] = NoJob \/ h[p] \in Jobs
    BY <1>6 DEF ActiveOn
  <2>. QED BY <1>3, <1>4, <1>11, <2>1, JobsAssumption
<1>13. j \notin E \cup ({h[q] : q \in Pages} \ {NoJob})
  BY <1>7, <1>8
<1>14. Flight!Take(p, j)
  BY <1>1, <1>2, <1>3, <1>4, <1>10, <1>12, <1>13 DEF Flight!Take, Flight!Live, Settled
<1>. QED BY <1>14 DEF Flight!Next

LEMMA FlightNext ==
  ASSUME Told, Told', [Next]_vars
  PROVE  [Flight!Next]_(Flight!vars)
<1>. DEFINE Ends == \A i \in Jobs :
                /\ job'[i].page = job[i].page
                /\ Active(i)' => Active(i)
                /\ Settled(i)' <=> Settled(i) \/ (Active(i) /\ ~Active(i)')
<1>1. DocStep
  BY NextFine DEF Told, Fine
<1>2. CASE Still
  BY <1>2, FlightEnds DEF Still, SameJobs, Settled, Active
<1>3. ASSUME NEW j \in Jobs, NEW s \in ActiveStates, Marks(j, s)
      PROVE  Ends
  BY <1>3, States DEF Marks, Becomes, Settled, Active
<1>4. ASSUME NEW j \in Jobs, NEW s \in SettledStates, NEW r, Settles(j, s, r)
      PROVE  Ends
  BY <1>4, States, JobFields DEF Settles, Becomes, Settled, Active, JobStates,
     Told, Typed, DocT
<1>5. ASSUME NEW c \in Nightlies, GivesUp(caller[c].held)
      PROVE  Ends
  BY <1>5, States, JobFields DEF GivesUp, Settled, Active, JobStates, Told, Typed, DocT
<1>6. ASSUME Recover PROVE Ends
  BY <1>6, FailedRecord, States DEF Recover, Settled, Active, Told, Typed, DocT
<1>7. ASSUME Archive PROVE Ends
  BY <1>7, FailedRecord, States DEF Archive, Settled, Active, Told, Typed, DocT
<1>8. ASSUME NEW j \in Jobs, Adds(j) PROVE Ends
  BY <1>8 DEF Adds, SameJobs, Settled, Active
<1>. QED BY <1>1, <1>2, <1>3, <1>4, <1>5, <1>6, <1>7, <1>8, FlightEnds, FlightTakes DEF DocStep

(* Under every race of callers, workflows and pollers a page has at most one
   live run, and a run that has settled never takes a page again. *)
THEOREM JobsImplementSingleFlight == Spec => ImplementsSingleFlight
<1>1. Init => Told /\ Flight!Init
  <2>1. Init => \A p \in Pages : ActiveOn(p) = {}
    BY States DEF Init, ActiveOn, Active
  <2>2. Init => {j \in Jobs : job[j].st \in SettledStates} = {}
    BY States DEF Init
  <2>. QED BY <2>1, <2>2, InitTold DEF Flight!Init, HolderOf
<1>2. Told /\ [Next]_vars => Told'
  BY ToldNext
<1>3. Told /\ Told' /\ [Next]_vars => [Flight!Next]_(Flight!vars)
  BY FlightNext
<1>. QED BY <1>1, <1>2, <1>3, PTL DEF Spec, ImplementsSingleFlight, Flight!Spec
=============================================================================
