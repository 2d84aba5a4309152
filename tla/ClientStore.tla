----------------------------- MODULE ClientStore -----------------------------
(* One open tab of the app: the store provider that holds the state on screen,
   applies each of the user's changes before the server has them, sends the
   changes one behind the other, switches between projects, starts runs and
   polls while a collection is active (src/components/store.tsx,
   src/lib/collectionPolling.ts).  What a project holds is the set of the
   user's changes the server has saved and whether a collection is active in
   it.  Every request has three moments: it is sent, the server handles it and
   reads the state it answers with, and the answer arrives. *)
EXTENDS Naturals, Sequences, SequencesExt

CONSTANTS Accessible,  \* the projects the user may open
          Changes,   \* the changes the user makes, each of them once
          MaxSwitches, MaxRuns, MaxTrouble \* bounds: switches, runs, requests that get no answer

VARIABLES served,    \* by project: the state the server holds
          shown,     \* dataRef: the state on screen and the project it is of
          projectId, \* the project selected
          rendered,  \* what the effects last ran for: project and hasActiveCollection
          queue,     \* mutationQueueRef: the changes not answered yet, oldest first
          mutationSequence,
          switching, \* the request of the switch in progress, if any
          running,   \* the request for a run in progress, if any
          poller,    \* the request of the polling loop, while it lives
          budget,    \* what is left of the bounds
          astray,    \* a run or a poll has put another project on screen
          overtaken, \* a read from before a change has replaced a later state
          unanswered,\* a change was saved and its answer lost
          slipped    \* a collection went active on screen between a poll's end and the next render

clientVars == <<served, shown, projectId, rendered, queue, mutationSequence, switching,
                running, poller, budget, astray, overtaken, unanswered, slipped>>

(* A state of the app: the project it is of, the changes in it, and whether
   hasActiveCollections finds a job or page active. *)
View(p, changes, active) == [of |-> p, has |-> changes, active |-> active]

StateOf(p) == View(p, served[p].saved, served[p].active)

(* A request for the project p, and what has come of it: nothing yet, a state
   read by the server, or a failure. *)
Request(p) == [project |-> p, answer |-> "none", state |-> View(p, {}, FALSE)]

Read(request, state) == [request EXCEPT !.answer = "state", !.state = state]

Fail(request) == [request EXCEPT !.answer = "failed"]

InitClient ==
    /\ served \in [Accessible -> [saved : {{}}, active : {FALSE}]]
    /\ projectId \in Accessible
    /\ shown = StateOf(projectId)
    /\ rendered = [of |-> projectId, active |-> FALSE]
    /\ queue = <<>>
    /\ mutationSequence = 0
    /\ switching = {}
    /\ running = {}
    /\ poller = {}
    /\ budget = [switches |-> MaxSwitches, runs |-> MaxRuns, trouble |-> MaxTrouble]
    /\ astray = FALSE
    /\ overtaken = FALSE
    /\ unanswered = FALSE
    /\ slipped = FALSE

(* The state that the project p would hold with every change on its way. *)
Underway(p) == {queue[i].change : i \in {j \in DOMAIN queue : queue[j].request.project = p}}

(* apply(next) by a read that no sequence number guards.  The read may be of
   another project by now, older than the changes made since, or bring an
   active collection to a screen whose polling has just ended. *)
ApplyRead(next) ==
    /\ shown' = next
    /\ astray' = (astray \/ next.of # projectId')
    /\ overtaken' = (overtaken \/ ~(served[next.of].saved \cup Underway(next.of)) \subseteq next.has)

(* A collection is back on screen, the poll has seen none, and no effect has
   run in between. *)
Slips(next) == slipped' = (slipped \/ (next.active /\ rendered.active /\ poller = {}))

(* The user makes a change: it is applied at once and queued behind those
   before it. While a project loads there is nothing on screen to change. *)
Change(c) ==
    /\ switching = {} /\ rendered.of = projectId
    /\ c \notin UNION {Underway(p) \cup served[p].saved : p \in Accessible}
    /\ c \notin shown.has
    /\ mutationSequence' = mutationSequence + 1
    /\ queue' = Append(queue, [change |-> c, prev |-> shown, sequence |-> mutationSequence + 1,
                               request |-> Request(projectId)])
    /\ shown' = [shown EXCEPT !.has = @ \cup {c}]
    /\ UNCHANGED <<served, projectId, rendered, switching, running, poller, budget,
                   astray, overtaken, unanswered, slipped>>

(* Mutant: every change is sent at once. *)
MutSentAtOnce == DOMAIN queue

(* The request the queue has sent: the oldest, and only when nothing is ahead. *)
Sent == {1} \cap DOMAIN queue

(* The server handles a change, or refuses it, or saves it and its answer is lost. *)
HandleChange ==
    \E i \in Sent :
       LET m == queue[i]
           p == m.request.project
           saved == [served EXCEPT ![p].saved = @ \cup {m.change}]
       IN /\ m.request.answer = "none"
          /\ \/ /\ served' = saved
                /\ queue' = [queue EXCEPT ![i].request =
                                Read(@, View(p, saved[p].saved, saved[p].active))]
                /\ UNCHANGED <<budget, unanswered>>
             \/ /\ budget.trouble > 0
                /\ budget' = [budget EXCEPT !.trouble = @ - 1]
                /\ queue' = [queue EXCEPT ![i].request = Fail(@)]
                /\ \/ UNCHANGED <<served, unanswered>>
                   \/ served' = saved /\ unanswered' = TRUE
          /\ UNCHANGED <<shown, projectId, rendered, mutationSequence, switching, running,
                         poller, astray, overtaken, slipped>>

(* The answer to a change arrives.  Only the newest one is put on screen, or,
   when it failed, takes the screen back to what it was before. *)
AnswerChange ==
    \E i \in Sent :
       LET m == queue[i]
           next == IF m.request.answer = "failed" THEN m.prev ELSE m.request.state
       IN /\ m.request.answer # "none"
          /\ queue' = RemoveAt(queue, i)
          /\ shown' = IF m.sequence = mutationSequence THEN next ELSE shown
          /\ Slips(shown')
          /\ UNCHANGED <<served, projectId, rendered, mutationSequence, switching, running,
                         poller, budget, astray, overtaken, unanswered>>

(* Mutant: the switch leaves the sequence alone. *)
MutSwitchKeepsSequence(p) ==
    /\ switching = {} /\ rendered.of = projectId
    /\ p # projectId
    /\ budget.switches > 0
    /\ budget' = [budget EXCEPT !.switches = @ - 1]
    /\ switching' = {Request(p)}
    /\ UNCHANGED <<served, shown, projectId, rendered, queue, mutationSequence, running,
                   poller, astray, overtaken, unanswered, slipped>>

(* switchProject: the sequence moves on, so that no answer to a change made
   before is put over the next project. *)
SwitchProject(p) ==
    /\ switching = {} /\ rendered.of = projectId
    /\ p # projectId
    /\ budget.switches > 0
    /\ budget' = [budget EXCEPT !.switches = @ - 1]
    /\ mutationSequence' = mutationSequence + 1
    /\ switching' = {Request(p)}
    /\ UNCHANGED <<served, shown, projectId, rendered, queue, running, poller,
                   astray, overtaken, unanswered, slipped>>

HandleSwitch ==
    /\ \E r \in switching :
          /\ r.answer = "none"
          /\ \/ switching' = {Read(r, StateOf(r.project))} /\ UNCHANGED budget
             \/ /\ budget.trouble > 0
                /\ switching' = {Fail(r)}
                /\ budget' = [budget EXCEPT !.trouble = @ - 1]
    /\ UNCHANGED <<served, shown, projectId, rendered, queue, mutationSequence, running,
                   poller, astray, overtaken, unanswered, slipped>>

AnswerSwitch ==
    /\ \E r \in switching :
          \/ /\ r.answer = "failed"
             /\ UNCHANGED <<projectId, shown, astray, overtaken>>
          \/ /\ r.answer = "state"
             /\ projectId' = r.project
             /\ ApplyRead(r.state)
    /\ switching' = {}
    /\ UNCHANGED <<served, rendered, queue, mutationSequence, running, poller, budget,
                   unanswered, slipped>>

(* runPage and captureBaseline: nothing on screen changes until the answer,
   and nothing is compared when it arrives. *)
RunPage ==
    /\ running = {} /\ switching = {} /\ rendered.of = projectId
    /\ budget.runs > 0
    /\ budget' = [budget EXCEPT !.runs = @ - 1]
    /\ running' = {Request(projectId)}
    /\ UNCHANGED <<served, shown, projectId, rendered, queue, mutationSequence, switching,
                   poller, astray, overtaken, unanswered, slipped>>

HandleRun ==
    /\ \E r \in running :
          /\ r.answer = "none"
          /\ served' = [served EXCEPT ![r.project].active = TRUE]
          /\ running' = {Read(r, View(r.project, served[r.project].saved, TRUE))}
    /\ UNCHANGED <<shown, projectId, rendered, queue, mutationSequence, switching,
                   poller, budget, astray, overtaken, unanswered, slipped>>

AnswerRun ==
    /\ UNCHANGED projectId
    /\ \E r \in running :
          /\ r.answer = "state"
          /\ ApplyRead(r.state)
          /\ Slips(r.state)
    /\ running' = {}
    /\ UNCHANGED <<served, rendered, queue, mutationSequence, switching,
                   poller, budget, unanswered>>

(* The collections of a project end at the server. *)
CollectionEnds(p) ==
    /\ served[p].active
    /\ served' = [served EXCEPT ![p].active = FALSE]
    /\ UNCHANGED <<shown, projectId, rendered, queue, mutationSequence, switching, running,
                   poller, budget, astray, overtaken, unanswered, slipped>>

(* React renders and runs the effects whose dependencies have changed: the old
   loop is stopped, its answer with it, and one is started for the project on
   screen when a collection is active. *)
Render ==
    LET now == [of |-> projectId, active |-> shown.active]
    IN /\ rendered # now
       /\ rendered' = now
       /\ poller' = IF now.active THEN {Request(projectId)} ELSE {}
       /\ UNCHANGED <<served, shown, projectId, queue, mutationSequence, switching, running,
                      budget, astray, overtaken, unanswered, slipped>>

HandlePoll ==
    /\ \E r \in poller :
          /\ r.answer = "none"
          /\ \/ poller' = {Read(r, StateOf(r.project))} /\ UNCHANGED budget
             \/ /\ budget.trouble > 0
                /\ poller' = {Fail(r)}
                /\ budget' = [budget EXCEPT !.trouble = @ - 1]
    /\ UNCHANGED <<served, shown, projectId, rendered, queue, mutationSequence, switching,
                   running, astray, overtaken, unanswered, slipped>>

(* Mutant: a poll that failed is the last. *)
MutPollEndsOnFailure(next, r) ==
    IF next.active /\ r.answer = "state" THEN {Request(r.project)} ELSE {}

(* What the loop does after a poll: another in three seconds while what is on
   screen is active, whatever became of this one. *)
PollAgain(next, r) == IF next.active THEN {Request(r.project)} ELSE {}

AnswerPoll ==
    /\ UNCHANGED projectId
    /\ \E r \in poller :
          /\ r.answer # "none"
          /\ IF r.answer = "failed" THEN UNCHANGED <<shown, astray, overtaken>>
             ELSE ApplyRead(r.state)
          /\ poller' = PollAgain(shown', r)
    /\ UNCHANGED <<served, rendered, queue, mutationSequence, switching, running, budget,
                   unanswered, slipped>>

NextClient ==
    \/ \E c \in Changes : Change(c)
    \/ HandleChange
    \/ AnswerChange
    \/ \E p \in Accessible : SwitchProject(p) \/ CollectionEnds(p)
    \/ HandleSwitch
    \/ AnswerSwitch
    \/ RunPage
    \/ HandleRun
    \/ AnswerRun
    \/ Render
    \/ HandlePoll
    \/ AnswerPoll

SpecClient == InitClient /\ [][NextClient]_clientVars

-----------------------------------------------------------------------------

Settled == queue = <<>> /\ switching = {}

(* The answer to a change, or the way back from one that failed, never puts
   another project on screen: where the screen is of another project than the
   one selected, the answer to a run did it, or a poll that arrived before the
   switch was rendered (store.tsx:392 "Prevent an older mutation response from
   reconciling over the next project"). *)
ChangeStaysHome == shown.of = projectId \/ astray

(* What the server saved of the user's changes is on screen once every change
   is answered, however the answers crossed with later changes, unless an
   answer was lost or a read from before the change overtook it. *)
SavedIsShown ==
    Settled /\ ~astray /\ ~overtaken /\ ~unanswered =>
        served[projectId].saved \subseteq shown.has

(* While the screen shows an active collection, a loop polls for its end, unless
   the collection came back on screen between the end of a loop and the render
   that would have noticed. *)
ActiveIsPolled ==
    shown.active /\ rendered = [of |-> projectId, active |-> TRUE] /\ ~slipped
       => poller # {}

(* A change that failed is taken back: once every change is answered the screen
   shows none that the server has not saved (store.tsx:523-525 "On any non-2xx /
   network failure, revert to the pre-action snapshot"). *)
FailureIsUndone == Settled => shown.has \subseteq served[shown.of].saved
=============================================================================
