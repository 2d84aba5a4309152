----------------------------- MODULE MCServices -----------------------------
(* The parts that share no state with one another, checked in one run: what
   one makes reaches the next as an input.  Each behaviour moves the part its
   focus names, and the others stay where they start. *)
EXTENDS IssueLifecycle, CaseDecisions, FieldWindows, FollowUps, Incidents,
        ProjectNames, ProjectArchive, OraAudits, AgentVerification, ClientStore,
        Watchlist, EvidenceCycles, WebflowActivity

VARIABLE focus

configuredNames == [p \in Configured |-> CHOOSE n \in Names : TRUE]

(* Two of a kind are alike in every part - two pages, two requests, two syncs -
   and parts that never meet share their values, so one exchange serves all. *)
Symmetric == Permutations(Pages)

findings == <<issueVars, decisionVars, fieldVars>>
projects == <<nameVars, archiveVars, clientVars, listVars>>
audits == <<oraVars, verificationVars>>
nightly == <<followUpVars, incidentVars, evidenceVars, activityVars>>

vars == <<focus, findings, projects, audits, nightly>>

(* The parts with one initial state start there; where there are several, an
   idle part takes one of them. *)
Init ==
    /\ focus \in {"issue", "decisions", "field", "follow-ups", "incidents", "names",
                  "archive", "ora", "verification", "client", "watchlist", "evidence", "activity"}
    /\ IF focus = "issue" THEN InitIssue
       ELSE /\ issue = [state |-> "new", steps |-> TRUE, pageIds |-> Pages,
                        excluded |-> {}, checkpoints |-> [i \in {} |-> {}]]
            /\ reread = {}
    /\ IF focus = "decisions" THEN InitDecisions
       ELSE source = "lighthouse" /\ recs = [p \in {} |-> {}] /\ caseDecisions = <<>>
    /\ IF focus = "field" THEN InitField
       ELSE /\ evidence = [end |-> 1, good |-> [s \in Strategies |-> TRUE]]
            /\ held = NoEvidence
            /\ fieldLifecycle = [s \in Strategies |-> NoLifecycle]
            /\ goodSince = [s \in Strategies |-> {}]
    /\ InitFollowUps /\ (focus # "follow-ups" => earlierNight)
    /\ InitIncidents /\ \A p \in Watched : nights[p] # <<>>
    /\ InitNames
    /\ InitArchive
    /\ InitOra /\ (focus # "ora" => consented)
    /\ InitVerification /\ (focus # "verification" => targets = Checks)
    /\ InitWatchlist /\ InitEvidence
    /\ InitActivity /\ (focus # "activity" => connection.connected)
    /\ InitClient /\ (focus # "client" => projectId = CHOOSE p \in Accessible : TRUE)

Next ==
    /\ UNCHANGED focus
    /\ \/ /\ focus = "issue" /\ NextIssue
          /\ UNCHANGED <<decisionVars, fieldVars, projects, audits, nightly>>
       \/ /\ focus = "decisions" /\ NextDecisions
          /\ UNCHANGED <<issueVars, fieldVars, projects, audits, nightly>>
       \/ /\ focus = "field" /\ NextField
          /\ UNCHANGED <<issueVars, decisionVars, projects, audits, nightly>>
       \/ /\ focus = "follow-ups" /\ NextFollowUps
          /\ UNCHANGED <<findings, projects, audits, incidentVars, evidenceVars, activityVars>>
       \/ /\ focus = "incidents" /\ NextIncidents
          /\ UNCHANGED <<findings, projects, audits, followUpVars, evidenceVars, activityVars>>
       \/ /\ focus = "names" /\ NextNames
          /\ UNCHANGED <<findings, archiveVars, clientVars, listVars, audits, nightly>>
       \/ /\ focus = "archive" /\ NextArchive
          /\ UNCHANGED <<findings, nameVars, clientVars, listVars, audits, nightly>>
       \/ /\ focus = "ora" /\ NextOra
          /\ UNCHANGED <<findings, projects, verificationVars, nightly>>
       \/ /\ focus = "verification" /\ NextVerification
          /\ UNCHANGED <<findings, projects, oraVars, nightly>>
       \/ /\ focus = "client" /\ NextClient
          /\ UNCHANGED <<findings, nameVars, archiveVars, listVars, audits, nightly>>
       \/ /\ focus = "watchlist" /\ NextWatchlist
          /\ UNCHANGED <<findings, nameVars, archiveVars, clientVars, audits, nightly>>
       \/ /\ focus = "evidence" /\ NextEvidence
          /\ UNCHANGED <<findings, projects, audits, followUpVars, incidentVars, activityVars>>
       \/ /\ focus = "activity" /\ NextActivity
          /\ UNCHANGED <<findings, projects, audits, followUpVars, incidentVars, evidenceVars>>

Spec == Init /\ [][Next]_vars
=============================================================================
