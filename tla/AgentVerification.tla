------------------------- MODULE AgentVerification -------------------------
(* The verification of one agent-readiness task (collector-worker/oraVerify.ts
   and src/lib/agentIssueTasks.ts).  A call reads which provider checks the task
   expects, asks the provider to run them, and folds the answer into the task
   when it comes; meanwhile an audit may change which checks the task expects,
   people move the task, and other calls answer before or after it. *)
EXTENDS FiniteSets

CONSTANTS Checks,     \* the provider's checks
          Verifiers   \* concurrent verifications of the task

ASSUME VerificationAssumption == IsFiniteSet(Checks)

VARIABLES targets,      \* verificationCheckIds of the task
          taskStatus,   \* "todo", "in-progress", "done"
          verification, \* its status and the results it rests on
          verifiers     \* per verification under way, the checks it asked for

verificationVars == <<targets, taskStatus, verification, verifiers>>

Results == {"passed", "failed", "unavailable"}
Answers == UNION {[S -> Results] : S \in SUBSET Checks}
NoAnswer == [c \in {} |-> "passed"]

NotAsking == {}

InitVerification ==
    /\ targets \in SUBSET Checks
    /\ taskStatus = "todo"
    /\ verification = [status |-> "not-started", results |-> NoAnswer]
    /\ verifiers = [v \in Verifiers |-> NotAsking]

(* An audit keeps the evidence of the task current, the checks with it, and
   leaves the verification alone. *)
reconcileAgentIssueRecs ==
    /\ targets' \in (SUBSET Checks) \ {targets}
    /\ UNCHANGED <<taskStatus, verification, verifiers>>

MoveTask(to) ==
    /\ taskStatus # to
    /\ taskStatus' = to
    /\ UNCHANGED <<targets, verification, verifiers>>

(* The checks are read, then the task is marked. *)
verifyAgentIssueTask(v) ==
    /\ verifiers[v] = NotAsking
    /\ targets # {}
    /\ verifiers' = [verifiers EXCEPT ![v] = targets]
    /\ verification' = [verification EXCEPT !.status = "verifying"]
    /\ UNCHANGED <<targets, taskStatus>>

MutRelevantAll(answer) == answer     \* also answers nobody expects any more

(* Only answers for the checks the task expects now count, and only those that
   determine something. *)
relevant(answer) == [c \in DOMAIN answer \cap targets |-> answer[c]]

determined(answer) ==
    {c \in DOMAIN relevant(answer) : answer[c] # "unavailable"}
unresolved(answer) == {c \in determined(answer) : answer[c] = "failed"}

verdict(answer) ==
    CASE determined(answer) = {} -> "verifying"
      [] unresolved(answer) # {} -> "returned"
      [] OTHER -> IF Cardinality(determined(answer)) = Cardinality(targets)
                  THEN "resolved" ELSE "verifying"

(* applyAgentVerificationResults and reopenReturnedAgentTask: returned work is
   open work again. *)
applyAgentVerificationResults(v, answer) ==
    /\ verifiers[v] # NotAsking
    /\ DOMAIN answer \subseteq verifiers[v]
    /\ verification' = [status |-> verdict(answer),
                        results |-> relevant(answer)]
    /\ taskStatus' = IF verdict(answer) = "returned" /\ taskStatus = "done"
                     THEN "in-progress" ELSE taskStatus
    /\ verifiers' = [verifiers EXCEPT ![v] = NotAsking]
    /\ UNCHANGED targets

(* The provider refuses or the call fails: nothing is judged. *)
recordAgentVerificationFailure(v) ==
    /\ verifiers[v] # NotAsking
    /\ verification' = [verification EXCEPT !.status = "verifying"]
    /\ verifiers' = [verifiers EXCEPT ![v] = NotAsking]
    /\ UNCHANGED <<targets, taskStatus>>

AbandonVerification(v) ==
    /\ verifiers[v] # NotAsking
    /\ verifiers' = [verifiers EXCEPT ![v] = NotAsking]
    /\ UNCHANGED <<targets, taskStatus, verification>>

NextVerification ==
    \/ reconcileAgentIssueRecs
    \/ \E to \in {"todo", "in-progress", "done"} : MoveTask(to)
    \/ \E v \in Verifiers :
          \/ verifyAgentIssueTask(v)
          \/ \E answer \in Answers : applyAgentVerificationResults(v, answer)
          \/ recordAgentVerificationFailure(v)
          \/ AbandonVerification(v)

SpecVerification ==
    InitVerification /\ [][NextVerification]_verificationVars

-----------------------------------------------------------------------------
(* "Not enough to call it resolved": a verification turns resolved only by an
   answer that passes every check the task expects at that moment, whatever
   the call asked for, and a failed check never leaves the task done. *)
VerdictFollowsTheAnswers ==
    [][/\ (verification.status # "resolved"
              /\ verification'.status = "resolved")
             => \A c \in targets' : /\ c \in DOMAIN verification'.results
                                    /\ verification'.results[c] = "passed"
       /\ verification'.status = "returned" /\ verification # verification'
             => taskStatus' # "done"]_verificationVars
=============================================================================
