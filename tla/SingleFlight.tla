---------------------------- MODULE SingleFlight ----------------------------
(***************************************************************************)
(* What collection jobs promise, whoever creates, runs, polls or abandons  *)
(* them: a page is held by at most one live run at a time, a run holds a   *)
(* page at most once, and a run that has ended never holds it again.       *)
(***************************************************************************)
CONSTANTS Pages, Jobs, NoJob

VARIABLES holder,  \* the live run of each page, or NoJob
          ended    \* the runs that have held a page and do not any more

vars == <<holder, ended>>

Live == {holder[p] : p \in Pages} \ {NoJob}

Init == /\ holder = [p \in Pages |-> NoJob]
        /\ ended = {}

\* Run j takes the page; a run that was abandoned there ends in the same step.
Take(p, j) ==
    /\ j \notin ended \cup Live
    /\ holder' = [holder EXCEPT ![p] = j]
    /\ ended' = ended \cup ({holder[p]} \ {NoJob})

\* Some live runs end, whatever their outcome.
End ==
    LET gone == ended' \ ended
    IN  /\ gone # {} /\ gone \subseteq Live
        /\ ended' = ended \cup gone
        /\ holder' = [p \in Pages |-> IF holder[p] \in gone THEN NoJob ELSE holder[p]]

Next == \/ \E p \in Pages, j \in Jobs : Take(p, j)
        \/ End

Spec == Init /\ [][Next]_vars
=============================================================================
