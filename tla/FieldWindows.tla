---------------------------- MODULE FieldWindows ----------------------------
(* The lifecycle of a recommendation that only real visitors' data supports
   (src/lib/fieldOnlyRecommendations.ts): per device, a status that follows the
   28-day collection windows of the Chrome UX Report.  Two distinct good
   windows settle a device; every caller reads the evidence before it enters
   the mutation that judges it, so an older window can be judged after a newer
   one. *)
EXTENDS FiniteSets, Naturals

CONSTANTS Strategies,   \* the devices, mobile and desktop
          MaxWindow     \* bound on the collection windows published

ASSUME FieldAssumption == MaxWindow \in Nat \ {0}

VARIABLES evidence,     \* the stored window: its end and, per device, good?
          held,         \* the evidence one caller read, or NoEvidence
          fieldLifecycle, \* per device, the retained lifecycle or NoLifecycle
          goodSince     \* history: good windows judged since one was not good

fieldVars == <<evidence, held, fieldLifecycle, goodSince>>

NoEvidence == [end |-> 0]
NoLifecycle == [status |-> "none", last |-> 0, good |-> 0]

Evidence == [end : 1..MaxWindow, good : [Strategies -> BOOLEAN]]

initialLifecycle(end) == [status |-> "active", last |-> end, good |-> 0]

MutGoodWindowAgain(life, end) ==     \* a window judged twice counts twice
    [status |-> IF life.good + 1 >= 2 THEN "resolved" ELSE "verifying",
     last |-> end, good |-> life.good + 1]

(* What one judgement makes of a device's lifecycle.  lab says what the latest
   trusted night offers: "none", a reading that "explains" the field value
   (its own rating is not good, or an audit matches), or a "silent" one. *)
GoodWindow(life, end) ==
    LET counts == \/ life.last # end
                  \/ life.status \notin {"verifying", "resolved"}
        count == life.good + 1
    IN IF counts
       THEN [status |-> IF count >= 2 THEN "resolved" ELSE "verifying",
             last |-> end, good |-> count]
       ELSE life

PoorWindow(life, end, lab) ==
    LET status == IF lab = "explains" THEN "corroborated"
                  ELSE IF life.status \in {"resolved", "corroborated",
                                           "regressed"}
                  THEN "regressed" ELSE "active"
    IN IF life.last # end \/ life.status # status
       THEN [status |-> status, last |-> end, good |-> 0]
       ELSE life

evaluateExistingLifecycle(life, end, good, lab) ==
    IF good THEN GoodWindow(life, end)
    ELSE IF lab = "none" THEN life
    ELSE PoorWindow(life, end, lab)

(* A device without a lifecycle gets one when visitors see a problem the lab
   neither shows nor explains (the candidate of the same reconciliation). *)
Judged(life, end, good, lab) ==
    IF life # NoLifecycle THEN evaluateExistingLifecycle(life, end, good, lab)
    ELSE IF ~good /\ lab = "silent" THEN initialLifecycle(end)
    ELSE NoLifecycle

(* The status of the whole recommendation: the first of these a device has. *)
WorstFirst == <<"regressed", "active", "verifying", "corroborated", "resolved">>

fieldRecommendationLifecycleStatus ==
    LET has(i) == \E s \in Strategies : fieldLifecycle[s].status = WorstFirst[i]
        first == {i \in 1..5 : has(i) /\ \A j \in 1..(i - 1) : ~has(j)}
    IN IF first = {} THEN "none" ELSE WorstFirst[CHOOSE i \in first : TRUE]

-----------------------------------------------------------------------------
InitField ==
    /\ evidence \in [end : {1}, good : [Strategies -> BOOLEAN]]
    /\ held = NoEvidence
    /\ fieldLifecycle = [s \in Strategies |-> NoLifecycle]
    /\ goodSince = [s \in Strategies |-> {}]

(* The provider publishes the next window and the refresh stores it. *)
RefreshCrux ==
    /\ evidence.end < MaxWindow
    /\ \E good \in [Strategies -> BOOLEAN] :
          evidence' = [end |-> evidence.end + 1, good |-> good]
    /\ UNCHANGED <<held, fieldLifecycle, goodSince>>

(* One caller reads the evidence before its mutation... *)
ReadEvidence ==
    /\ held = NoEvidence
    /\ held' = evidence
    /\ UNCHANGED <<evidence, fieldLifecycle, goodSince>>

(* ...and judges what it read, as does a caller nothing came in between of. *)
Reconcile(read) ==
    /\ \E lab \in [Strategies -> {"none", "explains", "silent"}] :
          /\ fieldLifecycle' = [s \in Strategies |->
                Judged(fieldLifecycle[s], read.end, read.good[s], lab[s])]
          /\ goodSince' = [s \in Strategies |->
                IF fieldLifecycle[s] = NoLifecycle THEN {}
                ELSE IF read.good[s] THEN goodSince[s] \cup {read.end}
                ELSE IF lab[s] = "none" THEN goodSince[s] ELSE {}]
    /\ UNCHANGED evidence

ReconcileHeld ==
    /\ held # NoEvidence
    /\ Reconcile(held)
    /\ held' = NoEvidence

ReconcileCurrent == Reconcile(evidence) /\ UNCHANGED held

NextField ==
    \/ RefreshCrux
    \/ ReadEvidence
    \/ ReconcileHeld
    \/ ReconcileCurrent

SpecField == InitField /\ [][NextField]_fieldVars

-----------------------------------------------------------------------------
(* A field recommendation reads as resolved only when each of its devices had
   two distinct good windows since it last was judged not good, whichever
   order its callers judge the windows in and however often they judge one. *)
SettledHeldTwice ==
    fieldRecommendationLifecycleStatus = "resolved"
        => \A s \in Strategies :
              fieldLifecycle[s] # NoLifecycle => Cardinality(goodSince[s]) >= 2
=============================================================================
