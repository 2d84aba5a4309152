------------------------------ MODULE MCStores ------------------------------
(* Two parts that share no state, checked in one run: the calls of the FDE
   store, whose processes may die anywhere, and the migration from the
   Webflow-side store.  Each behaviour moves the part its focus names. *)
EXTENDS MCVersionedStore, Migration

VARIABLE focus

storeVars == <<focus, vars, migrationVars>>

(* The part in focus starts in any of its initial states, the idle one in one
   of them. *)
InitStores ==
    /\ focus \in {"calls", "migration"}
    /\ Init
    /\ InitMigration
    /\ focus = "migration" =>
           /\ row = EmptyRow
           /\ op = [c \in Calls |-> CHOOSE m \in Mutations : m.kind = "edit"]
    /\ focus = "calls" => sourceRow.exists

NextStores ==
    /\ UNCHANGED focus
    /\ \/ focus = "calls" /\ Next /\ UNCHANGED migrationVars
       \/ focus = "migration" /\ NextMigration /\ UNCHANGED vars

(* The fairness of VersionedStore; nothing is assumed of a migration. *)
FairStores ==
    /\ InitStores /\ [][NextStores]_storeVars
    /\ \A c \in Calls : WF_vars(focus = "calls" /\ pc[c] # "new" /\ Step(c))
=============================================================================
