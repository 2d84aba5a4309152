---------------------------- MODULE ProjectNames ----------------------------
(* The names in the catalog of projects (src/lib/projects.ts): a registry
   document over the projects the deployment configures.  Whoever reads the
   catalog writes the configured projects it misses; creating and renaming
   check the name against the catalog they read and again in the registry's
   mutation. *)
EXTENDS Naturals

CONSTANTS Projects,       \* the projects there can be
          Configured,     \* those PAGE_WATCH_PROJECTS names
          Names,
          configuredName, \* the names it gives them
          Editors         \* concurrent requests of administrators

ASSUME NamesAssumption ==
    /\ Configured \subseteq Projects
    /\ configuredName \in [Configured -> Names]
    /\ \A p, q \in Configured :
          configuredName[p] = configuredName[q] => p = q

VARIABLES managed,  \* the registry: project -> its name
          edits,    \* the requests
          kept      \* history: projects named by a rename that keeps the name
                    \* it read, when they had another by then

nameVars == <<managed, edits, kept>>

NoEdit == [kind |-> "none"]

Edit == {NoEdit} \cup
    [kind : {"create", "rename"}, project : Projects, name : Names,
     seen : Names]

(* managedProjects. *)
bootstrapped ==
    [p \in DOMAIN managed \cup Configured |->
        IF p \in DOMAIN managed THEN managed[p] ELSE configuredName[p]]

allNames == {bootstrapped[p] : p \in DOMAIN bootstrapped}

InitNames ==
    /\ managed = [p \in {} |-> {}]
    /\ edits = [e \in Editors |-> NoEdit]
    /\ kept = {}

BeginEdit(e, edit) ==
    /\ edits[e] = NoEdit
    /\ managed' = bootstrapped
    /\ edits' = [edits EXCEPT ![e] = edit]
    /\ UNCHANGED kept

createManagedProject(e, p, name) ==
    /\ p \notin DOMAIN bootstrapped
    /\ \A other \in Editors : edits[other] # NoEdit => edits[other].project # p
    /\ name \notin allNames
    /\ BeginEdit(e, [kind |-> "create", project |-> p, name |-> name,
                     seen |-> name])

renameProject(e, p, name) ==
    /\ p \in DOMAIN bootstrapped
    /\ BeginEdit(e, [kind |-> "rename", project |-> p, name |-> name,
                     seen |-> bootstrapped[p]])

MutTakenAtTheReadOnly(edit) == FALSE     \* the mutation does not look again

(* A rename takes the name that was read with the catalog for the project's
   own, and compares with the others. *)
taken(edit) ==
    edit.name \in (IF edit.kind = "create" THEN allNames
                   ELSE allNames \ {edit.seen})

RecordName(e) ==
    LET edit == edits[e]
        p == edit.project
    IN /\ edit # NoEdit
       /\ IF taken(edit) THEN UNCHANGED <<managed, kept>>
          ELSE /\ managed' = [q \in DOMAIN managed \cup {p} |->
                                 IF q = p THEN edit.name ELSE managed[q]]
               /\ kept' = IF edit.kind = "create" \/ edit.name # edit.seen
                          THEN kept \ {p}
                          ELSE IF managed[p] = edit.name THEN kept
                          ELSE kept \cup {p}
       /\ edits' = [edits EXCEPT ![e] = NoEdit]

(* A request dies before it writes. *)
AbortEdit(e) ==
    /\ edits[e] # NoEdit
    /\ edits' = [edits EXCEPT ![e] = NoEdit]
    /\ UNCHANGED <<managed, kept>>

NextNames ==
    \E e \in Editors :
        \/ \E p \in Projects, name \in Names :
              \/ createManagedProject(e, p, name)
              \/ renameProject(e, p, name)
        \/ RecordName(e)
        \/ AbortEdit(e)

SpecNames == InitNames /\ [][NextNames]_nameVars

-----------------------------------------------------------------------------
(* "A project with this name already exists": two projects share a name only
   when one of them was given it by a rename that keeps the name it read - an
   edit of the customer - after another request had renamed it. *)
NamesCollideByKeeping ==
    \A p, q \in DOMAIN managed :
        p # q /\ managed[p] = managed[q] => p \in kept \/ q \in kept
=============================================================================
