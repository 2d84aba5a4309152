--------------------------- MODULE ProjectArchive ---------------------------
(* Archiving and restoring projects (src/lib/projects.ts).  The registry says
   which projects are active, each project's own document whether it is paused
   for an archive and which flags to give back.  A request reads the catalog,
   then writes the project's document, then the registry; requests overlap,
   and one may die between its steps. *)
EXTENDS FiniteSets, Naturals

CONSTANTS ProjectIds,
          Movers      \* concurrent requests of administrators

VARIABLES archived,   \* per project, is it archived in the registry?
          documents,  \* per project, its archive mark and its page flags
          moves,      \* the requests
          muddled,    \* history: projects whose requests overlapped or died,
                      \* and none ran alone since
          before,     \* history: per archived document, its flag before
          again       \* history: projects archived while archived

archiveVars == <<archived, documents, moves, muddled, before, again>>

(* flag stands for the flags of all the pages; stored for
   projectArchivePageFlags. *)
Flags == {"watching", "paused"}
Document == [archived : BOOLEAN, flag : Flags, stored : Flags \cup {"none"}]

NoMove == [kind |-> "none", step |-> "idle"]

(* alone: no other request of the project since this one began. *)
Move == {NoMove} \cup
    [kind : {"archive", "restore"}, step : {"document", "registry"},
     project : ProjectIds, alone : BOOLEAN]

Moves(p) == {m \in Movers : moves[m] # NoMove /\ moves[m].project = p}

ActiveProjects == {p \in ProjectIds : ~archived[p]}

InitArchive ==
    /\ archived = [p \in ProjectIds |-> FALSE]
    /\ documents = [p \in ProjectIds |->
           [archived |-> FALSE, flag |-> "watching", stored |-> "none"]]
    /\ moves = [m \in Movers |-> NoMove]
    /\ muddled = {}
    /\ before = [p \in ProjectIds |-> "watching"]
    /\ again = {}

-----------------------------------------------------------------------------
(* The catalog is read and allows the request. *)
BeginMove(m, p, kind) ==
    /\ moves[m] = NoMove
    /\ moves' = [n \in Movers |->
           IF n = m THEN [kind |-> kind, step |-> "document", project |-> p,
                          alone |-> Moves(p) = {}]
           ELSE IF n \in Moves(p) THEN [moves[n] EXCEPT !.alone = FALSE]
           ELSE moves[n]]
    /\ muddled' = IF Moves(p) = {} THEN muddled ELSE muddled \cup {p}
    /\ UNCHANGED <<archived, documents, before, again>>

archiveProject(m, p) ==
    /\ p \in ActiveProjects
    /\ Cardinality(ActiveProjects) > 1
    /\ BeginMove(m, p, "archive")

restoreProject(m, p) ==
    /\ p \notin ActiveProjects
    /\ BeginMove(m, p, "restore")

MutPauseThenKeep(m) ==     \* the flags are kept after they were paused
    LET p == moves[m].project
    IN /\ moves[m].kind = "archive" /\ moves[m].step = "document"
       /\ documents' = [documents EXCEPT ![p] =
              [archived |-> TRUE, flag |-> "paused", stored |-> "paused"]]
       /\ IF documents[p].archived
          THEN again' = again \cup {p} /\ UNCHANGED before
          ELSE /\ again' = again \ {p}
               /\ before' = [before EXCEPT ![p] = documents[p].flag]
       /\ moves' = [moves EXCEPT ![m].step = "registry"]
       /\ UNCHANGED <<archived, muddled>>

pauseProjectForArchive(m) ==
    LET p == moves[m].project
    IN /\ moves[m].kind = "archive" /\ moves[m].step = "document"
       /\ documents' = [documents EXCEPT ![p] =
              [archived |-> TRUE, flag |-> "paused",
               stored |-> documents[p].flag]]
       /\ IF documents[p].archived
          THEN again' = again \cup {p} /\ UNCHANGED before
          ELSE /\ again' = again \ {p}
               /\ before' = [before EXCEPT ![p] = documents[p].flag]
       /\ moves' = [moves EXCEPT ![m].step = "registry"]
       /\ UNCHANGED <<archived, muddled>>

MutResumeKeepsTheMark(m) ==     \* projectArchivedAt is not deleted
    LET p == moves[m].project
    IN /\ moves[m].kind = "restore" /\ moves[m].step = "document"
       /\ documents' = [documents EXCEPT
              ![p].flag = IF documents[p].stored = "none" THEN documents[p].flag
                          ELSE documents[p].stored,
              ![p].stored = "none"]
       /\ moves' = [moves EXCEPT ![m].step = "registry"]
       /\ UNCHANGED <<archived, muddled, before, again>>

resumeProjectAfterArchive(m) ==
    LET p == moves[m].project
    IN /\ moves[m].kind = "restore" /\ moves[m].step = "document"
       /\ documents' = [documents EXCEPT ![p] =
              [archived |-> FALSE,
               flag |-> IF documents[p].stored = "none" THEN documents[p].flag
                        ELSE documents[p].stored,
               stored |-> "none"]]
       /\ moves' = [moves EXCEPT ![m].step = "registry"]
       /\ UNCHANGED <<archived, muddled, before, again>>

RecordMove(m) ==
    LET p == moves[m].project
        archive == moves[m].kind = "archive"
    IN /\ moves[m].step = "registry"
       /\ archived' = [archived EXCEPT ![p] = archive]
       /\ moves' = [moves EXCEPT ![m] = NoMove]
       /\ muddled' = IF moves[m].alone THEN muddled \ {p} ELSE muddled
       /\ UNCHANGED <<documents, before, again>>

(* A request dies between its steps. *)
AbortMove(m) ==
    /\ moves[m] # NoMove
    /\ moves' = [moves EXCEPT ![m] = NoMove]
    /\ muddled' = muddled \cup {moves[m].project}
    /\ UNCHANGED <<archived, documents, before, again>>

(* Someone who resolved the project earlier changes the flags of its pages,
   archived or not. *)
SetFlags(p, flag) ==
    /\ documents[p].flag # flag
    /\ documents' = [documents EXCEPT ![p].flag = flag]
    /\ UNCHANGED <<archived, moves, muddled, before, again>>

NextArchive ==
    \/ \E m \in Movers :
          \/ \E p \in ProjectIds : archiveProject(m, p) \/ restoreProject(m, p)
          \/ pauseProjectForArchive(m)
          \/ resumeProjectAfterArchive(m)
          \/ RecordMove(m)
          \/ AbortMove(m)
    \/ \E p \in ProjectIds, flag \in Flags : SetFlags(p, flag)

SpecArchive == InitArchive /\ [][NextArchive]_archiveVars

-----------------------------------------------------------------------------
(* The shape of the state. *)
ArchiveTypeOK ==
    /\ archived \in [ProjectIds -> BOOLEAN]
    /\ documents \in [ProjectIds -> Document]
    /\ moves \in [Movers -> Move]
    /\ muddled \subseteq ProjectIds
    /\ before \in [ProjectIds -> Flags]
    /\ again \subseteq ProjectIds

(* The registry and the project's document agree on whether it is archived as
   soon as one archive or restore of it has run alone, whatever overlapping
   and dead requests left behind. *)
DocumentsAgree ==
    \A p \in ProjectIds :
        p \notin muddled /\ Moves(p) = {}
            => archived[p] = documents[p].archived

(* A restore gives the pages the flags they had when the project was archived,
   whatever was changed meanwhile, unless it was archived a second time. *)
RestoreGivesBack ==
    [][\A p \in ProjectIds :
          documents[p].archived /\ ~documents'[p].archived /\ p \notin again
              => documents'[p].flag = before[p]]_archiveVars
=============================================================================
