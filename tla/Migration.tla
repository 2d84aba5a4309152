------------------------------ MODULE Migration ------------------------------
(* Moving a project to the FDE store (app/api/admin/migrate-fde/route.ts).  The
   Webflow-side store (lib/store/cfStore.ts) goes on taking nights while an
   administrator's request copies its document and its raw reports; the FDE
   store may have updates of its own already; two requests may overlap or
   follow one another, an answer may be lost and every process may die.

   A night is known by the run that appends it, each on a page of its own.  A
   document is the commits its row holds, the nights of its history table and
   the updates made on the FDE side.  Every statement on the source is a step,
   because the copy reads between them; the FDE store answers a request at
   once: how it does so is VersionedStore. *)
EXTENDS Integers

CONSTANTS Writers,  \* appendNight calls on the Webflow-side store
          Owners,   \* updates of the FDE store
          Copies,   \* migration requests under way at a time
          MaxVersion  \* bound on the versions the FDE store's updates reach

ASSUME MigrationAssumption == MaxVersion \in Nat

VARIABLES sourceRow,          \* the state row: is there one, and its commits
          sourceNights,       \* the rows of its history table
          sourceReports,      \* the objects of its bucket
          writers,            \* the calls of appendNight
          destination,        \* the FDE document
          destinationReports,
          copies,             \* the requests
          deletedNights       \* history: nights the source lost again

migrationVars == <<sourceRow, sourceNights, sourceReports, writers, destination,
                   destinationReports, copies, deletedNights>>

Content == [log : SUBSET Writers, nights : SUBSET Writers, own : SUBSET Owners]
Empty == [log |-> {}, nights |-> {}, own |-> {}]

NoDocument == [version |-> -1, content |-> Empty]

WriterSteps == {"row", "table", "write", "stored", "upsert", "delete", "report",
                "done", "dead"}

(* What a call read of the row and of the table while it needs them, and the
   nights its syncHistory has still to delete. *)
Writer == [step : WriterSteps, log : SUBSET Writers, nights : SUBSET Writers,
           drop : SUBSET Writers]

NewWriter == [step |-> "row", log |-> {}, nights |-> {}, drop |-> {}]

CopySteps == {"idle", "row", "table", "before", "put", "list", "reports",
              "again", "againTable", "verify", "ok"}

(* row: the row just read; source: the snapshot to copy; seen: the destination
   read before the write, of which the version is expected again; left: the
   reports still to copy.  History: listed, the reports the listing showed;
   acked, the calls that had returned at the second reading; verified, the
   document the last reading showed.  A request that is refused or fails is
   idle again: what it knew is lost. *)
Copy == [step : CopySteps, replace : BOOLEAN, row : SUBSET Writers,
         source : Content, left : SUBSET Writers,
         seen : [version : Int, content : Content], listed : SUBSET Writers,
         acked : SUBSET Writers, verified : Content]

NewCopy == [step |-> "idle", replace |-> FALSE, row |-> {}, source |-> Empty,
            left |-> {}, seen |-> NoDocument, listed |-> {},
            acked |-> {}, verified |-> Empty]

InitMigration ==
    /\ \E exists \in BOOLEAN : sourceRow = [exists |-> exists, log |-> {}]
    /\ sourceNights = {} /\ sourceReports = {}
    /\ writers = [w \in Writers |-> NewWriter]
    /\ destination = NoDocument /\ destinationReports = {}
    /\ copies = [c \in Copies |-> NewCopy]
    /\ deletedNights = {}

-----------------------------------------------------------------------------
(* appendNight on the source: updateState, then syncHistory, then putReport. *)
theSource == <<sourceRow, sourceNights, sourceReports, writers, deletedNights>>
theCopy == <<destination, destinationReports, copies>>

WriterAt(w, step) == writers[w].step = step
WriterGoes(w, step) == writers' = [writers EXCEPT ![w].step = step]

readSourceRow(w) ==
    /\ WriterAt(w, "row")
    /\ writers' = [writers EXCEPT ![w].step = "table", ![w].log = sourceRow.log]
    /\ UNCHANGED <<sourceRow, sourceNights, sourceReports, deletedNights, theCopy>>

readSourceTable(w) ==
    /\ WriterAt(w, "table")
    /\ writers' = [writers EXCEPT ![w].step = "write", ![w].nights = sourceNights]
    /\ UNCHANGED <<sourceRow, sourceNights, sourceReports, deletedNights, theCopy>>

(* The row is written if no call wrote it since it was read. *)
writeSourceRow(w) ==
    /\ WriterAt(w, "write")
    /\ IF sourceRow.log = writers[w].log
       THEN /\ sourceRow' = [exists |-> TRUE, log |-> sourceRow.log \cup {w}]
            /\ writers' = [writers EXCEPT ![w].step = "stored", ![w].log = {}]
       ELSE UNCHANGED sourceRow /\ writers' = [writers EXCEPT ![w] = NewWriter]
    /\ UNCHANGED <<sourceNights, sourceReports, deletedNights, theCopy>>

(* syncHistory reads the stored rows: those the draft has not are to go, once
   the new night is there. *)
readStoredNights(w) ==
    /\ WriterAt(w, "stored")
    /\ writers' = [writers EXCEPT ![w].step = "upsert",
           ![w].drop = sourceNights \ (writers[w].nights \cup {w}),
           ![w].nights = {}]
    /\ UNCHANGED <<sourceRow, sourceNights, sourceReports, deletedNights, theCopy>>

upsertNight(w) ==
    /\ WriterAt(w, "upsert")
    /\ sourceNights' = sourceNights \cup {w}
    /\ WriterGoes(w, IF writers[w].drop = {} THEN "report" ELSE "delete")
    /\ UNCHANGED <<sourceRow, sourceReports, deletedNights, theCopy>>

deleteNights(w) ==
    /\ WriterAt(w, "delete")
    /\ \E v \in writers[w].drop :
          /\ sourceNights' = sourceNights \ {v}
          /\ deletedNights' = deletedNights \cup {v}
          /\ writers' = [writers EXCEPT ![w].drop = @ \ {v},
                 ![w].step = IF writers[w].drop = {v} THEN "report" ELSE "delete"]
    /\ UNCHANGED <<sourceRow, sourceReports, theCopy>>

putSourceReport(w) ==
    /\ WriterAt(w, "report")
    /\ sourceReports' = sourceReports \cup {w}
    /\ WriterGoes(w, "done")
    /\ UNCHANGED <<sourceRow, sourceNights, deletedNights, theCopy>>

(* The process dies, or the eighth attempt failed. *)
AbortAppend(w) ==
    /\ writers[w].step \notin {"done", "dead"}
    /\ writers' = [writers EXCEPT ![w] = [NewWriter EXCEPT !.step = "dead"]]
    /\ UNCHANGED <<sourceRow, sourceNights, sourceReports, deletedNights, theCopy>>

(* An update of the FDE document; the first one creates it. *)
UpdateDestination(o) ==
    /\ o \notin destination.content.own
    /\ destination.version < MaxVersion
    /\ destination' = [version |-> destination.version + 1,
           content |-> [destination.content EXCEPT !.own = @ \cup {o}]]
    /\ UNCHANGED <<theSource, destinationReports, copies>>

-----------------------------------------------------------------------------
(* One migration request. *)
CopyAt(c, step) == copies[c].step = step
CopyGoes(c, step) == copies' = [copies EXCEPT ![c].step = step]
CopyFails(c) == copies' = [copies EXCEPT ![c] = NewCopy]

(* A request, the first or one more after an answer. *)
BeginCopy(c, replace) ==
    /\ CopyAt(c, "idle") \/ CopyAt(c, "ok")
    /\ copies' = [copies EXCEPT ![c] =
           [NewCopy EXCEPT !.step = "row", !.replace = replace]]
    /\ UNCHANGED <<theSource, destination, destinationReports>>

(* getState on a source without a row inserts the initial document first. *)
seedSource(c) ==
    /\ CopyAt(c, "row") \/ CopyAt(c, "again")
    /\ ~sourceRow.exists
    /\ sourceRow' = [sourceRow EXCEPT !.exists = TRUE]
    /\ UNCHANGED <<sourceNights, sourceReports, writers, deletedNights, theCopy>>

copyReadsRow(c) ==
    /\ CopyAt(c, "row") /\ sourceRow.exists
    /\ copies' = [copies EXCEPT ![c].step = "table", ![c].row = sourceRow.log]
    /\ UNCHANGED <<theSource, destination, destinationReports>>

copyReadsTable(c) ==
    /\ CopyAt(c, "table")
    /\ copies' = [copies EXCEPT ![c].step = "before",
           ![c].source = [log |-> copies[c].row, nights |-> sourceNights, own |-> {}],
           ![c].row = {}]
    /\ UNCHANGED <<theSource, destination, destinationReports>>

differs(c) == destination.content # copies[c].source

readDestination(c) ==
    /\ CopyAt(c, "before")
    /\ IF destination # NoDocument /\ differs(c) /\ ~copies[c].replace
       THEN CopyFails(c)
       ELSE IF destination = NoDocument \/ differs(c)
       THEN copies' = [copies EXCEPT ![c].step = "put", ![c].seen = destination]
       ELSE CopyGoes(c, "list")
    /\ UNCHANGED <<theSource, destination, destinationReports>>

MutPutUnconditionally(c) ==     \* expectedVersion is not compared
    /\ CopyAt(c, "put")
    /\ destination' = [version |-> destination.version + 1,
                       content |-> copies[c].source]
    /\ \/ copies' = [copies EXCEPT ![c].step = "list", ![c].seen = NoDocument]
       \/ CopyFails(c)
    /\ UNCHANGED <<theSource, destinationReports>>

(* PUT state with expectedVersion; its answer may be lost. *)
putState(c) ==
    /\ CopyAt(c, "put")
    /\ IF destination.version = copies[c].seen.version
       THEN /\ destination' = [version |-> destination.version + 1,
                               content |-> copies[c].source]
            /\ \/ copies' = [copies EXCEPT ![c].step = "list", ![c].seen = NoDocument]
               \/ CopyFails(c)
       ELSE CopyFails(c) /\ UNCHANGED destination
    /\ UNCHANGED <<theSource, destinationReports>>

listReports(c) ==
    /\ CopyAt(c, "list")
    /\ copies' = [copies EXCEPT
           ![c].step = IF sourceReports = {} THEN "again" ELSE "reports",
           ![c].left = sourceReports, ![c].listed = sourceReports]
    /\ UNCHANGED <<theSource, destination, destinationReports>>

copyReports(c) ==
    /\ CopyAt(c, "reports")
    /\ \E w \in copies[c].left :
          /\ destinationReports' = destinationReports \cup {w}
          /\ copies' = [copies EXCEPT ![c].left = @ \ {w},
                 ![c].step = IF copies[c].left = {w} THEN "again" ELSE "reports"]
    /\ UNCHANGED <<theSource, destination>>

copyReadsRowAgain(c) ==
    /\ CopyAt(c, "again") /\ sourceRow.exists
    /\ copies' = [copies EXCEPT ![c].step = "againTable", ![c].row = sourceRow.log,
           ![c].acked = {w \in Writers : writers[w].step = "done"}]
    /\ UNCHANGED <<theSource, destination, destinationReports>>

MutIgnoreTheSecondReading(c) ==     \* sourceAfterChecksum is not compared
    /\ CopyAt(c, "againTable")
    /\ copies' = [copies EXCEPT ![c].step = "verify", ![c].row = {}]
    /\ UNCHANGED <<theSource, destination, destinationReports>>

(* A source that changed during the copy is reported, and nothing verified. *)
compareSource(c) ==
    /\ CopyAt(c, "againTable")
    /\ IF [log |-> copies[c].row, nights |-> sourceNights, own |-> {}]
              = copies[c].source
       THEN copies' = [copies EXCEPT ![c].step = "verify", ![c].row = {}]
       ELSE CopyFails(c)
    /\ UNCHANGED <<theSource, destination, destinationReports>>

verifyDestination(c) ==
    /\ CopyAt(c, "verify")
    /\ IF destination # NoDocument /\ ~differs(c)
       THEN copies' = [copies EXCEPT ![c].step = "ok", ![c].source = Empty,
                ![c].verified = destination.content]
       ELSE CopyFails(c)
    /\ UNCHANGED <<theSource, destination, destinationReports>>

(* A fetch fails or the process dies. *)
AbortCopy(c) ==
    /\ copies[c].step \notin {"idle", "ok"}
    /\ CopyFails(c)
    /\ UNCHANGED <<theSource, destination, destinationReports>>

-----------------------------------------------------------------------------
NextMigration ==
    \/ \E w \in Writers :
          \/ readSourceRow(w) \/ readSourceTable(w) \/ writeSourceRow(w)
          \/ readStoredNights(w) \/ upsertNight(w) \/ deleteNights(w)
          \/ putSourceReport(w) \/ AbortAppend(w)
    \/ \E o \in Owners : UpdateDestination(o)
    \/ \E c \in Copies :
          \/ \E replace \in BOOLEAN : BeginCopy(c, replace)
          \/ seedSource(c) \/ copyReadsRow(c) \/ copyReadsTable(c)
          \/ readDestination(c) \/ putState(c) \/ listReports(c)
          \/ copyReports(c) \/ copyReadsRowAgain(c) \/ compareSource(c)
          \/ verifyDestination(c) \/ AbortCopy(c)

SpecMigration == InitMigration /\ [][NextMigration]_migrationVars

-----------------------------------------------------------------------------
(* The shape of the state. *)
MigrationTypeOK ==
    /\ sourceRow \in [exists : BOOLEAN, log : SUBSET Writers]
    /\ sourceNights \subseteq Writers
    /\ sourceReports \subseteq Writers
    /\ writers \in [Writers -> Writer]
    /\ destination \in [version : Int, content : Content]
    /\ destinationReports \subseteq Writers
    /\ copies \in [Copies -> Copy]
    /\ deletedNights \subseteq Writers

(* "Only after the response reports ok": the document that was verified holds
   every night whose call had returned before the source was read again, unless
   the source itself lost the night, and the reports the listing showed are in
   the FDE bucket.  Calls and copies overlap in every way. *)
CutoverReady ==
    \A c \in Copies : copies[c].step = "ok" =>
        /\ copies[c].acked \subseteq copies[c].verified.log
        /\ copies[c].acked \ deletedNights \subseteq copies[c].verified.nights
        /\ copies[c].listed \subseteq destinationReports

(* An update of the FDE store is overwritten only by a request that was told to
   replace and had read that very document. *)
DestinationKept ==
    [][destination.content.own \ destination'.content.own # {}
          => \E c \in Copies : copies[c].replace /\ copies[c].seen = destination
      ]_migrationVars
=============================================================================
