-------------------------- MODULE MigrationProofs --------------------------
(* Proofs about Migration, for every number of nights appended to the source,
   of updates of the FDE store and of requests under way at a time. *)
EXTENDS Migration, TLAPS

(* What a call has stored by the step it is at: its commit is in the row for
   good, its night in the table until another call's syncHistory deletes it. *)
Committed(w, x) ==
    /\ x.step \in {"stored", "upsert", "delete", "report", "done"}
           => w \in sourceRow.log
    /\ x.step \in {"delete", "report", "done"}
           => w \in sourceNights \cup deletedNights

(* What a request knows by the step it is at: of the destination before its
   write, of the calls that had returned before it read the source again, and
   of the reports. *)
Expects(k) ==
    k.step = "put" =>
        /\ k.seen.version <= destination.version
        /\ k.seen.version = destination.version => k.seen = destination
        /\ k.seen # NoDocument => k.replace = TRUE

Includes(k, content) ==
    /\ k.acked \subseteq content.log
    /\ k.acked \ deletedNights \subseteq content.nights

Vouches(k) ==
    /\ k.step = "againTable" =>
           k.acked \subseteq k.row /\ \A w \in k.acked : writers[w].step = "done"
    /\ k.step = "verify" => Includes(k, k.source)
    /\ k.step = "ok" => Includes(k, k.verified)

Delivers(k) ==
    /\ k.step \in {"reports", "again", "againTable", "verify", "ok"}
           => k.listed \subseteq k.left \cup destinationReports
    /\ k.step \in {"again", "againTable", "verify", "ok"} => k.left = {}

Sound(k) == Expects(k) /\ Vouches(k) /\ Delivers(k)

IInv == /\ MigrationTypeOK
        /\ \A w \in Writers : Committed(w, writers[w])
        /\ \A c \in Copies : Sound(copies[c])

-----------------------------------------------------------------------------
LEMMA NewOnes ==
  /\ NewWriter \in Writer /\ NewWriter.step = "row"
  /\ NewCopy \in Copy /\ NewCopy.step = "idle"
  /\ Empty \in Content /\ NoDocument \in [version : Int, content : Content]
  BY DEF NewWriter, Writer, WriterSteps, NewCopy, Copy, CopySteps, NoDocument,
         Empty, Content

LEMMA Starts == InitMigration => IInv
<1>. SUFFICES ASSUME InitMigration PROVE IInv
  OBVIOUS
<1>1. /\ \A w \in Writers : writers[w] = NewWriter
      /\ \A c \in Copies : copies[c] = NewCopy
  BY DEF InitMigration
<1>2. MigrationTypeOK
  BY NewOnes DEF InitMigration, MigrationTypeOK, NoDocument
<1>3. \A w \in Writers : Committed(w, writers[w])
  BY <1>1, NewOnes DEF Committed
<1>4. \A c \in Copies : Sound(copies[c])
  BY <1>1, NewOnes DEF Sound, Expects, Vouches, Delivers
<1>. QED BY <1>2, <1>3, <1>4 DEF IInv

(* A step of one call: what was stored stays, or is known to be deleted. *)
LEMMA CallStep ==
  ASSUME IInv, NEW w \in Writers, NEW x \in Writer, writers[w].step # "done",
         writers' = [writers EXCEPT ![w] = x],
         sourceRow' \in [exists : BOOLEAN, log : SUBSET Writers],
         sourceRow.log \subseteq sourceRow'.log,
         sourceNights' \subseteq Writers, sourceReports' \subseteq Writers,
         deletedNights' \subseteq Writers, deletedNights \subseteq deletedNights',
         sourceNights \subseteq sourceNights' \cup deletedNights',
         x.step \in {"stored", "upsert", "delete", "report", "done"}
             => w \in sourceRow'.log,
         x.step \in {"delete", "report", "done"}
             => w \in sourceNights' \cup deletedNights',
         UNCHANGED theCopy
  PROVE  IInv'
<1>1. MigrationTypeOK'
  BY DEF IInv, MigrationTypeOK, theCopy
<1>2. ASSUME NEW v \in Writers PROVE Committed(v, writers[v])'
  <2>1. CASE v = w
    <3>1. writers'[w] = x
      BY DEF IInv, MigrationTypeOK
    <3>. QED BY <2>1, <3>1 DEF Committed
  <2>2. CASE v # w
    <3>1. writers'[v] = writers[v]
      BY <2>2 DEF IInv, MigrationTypeOK
    <3>. QED BY <3>1 DEF IInv, Committed
  <2>. QED BY <2>1, <2>2
<1>3. ASSUME NEW c \in Copies PROVE Sound(copies[c])'
  <2>1. Sound(copies[c]) /\ copies'[c] = copies[c]
    BY DEF IInv, theCopy
  <2>2. Expects(copies[c])' /\ Delivers(copies[c])'
    BY <2>1 DEF Sound, Expects, Delivers, theCopy
  <2>3. \A v \in Writers : writers[v].step = "done" => writers'[v].step = "done"
    BY DEF IInv, MigrationTypeOK
  <2>4. copies[c].acked \subseteq Writers
    BY DEF IInv, MigrationTypeOK, Copy
  <2>5. Vouches(copies[c])'
    BY <2>1, <2>3, <2>4 DEF Sound, Vouches, Includes
  <2>. QED BY <2>2, <2>5 DEF Sound
<1>. QED BY <1>1, <1>2, <1>3 DEF IInv

(* A step of one request, or of the FDE store: a new destination has a newer
   version. *)
LEMMA RequestStep ==
  ASSUME IInv, NEW c \in Copies, NEW k \in Copy,
         copies' = [copies EXCEPT ![c] = k],
         destination' \in [version : Int, content : Content],
         destination' = destination \/ destination'.version > destination.version,
         destinationReports' \subseteq Writers,
         destinationReports \subseteq destinationReports',
         UNCHANGED theSource, Sound(k)'
  PROVE  IInv'
<1>1. MigrationTypeOK'
  BY DEF IInv, MigrationTypeOK, theSource
<1>2. ASSUME NEW v \in Writers PROVE Committed(v, writers[v])'
  BY DEF IInv, Committed, theSource
<1>3. ASSUME NEW d \in Copies PROVE Sound(copies[d])'
  <2>1. CASE d = c
    <3>1. copies'[c] = k
      BY DEF IInv, MigrationTypeOK
    <3>. QED BY <2>1, <3>1 DEF Sound, Expects, Vouches, Includes, Delivers
  <2>2. CASE d # c
    <3>1. copies'[d] = copies[d] /\ Sound(copies[d])
      BY <2>2 DEF IInv, MigrationTypeOK
    <3>2. /\ copies[d].seen.version \in Int
          /\ destination.version \in Int /\ destination'.version \in Int
      BY DEF IInv, MigrationTypeOK, Copy
    <3>3. Expects(copies[d])'
      BY <3>1, <3>2 DEF Sound, Expects
    <3>4. Vouches(copies[d])' /\ Delivers(copies[d])'
      BY <3>1 DEF Sound, Vouches, Includes, Delivers, theSource
    <3>. QED BY <3>3, <3>4 DEF Sound
  <2>. QED BY <2>1, <2>2
<1>. QED BY <1>1, <1>2, <1>3 DEF IInv

-----------------------------------------------------------------------------
(* The steps of the calls. *)
LEMMA CallSteps ==
  ASSUME IInv, NEW w \in Writers,
         \/ readSourceRow(w) \/ readSourceTable(w) \/ writeSourceRow(w)
         \/ readStoredNights(w) \/ upsertNight(w) \/ deleteNights(w)
         \/ putSourceReport(w) \/ AbortAppend(w)
  PROVE  IInv'
<1>. DEFINE x == writers[w]
<1>1. /\ x \in Writer /\ x.step \in WriterSteps /\ x.log \subseteq Writers
      /\ x.nights \subseteq Writers /\ x.drop \subseteq Writers
      /\ x = [step |-> x.step, log |-> x.log, nights |-> x.nights, drop |-> x.drop]
      /\ sourceRow \in [exists : BOOLEAN, log : SUBSET Writers]
      /\ sourceNights \subseteq Writers /\ sourceReports \subseteq Writers
      /\ deletedNights \subseteq Writers
      /\ Committed(w, x)
      /\ writers \in [Writers -> Writer]
  BY DEF IInv, MigrationTypeOK, Writer
<1>2. ASSUME readSourceRow(w) PROVE IInv'
  <2>. DEFINE y == [x EXCEPT !.step = "table", !.log = sourceRow.log]
  <2>1. y \in Writer /\ y.step = "table"
    BY <1>1 DEF Writer, WriterSteps
  <2>2. writers' = [writers EXCEPT ![w] = y] /\ x.step = "row"
    BY <1>2 DEF readSourceRow, WriterAt
  <2>. HIDE DEF y
  <2>. QED BY <1>1, <1>2, <2>1, <2>2, CallStep DEF readSourceRow
<1>3. ASSUME readSourceTable(w) PROVE IInv'
  <2>. DEFINE y == [x EXCEPT !.step = "write", !.nights = sourceNights]
  <2>1. y \in Writer /\ y.step = "write"
    BY <1>1 DEF Writer, WriterSteps
  <2>2. writers' = [writers EXCEPT ![w] = y] /\ x.step = "table"
    BY <1>3 DEF readSourceTable, WriterAt
  <2>. HIDE DEF y
  <2>. QED BY <1>1, <1>3, <2>1, <2>2, CallStep DEF readSourceTable
<1>4. ASSUME writeSourceRow(w) PROVE IInv'
  <2>1. CASE sourceRow.log = x.log
    <3>. DEFINE y == [x EXCEPT !.step = "stored", !.log = {}]
    <3>1. y \in Writer /\ y.step = "stored"
      BY <1>1 DEF Writer, WriterSteps
    <3>2. /\ writers' = [writers EXCEPT ![w] = y] /\ x.step = "write"
          /\ sourceRow' = [exists |-> TRUE, log |-> sourceRow.log \cup {w}]
      BY <1>4, <2>1 DEF writeSourceRow, WriterAt
    <3>. HIDE DEF y
    <3>. QED BY <1>1, <1>4, <3>1, <3>2, CallStep DEF writeSourceRow
  <2>2. CASE sourceRow.log # x.log
    <3>1. /\ writers' = [writers EXCEPT ![w] = NewWriter] /\ x.step = "write"
          /\ UNCHANGED sourceRow
      BY <1>4, <2>2 DEF writeSourceRow, WriterAt
    <3>. QED BY <1>1, <1>4, <3>1, NewOnes, CallStep DEF writeSourceRow
  <2>. QED BY <2>1, <2>2
<1>5. ASSUME readStoredNights(w) PROVE IInv'
  <2>. DEFINE y == [x EXCEPT !.step = "upsert", !.nights = {},
                             !.drop = sourceNights \ (x.nights \cup {w})]
  <2>1. y \in Writer /\ y.step = "upsert"
    BY <1>1 DEF Writer, WriterSteps
  <2>2. writers' = [writers EXCEPT ![w] = y] /\ x.step = "stored"
    BY <1>5 DEF readStoredNights, WriterAt
  <2>3. w \in sourceRow.log
    BY <1>1, <2>2 DEF Committed
  <2>4. UNCHANGED <<sourceRow, sourceNights, sourceReports, deletedNights, theCopy>>
    BY <1>5 DEF readStoredNights
  <2>5. writers[w].step # "done" /\ UNCHANGED sourceRow
    BY <2>2, <2>4
  <2>. HIDE DEF x, y
  <2>. QED BY <1>1, <2>1, <2>2, <2>3, <2>4, <2>5, CallStep
<1>6. ASSUME upsertNight(w) PROVE IInv'
  <2>. DEFINE y == [x EXCEPT !.step = IF x.drop = {} THEN "report" ELSE "delete"]
  <2>1. y \in Writer /\ y.step \in {"report", "delete"}
    BY <1>1 DEF Writer, WriterSteps
  <2>2. writers' = [writers EXCEPT ![w] = y] /\ x.step = "upsert"
    BY <1>6 DEF upsertNight, WriterAt, WriterGoes
  <2>3. w \in sourceRow.log
    BY <1>1, <2>2 DEF Committed
  <2>. HIDE DEF y
  <2>. QED BY <1>1, <1>6, <2>1, <2>2, <2>3, CallStep DEF upsertNight
<1>7. ASSUME deleteNights(w) PROVE IInv'
  <2>1. PICK v \in x.drop :
           /\ sourceNights' = sourceNights \ {v}
           /\ deletedNights' = deletedNights \cup {v}
           /\ writers' = [writers EXCEPT ![w].drop = @ \ {v},
                  ![w].step = IF x.drop = {v} THEN "report" ELSE "delete"]
    BY <1>7 DEF deleteNights
  <2>. DEFINE y == [x EXCEPT !.drop = @ \ {v},
                             !.step = IF x.drop = {v} THEN "report" ELSE "delete"]
  <2>2. y \in Writer /\ y.step \in {"report", "delete"}
    BY <1>1 DEF Writer, WriterSteps
  <2>3. writers' = [writers EXCEPT ![w] = y] /\ x.step = "delete"
    <3>1. writers' = [writers EXCEPT ![w] = y]
      BY <2>1
    <3>. QED BY <1>7, <3>1 DEF deleteNights, WriterAt
  <2>4. w \in sourceRow.log /\ w \in sourceNights \cup deletedNights
    BY <1>1, <2>3 DEF Committed
  <2>5. UNCHANGED <<sourceRow, sourceReports, theCopy>> /\ writers[w].step # "done"
    BY <1>7, <2>3 DEF deleteNights
  <2>6. /\ sourceNights' \subseteq Writers /\ deletedNights' \subseteq Writers
        /\ deletedNights \subseteq deletedNights'
        /\ sourceNights \subseteq sourceNights' \cup deletedNights'
        /\ w \in sourceNights' \cup deletedNights'
    <3>1. v \in Writers
      BY <1>1
    <3>. QED BY <1>1, <2>1, <2>4, <3>1
  <2>. HIDE DEF x, y
  <2>. QED BY <1>1, <2>2, <2>3, <2>4, <2>5, <2>6, CallStep
<1>8. ASSUME putSourceReport(w) PROVE IInv'
  <2>. DEFINE y == [x EXCEPT !.step = "done"]
  <2>1. y \in Writer /\ y.step = "done"
    BY <1>1 DEF Writer, WriterSteps
  <2>2. writers' = [writers EXCEPT ![w] = y] /\ x.step = "report"
    BY <1>8 DEF putSourceReport, WriterAt, WriterGoes
  <2>3. w \in sourceRow.log /\ w \in sourceNights \cup deletedNights
    BY <1>1, <2>2 DEF Committed
  <2>. HIDE DEF y
  <2>. QED BY <1>1, <1>8, <2>1, <2>2, <2>3, CallStep DEF putSourceReport
<1>9. ASSUME AbortAppend(w) PROVE IInv'
  <2>. DEFINE y == [NewWriter EXCEPT !.step = "dead"]
  <2>1. y \in Writer /\ y.step = "dead"
    BY NewOnes DEF Writer, WriterSteps
  <2>2. writers' = [writers EXCEPT ![w] = y] /\ x.step # "done"
    BY <1>9 DEF AbortAppend
  <2>3. /\ UNCHANGED <<sourceRow, sourceNights, sourceReports, deletedNights, theCopy>>
        /\ writers[w].step # "done"
    BY <1>9 DEF AbortAppend
  <2>. HIDE DEF x, y
  <2>. QED BY <1>1, <2>1, <2>2, <2>3, CallStep
<1>. QED BY <1>2, <1>3, <1>4, <1>5, <1>6, <1>7, <1>8, <1>9

(* The steps of the requests. *)
LEMMA Idles ==
  ASSUME IInv, NEW c \in Copies, copies' = [copies EXCEPT ![c] = NewCopy],
         destination' \in [version : Int, content : Content],
         destination' = destination \/ destination'.version > destination.version,
         UNCHANGED <<theSource, destinationReports>>
  PROVE  IInv'
<1>1. Sound(NewCopy)'
  BY NewOnes DEF Sound, Expects, Vouches, Delivers
<1>2. destinationReports \subseteq Writers
  BY DEF IInv, MigrationTypeOK
<1>. QED BY <1>1, <1>2, NewOnes, RequestStep

LEMMA Requested ==
  ASSUME IInv, NEW c \in Copies
  PROVE  LET k == copies[c] IN
         /\ k \in Copy /\ k.step \in CopySteps /\ k.replace \in BOOLEAN
         /\ k.row \subseteq Writers /\ k.source \in Content
         /\ k.left \subseteq Writers /\ k.seen \in [version : Int, content : Content]
         /\ k.listed \subseteq Writers /\ k.acked \subseteq Writers
         /\ k.verified \in Content
         /\ Sound(k)
         /\ destination \in [version : Int, content : Content]
         /\ destination.version \in Int /\ destination.content \in Content
         /\ destinationReports \subseteq Writers
         /\ sourceRow.log \subseteq Writers /\ sourceNights \subseteq Writers
         /\ sourceReports \subseteq Writers
         /\ copies \in [Copies -> Copy]
  BY DEF IInv, MigrationTypeOK, Copy

LEMMA RequestSteps ==
  ASSUME IInv, NEW c \in Copies,
         \/ \E replace \in BOOLEAN : BeginCopy(c, replace)
         \/ seedSource(c) \/ copyReadsRow(c) \/ copyReadsTable(c)
         \/ readDestination(c) \/ putState(c) \/ listReports(c)
         \/ copyReports(c) \/ copyReadsRowAgain(c) \/ compareSource(c)
         \/ verifyDestination(c) \/ AbortCopy(c)
  PROVE  IInv'
<1>. DEFINE k == copies[c]
<1>1. /\ k \in Copy /\ k.step \in CopySteps /\ k.replace \in BOOLEAN
      /\ k.row \subseteq Writers /\ k.source \in Content
      /\ k.left \subseteq Writers /\ k.seen \in [version : Int, content : Content]
      /\ k.listed \subseteq Writers /\ k.acked \subseteq Writers
      /\ k.verified \in Content
      /\ Sound(k)
      /\ destination \in [version : Int, content : Content]
      /\ destination.version \in Int /\ destination.content \in Content
      /\ destinationReports \subseteq Writers
      /\ sourceRow.log \subseteq Writers /\ sourceNights \subseteq Writers
      /\ sourceReports \subseteq Writers
      /\ copies \in [Copies -> Copy]
  BY Requested
<1>2. ASSUME NEW replace \in BOOLEAN, BeginCopy(c, replace) PROVE IInv'
  <2>. DEFINE y == [NewCopy EXCEPT !.step = "row", !.replace = replace]
  <2>1. y \in Copy /\ y.step = "row"
    BY NewOnes DEF Copy, CopySteps
  <2>2. copies' = [copies EXCEPT ![c] = y]
    BY <1>2 DEF BeginCopy
  <2>. HIDE DEF y
  <2>9. PICK z : z = y
    OBVIOUS
  <2>3. Sound(z)'
    BY <2>9, <2>1 DEF Sound, Expects, Vouches, Delivers
  <2>. QED BY <2>9, <1>1, <1>2, <2>1, <2>2, <2>3, RequestStep DEF BeginCopy
<1>3. ASSUME seedSource(c) PROVE IInv'
  <2>1. /\ sourceRow'.log = sourceRow.log
        /\ sourceRow' \in [exists : BOOLEAN, log : SUBSET Writers]
        /\ UNCHANGED <<sourceNights, sourceReports, writers, deletedNights, theCopy>>
    BY <1>3 DEF seedSource, IInv, MigrationTypeOK
  <2>2. MigrationTypeOK'
    BY <2>1 DEF IInv, MigrationTypeOK, theCopy
  <2>3. ASSUME NEW w \in Writers PROVE Committed(w, writers[w])'
    BY <2>1 DEF IInv, Committed
  <2>4. ASSUME NEW d \in Copies PROVE Sound(copies[d])'
    BY <2>1 DEF IInv, Sound, Expects, Vouches, Includes, Delivers, theCopy
  <2>. QED BY <2>2, <2>3, <2>4 DEF IInv
<1>4. ASSUME copyReadsRow(c) PROVE IInv'
  <2>. DEFINE y == [k EXCEPT !.step = "table", !.row = sourceRow.log]
  <2>1. y \in Copy /\ y.step = "table"
    BY <1>1 DEF Copy, CopySteps
  <2>2. copies' = [copies EXCEPT ![c] = y]
    BY <1>4 DEF copyReadsRow
  <2>. HIDE DEF y
  <2>9. PICK z : z = y
    OBVIOUS
  <2>3. Sound(z)'
    BY <2>9, <2>1 DEF Sound, Expects, Vouches, Delivers
  <2>. QED BY <2>9, <1>1, <1>4, <2>1, <2>2, <2>3, RequestStep DEF copyReadsRow
<1>5. ASSUME copyReadsTable(c) PROVE IInv'
  <2>. DEFINE s == [log |-> k.row, nights |-> sourceNights, own |-> {}]
              y == [k EXCEPT !.step = "before", !.source = s, !.row = {}]
  <2>1. s \in Content
    BY <1>1 DEF Content
  <2>2. copies' = [copies EXCEPT ![c] = y]
    BY <1>5 DEF copyReadsTable
  <2>. HIDE DEF s
  <2>3. y \in Copy /\ y.step = "before"
    BY <1>1, <2>1 DEF Copy, CopySteps
  <2>. HIDE DEF y
  <2>9. PICK z : z = y
    OBVIOUS
  <2>4. Sound(z)'
    BY <2>9, <2>3 DEF Sound, Expects, Vouches, Delivers
  <2>. QED BY <2>9, <1>1, <1>5, <2>2, <2>3, <2>4, RequestStep DEF copyReadsTable
<1>6. ASSUME readDestination(c) PROVE IInv'
  <2>1. CASE destination # NoDocument /\ differs(c) /\ ~k.replace
    BY <1>1, <1>6, <2>1, Idles DEF readDestination, CopyFails
  <2>2. CASE /\ ~(destination # NoDocument /\ differs(c) /\ ~k.replace)
             /\ destination = NoDocument \/ differs(c)
    <3>. DEFINE y == [k EXCEPT !.step = "put", !.seen = destination]
    <3>1. y \in Copy /\ y.step = "put" /\ y.seen = destination /\ y.replace = k.replace
      BY <1>1 DEF Copy, CopySteps
    <3>2. copies' = [copies EXCEPT ![c] = y] /\ UNCHANGED destination
      BY <1>6, <2>2 DEF readDestination
    <3>. HIDE DEF y
    <3>9. PICK z : z = y
      OBVIOUS
    <3>3. y.seen # NoDocument => y.replace = TRUE
      BY <3>9, <1>1, <2>2, <3>1
    <3>4. Sound(z)'
      BY <3>9, <1>1, <3>1, <3>2, <3>3 DEF Sound, Expects, Vouches, Delivers
    <3>. QED BY <3>9, <1>1, <1>6, <3>1, <3>2, <3>4, RequestStep DEF readDestination
  <2>3. CASE ~(destination = NoDocument \/ differs(c))
    <3>. DEFINE y == [k EXCEPT !.step = "list"]
    <3>1. y \in Copy /\ y.step = "list"
      BY <1>1 DEF Copy, CopySteps
    <3>2. copies' = [copies EXCEPT ![c] = y]
      BY <1>6, <2>3 DEF readDestination, CopyGoes
    <3>. HIDE DEF y
    <3>9. PICK z : z = y
      OBVIOUS
    <3>3. Sound(z)'
      BY <3>9, <3>1 DEF Sound, Expects, Vouches, Delivers
    <3>. QED BY <3>9, <1>1, <1>6, <3>1, <3>2, <3>3, RequestStep DEF readDestination
  <2>. QED BY <2>1, <2>2, <2>3
<1>7. ASSUME putState(c) PROVE IInv'
  <2>1. CASE destination.version # k.seen.version
    BY <1>1, <1>7, <2>1, Idles DEF putState, CopyFails
  <2>2. CASE destination.version = k.seen.version
    <3>1. /\ destination' = [version |-> destination.version + 1, content |-> k.source]
          /\ UNCHANGED <<theSource, destinationReports>>
      BY <1>7, <2>2 DEF putState
    <3>2. /\ destination' \in [version : Int, content : Content]
          /\ destination'.version > destination.version
      BY <1>1, <3>1
    <3>3. CASE CopyFails(c)
      BY <3>1, <3>2, <3>3, Idles DEF CopyFails
    <3>4. CASE copies' = [copies EXCEPT ![c].step = "list", ![c].seen = NoDocument]
      <4>. DEFINE y == [k EXCEPT !.step = "list", !.seen = NoDocument]
      <4>1. y \in Copy /\ y.step = "list"
        BY <1>1, NewOnes DEF Copy, CopySteps
      <4>2. copies' = [copies EXCEPT ![c] = y]
        BY <3>4
      <4>. HIDE DEF y
      <4>9. PICK z : z = y
        OBVIOUS
      <4>3. Sound(z)'
        BY <4>9, <4>1 DEF Sound, Expects, Vouches, Delivers
      <4>. QED BY <4>9, <1>1, <3>1, <3>2, <4>1, <4>2, <4>3, RequestStep
    <3>. QED BY <1>7, <2>2, <3>3, <3>4 DEF putState
  <2>. QED BY <2>1, <2>2
<1>8. ASSUME listReports(c) PROVE IInv'
  <2>. DEFINE y == [k EXCEPT !.step = IF sourceReports = {} THEN "again" ELSE "reports",
                             !.left = sourceReports, !.listed = sourceReports]
  <2>1. /\ y \in Copy /\ y.step \in {"again", "reports"}
        /\ y.step = "again" => y.left = {}
        /\ y.listed = y.left
    BY <1>1 DEF Copy, CopySteps
  <2>2. copies' = [copies EXCEPT ![c] = y]
    BY <1>8 DEF listReports
  <2>. HIDE DEF y
  <2>9. PICK z : z = y
    OBVIOUS
  <2>3. Sound(z)'
    BY <2>9, <2>1 DEF Sound, Expects, Vouches, Delivers
  <2>. QED BY <2>9, <1>1, <1>8, <2>1, <2>2, <2>3, RequestStep DEF listReports
<1>9. ASSUME copyReports(c) PROVE IInv'
  <2>1. PICK w \in k.left :
           /\ destinationReports' = destinationReports \cup {w}
           /\ copies' = [copies EXCEPT ![c].left = @ \ {w},
                  ![c].step = IF k.left = {w} THEN "again" ELSE "reports"]
    BY <1>9 DEF copyReports
  <2>. DEFINE y == [k EXCEPT !.left = @ \ {w},
                             !.step = IF k.left = {w} THEN "again" ELSE "reports"]
  <2>2. /\ y \in Copy /\ y.step \in {"again", "reports"}
        /\ y.left = k.left \ {w} /\ y.listed = k.listed
        /\ y.step = "again" => y.left = {}
    BY <1>1, <2>1 DEF Copy, CopySteps
  <2>3. copies' = [copies EXCEPT ![c] = y]
    BY <2>1
  <2>4. k.listed \subseteq k.left \cup destinationReports
    BY <1>1, <1>9 DEF Sound, Delivers, copyReports, CopyAt
  <2>6. /\ UNCHANGED <<theSource, destination>> /\ w \in Writers
    BY <1>1, <1>9 DEF copyReports
  <2>. HIDE DEF y
  <2>9. PICK z : z = y
    OBVIOUS
  <2>5. Sound(z)'
    BY <2>9, <2>1, <2>2, <2>4 DEF Sound, Expects, Vouches, Delivers
  <2>. QED BY <2>9, <1>1, <1>9, <2>1, <2>2, <2>3, <2>5, <2>6, RequestStep
<1>10. ASSUME copyReadsRowAgain(c) PROVE IInv'
  <2>. DEFINE acked == {w \in Writers : writers[w].step = "done"}
              y == [k EXCEPT !.step = "againTable", !.row = sourceRow.log,
                             !.acked = acked]
  <2>1. copies' = [copies EXCEPT ![c] = y]
    BY <1>10 DEF copyReadsRowAgain
  <2>2. acked \subseteq sourceRow.log /\ acked \subseteq Writers
    BY DEF IInv, Committed
  <2>3. \A w \in acked : writers[w].step = "done"
    OBVIOUS
  <2>. HIDE DEF acked
  <2>4. /\ y \in Copy /\ y.step = "againTable" /\ y.row = sourceRow.log
        /\ y.acked = acked /\ y.left = k.left /\ y.listed = k.listed
    BY <1>1, <2>2 DEF Copy, CopySteps
  <2>. HIDE DEF y
  <2>9. PICK z : z = y
    OBVIOUS
  <2>5. UNCHANGED <<writers, destinationReports>>
    BY <2>9, <1>10 DEF copyReadsRowAgain, theSource
  <2>6. Vouches(z)'
    <3>1. y.acked \subseteq y.row /\ \A w \in y.acked : writers'[w].step = "done"
      BY <2>2, <2>3, <2>4, <2>5, <2>9
    <3>. QED BY <2>4, <2>9, <3>1 DEF Vouches
  <2>7. Expects(z)' /\ Delivers(z)'
    BY <2>9, <1>1, <1>10, <2>4, <2>5 DEF Sound, Expects, Delivers, copyReadsRowAgain, CopyAt
  <2>. QED BY <2>9, <1>1, <1>10, <2>1, <2>4, <2>6, <2>7, RequestStep
           DEF copyReadsRowAgain, Sound
<1>11. ASSUME compareSource(c) PROVE IInv'
  <2>. DEFINE s == [log |-> k.row, nights |-> sourceNights, own |-> {}]
  <2>1. CASE s # k.source
    BY <1>1, <1>11, <2>1, Idles DEF compareSource, CopyFails
  <2>2. CASE s = k.source
    <3>. DEFINE y == [k EXCEPT !.step = "verify", !.row = {}]
    <3>1. /\ y \in Copy /\ y.step = "verify" /\ y.acked = k.acked /\ y.left = k.left
          /\ y.source = k.source /\ y.listed = k.listed
      BY <1>1 DEF Copy, CopySteps
    <3>2. /\ copies' = [copies EXCEPT ![c] = y] /\ k.step = "againTable"
          /\ UNCHANGED <<theSource, destination, destinationReports>>
      BY <1>11, <2>2 DEF compareSource, CopyAt
    <3>. HIDE DEF y
    <3>9. PICK z : z = y
      OBVIOUS
    <3>3. k.source.log = k.row /\ k.source.nights = sourceNights
      BY <3>9, <2>2
    <3>4. k.acked \subseteq k.row /\ \A w \in k.acked : writers[w].step = "done"
      BY <3>9, <1>1, <3>2 DEF Sound, Vouches
    <3>5. k.acked \subseteq sourceNights \cup deletedNights
      BY <3>9, <1>1, <3>4 DEF IInv, Committed
    <3>6. Includes(z, z.source)'
      BY <3>9, <3>1, <3>2, <3>3, <3>4, <3>5 DEF Includes, theSource
    <3>7. Vouches(z)' /\ Expects(z)' /\ Delivers(z)'
      BY <3>9, <1>1, <3>1, <3>2, <3>6 DEF Sound, Vouches, Expects, Delivers
    <3>. QED BY <3>9, <1>1, <3>1, <3>2, <3>7, RequestStep DEF Sound
  <2>. QED BY <2>1, <2>2
<1>12. ASSUME verifyDestination(c) PROVE IInv'
  <2>1. CASE ~(destination # NoDocument /\ ~differs(c))
    BY <1>1, <1>12, <2>1, Idles DEF verifyDestination, CopyFails
  <2>2. CASE destination # NoDocument /\ ~differs(c)
    <3>. DEFINE y == [k EXCEPT !.step = "ok", !.source = Empty,
                               !.verified = destination.content]
    <3>1. /\ y \in Copy /\ y.step = "ok" /\ y.acked = k.acked /\ y.left = k.left
          /\ y.verified = destination.content /\ y.listed = k.listed
      BY <1>1, NewOnes DEF Copy, CopySteps
    <3>2. /\ copies' = [copies EXCEPT ![c] = y] /\ k.step = "verify"
          /\ UNCHANGED <<theSource, destination, destinationReports>>
      BY <1>12, <2>2 DEF verifyDestination, CopyAt
    <3>. HIDE DEF y
    <3>9. PICK z : z = y
      OBVIOUS
    <3>3. Includes(k, k.source) /\ k.source = destination.content
      BY <3>9, <1>1, <2>2, <3>2 DEF Sound, Vouches, differs
    <3>4. Includes(z, z.verified)'
      BY <3>9, <3>1, <3>2, <3>3 DEF Includes, theSource
    <3>5. Vouches(z)' /\ Expects(z)' /\ Delivers(z)'
      BY <3>9, <1>1, <3>1, <3>2, <3>4 DEF Sound, Vouches, Expects, Delivers
    <3>. QED BY <3>9, <1>1, <3>1, <3>2, <3>5, RequestStep DEF Sound
  <2>. QED BY <2>1, <2>2
<1>13. ASSUME AbortCopy(c) PROVE IInv'
  BY <1>1, <1>13, Idles DEF AbortCopy, CopyFails
<1>. QED BY <1>2, <1>3, <1>4, <1>5, <1>6, <1>7, <1>8, <1>9, <1>10, <1>11, <1>12, <1>13

(* An update of the FDE store disturbs only what a request expects of it. *)
LEMMA OwnStep ==
  ASSUME IInv, NEW o \in Owners, UpdateDestination(o)
  PROVE  IInv'
<1>1. /\ destination \in [version : Int, content : Content]
      /\ destination.version \in Int
  BY DEF IInv, MigrationTypeOK
<1>2. /\ destination' \in [version : Int, content : Content]
      /\ destination'.version = destination.version + 1
      /\ UNCHANGED <<theSource, destinationReports, copies>>
  BY <1>1 DEF UpdateDestination, Content
<1>3. MigrationTypeOK'
  BY <1>2 DEF IInv, MigrationTypeOK, theSource
<1>4. ASSUME NEW w \in Writers PROVE Committed(w, writers[w])'
  BY <1>2 DEF IInv, Committed, theSource
<1>5. ASSUME NEW c \in Copies PROVE Sound(copies[c])'
  <2>1. Sound(copies[c]) /\ copies[c].seen.version \in Int
    BY DEF IInv, MigrationTypeOK, Copy
  <2>2. Expects(copies[c])'
    BY <1>1, <1>2, <2>1 DEF Sound, Expects
  <2>3. Vouches(copies[c])' /\ Delivers(copies[c])'
    BY <1>2, <2>1 DEF Sound, Vouches, Includes, Delivers, theSource
  <2>. QED BY <2>2, <2>3 DEF Sound
<1>. QED BY <1>3, <1>4, <1>5 DEF IInv

-----------------------------------------------------------------------------
LEMMA Inductive == IInv /\ [NextMigration]_migrationVars => IInv'
<1>. SUFFICES ASSUME IInv, [NextMigration]_migrationVars PROVE IInv'
  OBVIOUS
<1>1. CASE UNCHANGED migrationVars
  BY <1>1 DEF migrationVars, IInv, MigrationTypeOK, Committed, Sound, Expects,
              Vouches, Includes, Delivers
<1>2. CASE NextMigration
  BY <1>2, CallSteps, OwnStep, RequestSteps DEF NextMigration
<1>. QED BY <1>1, <1>2

LEMMA Invariant == SpecMigration => []IInv
<1>. QED BY Starts, Inductive, PTL DEF SpecMigration

(* The model of the migration is type correct: what a call or a request holds
   fits the step it is at. *)
THEOREM MigrationTyped == SpecMigration => []MigrationTypeOK
<1>1. IInv => MigrationTypeOK
  BY DEF IInv
<1>. QED BY <1>1, Invariant, PTL

(* A request that reports ok (route.ts, the re-reading of the source and the
   verification) vouches for every night whose call had returned, whatever
   calls and requests overlap. *)
THEOREM ReadyForTheCutover == SpecMigration => []CutoverReady
<1>1. IInv => CutoverReady
  <2>. SUFFICES ASSUME IInv, NEW c \in Copies, copies[c].step = "ok"
                PROVE  /\ copies[c].acked \subseteq copies[c].verified.log
                       /\ copies[c].acked \ deletedNights \subseteq copies[c].verified.nights
                       /\ copies[c].listed \subseteq destinationReports
    BY DEF CutoverReady
  <2>. QED BY DEF IInv, Sound, Vouches, Includes, Delivers
<1>. QED BY <1>1, Invariant, PTL

(* What the expected version of the write (dataPlane.ts, PUT state) protects:
   no update of the FDE store is overwritten by a request that has not read it
   or was not told to replace. *)
THEOREM NothingUnreadIsReplaced == SpecMigration => DestinationKept
<1>. DEFINE Kept == destination.content.own \ destination'.content.own # {}
          => \E c \in Copies : copies[c].replace /\ copies[c].seen = destination
<1>1. IInv /\ [NextMigration]_migrationVars => Kept
  <2>. SUFFICES ASSUME IInv, [NextMigration]_migrationVars,
                       destination.content.own \ destination'.content.own # {}
                PROVE  \E c \in Copies : copies[c].replace /\ copies[c].seen = destination
    OBVIOUS
  <2>1. destination' # destination
    OBVIOUS
  <2>2. ~ \E o \in Owners : UpdateDestination(o)
    BY DEF UpdateDestination, IInv, MigrationTypeOK, Content
  <2>3. PICK c \in Copies : putState(c)
    BY <2>1, <2>2 DEF NextMigration, migrationVars, theCopy, readSourceRow,
       readSourceTable, writeSourceRow, readStoredNights, upsertNight, deleteNights,
       putSourceReport, AbortAppend, BeginCopy, seedSource, copyReadsRow,
       copyReadsTable, readDestination, listReports, copyReports,
       copyReadsRowAgain, compareSource, verifyDestination, AbortCopy
  <2>4. copies[c].step = "put" /\ destination.version = copies[c].seen.version
    BY <2>1, <2>3 DEF putState, CopyAt
  <2>5. copies[c].seen = destination /\ (copies[c].seen # NoDocument => copies[c].replace = TRUE)
    BY <2>4 DEF IInv, Sound, Expects
  <2>6. destination # NoDocument
    BY DEF NoDocument, Empty
  <2>. QED BY <2>5, <2>6
<1>. QED BY <1>1, Invariant, PTL DEF SpecMigration, DestinationKept
=============================================================================
