--------------------------- MODULE ProjectsProofs ----------------------------
(* Proofs about the projects and their pages: archiving and restoring, the names,
   what a tab shows of them, and the tiers of the watchlist - for every number
   of requests, administrators, changes and pages. *)
EXTENDS ProjectArchive, ProjectNames, ClientStore, Watchlist, OrderLemmas,
        FunctionTheorems, SequenceTheorems

-----------------------------------------------------------------------------
(* Archiving and restoring *)

AMove == [kind : {"archive", "restore"}, step : {"document", "registry"},
          project : ProjectIds, alone : BOOLEAN]

(* Types, without the restriction of what is a subset of what. *)
ArchiveTypeInv ==
    /\ archived \in [ProjectIds -> BOOLEAN]
    /\ documents \in [ProjectIds -> Document]
    /\ moves \in [Movers -> Move]

(* A request that is alone is the only one of its project, and has left in the
   document what it will record; a project that is not muddled has at most such
   a request, or agrees with its document. *)
Agreeing ==
    /\ \A p \in ProjectIds : \A n \in Moves(p) : moves[n].alone =>
          /\ Moves(p) = {n}
          /\ moves[n].step = "registry" => documents[p].archived = (moves[n].kind = "archive")
    /\ \A p \in ProjectIds \ muddled : \A n \in Moves(p) : moves[n].alone
    /\ DocumentsAgree

(* While a project is archived once, the flags kept are those from before. *)
FlagsKept == \A p \in ProjectIds :
            documents[p].archived /\ p \notin again => documents[p].stored = before[p]

ArchiveInv == ArchiveTypeInv /\ Agreeing /\ FlagsKept /\ before \in [ProjectIds -> Flags]

-----------------------------------------------------------------------------
LEMMA MoveCases == Move = {NoMove} \cup AMove
  BY DEF Move, AMove

LEMMA NoMoveIsNone == NoMove \notin AMove
  BY DEF NoMove, AMove

LEMMA ArchiveInitially == InitArchive => ArchiveInv
<1>. SUFFICES ASSUME InitArchive PROVE ArchiveInv
  OBVIOUS
<1>1. ArchiveTypeInv
  BY DEF InitArchive, ArchiveTypeInv, Document, Flags, Move
<1>2. \A m \in Movers : moves[m] = NoMove
  BY DEF InitArchive
<1>3. \A p \in ProjectIds : archived[p] = FALSE /\ documents[p].archived = FALSE
  BY DEF InitArchive
<1>4. Agreeing
  BY <1>2, <1>3 DEF Agreeing, Moves, DocumentsAgree
<1>5. FlagsKept /\ before \in [ProjectIds -> Flags]
  BY <1>3 DEF InitArchive, FlagsKept, Flags
<1>. QED BY <1>1, <1>4, <1>5 DEF ArchiveInv

(* What a request leaves alone: the flags kept follow the document. *)
LEMMA ArchiveBeginKeeps ==
  ASSUME ArchiveInv, NEW m \in Movers, NEW p \in ProjectIds, NEW kind \in {"archive", "restore"},
         BeginMove(m, p, kind)
  PROVE  ArchiveInv'
<1>. DEFINE fresh == [kind |-> kind, step |-> "document", project |-> p,
                      alone |-> Moves(p) = {}]
<1>1. /\ moves[m] = NoMove
      /\ \A n \in Movers : moves'[n] = IF n = m THEN fresh
                           ELSE IF n \in Moves(p) THEN [moves[n] EXCEPT !.alone = FALSE]
                           ELSE moves[n]
      /\ UNCHANGED <<archived, documents, before, again>>
      /\ moves' = [n \in Movers |-> moves'[n]]
  BY DEF BeginMove
<1>2. fresh \in AMove /\ fresh.step = "document" /\ fresh.project = p
  BY DEF AMove
<1>0. fresh.alone = (Moves(p) = {})
  BY Zenon
<1>. HIDE DEF fresh
<1>3. \A n \in Moves(p) : moves[n] \in AMove /\ moves[n].project = p
  BY MoveCases DEF Moves, ArchiveInv, ArchiveTypeInv
<1>4. \A n \in Moves(p) : LET a == [moves[n] EXCEPT !.alone = FALSE] IN
         /\ a \in AMove /\ a.alone = FALSE /\ a.project = p
  BY <1>3 DEF AMove
<1>5. ArchiveTypeInv'
  <2>1. \A n \in Movers : moves'[n] \in Move
    BY <1>1, <1>2, <1>4, MoveCases DEF ArchiveInv, ArchiveTypeInv
  <2>. QED BY <1>1, <2>1 DEF ArchiveInv, ArchiveTypeInv
<1>6. \A q \in ProjectIds : Moves(q)' = IF q = p THEN Moves(p) \cup {m} ELSE Moves(q)
  <2>1. \A n \in Movers : moves'[n] # NoMove <=> (n = m \/ moves[n] # NoMove)
    BY <1>1, <1>2, <1>4, NoMoveIsNone DEF Moves
  <2>2. \A n \in Movers : n # m => moves'[n].project = moves[n].project
    <3>. SUFFICES ASSUME NEW n \in Movers, n # m PROVE moves'[n].project = moves[n].project
      OBVIOUS
    <3>1. CASE n \in Moves(p)
      <4>1. moves'[n] = [moves[n] EXCEPT !.alone = FALSE]
        BY <1>1, <3>1
      <4>2. moves'[n].project = p
        BY <1>4, <3>1, <4>1
      <4>. QED BY <1>3, <3>1, <4>2
    <3>2. CASE n \notin Moves(p)
      BY <1>1, <3>2
    <3>. QED BY <3>1, <3>2
  <2>3. moves'[m].project = p
    BY <1>1, <1>2
  <2>4. \A q \in ProjectIds : \A n \in Movers :
           n \in Moves(q)' <=> n \in (IF q = p THEN Moves(p) \cup {m} ELSE Moves(q))
    BY <1>1, <2>1, <2>2, <2>3 DEF Moves
  <2>. QED BY <2>4 DEF Moves
<1>7. muddled' = IF Moves(p) = {} THEN muddled ELSE muddled \cup {p}
  BY DEF BeginMove
<1>8. \A q \in ProjectIds : \A n \in Moves(q)' : moves'[n].alone =>
          /\ Moves(q)' = {n}
          /\ moves'[n].step = "registry" =>
                documents'[q].archived = (moves'[n].kind = "archive")
  <2>. SUFFICES ASSUME NEW q \in ProjectIds, NEW n \in Moves(q)', moves'[n].alone
                PROVE  /\ Moves(q)' = {n}
                       /\ moves'[n].step = "registry" =>
                             documents'[q].archived = (moves'[n].kind = "archive")
    OBVIOUS
  <2>1. CASE n = m
    <3>1. moves'[n] = fresh
      BY <1>1, <2>1
    <3>2. moves'[n].step = "document" /\ Moves(p) = {} /\ moves'[n].project = p
      BY <1>2, <1>0, <3>1
    <3>3. q = p
      BY <3>2 DEF Moves
    <3>. QED BY <1>6, <2>1, <3>2, <3>3
  <2>2. CASE n # m
    <3>1. n \in Movers /\ n \notin Moves(p) /\ moves'[n] = moves[n]
      BY <1>1, <1>4, <2>2 DEF Moves
    <3>2. q # p
      BY <1>6, <2>2, <3>1
    <3>3. n \in Moves(q) /\ Moves(q)' = Moves(q)
      BY <1>6, <3>2
    <3>. QED BY <1>1, <3>1, <3>3 DEF ArchiveInv, Agreeing
  <2>. QED BY <2>1, <2>2
<1>9. \A q \in ProjectIds \ muddled' : \A n \in Moves(q)' : moves'[n].alone
  <2>. SUFFICES ASSUME NEW q \in ProjectIds, q \notin muddled', NEW n \in Moves(q)'
                PROVE  moves'[n].alone
    OBVIOUS
  <2>1. CASE q = p
    <3>1. Moves(p) = {}
      BY <1>7, <2>1
    <3>2. n = m /\ moves'[m] = fresh
      BY <1>1, <1>6, <2>1, <3>1
    <3>. QED BY <1>0, <3>1, <3>2
  <2>2. CASE q # p
    <3>1. n \in Moves(q) /\ q \notin muddled /\ n \in Movers
      BY <1>6, <1>7, <2>2 DEF Moves
    <3>2. n # m /\ n \notin Moves(p)
      BY <1>1, <2>2, <3>1 DEF Moves
    <3>. QED BY <1>1, <3>1, <3>2 DEF ArchiveInv, Agreeing
  <2>. QED BY <2>1, <2>2
<1>10. DocumentsAgree'
  <2>1. \A q \in ProjectIds : q \notin muddled' /\ Moves(q)' = {}
           => q \notin muddled /\ Moves(q) = {}
    BY <1>6, <1>7
  <2>. QED BY <1>1, <2>1 DEF ArchiveInv, Agreeing, DocumentsAgree
<1>11. FlagsKept' /\ before' \in [ProjectIds -> Flags]
  BY <1>1 DEF ArchiveInv, FlagsKept
<1>12. Agreeing'
  BY <1>8, <1>9, <1>10 DEF Agreeing
<1>. QED BY <1>5, <1>11, <1>12 DEF ArchiveInv

(* A step that leaves the requests and the muddle alone and the archive marks
   with them keeps what Agreeing says. *)
LEMMA FlagsKeep ==
  ASSUME ArchiveInv, NEW p \in ProjectIds, NEW flag \in Flags, SetFlags(p, flag)
  PROVE  ArchiveInv'
<1>1. /\ UNCHANGED <<archived, moves, muddled, before, again>>
      /\ documents' \in [ProjectIds -> Document]
      /\ \A q \in ProjectIds : /\ documents'[q].archived = documents[q].archived
                              /\ documents'[q].stored = documents[q].stored
  BY DEF SetFlags, ArchiveInv, ArchiveTypeInv, Document
<1>2. ArchiveTypeInv'
  BY <1>1 DEF ArchiveInv, ArchiveTypeInv
<1>3. \A q \in ProjectIds : Moves(q)' = Moves(q)
  BY <1>1 DEF Moves
<1>4. Agreeing'
  <2>1. \A m \in Movers : moves[m] # NoMove => moves[m].project \in ProjectIds
    BY MoveCases DEF ArchiveInv, ArchiveTypeInv, AMove
  <2>. QED BY <1>1, <1>3, <2>1 DEF ArchiveInv, Agreeing, DocumentsAgree
<1>5. FlagsKept' /\ before' \in [ProjectIds -> Flags]
  BY <1>1 DEF ArchiveInv, FlagsKept
<1>. QED BY <1>2, <1>4, <1>5 DEF ArchiveInv

(* The two writes of the document. *)
LEMMA DocumentKeeps ==
  ASSUME ArchiveInv, NEW m \in Movers,
         pauseProjectForArchive(m) \/ resumeProjectAfterArchive(m)
  PROVE  ArchiveInv'
<1>. DEFINE p == moves[m].project
            archive == moves[m].kind = "archive"
<1>1. /\ moves[m] \in AMove /\ moves[m].step = "document"
      /\ moves' = [moves EXCEPT ![m].step = "registry"]
      /\ UNCHANGED <<archived, muddled>>
  BY MoveCases DEF pauseProjectForArchive, resumeProjectAfterArchive, NoMove, ArchiveInv, ArchiveTypeInv
<1>2. p \in ProjectIds /\ moves[m] # NoMove /\ m \in Moves(p)
  BY <1>1, NoMoveIsNone DEF AMove, Moves
<1>3. /\ moves'[m] \in AMove /\ moves'[m].step = "registry"
      /\ moves'[m].project = p /\ moves'[m].alone = moves[m].alone
      /\ moves'[m].kind = moves[m].kind
      /\ \A n \in Movers \ {m} : moves'[n] = moves[n]
  BY <1>1 DEF AMove, ArchiveInv, ArchiveTypeInv
<1>4. /\ documents' \in [ProjectIds -> Document]
      /\ documents'[p].archived = archive
      /\ \A q \in ProjectIds \ {p} : documents'[q] = documents[q]
  <2>1. CASE pauseProjectForArchive(m)
    BY <1>2, <2>1 DEF pauseProjectForArchive, ArchiveInv, ArchiveTypeInv, Document, Flags
  <2>2. CASE resumeProjectAfterArchive(m)
    BY <1>2, <2>2 DEF resumeProjectAfterArchive, ArchiveInv, ArchiveTypeInv, Document, Flags
  <2>. QED BY <2>1, <2>2
<1>5. ArchiveTypeInv'
  <2>1. \A n \in Movers : moves'[n] \in Move
    BY <1>3, MoveCases DEF ArchiveInv, ArchiveTypeInv
  <2>. QED BY <1>1, <1>4, <2>1 DEF ArchiveInv, ArchiveTypeInv
<1>6. \A q \in ProjectIds : Moves(q)' = Moves(q)
  <2>1. moves'[m] # NoMove
    BY <1>3, NoMoveIsNone
  <2>. QED BY <1>2, <1>3, <2>1 DEF Moves
<1>7. \A q \in ProjectIds : \A n \in Moves(q)' : moves'[n].alone =>
          /\ Moves(q)' = {n}
          /\ moves'[n].step = "registry" =>
                documents'[q].archived = (moves'[n].kind = "archive")
  <2>. SUFFICES ASSUME NEW q \in ProjectIds, NEW n \in Moves(q), moves'[n].alone
                PROVE  /\ Moves(q) = {n}
                       /\ moves'[n].step = "registry" =>
                             documents'[q].archived = (moves'[n].kind = "archive")
    BY <1>6
  <2>0. moves[n].alone /\ n \in Movers /\ moves[n].project = q
    BY <1>3 DEF Moves
  <2>1. Moves(q) = {n}
    BY <2>0 DEF ArchiveInv, Agreeing
  <2>2. CASE n = m
    BY <1>3, <1>4, <2>0, <2>1, <2>2
  <2>3. CASE n # m
    <3>1. q # p
      BY <1>2, <2>1, <2>3
    <3>. QED BY <1>3, <1>4, <2>0, <2>1, <2>3, <3>1 DEF ArchiveInv, Agreeing
  <2>. QED BY <2>2, <2>3
<1>8. \A q \in ProjectIds \ muddled' : \A n \in Moves(q)' : moves'[n].alone
  BY <1>1, <1>3, <1>6 DEF ArchiveInv, Agreeing, Moves
<1>9. DocumentsAgree'
  <2>1. \A q \in ProjectIds : q \notin muddled' /\ Moves(q)' = {} => q # p
    BY <1>2, <1>6
  <2>. QED BY <1>1, <1>4, <1>6, <2>1 DEF ArchiveInv, Agreeing, DocumentsAgree
<1>10. FlagsKept' /\ before' \in [ProjectIds -> Flags]
  <2>1. CASE pauseProjectForArchive(m)
    <3>1. /\ documents'[p].stored = documents[p].flag
          /\ documents[p].flag \in Flags
          /\ IF documents[p].archived
             THEN again' = again \cup {p} /\ UNCHANGED before
             ELSE again' = again \ {p} /\ before' = [before EXCEPT ![p] = documents[p].flag]
      BY <1>2, <2>1 DEF pauseProjectForArchive, ArchiveInv, ArchiveTypeInv, Document
    <3>. QED BY <1>2, <1>4, <3>1 DEF ArchiveInv, FlagsKept
  <2>2. CASE resumeProjectAfterArchive(m)
    <3>1. UNCHANGED <<before, again>> /\ documents'[p].archived = FALSE
      BY <1>2, <2>2 DEF resumeProjectAfterArchive, ArchiveInv, ArchiveTypeInv
    <3>. QED BY <1>4, <3>1 DEF ArchiveInv, FlagsKept
  <2>. QED BY <2>1, <2>2
<1>11. Agreeing'
  BY <1>7, <1>8, <1>9 DEF Agreeing
<1>. QED BY <1>5, <1>10, <1>11 DEF ArchiveInv

(* The write of the registry, or the end of a request before it. *)
LEMMA EndKeeps ==
  ASSUME ArchiveInv, NEW m \in Movers, RecordMove(m) \/ AbortMove(m)
  PROVE  ArchiveInv'
<1>. DEFINE p == moves[m].project
<1>1. /\ moves[m] \in AMove /\ moves' = [moves EXCEPT ![m] = NoMove]
      /\ UNCHANGED <<documents, before, again>>
  BY MoveCases DEF RecordMove, AbortMove, NoMove, ArchiveInv, ArchiveTypeInv
<1>2. p \in ProjectIds /\ moves[m] # NoMove /\ m \in Moves(p)
  BY <1>1, NoMoveIsNone DEF AMove, Moves
<1>3. moves'[m] = NoMove /\ \A n \in Movers \ {m} : moves'[n] = moves[n]
  BY DEF RecordMove, AbortMove, ArchiveInv, ArchiveTypeInv
<1>4. /\ archived' \in [ProjectIds -> BOOLEAN]
      /\ \A q \in ProjectIds \ {p} : archived'[q] = archived[q]
  BY <1>2 DEF RecordMove, AbortMove, ArchiveInv, ArchiveTypeInv
<1>5. ArchiveTypeInv'
  BY <1>1, <1>4 DEF ArchiveInv, ArchiveTypeInv, Move
<1>6. \A q \in ProjectIds : Moves(q)' = Moves(q) \ {m}
  BY <1>3 DEF Moves
<1>7. \A q \in ProjectIds : q # p => Moves(q)' = Moves(q)
  BY <1>6 DEF Moves
<1>8. \A q \in ProjectIds : q \notin muddled' => q \notin muddled \/ (q = p /\ moves[m].alone)
  BY DEF RecordMove, AbortMove
<1>9. \A q \in ProjectIds : \A n \in Moves(q)' : moves'[n].alone =>
          /\ Moves(q)' = {n}
          /\ moves'[n].step = "registry" =>
                documents'[q].archived = (moves'[n].kind = "archive")
  <2>. SUFFICES ASSUME NEW q \in ProjectIds, NEW n \in Moves(q) \ {m}, moves'[n].alone
                PROVE  /\ Moves(q) \ {m} = {n}
                       /\ moves'[n].step = "registry" =>
                             documents'[q].archived = (moves'[n].kind = "archive")
    BY <1>6
  <2>1. moves'[n] = moves[n]
    BY <1>3 DEF Moves
  <2>. QED BY <1>1, <2>1 DEF ArchiveInv, Agreeing
<1>10. \A q \in ProjectIds \ muddled' : \A n \in Moves(q)' : moves'[n].alone
  <2>. SUFFICES ASSUME NEW q \in ProjectIds, q \notin muddled', NEW n \in Moves(q)'
                PROVE  moves'[n].alone
    OBVIOUS
  <2>1. n \in Moves(q) /\ n # m /\ moves'[n] = moves[n]
    BY <1>3, <1>6 DEF Moves
  <2>2. q \notin muddled
    <3>1. CASE q = p /\ moves[m].alone
      <4>1. Moves(p) = {m}
        BY <1>2, <3>1 DEF ArchiveInv, Agreeing
      <4>. QED BY <2>1, <3>1, <4>1
    <3>. QED BY <1>8, <3>1
  <2>. QED BY <2>1, <2>2 DEF ArchiveInv, Agreeing
<1>11. DocumentsAgree'
  <2>. SUFFICES ASSUME NEW q \in ProjectIds, q \notin muddled', Moves(q)' = {}
                PROVE  archived'[q] = documents'[q].archived
    BY DEF DocumentsAgree
  <2>1. CASE q # p
    BY <1>1, <1>4, <1>7, <1>8, <2>1 DEF ArchiveInv, Agreeing, DocumentsAgree
  <2>2. CASE q = p
    <3>1. moves[m].alone
      BY <1>2, <1>8, <2>2 DEF ArchiveInv, Agreeing
    <3>2. RecordMove(m)
      BY <2>2 DEF RecordMove, AbortMove
    <3>3. archived'[p] = (moves[m].kind = "archive") /\ moves[m].step = "registry"
      BY <1>2, <3>2 DEF RecordMove, ArchiveInv, ArchiveTypeInv
    <3>. QED BY <1>1, <1>2, <2>2, <3>1, <3>3 DEF ArchiveInv, Agreeing
  <2>. QED BY <2>1, <2>2
<1>12. FlagsKept' /\ before' \in [ProjectIds -> Flags]
  BY <1>1 DEF ArchiveInv, FlagsKept
<1>13. Agreeing'
  BY <1>9, <1>10, <1>11 DEF Agreeing
<1>. QED BY <1>5, <1>12, <1>13 DEF ArchiveInv

LEMMA ArchiveKept == ArchiveInv /\ [NextArchive]_archiveVars => ArchiveInv'
<1>. SUFFICES ASSUME ArchiveInv, [NextArchive]_archiveVars PROVE ArchiveInv'
  OBVIOUS
<1>1. CASE UNCHANGED archiveVars
  BY <1>1 DEF archiveVars, ArchiveInv, ArchiveTypeInv, Agreeing, FlagsKept, DocumentsAgree, Moves
<1>2. CASE NextArchive
  <2>1. CASE \E m \in Movers, p \in ProjectIds : archiveProject(m, p) \/ restoreProject(m, p)
    BY <2>1, ArchiveBeginKeeps DEF archiveProject, restoreProject
  <2>2. CASE \E m \in Movers : \/ pauseProjectForArchive(m) \/ resumeProjectAfterArchive(m)
                              \/ RecordMove(m) \/ AbortMove(m)
    BY <2>2, DocumentKeeps, EndKeeps
  <2>3. CASE \E p \in ProjectIds, flag \in Flags : SetFlags(p, flag)
    BY <2>3, FlagsKeep
  <2>. QED BY <1>2, <2>1, <2>2, <2>3 DEF NextArchive
<1>. QED BY <1>1, <1>2

-----------------------------------------------------------------------------
(* Registry and document agree about every project as soon as one request of
   it has run alone, for any number of projects and requests. *)
THEOREM RegistryAgrees == SpecArchive => []DocumentsAgree
<1>1. ArchiveInv => DocumentsAgree
  BY DEF ArchiveInv, Agreeing
<1>. QED BY ArchiveInitially, ArchiveKept, <1>1, PTL DEF SpecArchive

(* A restore gives back the flags from before the archive. *)
THEOREM FlagsComeBack == SpecArchive => RestoreGivesBack
<1>. DEFINE GivesBack ==
        \A p \in ProjectIds :
          documents[p].archived /\ ~documents'[p].archived /\ p \notin again
              => documents'[p].flag = before[p]
<1>1. ArchiveInv /\ [NextArchive]_archiveVars => [GivesBack]_archiveVars
  <2>. SUFFICES ASSUME ArchiveInv, NextArchive, NEW p \in ProjectIds,
                       documents[p].archived, ~documents'[p].archived, p \notin again
                PROVE  documents'[p].flag = before[p]
    BY DEF archiveVars
  <2>1. documents[p].stored = before[p] /\ before[p] \in Flags
    BY DEF ArchiveInv, FlagsKept
  <2>2. PICK m \in Movers : resumeProjectAfterArchive(m) /\ moves[m].project = p
    <3>1. CASE \E m \in Movers, q \in ProjectIds : archiveProject(m, q) \/ restoreProject(m, q)
      BY <3>1 DEF archiveProject, restoreProject, BeginMove
    <3>2. CASE \E m \in Movers : RecordMove(m) \/ AbortMove(m)
      BY <3>2 DEF RecordMove, AbortMove
    <3>3. CASE \E q \in ProjectIds, flag \in Flags : SetFlags(q, flag)
      BY <3>3 DEF SetFlags, ArchiveInv, ArchiveTypeInv, Document
    <3>4. CASE \E m \in Movers : pauseProjectForArchive(m)
      BY <3>4 DEF pauseProjectForArchive, ArchiveInv, ArchiveTypeInv
    <3>5. CASE \E m \in Movers : resumeProjectAfterArchive(m)
      BY <3>5 DEF resumeProjectAfterArchive, ArchiveInv, ArchiveTypeInv
    <3>. QED BY <3>1, <3>2, <3>3, <3>4, <3>5 DEF NextArchive
  <2>3. documents[p].stored # "none"
    BY <2>1 DEF Flags
  <2>. QED BY <2>1, <2>2, <2>3 DEF resumeProjectAfterArchive, ArchiveInv, ArchiveTypeInv
<1>. QED BY ArchiveInitially, ArchiveKept, <1>1, PTL DEF SpecArchive, RestoreGivesBack

(* The model of the archive is type correct. *)
THEOREM ArchiveTyped == SpecArchive => []ArchiveTypeOK
<1>. DEFINE Sets == muddled \subseteq ProjectIds /\ again \subseteq ProjectIds
<1>1. InitArchive => Sets
  BY DEF InitArchive
<1>2. ArchiveInv /\ Sets /\ [NextArchive]_archiveVars => Sets'
  <2>. SUFFICES ASSUME ArchiveInv, Sets, [NextArchive]_archiveVars PROVE Sets'
    OBVIOUS
  <2>1. CASE UNCHANGED archiveVars
    BY <2>1 DEF archiveVars
  <2>2. ASSUME NEW m \in Movers, moves[m] # NoMove PROVE moves[m].project \in ProjectIds
    BY <2>2, MoveCases DEF ArchiveInv, ArchiveTypeInv, AMove
  <2>3. ASSUME NEW m \in Movers, pauseProjectForArchive(m) \/ resumeProjectAfterArchive(m)
        PROVE  Sets'
    BY <2>2, <2>3 DEF pauseProjectForArchive, resumeProjectAfterArchive, NoMove
  <2>4. ASSUME NEW m \in Movers, RecordMove(m) \/ AbortMove(m) PROVE Sets'
    BY <2>2, <2>4 DEF RecordMove, AbortMove
  <2>5. ASSUME NEW m \in Movers, NEW p \in ProjectIds, archiveProject(m, p) \/ restoreProject(m, p)
        PROVE  Sets'
    BY <2>5 DEF archiveProject, restoreProject, BeginMove
  <2>6. ASSUME NEW p \in ProjectIds, NEW flag \in Flags, SetFlags(p, flag) PROVE Sets'
    BY <2>6 DEF SetFlags
  <2>. QED BY <2>1, <2>3, <2>4, <2>5, <2>6 DEF NextArchive
<1>3. ArchiveInv /\ Sets => ArchiveTypeOK
  BY DEF ArchiveInv, ArchiveTypeInv, ArchiveTypeOK
<1>4. SpecArchive => []ArchiveInv
  BY ArchiveInitially, ArchiveKept, PTL DEF SpecArchive
<1>. HIDE DEF Sets
<1>. QED BY <1>1, <1>2, <1>3, <1>4, PTL DEF SpecArchive

-----------------------------------------------------------------------------
(* ProjectNames: whoever is about to create a project has it to itself, and the
   configured projects are in the registry from the first request on, so that
   nobody adds a name behind the back of a request that has compared it. *)
EditsTyped == /\ edits \in [Editors -> Edit]
              /\ \A p \in DOMAIN managed : managed[p] \in Names

BootstrappedFirst ==
    \/ DOMAIN managed = {} /\ \A e \in Editors : edits[e] = NoEdit
    \/ Configured \subseteq DOMAIN managed

RenamedIsThere ==
    \A e \in Editors : edits[e] # NoEdit /\ edits[e].kind = "rename"
                          => edits[e].project \in DOMAIN managed

NamesInv == EditsTyped /\ BootstrappedFirst /\ RenamedIsThere /\ NamesCollideByKeeping

LEMMA NoEditIsNone ==
  ASSUME NEW p, NEW n, NEW s, NEW k
  PROVE  [kind |-> k, project |-> p, name |-> n, seen |-> s] # NoEdit
<1>1. ASSUME [kind |-> k, project |-> p, name |-> n, seen |-> s] = NoEdit
      PROVE  FALSE
  <2>1. DOMAIN [kind |-> k, project |-> p, name |-> n, seen |-> s] = DOMAIN NoEdit
    BY <1>1
  <2>. QED BY <2>1 DEF NoEdit
<1>. QED BY <1>1

(* Reading the catalog adds only names that are the configured ones. *)
LEMMA BootstrapKeeps ==
  ASSUME BootstrappedFirst, NamesCollideByKeeping
  PROVE  /\ Configured \subseteq DOMAIN bootstrapped
         /\ \A p, q \in DOMAIN bootstrapped :
               p # q /\ bootstrapped[p] = bootstrapped[q] => p \in kept \/ q \in kept
<1>1. CASE DOMAIN managed = {}
  BY <1>1, NamesAssumption DEF bootstrapped
<1>2. CASE Configured \subseteq DOMAIN managed
  BY <1>2 DEF bootstrapped, NamesCollideByKeeping
<1>. QED BY <1>1, <1>2 DEF BootstrappedFirst

LEMMA NamesBeginKeeps ==
  ASSUME NamesInv, NEW e \in Editors, NEW edit \in Edit, edit # NoEdit, BeginEdit(e, edit),
         edit.kind = "rename" => edit.project \in DOMAIN bootstrapped
  PROVE  NamesInv'
<1>2. managed' = bootstrapped /\ kept' = kept
  BY DEF BeginEdit
<1>0. \A p \in DOMAIN bootstrapped : bootstrapped[p] \in Names
  BY NamesAssumption DEF bootstrapped, NamesInv, EditsTyped
<1>1. EditsTyped'
  BY <1>0, <1>2 DEF NamesInv, EditsTyped, BeginEdit
<1>3. /\ Configured \subseteq DOMAIN managed'
      /\ \A p, q \in DOMAIN managed' :
            p # q /\ managed'[p] = managed'[q] => p \in kept \/ q \in kept
  BY <1>2, BootstrapKeeps DEF NamesInv
<1>4. NamesCollideByKeeping'
  BY <1>2, <1>3 DEF NamesCollideByKeeping
<1>5. DOMAIN managed \subseteq DOMAIN managed'
  BY <1>2 DEF bootstrapped
<1>6. RenamedIsThere'
  BY <1>2, <1>5 DEF RenamedIsThere, BeginEdit, NamesInv, EditsTyped
<1>. QED BY <1>1, <1>3, <1>4, <1>6 DEF NamesInv, BootstrappedFirst

(* A name that is recorded is nobody's, or it is the one its request had read. *)
LEMMA RecordKeeps ==
  ASSUME NamesInv, NEW e \in Editors, RecordName(e)
  PROVE  NamesInv'
<1>. DEFINE edit == edits[e]
            p == edit.project
<1>1. edit \in Edit /\ edit # NoEdit
  BY DEF RecordName, NamesInv, EditsTyped
<1>2. /\ edit.kind \in {"create", "rename"} /\ p \in Projects /\ edit.name \in Names
  BY <1>1 DEF Edit
<1>3. EditsTyped'
  BY DEF RecordName, NamesInv, EditsTyped, Edit
<1>4. Configured \subseteq DOMAIN managed
  BY <1>1, Zenon DEF NamesInv, BootstrappedFirst
<1>5. CASE taken(edit)
  <2>1. managed' = managed /\ kept' = kept
    BY <1>5 DEF RecordName
  <2>2. RenamedIsThere'
    BY <1>1, <2>1 DEF RenamedIsThere, NamesInv, RecordName, EditsTyped
  <2>. QED BY <1>3, <1>4, <2>1, <2>2 DEF NamesInv, BootstrappedFirst, NamesCollideByKeeping
<1>6. CASE ~taken(edit)
  <2>1. /\ managed' = [q \in DOMAIN managed \cup {p} |->
                          IF q = p THEN edit.name ELSE managed[q]]
        /\ kept' = IF edit.kind = "create" \/ edit.name # edit.seen
                    THEN kept \ {p}
                    ELSE IF managed[p] = edit.name THEN kept
                    ELSE kept \cup {p}
    BY <1>6 DEF RecordName
  <2>2. BootstrappedFirst' /\ RenamedIsThere'
    BY <1>1, <1>4, <2>1 DEF BootstrappedFirst, RenamedIsThere, NamesInv, RecordName, EditsTyped
  <2>3. \A q \in DOMAIN managed : managed[q] \in allNames
    BY DEF allNames, bootstrapped
  <2>4. CASE edit.kind = "create" \/ edit.name # edit.seen
    <3>1. edit.name \notin allNames
      BY <1>2, <1>6, <2>4 DEF taken
    <3>2. kept' = kept \ {p}
      BY <2>1, <2>4
    <3>3. NamesCollideByKeeping'
      BY <2>1, <2>3, <3>1, <3>2 DEF NamesInv, NamesCollideByKeeping
    <3>. QED BY <1>3, <2>2, <3>3 DEF NamesInv
  <2>5. CASE ~(edit.kind = "create" \/ edit.name # edit.seen)
    <3>1. kept' = IF managed[p] = edit.name THEN kept ELSE kept \cup {p}
      BY <2>1, <2>5
    <3>2. p \in DOMAIN managed
      BY <1>1, <1>2, <2>5 DEF NamesInv, RenamedIsThere
    <3>3. NamesCollideByKeeping'
      BY <2>1, <3>1, <3>2 DEF NamesInv, NamesCollideByKeeping
    <3>. QED BY <1>3, <2>2, <3>3 DEF NamesInv
  <2>. QED BY <2>4, <2>5
<1>. QED BY <1>5, <1>6

(* Two projects share a name only when one of them was given it by a rename
   that keeps a name another request had replaced, whatever the requests of
   however many administrators do side by side. *)
THEOREM NamesCollide == SpecNames => []NamesCollideByKeeping
<1>1. InitNames => NamesInv
  BY DEF InitNames, NamesInv, EditsTyped, Edit, BootstrappedFirst, RenamedIsThere,
         NamesCollideByKeeping
<1>2. NamesInv /\ [NextNames]_nameVars => NamesInv'
  <2>. SUFFICES ASSUME NamesInv, [NextNames]_nameVars PROVE NamesInv'
    OBVIOUS
  <2>1. ASSUME NEW e \in Editors, NEW p \in Projects, NEW name \in Names,
               createManagedProject(e, p, name)
        PROVE  NamesInv'
    <3>. DEFINE edit == [kind |-> "create", project |-> p, name |-> name, seen |-> name]
    <3>1. edit \in Edit /\ edit # NoEdit /\ edit.kind = "create"
      BY NoEditIsNone DEF Edit
    <3>. QED BY <2>1, <3>1, NamesBeginKeeps DEF createManagedProject
  <2>2. ASSUME NEW e \in Editors, NEW p \in Projects, NEW name \in Names,
               renameProject(e, p, name)
        PROVE  NamesInv'
    <3>. DEFINE edit == [kind |-> "rename", project |-> p, name |-> name,
                         seen |-> bootstrapped[p]]
    <3>1. bootstrapped[p] \in Names
      BY <2>2, NamesAssumption DEF renameProject, bootstrapped, NamesInv, EditsTyped
    <3>2. edit \in Edit /\ edit # NoEdit /\ edit.project \in DOMAIN bootstrapped
      BY <2>2, <3>1, NoEditIsNone DEF Edit, renameProject
    <3>. QED BY <2>2, <3>2, NamesBeginKeeps DEF renameProject
  <2>3. ASSUME NEW e \in Editors, AbortEdit(e) PROVE NamesInv'
    BY <2>3 DEF AbortEdit, NamesInv, EditsTyped, Edit, BootstrappedFirst,
                RenamedIsThere, NamesCollideByKeeping
  <2>4. CASE UNCHANGED nameVars
    BY <2>4 DEF nameVars, NamesInv, EditsTyped, BootstrappedFirst, RenamedIsThere,
                NamesCollideByKeeping
  <2>. QED BY <2>1, <2>2, <2>3, <2>4, RecordKeeps DEF NextNames
<1>3. NamesInv => NamesCollideByKeeping
  BY DEF NamesInv
<1>. QED BY <1>1, <1>2, <1>3, PTL DEF SpecNames

-----------------------------------------------------------------------------
(* ClientStore *)
Views == [of : Accessible, has : SUBSET Changes, active : BOOLEAN]
Requests == [project : Accessible, answer : {"none", "state", "failed"}, state : Views]
Queued == [change : Changes, prev : Views, sequence : Nat, request : Requests]

ClientTypeOK ==
    /\ served \in [Accessible -> [saved : SUBSET Changes, active : BOOLEAN]]
    /\ shown \in Views
    /\ projectId \in Accessible
    /\ rendered \in [of : Accessible, active : BOOLEAN]
    /\ queue \in Seq(Queued)
    /\ mutationSequence \in Nat
    /\ switching \subseteq Requests /\ running \subseteq Requests /\ poller \subseteq Requests
    /\ astray \in BOOLEAN /\ overtaken \in BOOLEAN /\ unanswered \in BOOLEAN /\ slipped \in BOOLEAN

(* A switch is under way for another project than the one on screen, and what
   it brings is of that project. *)
SwitchInv ==
    \A r \in switching :
        /\ rendered.of = projectId
        /\ r.project # projectId
        /\ r.answer = "state" => r.state.of = r.project

(* The changes are answered in the order they were made, each but the oldest
   still to be sent; nobody else saves while the oldest waits for its answer. *)
QueueInv ==
    /\ \A i \in DOMAIN queue : queue[i].sequence <= mutationSequence
    /\ \A i, j \in DOMAIN queue : i < j =>
          /\ queue[i].sequence < queue[j].sequence
          /\ queue[i].change # queue[j].change
    /\ \A i \in DOMAIN queue :
          /\ i # 1 => queue[i].request.answer = "none"
          /\ queue[i].request.answer = "state" =>
                /\ queue[i].request.state.of = queue[i].request.project
                /\ queue[i].request.state.has = served[queue[i].request.project].saved

(* The change that was made last was made on the project selected, and no
   switch has begun since: only its answer is put on screen. *)
IsNewest(i) == queue[i].sequence = mutationSequence

LastInv ==
    \A i \in DOMAIN queue : IsNewest(i) =>
        /\ switching = {}
        /\ queue[i].request.project = projectId
        /\ queue[i].prev.of = projectId \/ astray

(* What is saved or on its way is on screen, and was before the last change. *)
ScreenInv ==
    ~astray /\ ~overtaken /\ ~unanswered =>
        /\ served[projectId].saved \cup Underway(projectId) \subseteq shown.has
        /\ \A i \in DOMAIN queue :
              IsNewest(i) /\ queue[i].request.answer # "state" =>
                 served[projectId].saved \cup (Underway(projectId) \ {queue[i].change})
                     \subseteq queue[i].prev.has

ClientInv == ClientTypeOK /\ SwitchInv /\ QueueInv /\ LastInv /\ ChangeStaysHome /\ ScreenInv /\ ActiveIsPolled

-----------------------------------------------------------------------------
SameSaved == \A p \in Accessible : served'[p].saved = served[p].saved

LEMMA UnderwayIs ==
  ASSUME NEW p, NEW c
  PROVE  c \in Underway(p) <=> \E i \in DOMAIN queue : queue[i].request.project = p /\ queue[i].change = c
BY DEF Underway

LEMMA QueueTyped ==
  ASSUME ClientTypeOK
  PROVE  /\ Len(queue) \in Nat /\ DOMAIN queue = 1..Len(queue)
         /\ \A i \in DOMAIN queue : /\ queue[i] \in Queued
                                    /\ queue[i].change \in Changes
                                    /\ queue[i].request \in Requests
                                    /\ queue[i].sequence \in Nat
                                    /\ queue[i].prev \in Views
<1>1. Len(queue) \in Nat /\ DOMAIN queue = 1..Len(queue)
  BY LenProperties DEF ClientTypeOK
<1>2. ASSUME NEW i \in DOMAIN queue PROVE queue[i] \in Queued
  BY <1>1, <1>2, ElementOfSeq DEF ClientTypeOK
<1>. QED BY <1>1, <1>2 DEF Queued

(* A step that leaves the queue alone and what is saved. *)
LEMMA QueueKept ==
  ASSUME ClientTypeOK, QueueInv, queue' = queue, mutationSequence' \in Nat,
         mutationSequence' >= mutationSequence, SameSaved
  PROVE  QueueInv'
<1>1. \A i \in DOMAIN queue : queue[i].sequence \in Nat /\ queue[i].request.project \in Accessible
  BY QueueTyped DEF Requests
<1>. QED BY <1>1 DEF QueueInv, SameSaved, ClientTypeOK

LEMMA UnderwayKept ==
  ASSUME queue' = queue, NEW p
  PROVE  Underway(p)' = Underway(p)
BY DEF Underway

LEMMA ScreenKept ==
  ASSUME ClientTypeOK, ScreenInv, queue' = queue, shown' = shown, projectId' = projectId,
         mutationSequence' = mutationSequence, SameSaved,
         astray' = astray, overtaken' = overtaken, unanswered' = unanswered
  PROVE  ScreenInv'
<1>1. Underway(projectId)' = Underway(projectId)
  BY DEF Underway
<1>2. served'[projectId'].saved = served[projectId].saved
  BY DEF SameSaved, ClientTypeOK
<1>. QED BY <1>1, <1>2 DEF ScreenInv, IsNewest

(* A read that nothing guards: it puts what is saved and on its way on screen,
   or says that it does not. *)
LEMMA ReadKeeps ==
  ASSUME ClientInv, NEW next \in Views, ApplyRead(next),
         queue' = queue, served' = served, mutationSequence' = mutationSequence,
         unanswered' = unanswered, projectId' \in Accessible,
         projectId' = projectId \/ switching # {}
  PROVE  /\ ChangeStaysHome' /\ ScreenInv'
         /\ shown' \in Views /\ astray' \in BOOLEAN /\ overtaken' \in BOOLEAN
         /\ (astray => astray')
<1>1. /\ shown' = next
      /\ astray' = (astray \/ next.of # projectId')
      /\ overtaken' = (overtaken \/ ~(served[next.of].saved \cup Underway(next.of)) \subseteq next.has)
  BY DEF ApplyRead
<1>2. astray' \in BOOLEAN /\ overtaken' \in BOOLEAN /\ (astray => astray') /\ (overtaken => overtaken')
  BY <1>1 DEF ClientInv, ClientTypeOK
<1>3. ChangeStaysHome'
  BY <1>1 DEF ChangeStaysHome
<1>4. ASSUME ~astray', ~overtaken', ~unanswered'
      PROVE  served'[projectId'].saved \cup Underway(projectId)' \subseteq shown'.has
  <2>1. next.of = projectId'
    BY <1>1, <1>4
  <2>2. Underway(projectId)' = Underway(next.of)
    BY <2>1 DEF Underway
  <2>. QED BY <1>1, <1>4, <2>1, <2>2
<1>5. ASSUME ~astray', ~overtaken', ~unanswered', NEW i \in DOMAIN queue', IsNewest(i)',
             queue'[i].request.answer # "state"
      PROVE  served'[projectId'].saved \cup (Underway(projectId)' \ {queue'[i].change})
                \subseteq queue'[i].prev.has
  <2>1. IsNewest(i) /\ i \in DOMAIN queue
    BY <1>5 DEF IsNewest
  <2>2. projectId' = projectId
    BY <2>1 DEF ClientInv, LastInv
  <2>3. Underway(projectId)' = Underway(projectId)
    BY <2>2 DEF Underway
  <2>. QED BY <1>2, <1>5, <2>1, <2>2, <2>3 DEF ClientInv, ScreenInv
<1>6. ScreenInv'
  BY <1>4, <1>5 DEF ScreenInv
<1>. QED BY <1>1, <1>2, <1>3, <1>6

-----------------------------------------------------------------------------
(* Steps that change neither the queue nor what is on screen. *)
LEMMA SwitchProjectKeeps ==
  ASSUME ClientInv, NEW p \in Accessible, SwitchProject(p)
  PROVE  ClientInv'
<1>1. ClientTypeOK'
  BY DEF ClientInv, ClientTypeOK, SwitchProject, Request, View, Requests, Views
<1>2. SwitchInv'
  BY DEF SwitchProject, SwitchInv, Request
<1>3. QueueInv'
  BY QueueKept DEF SwitchProject, SameSaved, ClientInv, ClientTypeOK
<1>4. \A i \in DOMAIN queue : ~IsNewest(i)'
  <2>1. \A i \in DOMAIN queue : queue[i].sequence \in Nat /\ queue[i].sequence <= mutationSequence
    BY QueueTyped DEF ClientInv, QueueInv
  <2>. QED BY <2>1 DEF SwitchProject, IsNewest, ClientInv, ClientTypeOK
<1>5. LastInv' /\ ChangeStaysHome' /\ ActiveIsPolled'
  BY <1>4 DEF SwitchProject, LastInv, ChangeStaysHome, ActiveIsPolled, ClientInv
<1>6. ScreenInv'
  <2>1. Underway(projectId)' = Underway(projectId)
    BY DEF Underway, SwitchProject
  <2>. QED BY <1>4, <2>1 DEF SwitchProject, ScreenInv, ClientInv
<1>. QED BY <1>1, <1>2, <1>3, <1>5, <1>6 DEF ClientInv

LEMMA QuietKeeps ==
  ASSUME ClientInv, ClientTypeOK', SwitchInv', ActiveIsPolled',
         queue' = queue, shown' = shown, projectId' = projectId,
         mutationSequence' = mutationSequence, SameSaved,
         switching = {} => switching' = {},
         astray' = astray, overtaken' = overtaken, unanswered' = unanswered
  PROVE  ClientInv'
<1>1. QueueInv'
  BY QueueKept DEF ClientInv, ClientTypeOK
<1>2. ScreenInv'
  BY ScreenKept DEF ClientInv
<1>3. LastInv' /\ ChangeStaysHome'
  BY DEF ClientInv, LastInv, ChangeStaysHome, IsNewest
<1>. QED BY <1>1, <1>2, <1>3 DEF ClientInv

LEMMA HandleSwitchKeeps ==
  ASSUME ClientInv, HandleSwitch
  PROVE  ClientInv'
<1>1. PICK r \in switching : switching' = {Read(r, StateOf(r.project))} \/ switching' = {Fail(r)}
  BY DEF HandleSwitch
<1>2. r \in Requests
  BY DEF ClientInv, ClientTypeOK
<1>3. StateOf(r.project) \in Views /\ StateOf(r.project).of = r.project
  BY <1>2 DEF StateOf, View, Views, Requests, ClientInv, ClientTypeOK
<1>4. /\ Read(r, StateOf(r.project)) \in Requests /\ Read(r, StateOf(r.project)).project = r.project
      /\ Read(r, StateOf(r.project)).state = StateOf(r.project)
  BY <1>2, <1>3 DEF Read, Requests
<1>5. /\ Fail(r) \in Requests /\ Fail(r).project = r.project /\ Fail(r).answer = "failed"
  BY <1>2 DEF Fail, Requests
<1>6. ClientTypeOK'
  BY <1>1, <1>4, <1>5 DEF HandleSwitch, ClientInv, ClientTypeOK
<1>7. SwitchInv'
  BY <1>1, <1>3, <1>4, <1>5 DEF HandleSwitch, ClientInv, SwitchInv
<1>8. ActiveIsPolled' /\ SameSaved
  BY DEF HandleSwitch, ClientInv, ActiveIsPolled, SameSaved
<1>. QED BY <1>1, <1>6, <1>7, <1>8, QuietKeeps DEF HandleSwitch

LEMMA RunPageKeeps ==
  ASSUME ClientInv, RunPage
  PROVE  ClientInv'
<1>1. ClientTypeOK'
  BY DEF ClientInv, ClientTypeOK, RunPage, Request, View, Requests, Views
<1>2. SwitchInv' /\ ActiveIsPolled' /\ SameSaved
  BY DEF RunPage, ClientInv, SwitchInv, ActiveIsPolled, SameSaved
<1>. QED BY <1>1, <1>2, QuietKeeps DEF RunPage

LEMMA HandleRunKeeps ==
  ASSUME ClientInv, HandleRun
  PROVE  ClientInv'
<1>1. PICK r \in running :
          /\ served' = [served EXCEPT ![r.project].active = TRUE]
          /\ running' = {Read(r, View(r.project, served[r.project].saved, TRUE))}
  BY DEF HandleRun
<1>2. r \in Requests
  BY DEF ClientInv, ClientTypeOK
<1>3. Read(r, View(r.project, served[r.project].saved, TRUE)) \in Requests
  BY <1>2 DEF Read, View, Views, Requests, ClientInv, ClientTypeOK
<1>4. served' \in [Accessible -> [saved : SUBSET Changes, active : BOOLEAN]] /\ SameSaved
  BY <1>1, <1>2 DEF ClientInv, ClientTypeOK, SameSaved, Requests
<1>5. ClientTypeOK'
  BY <1>1, <1>3, <1>4 DEF HandleRun, ClientInv, ClientTypeOK
<1>6. SwitchInv' /\ ActiveIsPolled'
  BY DEF HandleRun, ClientInv, SwitchInv, ActiveIsPolled
<1>. QED BY <1>4, <1>5, <1>6, QuietKeeps DEF HandleRun

LEMMA CollectionEndsKeeps ==
  ASSUME ClientInv, NEW p \in Accessible, CollectionEnds(p)
  PROVE  ClientInv'
<1>1. served' \in [Accessible -> [saved : SUBSET Changes, active : BOOLEAN]] /\ SameSaved
  BY DEF CollectionEnds, ClientInv, ClientTypeOK, SameSaved
<1>2. ClientTypeOK'
  BY <1>1 DEF CollectionEnds, ClientInv, ClientTypeOK
<1>3. SwitchInv' /\ ActiveIsPolled'
  BY DEF CollectionEnds, ClientInv, SwitchInv, ActiveIsPolled
<1>. QED BY <1>1, <1>2, <1>3, QuietKeeps DEF CollectionEnds

(* An effect that runs starts a loop when a collection is active. *)
LEMMA RenderKeeps ==
  ASSUME ClientInv, Render
  PROVE  ClientInv'
<1>1. /\ rendered' = [of |-> projectId, active |-> shown.active]
      /\ poller' = IF shown.active THEN {Request(projectId)} ELSE {}
      /\ shown' = shown /\ projectId' = projectId
  BY DEF Render
<1>2. Request(projectId) \in Requests
  BY DEF Request, View, Views, Requests, ClientInv, ClientTypeOK
<1>3. rendered' \in [of : Accessible, active : BOOLEAN]
  BY <1>1 DEF ClientInv, ClientTypeOK, Views
<1>4. ClientTypeOK'
  BY <1>1, <1>2, <1>3 DEF Render, ClientInv, ClientTypeOK
<1>5. SwitchInv' /\ ActiveIsPolled' /\ SameSaved
  BY <1>1 DEF Render, ClientInv, SwitchInv, ActiveIsPolled, SameSaved
<1>. QED BY <1>4, <1>5, QuietKeeps DEF Render

LEMMA HandlePollKeeps ==
  ASSUME ClientInv, HandlePoll
  PROVE  ClientInv'
<1>1. PICK r \in poller : poller' = {Read(r, StateOf(r.project))} \/ poller' = {Fail(r)}
  BY DEF HandlePoll
<1>2. r \in Requests
  BY DEF ClientInv, ClientTypeOK
<1>3. StateOf(r.project) \in Views
  BY <1>2 DEF StateOf, View, Views, Requests, ClientInv, ClientTypeOK
<1>4. Read(r, StateOf(r.project)) \in Requests /\ Fail(r) \in Requests
  BY <1>2, <1>3 DEF Read, Fail, Requests
<1>5. ClientTypeOK'
  BY <1>1, <1>4 DEF HandlePoll, ClientInv, ClientTypeOK
<1>6. SwitchInv' /\ ActiveIsPolled' /\ SameSaved
  BY <1>1 DEF HandlePoll, ClientInv, SwitchInv, ActiveIsPolled, SameSaved
<1>. QED BY <1>5, <1>6, QuietKeeps DEF HandlePoll

-----------------------------------------------------------------------------
(* Steps that bring a read. *)
LEMMA AnswerSwitchKeeps ==
  ASSUME ClientInv, AnswerSwitch
  PROVE  ClientInv'
<1>. /\ queue' = queue /\ served' = served /\ mutationSequence' = mutationSequence
     /\ switching' = {} /\ rendered' = rendered /\ running' = running /\ poller' = poller
     /\ unanswered' = unanswered /\ slipped' = slipped
  BY DEF AnswerSwitch
<1>1. SwitchInv' /\ SameSaved
  BY DEF SwitchInv, SameSaved
<1>2. CASE \E r \in switching : UNCHANGED <<projectId, shown, astray, overtaken>>
  <2>1. ClientTypeOK' /\ ActiveIsPolled'
    BY <1>2 DEF ClientInv, ClientTypeOK, ActiveIsPolled
  <2>. QED BY <1>1, <1>2, <2>1, QuietKeeps
<1>3. CASE \E r \in switching : r.answer = "state" /\ projectId' = r.project /\ ApplyRead(r.state)
  <2>1. PICK r \in switching : r.answer = "state" /\ projectId' = r.project /\ ApplyRead(r.state)
    BY <1>3
  <2>2. /\ r.project \in Accessible /\ r.state \in Views
        /\ r.project # projectId /\ rendered.of = projectId
    BY <2>1 DEF ClientInv, ClientTypeOK, SwitchInv, Requests
  <2>3. /\ ChangeStaysHome' /\ ScreenInv'
        /\ shown' \in Views /\ astray' \in BOOLEAN /\ overtaken' \in BOOLEAN
    BY <2>1, <2>2, ReadKeeps
  <2>4. ClientTypeOK'
    BY <2>1, <2>2, <2>3 DEF ClientInv, ClientTypeOK
  <2>5. ActiveIsPolled'
    BY <2>1, <2>2 DEF ActiveIsPolled
  <2>6. QueueInv'
    BY <1>1, QueueKept DEF ClientInv, ClientTypeOK
  <2>7. LastInv'
    BY <2>1 DEF ClientInv, LastInv, IsNewest
  <2>. QED BY <1>1, <2>3, <2>4, <2>5, <2>6, <2>7 DEF ClientInv
<1>. QED BY <1>2, <1>3 DEF AnswerSwitch

LEMMA ReadHereKeeps ==
  ASSUME ClientInv, NEW next \in Views, ApplyRead(next), projectId' = projectId,
         queue' = queue, served' = served, mutationSequence' = mutationSequence,
         unanswered' = unanswered, switching' = switching, rendered' = rendered,
         running' \subseteq Requests, poller' \subseteq Requests, slipped' \in BOOLEAN,
         ActiveIsPolled'
  PROVE  ClientInv'
<1>1. /\ ChangeStaysHome' /\ ScreenInv'
      /\ shown' \in Views /\ astray' \in BOOLEAN /\ overtaken' \in BOOLEAN
      /\ (astray => astray')
  BY ReadKeeps DEF ClientInv, ClientTypeOK
<1>2. ClientTypeOK'
  BY <1>1 DEF ClientInv, ClientTypeOK
<1>3. SwitchInv'
  BY DEF ClientInv, SwitchInv
<1>4. QueueInv'
  BY QueueKept DEF ClientInv, ClientTypeOK, SameSaved
<1>5. LastInv'
  BY <1>1 DEF ClientInv, LastInv, IsNewest
<1>. QED BY <1>1, <1>2, <1>3, <1>4, <1>5 DEF ClientInv

LEMMA AnswerRunKeeps ==
  ASSUME ClientInv, AnswerRun
  PROVE  ClientInv'
<1>1. PICK r \in running : ApplyRead(r.state) /\ Slips(r.state)
  BY DEF AnswerRun
<1>2. r.state \in Views
  BY DEF ClientInv, ClientTypeOK, Requests
<1>3. shown' = r.state /\ slipped' = (slipped \/ (shown'.active /\ rendered.active /\ poller = {}))
  BY <1>1 DEF ApplyRead, Slips
<1>4. slipped' \in BOOLEAN /\ running' \subseteq Requests /\ poller' \subseteq Requests
  BY <1>3 DEF AnswerRun, ClientInv, ClientTypeOK
<1>5. ActiveIsPolled'
  <2>1. shown'.active /\ rendered.active /\ poller = {} => slipped'
    BY <1>3
  <2>. QED BY <2>1 DEF AnswerRun, ActiveIsPolled
<1>. QED BY <1>1, <1>2, <1>4, <1>5, ReadHereKeeps DEF AnswerRun

LEMMA AnswerPollKeeps ==
  ASSUME ClientInv, AnswerPoll
  PROVE  ClientInv'
<1>1. PICK r \in poller :
          /\ IF r.answer = "failed" THEN UNCHANGED <<shown, astray, overtaken>>
             ELSE ApplyRead(r.state)
          /\ poller' = PollAgain(shown', r)
  BY DEF AnswerPoll
<1>2. r.state \in Views /\ r.project \in Accessible
  BY DEF ClientInv, ClientTypeOK, Requests
<1>3. Request(r.project) \in Requests
  BY <1>2 DEF Request, View, Views, Requests
<1>4. poller' \subseteq Requests /\ (shown'.active => poller' # {})
  BY <1>1, <1>3 DEF PollAgain
<1>5. ActiveIsPolled'
  BY <1>4 DEF ActiveIsPolled
<1>6. CASE UNCHANGED <<shown, astray, overtaken>>
  <2>1. ClientTypeOK' /\ SwitchInv' /\ SameSaved
    BY <1>4, <1>6 DEF AnswerPoll, ClientInv, ClientTypeOK, SwitchInv, SameSaved
  <2>. QED BY <1>5, <1>6, <2>1, QuietKeeps DEF AnswerPoll
<1>7. CASE ApplyRead(r.state)
  <2>1. running' \subseteq Requests /\ slipped' \in BOOLEAN
    BY DEF AnswerPoll, ClientInv, ClientTypeOK
  <2>. QED BY <1>2, <1>4, <1>5, <1>7, <2>1, ReadHereKeeps DEF AnswerPoll
<1>. QED BY <1>1, <1>6, <1>7

-----------------------------------------------------------------------------
(* The user's changes. *)
LEMMA ChangeKeeps ==
  ASSUME ClientInv, NEW c \in Changes, Change(c)
  PROVE  ClientInv'
<1>. DEFINE new == [change |-> c, prev |-> shown, sequence |-> mutationSequence + 1,
                    request |-> Request(projectId)]
<1>1. /\ switching = {} /\ queue' = Append(queue, new)
      /\ mutationSequence' = mutationSequence + 1
      /\ shown' = [shown EXCEPT !.has = @ \cup {c}]
      /\ \A p \in Accessible : c \notin Underway(p)
      /\ UNCHANGED <<served, projectId, rendered, switching, running, poller,
                     astray, overtaken, unanswered, slipped>>
  BY DEF Change
<1>2. Request(projectId) \in Requests /\ Request(projectId).answer = "none"
      /\ Request(projectId).project = projectId
  BY DEF Request, View, Views, Requests, ClientInv, ClientTypeOK
<1>3. new \in Queued
  BY <1>2 DEF Queued, ClientInv, ClientTypeOK
<1>4. shown' \in Views /\ shown'.has = shown.has \cup {c} /\ shown'.of = shown.of
      /\ shown'.active = shown.active
  BY <1>1 DEF ClientInv, ClientTypeOK, Views
<1>5. queue' \in Seq(Queued)
  BY <1>1, <1>3, AppendProperties DEF ClientInv, ClientTypeOK
<1>6. /\ Len(queue) \in Nat /\ DOMAIN queue = 1..Len(queue)
      /\ DOMAIN queue' = 1..(Len(queue) + 1)
      /\ \A i \in DOMAIN queue : queue'[i] = queue[i]
      /\ queue'[Len(queue) + 1] = new
  <2>1. queue \in Seq(Queued) BY DEF ClientInv, ClientTypeOK
  <2>2. /\ Len(queue') = Len(queue) + 1 /\ queue'[Len(queue) + 1] = new
        /\ \A i \in 1..Len(queue) : queue'[i] = queue[i]
    BY <1>1, <1>3, <2>1, AppendProperties
  <2>. QED BY <1>5, <2>1, <2>2, LenProperties
<1>7. ClientTypeOK'
  BY <1>1, <1>4, <1>5 DEF ClientInv, ClientTypeOK
<1>8. SwitchInv' /\ ChangeStaysHome' /\ ActiveIsPolled'
  BY <1>1, <1>4 DEF ClientInv, SwitchInv, ChangeStaysHome, ActiveIsPolled
<1>9. \A i \in DOMAIN queue : /\ queue[i].sequence \in Nat
                               /\ queue[i].sequence <= mutationSequence
                               /\ queue[i].change # c
  BY <1>1, QueueTyped, UnderwayIs DEF ClientInv, QueueInv, Requests
<1>10. QueueInv'
  BY <1>1, <1>2, <1>6, <1>9 DEF ClientInv, ClientTypeOK, QueueInv
<1>11. \A i \in DOMAIN queue' : IsNewest(i)' => i = Len(queue) + 1
  BY <1>1, <1>6, <1>9 DEF IsNewest, ClientInv, ClientTypeOK
<1>12. LastInv'
  BY <1>1, <1>2, <1>6, <1>11 DEF LastInv, ClientInv, ChangeStaysHome
<1>13. Underway(projectId)' = Underway(projectId) \cup {c}
  BY <1>1, <1>2, <1>6 DEF Underway
<1>14. ScreenInv'
  BY <1>1, <1>4, <1>6, <1>11, <1>13 DEF ScreenInv, ClientInv
<1>. QED BY <1>7, <1>8, <1>10, <1>12, <1>14 DEF ClientInv

(* The server handles the oldest change: what it saves was on its way. *)
LEMMA HandleChangeKeeps ==
  ASSUME ClientInv, HandleChange
  PROVE  ClientInv'
<1>. DEFINE m == queue[1]
            p == m.request.project
            saved == [served EXCEPT ![p].saved = @ \cup {m.change}]
            done == Read(m.request, View(p, saved[p].saved, saved[p].active))
<1>1. /\ 1 \in DOMAIN queue /\ m.request.answer = "none"
      /\ UNCHANGED <<shown, projectId, rendered, mutationSequence, switching, running,
                     poller, astray, overtaken, slipped>>
      /\ \/ /\ served' = saved /\ unanswered' = unanswered
            /\ queue' = [queue EXCEPT ![1].request = done]
         \/ /\ queue' = [queue EXCEPT ![1].request = Fail(@)]
            /\ \/ served' = served /\ unanswered' = unanswered
               \/ served' = saved /\ unanswered' = TRUE
  BY DEF HandleChange, Sent
<1>2. /\ m \in Queued /\ m.change \in Changes /\ m.request \in Requests /\ p \in Accessible
      /\ Len(queue) \in Nat /\ DOMAIN queue = 1..Len(queue)
  BY <1>1, QueueTyped DEF ClientInv, Requests
<1>3. /\ saved \in [Accessible -> [saved : SUBSET Changes, active : BOOLEAN]]
      /\ saved[p].saved = served[p].saved \cup {m.change}
      /\ \A q \in Accessible : q # p => saved[q].saved = served[q].saved
  BY <1>2 DEF ClientInv, ClientTypeOK
<1>4. View(p, saved[p].saved, saved[p].active) \in Views
  BY <1>2, <1>3 DEF View, Views
<1>5. /\ done \in Requests /\ done.project = p /\ done.answer = "state"
      /\ done.state.of = p /\ done.state.has = saved[p].saved
  BY <1>2, <1>4 DEF Read, Requests, View
<1>6. /\ Fail(m.request) \in Requests /\ Fail(m.request).project = p
      /\ Fail(m.request).answer = "failed"
  BY <1>2 DEF Fail, Requests
<1>7. PICK r \in Requests : /\ r.project = p
                            /\ queue' = [queue EXCEPT ![1] = [m EXCEPT !.request = r]]
                            /\ \/ /\ r = done /\ served' = saved /\ unanswered' = unanswered
                               \/ /\ r.answer = "failed"
                                  /\ \/ served' = served /\ unanswered' = unanswered
                                     \/ served' = saved /\ unanswered' = TRUE
  BY <1>1, <1>5, <1>6
<1>8. /\ [m EXCEPT !.request = r] \in Queued
      /\ [m EXCEPT !.request = r].request = r /\ [m EXCEPT !.request = r].change = m.change
      /\ [m EXCEPT !.request = r].sequence = m.sequence /\ [m EXCEPT !.request = r].prev = m.prev
  BY <1>2, <1>7 DEF Queued
<1>9. queue' \in Seq(Queued) /\ DOMAIN queue' = DOMAIN queue
  <2>1. queue \in Seq(Queued) BY DEF ClientInv, ClientTypeOK
  <2>. QED BY <1>1, <1>2, <1>7, <1>8, <2>1, ExceptSeq
<1>10. \A i \in DOMAIN queue :
          /\ queue'[i].request = IF i = 1 THEN r ELSE queue[i].request
          /\ queue'[i].change = queue[i].change /\ queue'[i].prev = queue[i].prev
          /\ queue'[i].sequence = queue[i].sequence
  BY <1>1, <1>7, <1>8
<1>11. \A i \in DOMAIN queue : queue'[i].request.project = queue[i].request.project
  BY <1>7, <1>10
<1>12. Underway(projectId)' = Underway(projectId)
  BY <1>1, <1>9, <1>10, <1>11 DEF Underway
<1>13. ClientTypeOK'
  BY <1>1, <1>3, <1>7, <1>9 DEF ClientInv, ClientTypeOK
<1>14. SwitchInv' /\ ChangeStaysHome' /\ ActiveIsPolled'
  BY <1>1 DEF ClientInv, SwitchInv, ChangeStaysHome, ActiveIsPolled
<1>15. QueueInv'
  <2>1. \A i \in DOMAIN queue : i # 1 => queue[i].request.answer = "none"
    BY DEF ClientInv, QueueInv
  <2>2. \A i \in DOMAIN queue' : queue'[i].request.answer = "state" =>
           i = 1 /\ r = done /\ served' = saved
    BY <1>7, <1>9, <1>10, <2>1
  <2>3. \A i \in DOMAIN queue' :
          /\ i # 1 => queue'[i].request.answer = "none"
          /\ queue'[i].request.answer = "state" =>
                /\ queue'[i].request.state.of = queue'[i].request.project
                /\ queue'[i].request.state.has = served'[queue'[i].request.project].saved
    <3>1. SUFFICES ASSUME NEW i \in DOMAIN queue
                   PROVE  /\ i # 1 => queue'[i].request.answer = "none"
                          /\ queue'[i].request.answer = "state" =>
                                /\ queue'[i].request.state.of = queue'[i].request.project
                                /\ queue'[i].request.state.has =
                                      served'[queue'[i].request.project].saved
      BY <1>9
    <3>2. CASE i = 1
      <4>1. i # 1 => queue'[i].request.answer = "none"
        BY <3>2
      <4>2. queue'[i].request = r /\ queue'[i].request.project = p
        BY <1>7, <1>10, <3>2
      <4>3. ASSUME r.answer = "state"
            PROVE  r.state.of = p /\ r.state.has = served'[p].saved
        <5>1. r = done /\ served' = saved
          BY <1>9, <2>2, <3>2, <4>2, <4>3
        <5>. QED BY <1>5, <5>1
      <4>. QED BY <4>1, <4>2, <4>3
    <3>3. CASE i # 1
      BY <1>10, <2>1, <3>3
    <3>. QED BY <3>2, <3>3
  <2>4. \A i \in DOMAIN queue' : queue'[i].sequence <= mutationSequence'
    BY <1>1, <1>9, <1>10 DEF ClientInv, QueueInv
  <2>5. \A i, j \in DOMAIN queue' : i < j =>
          /\ queue'[i].sequence < queue'[j].sequence
          /\ queue'[i].change # queue'[j].change
    BY <1>9, <1>10 DEF ClientInv, QueueInv
  <2>. QED BY <2>3, <2>4, <2>5 DEF QueueInv
<1>16. \A i \in DOMAIN queue : IsNewest(i)' <=> IsNewest(i)
  BY <1>1, <1>10 DEF IsNewest
<1>17. LastInv'
  BY <1>1, <1>9, <1>10, <1>11, <1>16 DEF ClientInv, LastInv
<1>18. ScreenInv'
  <2>1. CASE unanswered' = TRUE
    BY <2>1 DEF ScreenInv
  <2>2. CASE served' = served /\ unanswered' = unanswered /\ r.answer = "failed"
    <3>1. \A i \in DOMAIN queue' : queue'[i].request.answer # "state" =>
              queue[i].request.answer # "state"
      BY <1>1, <1>9, <1>10
    <3>. QED BY <1>1, <1>9, <1>10, <1>12, <1>16, <2>2, <3>1 DEF ClientInv, ScreenInv
  <2>3. CASE r = done /\ served' = saved /\ unanswered' = unanswered
    <3>1. \A i \in DOMAIN queue' : queue'[i].request.answer # "state" =>
              i # 1 /\ queue[i].request.answer # "state"
      BY <1>5, <1>9, <1>10, <2>3
    <3>2. served'[projectId].saved \subseteq served[projectId].saved \cup
             (IF p = projectId THEN {m.change} ELSE {})
      BY <1>3, <2>3 DEF ClientInv, ClientTypeOK
    <3>3. p = projectId => m.change \in Underway(projectId)
      BY <1>1, UnderwayIs
    <3>4. \A i \in DOMAIN queue : i # 1 => queue[i].change # m.change
      BY <1>1, <1>2 DEF ClientInv, QueueInv
    <3>5. SUFFICES ASSUME ~astray, ~overtaken, ~unanswered
                   PROVE  /\ saved[projectId].saved \cup Underway(projectId) \subseteq shown.has
                          /\ \A i \in DOMAIN queue' :
                                IsNewest(i)' /\ queue'[i].request.answer # "state" =>
                                  saved[projectId].saved
                                     \cup (Underway(projectId) \ {queue'[i].change})
                                        \subseteq queue'[i].prev.has
      BY <1>1, <1>12, <2>3 DEF ScreenInv
    <3>6. saved[projectId].saved \subseteq served[projectId].saved \cup Underway(projectId)
      BY <2>3, <3>2, <3>3
    <3>7. saved[projectId].saved \cup Underway(projectId) \subseteq shown.has
      BY <3>5, <3>6 DEF ClientInv, ScreenInv
    <3>8. ASSUME NEW i \in DOMAIN queue', IsNewest(i)', queue'[i].request.answer # "state"
          PROVE  saved[projectId].saved \cup (Underway(projectId) \ {queue'[i].change})
                    \subseteq queue'[i].prev.has
      <4>1. i \in DOMAIN queue /\ i # 1 /\ queue[i].request.answer # "state" /\ IsNewest(i)
        BY <1>9, <1>16, <3>1, <3>8
      <4>2. queue'[i].change = queue[i].change /\ queue'[i].prev = queue[i].prev
        BY <1>10, <4>1
      <4>3. served[projectId].saved \cup (Underway(projectId) \ {queue[i].change})
               \subseteq queue[i].prev.has
        BY <3>5, <4>1 DEF ClientInv, ScreenInv
      <4>4. p = projectId => m.change \in Underway(projectId) \ {queue[i].change}
        BY <3>3, <3>4, <4>1
      <4>5. saved[projectId].saved \subseteq
               served[projectId].saved \cup (Underway(projectId) \ {queue[i].change})
        BY <2>3, <3>2, <4>4
      <4>. QED BY <4>2, <4>3, <4>5
    <3>. QED BY <3>7, <3>8
  <2>. QED BY <1>7, <2>1, <2>2, <2>3
<1>. QED BY <1>13, <1>14, <1>15, <1>17, <1>18 DEF ClientInv

(* The answer to the oldest change leaves the others behind it. *)
LEMMA QueueTail ==
  ASSUME ClientTypeOK, 1 \in DOMAIN queue, queue' = RemoveAt(queue, 1)
  PROVE  /\ queue' \in Seq(Queued)
         /\ DOMAIN queue' = 1..(Len(queue) - 1)
         /\ \A i \in DOMAIN queue' : i + 1 \in DOMAIN queue /\ queue'[i] = queue[i + 1]
<1>1. queue \in Seq(Queued) /\ Len(queue) \in Nat /\ DOMAIN queue = 1..Len(queue)
  BY QueueTyped DEF ClientTypeOK
<1>2. SubSeq(queue, 1, 0) \in Seq(Queued) /\ Len(SubSeq(queue, 1, 0)) = 0
  BY <1>1, SubSeqProperties
<1>. DEFINE tail == SubSeq(queue, 2, Len(queue))
<1>3. /\ tail \in Seq(Queued) /\ Len(tail) = Len(queue) - 1
      /\ \A i \in 1..(Len(queue) - 1) : tail[i] = queue[i + 1]
  BY <1>1, SubSeqProperties
<1>4. queue' = SubSeq(queue, 1, 0) \o tail
  BY DEF RemoveAt
<1>5. /\ queue' \in Seq(Queued) /\ Len(queue') = Len(queue) - 1
      /\ \A i \in 1..(Len(queue) - 1) : queue'[i] = tail[i]
  <2>. DEFINE none == SubSeq(queue, 1, 0)
  <2>. HIDE DEF tail, none
  <2>1. none \in Seq(Queued) /\ Len(none) = 0 /\ queue' = none \o tail
    BY <1>2, <1>4 DEF none
  <2>2. /\ none \o tail \in Seq(Queued) /\ Len(none \o tail) = Len(none) + Len(tail)
        /\ \A i \in 1..(Len(none) + Len(tail)) :
              (none \o tail)[i] = IF i <= Len(none) THEN none[i] ELSE tail[i - Len(none)]
    BY <1>3, <2>1, ConcatProperties
  <2>3. ASSUME NEW i \in 1..(Len(queue) - 1)
        PROVE  queue'[i] = tail[i]
    <3>1. Len(tail) = Len(queue) - 1 /\ i \in 1..(Len(none) + Len(tail))
      BY <1>1, <1>3, <2>1
    <3>. QED BY <1>1, <2>1, <2>2, <3>1
  <2>4. queue' \in Seq(Queued)
    BY <2>1, <2>2
  <2>5. Len(queue') = Len(queue) - 1
    <3>1. Len(queue') = Len(none \o tail)
      BY <2>1
    <3>2. Len(none \o tail) = Len(queue) - 1
      BY <1>1, <1>3, <2>1, <2>2
    <3>. QED BY <3>1, <3>2
  <2>. QED BY <2>3, <2>4, <2>5
<1>. QED BY <1>1, <1>3, <1>5, LenProperties

LEMMA AnswerChangeKeeps ==
  ASSUME ClientInv, AnswerChange
  PROVE  ClientInv'
<1>. DEFINE m == queue[1]
            next == IF m.request.answer = "failed" THEN m.prev ELSE m.request.state
<1>1. /\ 1 \in DOMAIN queue /\ m.request.answer # "none"
      /\ queue' = RemoveAt(queue, 1)
      /\ shown' = IF m.sequence = mutationSequence THEN next ELSE shown
      /\ Slips(shown')
      /\ UNCHANGED <<served, projectId, rendered, mutationSequence, switching, running,
                     poller, astray, overtaken, unanswered>>
  BY DEF AnswerChange, Sent
<1>2. /\ m \in Queued /\ m.request \in Requests /\ m.prev \in Views /\ next \in Views
      /\ m.sequence \in Nat
      /\ Len(queue) \in Nat /\ DOMAIN queue = 1..Len(queue)
  BY <1>1, QueueTyped DEF ClientInv, Requests
<1>3. /\ queue' \in Seq(Queued)
      /\ DOMAIN queue' = 1..(Len(queue) - 1)
      /\ \A i \in DOMAIN queue' : i + 1 \in DOMAIN queue /\ queue'[i] = queue[i + 1]
  BY <1>1, QueueTail DEF ClientInv
<1>4. ClientTypeOK'
  <2>1. slipped' \in BOOLEAN /\ shown' \in Views
    BY <1>1, <1>2 DEF ClientInv, ClientTypeOK, Slips
  <2>. QED BY <1>1, <1>3, <2>1 DEF ClientInv, ClientTypeOK
<1>5. SwitchInv' /\ ActiveIsPolled'
  <2>1. shown'.active /\ rendered.active /\ poller = {} => slipped'
    BY <1>1 DEF Slips
  <2>2. SwitchInv'
    BY <1>1 DEF ClientInv, SwitchInv
  <2>. QED BY <1>1, <2>1, <2>2 DEF ActiveIsPolled
<1>6. QueueInv'
  <2>1. \A i, j \in DOMAIN queue' : i < j => i + 1 < j + 1
    BY <1>2, <1>3
  <2>2. \A i \in DOMAIN queue' : i + 1 # 1
    BY <1>2, <1>3
  <2>. QED BY <1>1, <1>3, <2>1, <2>2 DEF ClientInv, QueueInv
<1>7. CASE m.sequence = mutationSequence
  <2>1. DOMAIN queue' = {}
    <3>1. SUFFICES ASSUME NEW i \in DOMAIN queue' PROVE FALSE
      OBVIOUS
    <3>2. i + 1 \in DOMAIN queue /\ 1 < i + 1
      BY <1>2, <1>3
    <3>3. queue[i + 1].sequence \in Nat
      BY <3>2, QueueTyped DEF ClientInv
    <3>. QED BY <1>1, <1>2, <1>7, <3>2, <3>3 DEF ClientInv, QueueInv, ClientTypeOK
  <2>2. shown' = next /\ IsNewest(1)
    BY <1>1, <1>7 DEF IsNewest
  <2>3. /\ m.request.project = projectId
        /\ m.prev.of = projectId \/ astray
        /\ m.request.answer = "state" =>
               m.request.state.of = projectId /\ m.request.state.has = served[projectId].saved
    BY <1>1, <2>2 DEF ClientInv, LastInv, QueueInv
  <2>4. ChangeStaysHome' /\ LastInv'
    BY <1>1, <1>2, <2>1, <2>2, <2>3 DEF ChangeStaysHome, LastInv, Requests
  <2>5. Underway(projectId)' = {}
    BY <2>1 DEF Underway
  <2>6. \A c \in Underway(projectId) : c = m.change
    <3>1. \A i \in DOMAIN queue : i = 1
      BY <1>2, <1>3, <2>1, SMTT(30)
    <3>. QED BY <3>1, UnderwayIs
  <2>7. ScreenInv'
    <3>1. SUFFICES ASSUME ~astray, ~overtaken, ~unanswered
                   PROVE  served[projectId].saved \subseteq next.has
      BY <1>1, <2>1, <2>2, <2>5 DEF ScreenInv
    <3>2. CASE m.request.answer = "state"
      BY <2>3, <3>2
    <3>3. CASE m.request.answer = "failed"
      BY <1>1, <2>2, <3>1, <3>3 DEF ClientInv, ScreenInv
    <3>. QED BY <1>1, <1>2, <3>2, <3>3 DEF Requests
  <2>. QED BY <1>4, <1>5, <1>6, <2>4, <2>7 DEF ClientInv
<1>8. CASE m.sequence # mutationSequence
  <2>1. shown' = shown
    BY <1>1, <1>8
  <2>2. \A i \in DOMAIN queue' : IsNewest(i)' <=> IsNewest(i + 1)
    BY <1>1, <1>3 DEF IsNewest
  <2>3. ChangeStaysHome' /\ LastInv'
    BY <1>1, <1>3, <2>1, <2>2 DEF ClientInv, ChangeStaysHome, LastInv
  <2>4. Underway(projectId)' \subseteq Underway(projectId)
    BY <1>1, <1>3 DEF Underway
  <2>5. ScreenInv'
    BY <1>1, <1>3, <2>1, <2>2, <2>4 DEF ClientInv, ScreenInv
  <2>. QED BY <1>4, <1>5, <1>6, <2>3, <2>5 DEF ClientInv
<1>. QED BY <1>7, <1>8

LEMMA ClientInductive ==
  /\ InitClient => ClientInv
  /\ ClientInv /\ [NextClient]_clientVars => ClientInv'
<1>1. ASSUME InitClient PROVE ClientInv
  <2>1. ClientTypeOK
    <3>1. served \in [Accessible -> [saved : SUBSET Changes, active : BOOLEAN]]
      BY <1>1 DEF InitClient
    <3>2. shown \in Views
      BY <1>1, <3>1 DEF InitClient, StateOf, View, Views
    <3>3. queue \in Seq(Queued)
      BY <1>1, EmptySeq DEF InitClient
    <3>4. rendered \in [of : Accessible, active : BOOLEAN]
      BY <1>1 DEF InitClient
    <3>. QED BY <1>1, <3>1, <3>2, <3>3, <3>4 DEF InitClient, ClientTypeOK
  <2>2. shown.of = projectId /\ shown.has = {} /\ served[projectId].saved = {} /\ shown.active = FALSE
    BY <1>1 DEF InitClient, StateOf, View
  <2>3. Underway(projectId) = {} /\ DOMAIN queue = {}
    BY <1>1 DEF InitClient, Underway
  <2>. QED BY <1>1, <2>1, <2>2, <2>3
           DEF InitClient, ClientInv, SwitchInv, QueueInv, LastInv, ChangeStaysHome, ScreenInv,
               ActiveIsPolled
<1>2. ASSUME ClientInv, NextClient PROVE ClientInv'
  BY <1>2, ChangeKeeps, HandleChangeKeeps, AnswerChangeKeeps, SwitchProjectKeeps,
     CollectionEndsKeeps, HandleSwitchKeeps, AnswerSwitchKeeps, RunPageKeeps, HandleRunKeeps,
     AnswerRunKeeps, RenderKeeps, HandlePollKeeps, AnswerPollKeeps DEF NextClient
<1>3. ASSUME ClientInv, UNCHANGED clientVars PROVE ClientInv'
  BY <1>3 DEF clientVars, ClientInv, ClientTypeOK, SwitchInv, QueueInv, LastInv, IsNewest,
              ChangeStaysHome, ScreenInv, ActiveIsPolled, Underway
<1>. QED BY <1>1, <1>2, <1>3

(* Neither the answer to a change nor the way back from one that failed puts
   another project on screen (runMutation, src/components/store.tsx). *)
THEOREM ChangesStayHome == SpecClient => []ChangeStaysHome
<1>1. ClientInv => ChangeStaysHome
  BY DEF ClientInv
<1>. QED BY <1>1, ClientInductive, PTL DEF SpecClient

(* What the server saved is on screen once every change is answered, however the
   answers crossed with later changes, unless an answer was lost or a read from
   before the change overtook it (src/components/store.tsx). *)
THEOREM SavedShown == SpecClient => []SavedIsShown
<1>1. ClientInv => SavedIsShown
  BY DEF ClientInv, ScreenInv, SavedIsShown
<1>. QED BY <1>1, ClientInductive, PTL DEF SpecClient

(* While the screen shows an active collection a loop polls for its end, unless
   the collection came back between two loops (src/components/store.tsx). *)
THEOREM ActivePolled == SpecClient => []ActiveIsPolled
<1>1. ClientInv => ActiveIsPolled
  BY DEF ClientInv
<1>. QED BY <1>1, ClientInductive, PTL DEF SpecClient

-----------------------------------------------------------------------------
(* Lists: sequences of pages in which no page is twice *)

IsList(s) == /\ s \in Seq(Listed)
             /\ \A i, j \in DOMAIN s : s[i] = s[j] => i = j

Before(s, p, q) == \E i, j \in DOMAIN s : i < j /\ s[i] = p /\ s[j] = q

LEMMA ListIs ==
  ASSUME NEW s, IsList(s)
  PROVE  /\ Len(s) \in Nat /\ DOMAIN s = 1..Len(s)
         /\ DOMAIN s \in SUBSET Nat /\ IsFiniteSet(DOMAIN s)
         /\ \A i \in DOMAIN s : s[i] \in Listed /\ s[i] \in On(s)
         /\ \A p \in On(s) : p \in Listed /\ \E i \in DOMAIN s : s[i] = p
<1>1. Len(s) \in Nat /\ DOMAIN s = 1..Len(s)
  BY LenProperties DEF IsList
<1>2. IsFiniteSet(1..Len(s))
  BY <1>1, FS_Interval
<1>3. \A i \in DOMAIN s : s[i] \in Listed
  BY <1>1, ElementOfSeq DEF IsList
<1>. QED BY <1>1, <1>2, <1>3 DEF On, ToSet

LEMMA ListIsFinite ==
  ASSUME NEW s, IsList(s)
  PROVE  IsFiniteSet(On(s)) /\ Cardinality(On(s)) \in Nat
<1>. DEFINE f == [i \in DOMAIN s |-> s[i]]
<1>1. f \in [DOMAIN s -> On(s)] /\ \A p \in On(s) : \E i \in DOMAIN s : f[i] = p
  BY ListIs
<1>2. f \in Surjection(DOMAIN s, On(s))
  BY <1>1, Fun_IsSurj
<1>3. IsFiniteSet(On(s))
  BY <1>2, ListIs, FS_Surjection
<1>. QED BY <1>3, FS_CardinalityType

\* What a filter leaves of a list is a list, in the order it was in.
LEMMA PickedList ==
  ASSUME NEW s, IsList(s), NEW I \in SUBSET DOMAIN s
  PROVE  /\ IsList(Picked(s, I))
         /\ \A p : p \in On(Picked(s, I)) <=> \E i \in I : s[i] = p
         /\ \A i, j \in I : i < j => Before(Picked(s, I), s[i], s[j])
<1>. DEFINE t == Picked(s, I)
            n == Cardinality(I)
<1>1. I \in SUBSET Nat /\ IsFiniteSet(I)
  BY ListIs, FS_Subset
<1>2. /\ n \in Nat /\ DOMAIN t = 1..n /\ Len(t) = n
      /\ \A k \in 1..n : t[k] = s[Nth(I, k)]
      /\ \A k \in 1..n : Nth(I, k) \in I
      /\ \A i \in I : \E k \in 1..n : t[k] = s[i]
  BY <1>1, PickedIs
<1>3. t \in Seq(Listed)
  <2>1. t = [k \in 1..n |-> s[Nth(I, k)]]
    BY DEF Picked
  <2>2. \A k \in 1..n : s[Nth(I, k)] \in Listed
    BY <1>2, ListIs
  <2>3. t \in [1..n -> Listed]
    BY <2>1, <2>2
  <2>. HIDE DEF t, n
  <2>. QED BY <1>2, <2>3, SeqDef
<1>4. \A k, m \in DOMAIN t : t[k] = t[m] => k = m
  <2>. SUFFICES ASSUME NEW k \in 1..n, NEW m \in 1..n, t[k] = t[m] PROVE k = m
    BY <1>2
  <2>. HIDE DEF t, n
  <2>1. Nth(I, k) = Nth(I, m)
    BY <1>2 DEF IsList
  <2>2. Rank(I, Nth(I, k)) = k /\ Rank(I, Nth(I, m)) = m
    BY <1>1, NthIs DEF n
  <2>. QED BY <2>1, <2>2
<1>5. \A p : p \in On(t) <=> \E i \in I : s[i] = p
  <2>. HIDE DEF t, n
  <2>. TAKE p
  <2>1. p \in On(t) <=> \E k \in 1..n : t[k] = p
    BY <1>2 DEF On, ToSet
  <2>. QED BY <1>2, <2>1
<1>6. ASSUME NEW i \in I, NEW j \in I, i < j PROVE Before(t, s[i], s[j])
  <2>. DEFINE a == Rank(I, i)
              b == Rank(I, j)
  <2>1. a \in 1..n /\ b \in 1..n /\ a < b
    BY <1>1, <1>6, RankIs, RankGrows
  <2>2. Nth(I, a) = i /\ Nth(I, b) = j
    BY <1>1, NthOfRank
  <2>. HIDE DEF a, b, t, n
  <2>3. a \in DOMAIN t /\ b \in DOMAIN t /\ t[a] = s[i] /\ t[b] = s[j]
    BY <1>2, <2>1, <2>2
  <2>. QED BY <2>1, <2>3 DEF Before
<1>. QED BY <1>3, <1>4, <1>5, <1>6 DEF IsList

\* Two lists without a common page make a list, in the order they were in.
LEMMA ConcatList ==
  ASSUME NEW s, IsList(s), NEW t, IsList(t), \A p \in On(s) : p \notin On(t)
  PROVE  /\ IsList(s \o t)
         /\ \A p : p \in On(s \o t) <=> p \in On(s) \/ p \in On(t)
         /\ \A p, q : Before(s, p, q) \/ Before(t, p, q) => Before(s \o t, p, q)
<1>. DEFINE u == s \o t
            n == Len(s)
            m == Len(t)
<1>1. n \in Nat /\ m \in Nat /\ DOMAIN s = 1..n /\ DOMAIN t = 1..m
  BY ListIs
<1>2. /\ u \in Seq(Listed) /\ Len(u) = n + m
      /\ \A i \in 1..n + m : u[i] = IF i <= n THEN s[i] ELSE t[i - n]
  BY ConcatProperties DEF IsList
<1>3. DOMAIN u = 1..n + m
  BY <1>2, LenProperties
<1>. HIDE DEF u, n, m
<1>4. \A i \in 1..n : i \in DOMAIN u /\ u[i] = s[i]
  BY <1>1, <1>2, <1>3
<1>5. \A i \in 1..m : n + i \in DOMAIN u /\ u[n + i] = t[i]
  <2>. TAKE i \in 1..m
  <2>1. n + i \in 1..n + m /\ ~ (n + i <= n) /\ n + i - n = i
    BY <1>1
  <2>2. u[n + i] = t[n + i - n]
    <3>. DEFINE k == n + i
    <3>1. k \in 1..n + m /\ ~ (k <= n)
      BY <2>1
    <3>. HIDE DEF k
    <3>2. u[k] = t[k - n]
      BY <1>2, <3>1
    <3>. QED BY <1>1, <2>1, <3>2 DEF k
  <2>3. t[n + i - n] = t[i]
    BY <2>1
  <2>. QED BY <1>3, <2>1, <2>2, <2>3
<1>6. \A i \in DOMAIN u : i \in 1..n \/ \E k \in 1..m : i = n + k
  <2>. TAKE i \in DOMAIN u
  <2>1. i \in 1..n + m
    BY <1>3
  <2>2. CASE i <= n
    BY <1>1, <2>1, <2>2
  <2>3. CASE ~ (i <= n)
    <3>1. i - n \in 1..m /\ i = n + (i - n)
      BY <1>1, <2>1, <2>3
    <3>. QED BY <3>1
  <2>. QED BY <2>2, <2>3
<1>7. \A p : p \in On(u) <=> p \in On(s) \/ p \in On(t)
  <2>. TAKE p
  <2>1. /\ p \in On(u) <=> \E i \in DOMAIN u : u[i] = p
        /\ p \in On(s) <=> \E i \in 1..n : s[i] = p
        /\ p \in On(t) <=> \E i \in 1..m : t[i] = p
    BY <1>1 DEF On, ToSet
  <2>. QED BY <1>4, <1>5, <1>6, <2>1
<1>8. \A i, j \in DOMAIN u : u[i] = u[j] => i = j
  <2>. SUFFICES ASSUME NEW i \in DOMAIN u, NEW j \in DOMAIN u, u[i] = u[j] PROVE i = j
    OBVIOUS
  <2>1. \A a \in 1..n, b \in 1..m : s[a] # t[b]
    BY <1>1 DEF On, ToSet
  <2>2. CASE i \in 1..n /\ j \in 1..n
    BY <1>1, <1>4, <2>2 DEF IsList
  <2>3. CASE i \in 1..n /\ \E k \in 1..m : j = n + k
    BY <1>4, <1>5, <2>1, <2>3
  <2>4. CASE j \in 1..n /\ \E k \in 1..m : i = n + k
    BY <1>4, <1>5, <2>1, <2>4
  <2>5. CASE (\E k \in 1..m : i = n + k) /\ (\E k \in 1..m : j = n + k)
    BY <1>1, <1>5, <2>5, ZenonT(30) DEF IsList
  <2>. QED BY <1>6, <2>2, <2>3, <2>4, <2>5
<1>9. ASSUME NEW p, NEW q, Before(s, p, q) PROVE Before(u, p, q)
  <2>1. PICK i \in 1..n, j \in 1..n : i < j /\ s[i] = p /\ s[j] = q
    BY <1>1, <1>9 DEF Before
  <2>. QED BY <1>4, <2>1 DEF Before
<1>10. ASSUME NEW p, NEW q, Before(t, p, q) PROVE Before(u, p, q)
  <2>1. PICK i \in 1..m, j \in 1..m : i < j /\ t[i] = p /\ t[j] = q
    BY <1>1, <1>10 DEF Before
  <2>2. n + i < n + j
    BY <1>1, <2>1
  <2>. QED BY <1>5, <2>1, <2>2 DEF Before
<1>11. IsList(u)
  BY <1>2, <1>8 DEF IsList
<1>. QED BY <1>7, <1>9, <1>10, <1>11 DEF u

\* Of two pages on a list one is before the other, and not the other way.
LEMMA BeforeIsPlace ==
  ASSUME NEW s, IsList(s), NEW p \in On(s), NEW q \in On(s)
  PROVE  Before(s, p, q) <=> PlaceIn(s, p) < PlaceIn(s, q)
<1>1. PlaceIn(s, p) \in DOMAIN s /\ s[PlaceIn(s, p)] = p
  BY ListIs DEF PlaceIn
<1>2. PlaceIn(s, q) \in DOMAIN s /\ s[PlaceIn(s, q)] = q
  BY ListIs DEF PlaceIn
<1>. QED BY <1>1, <1>2 DEF IsList, Before

-----------------------------------------------------------------------------
(* Sorting *)

LEMMA SortedList ==
  ASSUME NEW s, IsList(s), NEW tiers \in [Listed -> Tiers]
  PROVE  /\ IsList(sortWatchlistPages(s, tiers))
         /\ On(sortWatchlistPages(s, tiers)) = On(s)
         /\ \A p, q : tiers[p] = tiers[q] /\ Before(s, p, q) =>
                Before(sortWatchlistPages(s, tiers), p, q)
<1>. DEFINE I(t) == {i \in DOMAIN s : tiers[s[i]] = t}
            Of(t) == Picked(s, I(t))
<1>1. \A t : I(t) \in SUBSET DOMAIN s
  OBVIOUS
<1>2. \A t : /\ IsList(Of(t))
             /\ \A p : p \in On(Of(t)) <=> \E i \in I(t) : s[i] = p
             /\ \A i, j \in I(t) : i < j => Before(Of(t), s[i], s[j])
  <2>. HIDE DEF I
  <2>. QED BY <1>1, PickedList
<1>3. \A t, p : p \in On(Of(t)) <=> p \in On(s) /\ tiers[p] = t
  <2>. TAKE t, p
  <2>1. p \in On(Of(t)) <=> \E i \in I(t) : s[i] = p
    BY <1>2
  <2>2. (\E i \in I(t) : s[i] = p) <=> (\E i \in DOMAIN s : s[i] = p) /\ tiers[p] = t
    OBVIOUS
  <2>3. p \in On(s) <=> \E i \in DOMAIN s : s[i] = p
    BY DEF On, ToSet
  <2>. QED BY <2>1, <2>2, <2>3
<1>4. sortWatchlistPages(s, tiers) = Of("priority") \o Of("watching") \o Of("paused")
  BY DEF sortWatchlistPages
<1>5. \A i, j \in DOMAIN s : i < j /\ tiers[s[i]] = tiers[s[j]] =>
         Before(Of(tiers[s[i]]), s[i], s[j])
  BY <1>2
<1>6. \A p \in On(s) : tiers[p] \in {"priority", "watching", "paused"}
  BY ListIs DEF Tiers
<1>. HIDE DEF Of, I
<1>. DEFINE front == Of("priority") \o Of("watching")
            whole == front \o Of("paused")
<1>7. /\ IsList(front)
      /\ \A p : p \in On(front) <=> p \in On(Of("priority")) \/ p \in On(Of("watching"))
      /\ \A p, q : Before(Of("priority"), p, q) \/ Before(Of("watching"), p, q)
             => Before(front, p, q)
  <2>1. \A p \in On(Of("priority")) : p \notin On(Of("watching"))
    BY <1>3
  <2>. QED BY <1>2, <2>1, ConcatList
<1>. HIDE DEF front
<1>8. /\ IsList(whole)
      /\ \A p : p \in On(whole) <=> p \in On(front) \/ p \in On(Of("paused"))
      /\ \A p, q : Before(front, p, q) \/ Before(Of("paused"), p, q) => Before(whole, p, q)
  <2>1. \A p \in On(front) : p \notin On(Of("paused"))
    BY <1>3, <1>7
  <2>. QED BY <1>2, <1>7, <2>1, ConcatList
<1>9. whole = sortWatchlistPages(s, tiers)
  BY <1>4 DEF front
<1>. HIDE DEF whole
<1>10. On(whole) = On(s)
  BY <1>3, <1>6, <1>7, <1>8
<1>11. ASSUME NEW p, NEW q, tiers[p] = tiers[q], Before(s, p, q)
       PROVE  Before(whole, p, q)
  <2>1. p \in On(s) /\ Before(Of(tiers[p]), p, q)
    BY <1>5, <1>11 DEF Before, On, ToSet
  <2>. QED BY <1>6, <1>7, <1>8, <2>1
<1>. QED BY <1>8, <1>9, <1>10, <1>11

-----------------------------------------------------------------------------
(* The limits *)

Fit(list, tiers) == /\ Cardinality(InTier(list, tiers, {"priority"})) <= MaxPriority
                    /\ Cardinality(Monitored(list, tiers)) <= MaxActive

\* Where no more pages are in a set than its limit, none is beyond it.
LEMMA NoneBeyond ==
  ASSUME NEW s, IsList(s), NEW S \in SUBSET On(s), NEW n \in Nat, Cardinality(S) <= n
  PROVE  Beyond(s, S, n) = {}
<1>. DEFINE I == {i \in DOMAIN s : s[i] \in S}
            f == [i \in I |-> s[i]]
<1>1. IsFiniteSet(S) /\ Cardinality(S) \in Nat
  BY ListIsFinite, FS_Subset, FS_CardinalityType
<1>2. f \in [I -> S] /\ \A i, j \in I : f[i] = f[j] => i = j
  BY DEF IsList
<1>3. f \in Injection(I, S)
  BY <1>2 DEF Injection, IsInjective
<1>4. IsFiniteSet(I) /\ Cardinality(I) <= Cardinality(S)
  BY <1>1, <1>3, FS_Injection
<1>5. \A i \in I : ~ (Cardinality({j \in I : j <= i}) > n)
  <2>. TAKE i \in I
  <2>. DEFINE J == {j \in I : j <= i}
  <2>1. J \in SUBSET I
    OBVIOUS
  <2>. HIDE DEF J, I
  <2>2. Cardinality(J) <= Cardinality(I) /\ Cardinality(J) \in Nat /\ Cardinality(I) \in Nat
    BY <1>4, <2>1, FS_Subset, FS_CardinalityType
  <2>3. ~ (Cardinality(J) > n)
    BY <1>1, <1>4, <2>2
  <2>. QED BY <2>3 DEF J
<1>. QED BY <1>5 DEF Beyond

\* What is left of a set without the pages beyond its limit is within it.
LEMMA WithinLimit ==
  ASSUME NEW s, IsList(s), NEW S \in SUBSET On(s), NEW n \in Nat
  PROVE  Cardinality(S \ Beyond(s, S, n)) <= n
<1>. DEFINE I == {i \in DOMAIN s : s[i] \in S}
            K == {i \in I : Rank(I, i) <= n}
            g == [i \in K |-> Rank(I, i)]
            f == [i \in K |-> s[i]]
            R == S \ Beyond(s, S, n)
<1>1. I \in SUBSET Nat /\ IsFiniteSet(I)
  <2>1. I \in SUBSET DOMAIN s
    OBVIOUS
  <2>. QED BY <2>1, ListIs, FS_Subset
<1>2. Beyond(s, S, n) = {s[i] : i \in {i \in I : Rank(I, i) > n}}
  BY DEF Beyond, Rank
<1>. HIDE DEF I
<1>3. \A i \in I : Rank(I, i) \in 1..Cardinality(I)
  BY <1>1, RankIs
<1>4. Cardinality(I) \in Nat
  BY <1>1, FS_CardinalityType
<1>5. \A i, j \in I : Rank(I, i) = Rank(I, j) => i = j
  <2>. SUFFICES ASSUME NEW i \in I, NEW j \in I, Rank(I, i) = Rank(I, j) PROVE i = j
    OBVIOUS
  <2>1. Nth(I, Rank(I, i)) = i /\ Nth(I, Rank(I, j)) = j
    BY <1>1, NthOfRank
  <2>. QED BY <2>1
<1>6. g \in Injection(K, 1..n)
  <2>1. g \in [K -> 1..n]
    BY <1>3, <1>4
  <2>2. \A i, j \in K : g[i] = g[j] => i = j
    BY <1>5
  <2>. HIDE DEF g, K
  <2>. QED BY <2>1, <2>2 DEF Injection, IsInjective
<1>7. IsFiniteSet(1..n) /\ Cardinality(1..n) = n
  BY FS_Interval
<1>8. IsFiniteSet(K) /\ Cardinality(K) <= n
  <2>. HIDE DEF g, K
  <2>. QED BY <1>6, <1>7, FS_Injection
<1>9. \A p \in R : \E i \in K : s[i] = p
  <2>. TAKE p \in R
  <2>1. PICK i \in DOMAIN s : s[i] = p
    BY ListIs
  <2>2. i \in I
    BY <2>1 DEF I
  <2>3. ~ (Rank(I, i) > n)
    BY <1>2, <2>1, <2>2
  <2>4. Rank(I, i) <= n
    BY <1>3, <1>4, <2>2, <2>3
  <2>. QED BY <2>1, <2>2, <2>4
<1>. DEFINE L == {i \in K : s[i] \in R}
            h == [i \in L |-> s[i]]
<1>10. L \in SUBSET K
  OBVIOUS
<1>11. h \in Surjection(L, R)
  <2>1. h \in [L -> R] /\ \A p \in R : \E i \in L : h[i] = p
    BY <1>9
  <2>. HIDE DEF h, L, R
  <2>. QED BY <2>1, Fun_IsSurj
<1>. HIDE DEF h, L, R, K
<1>12. IsFiniteSet(L) /\ Cardinality(L) <= Cardinality(K)
  BY <1>8, <1>10, FS_Subset
<1>13. IsFiniteSet(R) /\ Cardinality(R) <= Cardinality(L)
  BY <1>11, <1>12, FS_Surjection
<1>14. Cardinality(R) \in Nat /\ Cardinality(L) \in Nat /\ Cardinality(K) \in Nat
  BY <1>8, <1>12, <1>13, FS_CardinalityType
<1>15. Cardinality(R) <= n
  BY <1>8, <1>12, <1>13, <1>14
<1>. QED BY <1>15 DEF R

\* The tiers of a list that fits are left as they are.
LEMMA FitIsKept ==
  ASSUME NEW s, IsList(s), NEW tiers \in [Listed -> Tiers], Fit(s, tiers)
  PROVE  normalizeWatchCapacity(s, tiers) = tiers
<1>. DEFINE demoted == Beyond(s, InTier(s, tiers, {"priority"}), MaxPriority)
            fewer == [p \in Listed |-> IF p \in demoted THEN "watching" ELSE tiers[p]]
<1>1. InTier(s, tiers, {"priority"}) \in SUBSET On(s) /\ Monitored(s, tiers) \in SUBSET On(s)
  BY DEF InTier, Monitored
<1>2. demoted = {}
  BY <1>1, NoneBeyond, WatchlistAssumption DEF Fit
<1>3. fewer = tiers
  <2>. HIDE DEF demoted
  <2>. QED BY <1>2
<1>4. Beyond(s, Monitored(s, tiers), MaxActive) = {}
  BY <1>1, NoneBeyond, WatchlistAssumption DEF Fit
<1>5. normalizeWatchCapacity(s, tiers)
        = [p \in Listed |-> IF p \in Beyond(s, Monitored(s, fewer), MaxActive)
                            THEN "paused" ELSE fewer[p]]
  BY DEF normalizeWatchCapacity
<1>. HIDE DEF fewer
<1>. QED BY <1>3, <1>4, <1>5

\* Brought within the limits, every list fits.
LEMMA BroughtWithin ==
  ASSUME NEW s, IsList(s), NEW tiers \in [Listed -> Tiers]
  PROVE  /\ normalizeWatchCapacity(s, tiers) \in [Listed -> Tiers]
         /\ Fit(s, normalizeWatchCapacity(s, tiers))
<1>. DEFINE demoted == Beyond(s, InTier(s, tiers, {"priority"}), MaxPriority)
            fewer == [p \in Listed |-> IF p \in demoted THEN "watching" ELSE tiers[p]]
            over == Beyond(s, Monitored(s, fewer), MaxActive)
            fit == [p \in Listed |-> IF p \in over THEN "paused" ELSE fewer[p]]
<1>1. normalizeWatchCapacity(s, tiers) = fit
  BY DEF normalizeWatchCapacity
<1>2. \A p \in On(s) : p \in Listed
  BY ListIs
<1>3. Cardinality(InTier(s, tiers, {"priority"}) \ demoted) <= MaxPriority
  <2>1. InTier(s, tiers, {"priority"}) \in SUBSET On(s)
    BY DEF InTier
  <2>. QED BY <2>1, WithinLimit, WatchlistAssumption
<1>. HIDE DEF demoted
<1>4. fewer \in [Listed -> Tiers]
  BY DEF Tiers
<1>5. \A p \in Listed : fewer[p] = "priority" <=> tiers[p] = "priority" /\ p \notin demoted
  OBVIOUS
<1>6. Cardinality(Monitored(s, fewer) \ over) <= MaxActive
  <2>1. Monitored(s, fewer) \in SUBSET On(s)
    BY DEF Monitored, InTier
  <2>. QED BY <2>1, WithinLimit, WatchlistAssumption
<1>. HIDE DEF fewer, over
<1>7. fit \in [Listed -> Tiers]
  BY <1>4 DEF Tiers
<1>8. /\ InTier(s, fit, {"priority"}) \in SUBSET (InTier(s, tiers, {"priority"}) \ demoted)
      /\ Monitored(s, fit) \in SUBSET (Monitored(s, fewer) \ over)
  BY <1>2, <1>5 DEF InTier, Monitored
<1>9. IsFiniteSet(On(s))
  BY ListIsFinite
<1>. HIDE DEF fit
<1>. DEFINE A == InTier(s, tiers, {"priority"}) \ demoted
            B == Monitored(s, fewer) \ over
<1>10. A \in SUBSET On(s) /\ B \in SUBSET On(s)
  BY DEF InTier, Monitored
<1>. HIDE DEF A, B
<1>11. /\ IsFiniteSet(A) /\ IsFiniteSet(B)
       /\ InTier(s, fit, {"priority"}) \in SUBSET A /\ Monitored(s, fit) \in SUBSET B
       /\ Cardinality(A) <= MaxPriority /\ Cardinality(B) <= MaxActive
  BY <1>3, <1>6, <1>8, <1>9, <1>10, FS_Subset DEF A, B
<1>12. /\ Cardinality(InTier(s, fit, {"priority"})) <= Cardinality(A)
       /\ Cardinality(Monitored(s, fit)) <= Cardinality(B)
       /\ IsFiniteSet(InTier(s, fit, {"priority"})) /\ IsFiniteSet(Monitored(s, fit))
  BY <1>11, FS_Subset
<1>13. /\ Cardinality(A) \in Nat /\ Cardinality(B) \in Nat
       /\ Cardinality(InTier(s, fit, {"priority"})) \in Nat
       /\ Cardinality(Monitored(s, fit)) \in Nat
  BY <1>11, <1>12, FS_CardinalityType
<1>14. Fit(s, fit)
  BY <1>11, <1>12, <1>13, WatchlistAssumption DEF Fit
<1>. QED BY <1>1, <1>7, <1>14

\* What is stored is a list of the same pages that fits, each tier in its order;
\* and in the tiers asked for, where these fit.
LEMMA Stored ==
  ASSUME NEW s, IsList(s), NEW tiers \in [Listed -> Tiers], Store(s, tiers)
  PROVE  /\ IsList(pages') /\ On(pages') = On(s)
         /\ tier' \in [Listed -> Tiers] /\ Fit(pages', tier')
         /\ \A p, q : tier'[p] = tier'[q] /\ Before(s, p, q) => Before(pages', p, q)
         /\ Fit(s, tiers) => tier' = tiers
<1>. DEFINE fit == normalizeWatchCapacity(s, tiers)
<1>1. tier' = fit /\ pages' = sortWatchlistPages(s, fit)
  BY DEF Store
<1>2. fit \in [Listed -> Tiers] /\ Fit(s, fit)
  BY BroughtWithin
<1>3. Fit(s, tiers) => fit = tiers
  BY FitIsKept
<1>. HIDE DEF fit
<1>4. /\ IsList(pages') /\ On(pages') = On(s)
      /\ \A p, q : fit[p] = fit[q] /\ Before(s, p, q) => Before(pages', p, q)
  BY <1>1, <1>2, SortedList
<1>5. Fit(pages', fit)
  BY <1>2, <1>4 DEF Fit, InTier, Monitored
<1>. QED BY <1>1, <1>2, <1>3, <1>4, <1>5

-----------------------------------------------------------------------------
(* The invariant: the list is one that fits, and so did the one that was archived *)

ListInv ==
  /\ IsList(pages) /\ tier \in [Listed -> Tiers] /\ Fit(pages, tier)
  /\ IsFiniteSet(DOMAIN archivedTier)
  /\ Cardinality({p \in DOMAIN archivedTier : archivedTier[p] \in {"priority"}}) <= MaxPriority
  /\ Cardinality({p \in DOMAIN archivedTier : archivedTier[p] \in {"priority", "watching"}})
       <= MaxActive
  /\ \A p \in DOMAIN archivedTier : archivedTier[p] \in Tiers

\* A list without some of its pages fits, if the others are in the tiers they were in.
LEMMA FewerFit ==
  ASSUME NEW s, NEW t, IsList(s), IsList(t), NEW f, NEW g, Fit(s, f),
         \A p \in On(t) : g[p] = "paused" \/ (p \in On(s) /\ g[p] = f[p])
  PROVE  Fit(t, g)
<1>1. /\ InTier(t, g, {"priority"}) \in SUBSET InTier(s, f, {"priority"})
      /\ Monitored(t, g) \in SUBSET Monitored(s, f)
  BY DEF InTier, Monitored
<1>2. InTier(s, f, {"priority"}) \in SUBSET On(s) /\ Monitored(s, f) \in SUBSET On(s)
  BY DEF InTier, Monitored
<1>3. IsFiniteSet(InTier(s, f, {"priority"})) /\ IsFiniteSet(Monitored(s, f))
  BY <1>2, ListIsFinite, FS_Subset
<1>4. /\ Cardinality(InTier(t, g, {"priority"})) <= Cardinality(InTier(s, f, {"priority"}))
      /\ Cardinality(Monitored(t, g)) <= Cardinality(Monitored(s, f))
      /\ IsFiniteSet(InTier(t, g, {"priority"})) /\ IsFiniteSet(Monitored(t, g))
  BY <1>1, <1>3, FS_Subset
<1>5. /\ Cardinality(InTier(t, g, {"priority"})) \in Nat
      /\ Cardinality(InTier(s, f, {"priority"})) \in Nat
      /\ Cardinality(Monitored(t, g)) \in Nat /\ Cardinality(Monitored(s, f)) \in Nat
  BY <1>3, <1>4, FS_CardinalityType
<1>. QED BY <1>4, <1>5, WatchlistAssumption DEF Fit

(* The list with the page p on it, in the tiers where p has a flag it may have. *)
Asked(list, tiers, p, flag) ==
  /\ Fits(p, flag) \/ (p \notin On(pages) /\ flag = defaultNewPageFlag)
  /\ On(list) = On(pages) \cup {p}
  /\ tiers[p] = flag /\ \A q \in On(pages) : q # p => tiers[q] = tier[q]

\* What flagCapacityError lets through fits, and so does the flag given by default.
LEMMA AskedFits ==
  ASSUME ListInv, NEW p \in Listed, NEW flag \in Tiers, NEW s, IsList(s),
         NEW g, Asked(s, g, p, flag)
  PROVE  Fit(s, g)
<1>. DEFINE others == On(pages) \ {p}
            at(S) == {q \in others : tier[q] \in S}
<1>0. /\ Fits(p, flag) \/ (p \notin On(pages) /\ flag = defaultNewPageFlag)
      /\ On(s) = On(pages) \cup {p}
      /\ g[p] = flag /\ \A q \in On(pages) : q # p => g[q] = tier[q]
  BY DEF Asked
<1>1. tier \in [Listed -> Tiers] /\ \A q \in On(pages) : q \in Listed
  BY ListIs DEF ListInv
<1>2. \A S : {q \in On(s) : g[q] \in S} = at(S) \cup (IF flag \in S THEN {p} ELSE {})
  BY <1>0, <1>1
<1>3. \A S : IsFiniteSet(at(S)) /\ Cardinality(at(S)) \in Nat /\ p \notin at(S)
  <2>. TAKE S
  <2>1. at(S) \in SUBSET On(pages)
    OBVIOUS
  <2>. QED BY <2>1, ListIsFinite, FS_Subset, FS_CardinalityType DEF ListInv
<1>4. \A S : Cardinality({q \in On(s) : g[q] \in S})
               = Cardinality(at(S)) + (IF flag \in S THEN 1 ELSE 0)
  <2>. TAKE S
  <2>. DEFINE A == at(S)
  <2>1. IsFiniteSet(A) /\ Cardinality(A) \in Nat /\ p \notin A
    BY <1>3
  <2>2. CASE flag \in S
    <3>1. {q \in On(s) : g[q] \in S} = A \cup {p}
      BY <1>2, <2>2
    <3>. HIDE DEF A
    <3>2. Cardinality(A \cup {p}) = Cardinality(A) + 1
      BY <2>1, FS_AddElement
    <3>. QED BY <2>2, <3>1, <3>2 DEF A
  <2>3. CASE flag \notin S
    <3>1. {q \in On(s) : g[q] \in S} = A
      BY <1>2, <2>3
    <3>. HIDE DEF A
    <3>2. Cardinality(A) = Cardinality(A) + 0
      BY <2>1
    <3>. QED BY <2>3, <3>1, <3>2 DEF A
  <2>. QED BY <2>2, <2>3
<1>5. CASE Fits(p, flag)
  <2>1. /\ Cardinality(at({"priority"})) + (IF flag \in {"priority"} THEN 1 ELSE 0)
             <= MaxPriority
        /\ Cardinality(at({"priority", "watching"}))
             + (IF flag \in {"priority", "watching"} THEN 1 ELSE 0) <= MaxActive
    BY <1>5 DEF Fits
  <2>. QED BY <1>4, <2>1 DEF Fit, InTier, Monitored
<1>6. CASE p \notin On(pages) /\ flag = defaultNewPageFlag
  <2>1. others = On(pages)
    BY <1>6
  <2>. HIDE DEF others
  <2>2. /\ Cardinality(at({"priority"})) <= MaxPriority
        /\ Cardinality(at({"priority", "watching"})) <= MaxActive
    BY <2>1 DEF ListInv, Fit, InTier, Monitored
  <2>3. Monitored(pages, tier) = at({"priority", "watching"})
    BY <2>1 DEF Monitored, InTier
  <2>. HIDE DEF at
  <2>4. /\ Cardinality(at({"priority"})) \in Nat
        /\ Cardinality(at({"priority", "watching"})) \in Nat
    BY <1>3
  <2>5. flag \notin {"priority"}
    BY <1>6 DEF defaultNewPageFlag
  <2>6. flag \in {"priority", "watching"} => Cardinality(at({"priority", "watching"})) < MaxActive
    BY <1>6, <2>3 DEF defaultNewPageFlag
  <2>7. /\ Cardinality(at({"priority"})) + (IF flag \in {"priority"} THEN 1 ELSE 0)
             <= MaxPriority
        /\ Cardinality(at({"priority", "watching"}))
             + (IF flag \in {"priority", "watching"} THEN 1 ELSE 0) <= MaxActive
    BY <2>2, <2>4, <2>5, <2>6, WatchlistAssumption
  <2>. QED BY <1>4, <2>7 DEF Fit, InTier, Monitored
<1>. QED BY <1>0, <1>5, <1>6

\* A page put behind a list it is not on makes a list, the others in their order.
LEMMA AppendList ==
  ASSUME NEW s, IsList(s), NEW p \in Listed, p \notin On(s)
  PROVE  /\ IsList(Append(s, p))
         /\ On(Append(s, p)) = On(s) \cup {p}
         /\ \A a, b : Before(s, a, b) => Before(Append(s, p), a, b)
         /\ \A a \in On(s) : Before(Append(s, p), a, p)
<1>. DEFINE u == Append(s, p)
            n == Len(s)
<1>1. n \in Nat /\ DOMAIN s = 1..n
  BY ListIs
<1>2. /\ u \in Seq(Listed) /\ Len(u) = n + 1
      /\ \A i \in 1..n : u[i] = s[i]
      /\ u[n + 1] = p
  BY AppendProperties DEF IsList
<1>3. DOMAIN u = 1..n + 1
  BY <1>2, LenProperties
<1>. HIDE DEF u, n
<1>4. \A i \in DOMAIN u : i \in 1..n \/ i = n + 1
  BY <1>1, <1>3
<1>5. \A i \in 1..n : i \in DOMAIN u /\ i < n + 1
  BY <1>1, <1>3
<1>6. n + 1 \in DOMAIN u
  BY <1>1, <1>3
<1>7. \A a : /\ a \in On(u) <=> \E i \in DOMAIN u : u[i] = a
             /\ a \in On(s) <=> \E i \in 1..n : s[i] = a
  BY <1>1 DEF On, ToSet
<1>8. On(u) = On(s) \cup {p}
  BY <1>2, <1>4, <1>5, <1>6, <1>7
<1>9. \A i \in 1..n : u[i] # p
  BY <1>2, <1>7
<1>10. \A i, j \in 1..n : s[i] = s[j] => i = j
  BY <1>1 DEF IsList
<1>11. \A i, j \in DOMAIN u : u[i] = u[j] => i = j
  BY <1>2, <1>4, <1>9, <1>10
<1>12. ASSUME NEW a, NEW b, Before(s, a, b) PROVE Before(u, a, b)
  BY <1>1, <1>2, <1>5, <1>12 DEF Before
<1>13. ASSUME NEW a \in On(s) PROVE Before(u, a, p)
  <2>1. PICK i \in 1..n : s[i] = a
    BY <1>7
  <2>. QED BY <1>2, <1>5, <1>6, <2>1 DEF Before
<1>. QED BY <1>2, <1>8, <1>11, <1>12, <1>13 DEF IsList, u

\* A list without one of its pages is a list, the others in their order.
LEMMA WithoutList ==
  ASSUME NEW s, IsList(s), NEW p
  PROVE  /\ IsList(Without(s, p))
         /\ On(Without(s, p)) = On(s) \ {p}
         /\ \A a, b : a # p /\ b # p /\ Before(s, a, b) => Before(Without(s, p), a, b)
<1>. DEFINE I == {i \in DOMAIN s : s[i] # p}
<1>1. I \in SUBSET DOMAIN s
  OBVIOUS
<1>2. \A i \in DOMAIN s : i \in I <=> s[i] # p
  OBVIOUS
<1>3. Without(s, p) = Picked(s, I)
  BY DEF Without
<1>. HIDE DEF I
<1>4. /\ IsList(Picked(s, I))
      /\ \A a : a \in On(Picked(s, I)) <=> \E i \in I : s[i] = a
      /\ \A i, j \in I : i < j => Before(Picked(s, I), s[i], s[j])
  BY <1>1, PickedList
<1>5. \A a : a \in On(s) <=> \E i \in DOMAIN s : s[i] = a
  BY DEF On, ToSet
<1>6. On(Picked(s, I)) = On(s) \ {p}
  BY <1>1, <1>2, <1>4, <1>5
<1>7. \A a, b : a # p /\ b # p /\ Before(s, a, b) => Before(Picked(s, I), a, b)
  BY <1>2, <1>4 DEF Before
<1>. QED BY <1>3, <1>4, <1>6, <1>7

LEMMA MoveList ==
  ASSUME NEW s, IsList(s), NEW p \in On(s), NEW flag
  PROVE  /\ IsList(changePageFlagOrder(s, p, flag))
         /\ On(changePageFlagOrder(s, p, flag)) = On(s)
         /\ \A a, b : Before(s, a, b) /\ (a = p => tier[p] = flag)
                => Before(changePageFlagOrder(s, p, flag), a, b)
<1>1. CASE tier[p] = flag
  BY <1>1 DEF changePageFlagOrder
<1>2. CASE tier[p] # flag
  <2>. DEFINE w == Without(s, p)
  <2>1. /\ IsList(w) /\ On(w) = On(s) \ {p}
        /\ \A a, b : a # p /\ b # p /\ Before(s, a, b) => Before(w, a, b)
    BY WithoutList
  <2>. HIDE DEF w
  <2>2. p \in Listed /\ p \notin On(w)
    BY <2>1, ListIs
  <2>3. /\ IsList(Append(w, p)) /\ On(Append(w, p)) = On(w) \cup {p}
        /\ \A a, b : Before(w, a, b) => Before(Append(w, p), a, b)
        /\ \A a \in On(w) : Before(Append(w, p), a, p)
    BY <2>1, <2>2, AppendList
  <2>4. changePageFlagOrder(s, p, flag) = Append(w, p)
    BY <1>2 DEF changePageFlagOrder, w
  <2>5. \A a, b : Before(s, a, b) => a \in On(s) /\ b \in On(s)
    BY DEF Before, On, ToSet
  <2>. QED BY <1>2, <2>1, <2>3, <2>4, <2>5
<1>. QED BY <1>1, <1>2

-----------------------------------------------------------------------------
(* The steps *)

LEMMA AddKeeps ==
  ASSUME ListInv, NEW p \in Listed, NEW flag \in Tiers, addPage(p, flag)
  PROVE  /\ ListInv' /\ On(pages') = On(pages) \cup {p} /\ p \notin On(pages)
         /\ \A q \in On(pages) : tier'[q] = tier[q]
         /\ archivedTier' = archivedTier
         /\ \A a, b : tier'[a] = tier'[b] /\ Before(pages, a, b) => Before(pages', a, b)
<1>. DEFINE g == [tier EXCEPT ![p] = flag]
            u == Append(pages, p)
            s == sortWatchlistPages(u, g)
<1>1. p \notin On(pages) /\ (flag = defaultNewPageFlag \/ Fits(p, flag)) /\ Store(s, g)
      /\ archivedTier' = archivedTier
  BY DEF addPage
<1>2. /\ IsList(u) /\ On(u) = On(pages) \cup {p}
      /\ \A a, b : Before(pages, a, b) => Before(u, a, b)
  BY <1>1, AppendList DEF ListInv
<1>3. g \in [Listed -> Tiers] /\ \A q \in On(pages) : g[q] = tier[q]
  BY <1>1, ListIs DEF ListInv
<1>0. g[p] = flag /\ \A q \in On(pages) : q # p => g[q] = tier[q]
  BY ListIs DEF ListInv
<1>. HIDE DEF g, u
<1>4. /\ IsList(s) /\ On(s) = On(u)
      /\ \A a, b : g[a] = g[b] /\ Before(u, a, b) => Before(s, a, b)
  BY <1>2, <1>3, SortedList
<1>. HIDE DEF s
<1>5. Fit(s, g)
  <2>1. Asked(s, g, p, flag)
    <3>1. On(s) = On(pages) \cup {p}
      BY <1>2, <1>4
    <3>2. Fits(p, flag) \/ (p \notin On(pages) /\ flag = defaultNewPageFlag)
      BY <1>1
    <3>3. g[p] = flag /\ \A q \in On(pages) : q # p => g[q] = tier[q]
      BY <1>0
    <3>. QED BY <3>1, <3>2, <3>3 DEF Asked
  <2>. QED BY <1>4, <2>1, AskedFits
<1>6. /\ IsList(pages') /\ On(pages') = On(s)
      /\ tier' \in [Listed -> Tiers] /\ Fit(pages', tier')
      /\ \A a, b : tier'[a] = tier'[b] /\ Before(s, a, b) => Before(pages', a, b)
      /\ tier' = g
  BY <1>1, <1>3, <1>4, <1>5, Stored
<1>7. ListInv'
  BY <1>1, <1>6 DEF ListInv
<1>. QED BY <1>1, <1>2, <1>3, <1>4, <1>6, <1>7

LEMMA FlagKeeps ==
  ASSUME ListInv, NEW p \in Listed, NEW flag \in Tiers, setPageFlag(p, flag)
  PROVE  /\ ListInv' /\ On(pages') = On(pages) /\ p \in On(pages)
         /\ tier' = [tier EXCEPT ![p] = flag]
         /\ archivedTier' = archivedTier
         /\ \A a, b : tier'[a] = tier'[b] /\ Before(pages, a, b) /\ (a = p => tier[p] = flag)
                => Before(pages', a, b)
<1>. DEFINE g == [tier EXCEPT ![p] = flag]
            s == changePageFlagOrder(pages, p, flag)
<1>1. p \in On(pages) /\ Fits(p, flag) /\ Store(s, g) /\ archivedTier' = archivedTier
  BY DEF setPageFlag
<1>2. /\ IsList(s) /\ On(s) = On(pages)
      /\ \A a, b : Before(pages, a, b) /\ (a = p => tier[p] = flag) => Before(s, a, b)
  BY <1>1, MoveList DEF ListInv
<1>3. g \in [Listed -> Tiers]
  BY DEF ListInv
<1>0. g[p] = flag /\ \A q \in On(pages) : q # p => g[q] = tier[q]
  BY ListIs DEF ListInv
<1>. HIDE DEF g, s
<1>4. Fit(s, g)
  <2>1. Asked(s, g, p, flag)
    <3>1. On(s) = On(pages) \cup {p}
      BY <1>1, <1>2
    <3>2. Fits(p, flag) \/ (p \notin On(pages) /\ flag = defaultNewPageFlag)
      BY <1>1
    <3>3. g[p] = flag /\ \A q \in On(pages) : q # p => g[q] = tier[q]
      BY <1>0
    <3>. QED BY <3>1, <3>2, <3>3 DEF Asked
  <2>. QED BY <1>2, <2>1, AskedFits
<1>5. /\ IsList(pages') /\ On(pages') = On(s)
      /\ tier' \in [Listed -> Tiers] /\ Fit(pages', tier')
      /\ \A a, b : tier'[a] = tier'[b] /\ Before(s, a, b) => Before(pages', a, b)
      /\ tier' = g
  BY <1>1, <1>2, <1>3, <1>4, Stored
<1>6. ListInv'
  BY <1>1, <1>5 DEF ListInv
<1>. QED BY <1>1, <1>2, <1>5, <1>6 DEF g

LEMMA RemoveKeeps ==
  ASSUME ListInv, NEW p \in Listed, removePage(p)
  PROVE  /\ ListInv' /\ On(pages') = On(pages) \ {p} /\ p \in On(pages)
         /\ \A q \in On(pages') : tier'[q] = tier[q]
         /\ archivedTier' = archivedTier
         /\ \A a, b : tier'[a] = tier'[b] /\ Before(pages, a, b) /\ a # p /\ b # p
                => Before(pages', a, b)
<1>. DEFINE g == [tier EXCEPT ![p] = "paused"]
            s == Without(pages, p)
<1>1. p \in On(pages) /\ Store(s, g) /\ archivedTier' = archivedTier
  BY DEF removePage
<1>2. /\ IsList(s) /\ On(s) = On(pages) \ {p}
      /\ \A a, b : a # p /\ b # p /\ Before(pages, a, b) => Before(s, a, b)
  BY WithoutList DEF ListInv
<1>3. g \in [Listed -> Tiers] /\ \A q \in On(pages) \ {p} : g[q] = tier[q]
  BY ListIs DEF ListInv, Tiers
<1>. HIDE DEF g, s
<1>4. Fit(s, g)
  <2>1. \A q \in On(s) : q \in On(pages) /\ g[q] = tier[q]
    BY <1>2, <1>3
  <2>. QED BY <1>2, <2>1, FewerFit DEF ListInv
<1>5. /\ IsList(pages') /\ On(pages') = On(s)
      /\ tier' \in [Listed -> Tiers] /\ Fit(pages', tier')
      /\ \A a, b : tier'[a] = tier'[b] /\ Before(s, a, b) => Before(pages', a, b)
      /\ tier' = g
  BY <1>1, <1>2, <1>3, <1>4, Stored
<1>6. ListInv'
  BY <1>1, <1>5 DEF ListInv
<1>. QED BY <1>1, <1>2, <1>3, <1>5, <1>6

LEMMA OrderKeeps ==
  ASSUME ListInv, NEW order \in SetToSeqs(On(pages)), setPageOrder(order)
  PROVE  ListInv' /\ On(pages') = On(pages) /\ tier' = tier /\ archivedTier' = archivedTier
<1>. DEFINE s == sortWatchlistPages(order, tier)
            n == Cardinality(On(pages))
<1>1. On(order) = On(pages) /\ Store(s, tier) /\ archivedTier' = archivedTier
  BY DEF setPageOrder
<1>2. n \in Nat /\ \A q \in On(pages) : q \in Listed
  BY ListIsFinite, ListIs DEF ListInv
<1>3. order \in [1..n -> On(pages)] /\ \A i, j \in 1..n : order[i] = order[j] => i = j
  BY DEF SetToSeqs, IsInjective
<1>. HIDE DEF n
<1>4. IsList(order)
  <2>1. order \in [1..n -> Listed]
    BY <1>2, <1>3
  <2>2. order \in Seq(Listed)
    BY <1>2, <2>1, SeqDef
  <2>3. DOMAIN order = 1..n
    BY <1>3
  <2>. QED BY <1>3, <2>2, <2>3 DEF IsList
<1>5. IsList(s) /\ On(s) = On(order)
  BY <1>4, SortedList DEF ListInv
<1>. HIDE DEF s
<1>6. Fit(s, tier)
  BY <1>1, <1>5 DEF ListInv, Fit, InTier, Monitored
<1>7. /\ IsList(pages') /\ On(pages') = On(s)
      /\ tier' \in [Listed -> Tiers] /\ Fit(pages', tier') /\ tier' = tier
  BY <1>1, <1>5, <1>6, Stored DEF ListInv
<1>8. ListInv'
  BY <1>1, <1>7 DEF ListInv
<1>. QED BY <1>1, <1>5, <1>7, <1>8

LEMMA PauseKeeps ==
  ASSUME ListInv, pausePagesForArchive
  PROVE  /\ ListInv' /\ On(pages') = On(pages)
         /\ DOMAIN archivedTier' # {} /\ archivedTier' # archivedTier
         /\ \A a, b : tier'[a] = tier'[b] /\ Before(pages, a, b) => Before(pages', a, b)
<1>. DEFINE g == [p \in Listed |-> "paused"]
            k == [p \in On(pages) |-> tier[p]]
<1>1. pages # <<>> /\ DOMAIN archivedTier = {} /\ archivedTier' = k /\ Store(pages, g)
  BY DEF pausePagesForArchive
<1>2. g \in [Listed -> Tiers] /\ IsList(pages) /\ \A p \in On(pages) : g[p] = "paused"
  BY ListIs DEF ListInv, Tiers
<1>3. /\ IsList(pages') /\ On(pages') = On(pages)
      /\ tier' \in [Listed -> Tiers] /\ Fit(pages', tier')
      /\ \A a, b : tier'[a] = tier'[b] /\ Before(pages, a, b) => Before(pages', a, b)
  <2>. HIDE DEF g
  <2>. QED BY <1>1, <1>2, Stored
<1>4. DOMAIN k = On(pages) /\ \A p \in On(pages) : k[p] = tier[p]
  OBVIOUS
<1>. HIDE DEF k, g
<1>5. On(pages) # {}
  <2>1. pages \in Seq(Listed) /\ pages # <<>>
    BY <1>1 DEF ListInv, IsList
  <2>2. 1 \in DOMAIN pages
    BY <2>1, EmptySeq, LenProperties
  <2>. QED BY <2>2 DEF On, ToSet
<1>6. /\ {p \in DOMAIN k : k[p] \in {"priority"}} = InTier(pages, tier, {"priority"})
      /\ {p \in DOMAIN k : k[p] \in {"priority", "watching"}} = Monitored(pages, tier)
  BY <1>4 DEF InTier, Monitored
<1>7. IsFiniteSet(DOMAIN k) /\ \A p \in DOMAIN k : k[p] \in Tiers
  BY <1>2, <1>4, ListIsFinite, ListIs DEF ListInv
<1>8. ListInv'
  BY <1>1, <1>3, <1>6, <1>7 DEF ListInv, Fit
<1>. QED BY <1>1, <1>3, <1>4, <1>5, <1>8

LEMMA ResumeKeeps ==
  ASSUME ListInv, resumePagesAfterArchive
  PROVE  /\ ListInv' /\ On(pages') = On(pages)
         /\ DOMAIN archivedTier # {} /\ DOMAIN archivedTier' = {}
         /\ On(pages) \subseteq DOMAIN archivedTier =>
                \A p \in On(pages) : tier'[p] = archivedTier[p]
         /\ \A a, b : tier'[a] = tier'[b] /\ Before(pages, a, b) => Before(pages', a, b)
<1>. DEFINE D == DOMAIN archivedTier
            g == [p \in Listed |-> IF p \in D \cap On(pages) THEN archivedTier[p] ELSE tier[p]]
            e == [p \in {} |-> "paused"]
<1>1. D # {} /\ archivedTier' = e /\ Store(pages, g)
  BY DEF resumePagesAfterArchive
<1>2. DOMAIN e = {} /\ IsList(pages) /\ \A p \in On(pages) : p \in Listed
  BY ListIs DEF ListInv
<1>3. g \in [Listed -> Tiers]
  BY DEF ListInv
<1>4. On(pages) \subseteq D => \A p \in On(pages) : g[p] = archivedTier[p]
  BY <1>2
<1>. HIDE DEF g, e
<1>5. /\ IsList(pages') /\ On(pages') = On(pages)
      /\ tier' \in [Listed -> Tiers] /\ Fit(pages', tier')
      /\ \A a, b : tier'[a] = tier'[b] /\ Before(pages, a, b) => Before(pages', a, b)
      /\ Fit(pages, g) => tier' = g
  BY <1>1, <1>2, <1>3, Stored
<1>6. ASSUME On(pages) \subseteq D PROVE Fit(pages, g)
  <2>. DEFINE A == {p \in D : archivedTier[p] \in {"priority"}}
              B == {p \in D : archivedTier[p] \in {"priority", "watching"}}
              C == InTier(pages, g, {"priority"})
              E == Monitored(pages, g)
  <2>1. C \in SUBSET A /\ E \in SUBSET B
    BY <1>4, <1>6 DEF InTier, Monitored
  <2>2. A \in SUBSET D /\ B \in SUBSET D
    OBVIOUS
  <2>3. Cardinality(A) <= MaxPriority /\ Cardinality(B) <= MaxActive /\ IsFiniteSet(D)
    BY DEF ListInv
  <2>. HIDE DEF A, B, C, E, D
  <2>4. IsFiniteSet(A) /\ IsFiniteSet(B)
    BY <2>2, <2>3, FS_Subset
  <2>5. /\ IsFiniteSet(C) /\ IsFiniteSet(E)
        /\ Cardinality(C) <= Cardinality(A) /\ Cardinality(E) <= Cardinality(B)
    BY <2>1, <2>4, FS_Subset
  <2>6. /\ Cardinality(A) \in Nat /\ Cardinality(B) \in Nat
        /\ Cardinality(C) \in Nat /\ Cardinality(E) \in Nat
    BY <2>4, <2>5, FS_CardinalityType
  <2>7. Cardinality(C) <= MaxPriority /\ Cardinality(E) <= MaxActive
    BY <2>3, <2>5, <2>6, WatchlistAssumption
  <2>. QED BY <2>7 DEF Fit, C, E
<1>7. ListInv'
  <2>1. /\ IsFiniteSet({}) /\ Cardinality({}) = 0
        /\ {p \in DOMAIN e : e[p] \in {"priority"}} = {}
        /\ {p \in DOMAIN e : e[p] \in {"priority", "watching"}} = {}
    BY <1>2, FS_EmptySet
  <2>2. Cardinality({}) <= MaxPriority /\ Cardinality({}) <= MaxActive
    BY <2>1, WatchlistAssumption
  <2>. QED BY <1>1, <1>2, <1>5, <2>1, <2>2 DEF ListInv
<1>. QED BY <1>1, <1>2, <1>4, <1>5, <1>6, <1>7

LEMMA WatchInitHolds ==
  ASSUME InitWatchlist
  PROVE  ListInv
<1>. DEFINE e == [p \in {} |-> "paused"]
            z == [p \in Listed |-> "paused"]
<1>1. pages = <<>> /\ tier = z /\ archivedTier = e
  BY DEF InitWatchlist
<1>2. DOMAIN e = {} /\ z \in [Listed -> Tiers]
  BY DEF Tiers
<1>3. pages \in Seq(Listed) /\ DOMAIN pages = {}
  BY <1>1, EmptySeq, LenProperties
<1>4. On(pages) = {}
  BY <1>3 DEF On, ToSet
<1>. HIDE DEF e, z
<1>5. /\ InTier(pages, tier, {"priority"}) = {} /\ Monitored(pages, tier) = {}
      /\ {p \in DOMAIN e : e[p] \in {"priority"}} = {}
      /\ {p \in DOMAIN e : e[p] \in {"priority", "watching"}} = {}
  BY <1>2, <1>4 DEF InTier, Monitored
<1>6. /\ IsFiniteSet({}) /\ Cardinality({}) = 0
      /\ Cardinality({}) <= MaxPriority /\ Cardinality({}) <= MaxActive
  BY FS_EmptySet, WatchlistAssumption
<1>. QED BY <1>1, <1>2, <1>3, <1>5, <1>6 DEF ListInv, IsList, Fit

LEMMA WatchNextKeeps ==
  ASSUME ListInv, [NextWatchlist]_listVars
  PROVE  ListInv'
<1>1. CASE NextWatchlist
  BY <1>1, AddKeeps, FlagKeeps, RemoveKeeps, OrderKeeps, PauseKeeps, ResumeKeeps
     DEF NextWatchlist
<1>2. CASE UNCHANGED listVars
  BY <1>2 DEF listVars, ListInv, IsList, Fit, InTier, Monitored, On
<1>. QED BY <1>1, <1>2

LEMMA WatchAlways == SpecWatchlist => []ListInv
BY WatchInitHolds, WatchNextKeeps, PTL DEF SpecWatchlist

-----------------------------------------------------------------------------

OthersKeep ==
  IF archivedTier' = archivedTier
  THEN Cardinality(Moved) <= (IF On(pages') = On(pages) THEN 1 ELSE 0)
  ELSE DOMAIN archivedTier' = {} /\ On(pages) \subseteq DOMAIN archivedTier
       => \A p \in On(pages) : tier'[p] = archivedTier[p]

\* The limits by which requests are refused agree with those within which the
\* document is brought: nobody else's page is moved down, and restoring gives
\* every page back its tier (src/lib/mutations.ts, watchCapacity.ts, projects.ts).
THEOREM OthersUntouched == SpecWatchlist => OthersKeepTheirTier
<1>1. ASSUME ListInv, [NextWatchlist]_listVars PROVE [OthersKeep]_listVars
  <2>0. Cardinality({}) = 0 /\ \A x : Cardinality({x}) = 1
    BY FS_EmptySet, FS_Singleton
  <2>1. ASSUME NEW p \in Listed, NEW flag \in Tiers, addPage(p, flag) PROVE OthersKeep
    <3>1. /\ On(pages') # On(pages) /\ archivedTier' = archivedTier
          /\ \A q \in On(pages) : tier'[q] = tier[q]
      BY <1>1, <2>1, AddKeeps
    <3>2. Moved = {}
      BY <3>1 DEF Moved
    <3>. QED BY <2>0, <3>1, <3>2 DEF OthersKeep
  <2>2. ASSUME NEW p \in Listed, NEW flag \in Tiers, setPageFlag(p, flag) PROVE OthersKeep
    <3>1. /\ On(pages') = On(pages) /\ archivedTier' = archivedTier
          /\ tier' = [tier EXCEPT ![p] = flag] /\ \A q \in On(pages) : q \in Listed
      BY <1>1, <2>2, FlagKeeps, ListIs DEF ListInv
    <3>2. \A q \in Moved : q = p
      BY <1>1, <3>1 DEF Moved, ListInv
    <3>3. Moved = {} \/ Moved = {p}
      BY <3>2
    <3>4. Cardinality(Moved) <= 1
      <4>1. CASE Moved = {}
        BY <2>0, <4>1
      <4>2. CASE Moved = {p}
        <5>1. Cardinality({p}) = 1
          BY <2>0
        <5>. QED BY <4>2, <5>1
      <4>. QED BY <3>3, <4>1, <4>2
    <3>. QED BY <3>1, <3>4 DEF OthersKeep
  <2>3. ASSUME NEW p \in Listed, removePage(p) PROVE OthersKeep
    <3>1. /\ On(pages') # On(pages) /\ archivedTier' = archivedTier
          /\ \A q \in On(pages') : tier'[q] = tier[q]
      BY <1>1, <2>3, RemoveKeeps
    <3>2. Moved = {}
      BY <3>1 DEF Moved
    <3>. QED BY <2>0, <3>1, <3>2 DEF OthersKeep
  <2>4. ASSUME NEW order \in SetToSeqs(On(pages)), setPageOrder(order) PROVE OthersKeep
    <3>1. On(pages') = On(pages) /\ archivedTier' = archivedTier /\ tier' = tier
      BY <1>1, <2>4, OrderKeeps
    <3>2. Moved = {}
      BY <3>1 DEF Moved
    <3>. QED BY <2>0, <3>1, <3>2 DEF OthersKeep
  <2>5. CASE pausePagesForArchive
    BY <1>1, <2>5, PauseKeeps DEF OthersKeep
  <2>6. CASE resumePagesAfterArchive
    <3>1. /\ DOMAIN archivedTier # {} /\ DOMAIN archivedTier' = {}
          /\ On(pages) \subseteq DOMAIN archivedTier =>
                \A p \in On(pages) : tier'[p] = archivedTier[p]
      BY <1>1, <2>6, ResumeKeeps
    <3>. QED BY <3>1 DEF OthersKeep
  <2>. QED BY <1>1, <2>1, <2>2, <2>3, <2>4, <2>5, <2>6 DEF NextWatchlist
<1>2. ListInv /\ [NextWatchlist]_listVars => [OthersKeep]_listVars
  BY <1>1
<1>3. SpecWatchlist => [][OthersKeep]_listVars
  BY <1>2, WatchAlways, PTL DEF SpecWatchlist
<1>. QED BY <1>3 DEF OthersKeepTheirTier, OthersKeep

OrderKept ==
  \A p, q \in On(pages) \cap On(pages') :
      /\ PlaceIn(pages, p) < PlaceIn(pages, q)
      /\ tier'[p] = tier'[q]
      /\ PlaceIn(pages', p) > PlaceIn(pages', q)
      => \/ On(pages') = On(pages) /\ tier' = tier
         \/ Moved = {p} /\ archivedTier' = archivedTier

\* Two pages that are in the order they were in are not the other way round.
LEMMA NotTurned ==
  ASSUME NEW s, NEW t, IsList(s), IsList(t),
         NEW p \in On(s) \cap On(t), NEW q \in On(s) \cap On(t),
         PlaceIn(s, p) < PlaceIn(s, q), Before(s, p, q) => Before(t, p, q)
  PROVE  ~ (PlaceIn(t, p) > PlaceIn(t, q))
<1>1. PlaceIn(t, p) < PlaceIn(t, q)
  BY BeforeIsPlace
<1>2. PlaceIn(t, p) \in DOMAIN t /\ PlaceIn(t, q) \in DOMAIN t
  BY ListIs DEF PlaceIn
<1>3. PlaceIn(t, p) \in Nat /\ PlaceIn(t, q) \in Nat
  BY <1>2, ListIs
<1>. QED BY <1>1, <1>3

\* Only a reorder turns two pages of a tier round, and only a page whose flag
\* is changed goes behind those of the tier it joins (changePageFlagOrder and
\* sortWatchlistPages, src/lib/watchlistOrder.ts).
THEOREM TiersOrdered == SpecWatchlist => TiersKeepTheirOrder
<1>1. ASSUME ListInv, [NextWatchlist]_listVars PROVE [OrderKept]_listVars
  <2>1. SUFFICES ASSUME NextWatchlist, ListInv',
                        NEW p \in On(pages) \cap On(pages'),
                        NEW q \in On(pages) \cap On(pages'),
                        PlaceIn(pages, p) < PlaceIn(pages, q),
                        tier'[p] = tier'[q],
                        PlaceIn(pages', p) > PlaceIn(pages', q)
                 PROVE  \/ On(pages') = On(pages) /\ tier' = tier
                        \/ Moved = {p} /\ archivedTier' = archivedTier
    <3>1. ListInv'
      BY <1>1, WatchNextKeeps
    <3>. QED BY <1>1, <3>1 DEF OrderKept
  <2>2. IsList(pages) /\ IsList(pages') /\ p \in Listed /\ tier \in [Listed -> Tiers]
    BY <1>1, <2>1, ListIs DEF ListInv
  <2>3. Before(pages, p, q) /\ ~ Before(pages', p, q)
    BY <2>1, <2>2, NotTurned, BeforeIsPlace
  <2>4. ASSUME NEW r \in Listed, NEW flag \in Tiers, addPage(r, flag) PROVE FALSE
    BY <1>1, <2>1, <2>3, <2>4, AddKeeps
  <2>5. ASSUME NEW r \in Listed, NEW flag \in Tiers, setPageFlag(r, flag)
        PROVE  Moved = {p} /\ archivedTier' = archivedTier
    <3>1. /\ tier' = [tier EXCEPT ![r] = flag] /\ archivedTier' = archivedTier
          /\ tier'[p] = tier'[q] /\ Before(pages, p, q) /\ (p = r => tier[r] = flag)
                => Before(pages', p, q)
      BY <1>1, <2>5, FlagKeeps
    <3>2. p = r /\ tier[r] # flag
      BY <2>1, <2>3, <3>1
    <3>3. Moved = {p}
      BY <2>1, <2>2, <3>1, <3>2 DEF Moved
    <3>. QED BY <3>1, <3>3
  <2>6. ASSUME NEW r \in Listed, removePage(r) PROVE FALSE
    <3>1. /\ On(pages') = On(pages) \ {r}
          /\ tier'[p] = tier'[q] /\ Before(pages, p, q) /\ p # r /\ q # r
                => Before(pages', p, q)
      BY <1>1, <2>6, RemoveKeeps
    <3>. QED BY <2>1, <2>3, <3>1
  <2>7. ASSUME NEW order \in SetToSeqs(On(pages)), setPageOrder(order)
        PROVE  On(pages') = On(pages) /\ tier' = tier
    BY <1>1, <2>7, OrderKeeps
  <2>8. CASE pausePagesForArchive
    BY <1>1, <2>1, <2>3, <2>8, PauseKeeps
  <2>9. CASE resumePagesAfterArchive
    BY <1>1, <2>1, <2>3, <2>9, ResumeKeeps
  <2>. QED BY <2>1, <2>4, <2>5, <2>6, <2>7, <2>8, <2>9 DEF NextWatchlist
<1>2. ListInv /\ [NextWatchlist]_listVars => [OrderKept]_listVars
  BY <1>1
<1>3. SpecWatchlist => [][OrderKept]_listVars
  BY <1>2, WatchAlways, PTL DEF SpecWatchlist
<1>. QED BY <1>3 DEF TiersKeepTheirOrder, OrderKept
==============================================================================
