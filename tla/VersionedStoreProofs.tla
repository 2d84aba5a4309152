------------------------ MODULE VersionedStoreProofs ------------------------
(***************************************************************************)
(* The document of VersionedStore is never corrupted by concurrent calls,  *)
(* whatever the number of calls, runs, attempts and nights.                *)
(*                                                                         *)
(* The inductive invariant DocInv relates what a call remembers of the row *)
(* (seen, expected, draft) to the row as it is now: versions only grow, so *)
(* a remembered version that still is the row's version was read from the  *)
(* very document the row holds.                                            *)
(***************************************************************************)
EXTENDS VersionedStore, OrderLemmas

-----------------------------------------------------------------------------
(* Typing *)

\* The nights a mutation leaves are nights, if there is room for one more.
LEMMA NewNightsType ==
    ASSUME NEW o \in Ops, NEW run \in Runs \cup {NoRun},
           NEW h \in SUBSET Nights, Room(h)
    PROVE  NewNights(o, run, h) \in SUBSET Nights
<1>1. ASSUME NEW r \in Runs PROVE WithNight(h, r) \in SUBSET Nights
  <2>1. [i |-> NextIndex(h), run |-> r, rev |-> 0] \in Nights
    BY DEF Nights, Room
  <2> QED BY <2>1 DEF WithNight, Newest
<1>2. ASSUME NEW r \in Runs PROVE Revised(h, r) \in SUBSET Nights
  BY DEF Revised, Nights
<1>3. o.kind \in {"append", "ensure"} => o.run \in Runs
  BY DEF Ops
<1> QED
  BY <1>1, <1>2, <1>3 DEF NewNights

\* The draft a call makes of a row and a set of nights is a draft.
LEMMA MutatedType ==
    ASSUME TypeOK, NEW c \in Calls, NEW r \in Rows,
           NEW h \in SUBSET Nights, Room(h)
    PROVE  Mutated(c, r.log, r.run, h) \in Drafts
<1>1. op[c] \in Ops /\ r.log \in Seq(Calls) /\ r.run \in Runs \cup {NoRun}
  BY DEF TypeOK, Rows
<1>2. NewRun(op[c], r.run, h) \in Runs \cup {NoRun}
  BY <1>1 DEF NewRun, Ops
<1>3. NewNights(op[c], r.run, h) \in SUBSET Nights
  BY <1>1, NewNightsType
<1>4. Append(r.log, c) \in Seq(Calls)
  BY <1>1
<1> QED
  BY <1>2, <1>3, <1>4 DEF Mutated, Drafts

\* What the reading half of a call leaves behind.
LEMMA MutateType ==
    ASSUME TypeOK, NEW c \in Calls, NEW r \in Rows, NEW h \in SUBSET Nights,
           Mutate(c, r, h)
    PROVE  /\ pc' \in [Calls -> PCs]
           /\ seeding' \in [Calls -> BOOLEAN]
           /\ expected' \in [Calls -> Int]
           /\ draft' \in [Calls -> Drafts]
<1>1. CASE Rejects(op[c], r.run)
  BY <1>1 DEF Mutate, TypeOK, Goto, PCs
<1>2. CASE ~Rejects(op[c], r.run)
  <2>1. Mutated(c, r.log, r.run, h) \in Drafts
    BY <1>2, MutatedType DEF Mutate
  <2>2. draft' \in [Calls -> Drafts]
    BY <1>2, <2>1 DEF Mutate, TypeOK
  <2>3. pc' \in [Calls -> PCs]
    BY <1>2 DEF Mutate, TypeOK, Goto, PCs
  <2>4. seeding' \in [Calls -> BOOLEAN] /\ expected' \in [Calls -> Int]
    BY <1>2 DEF Mutate, TypeOK, Rows
  <2> QED
    BY <2>2, <2>3, <2>4
<1> QED BY <1>1, <1>2

\* A conflict ends an attempt of a call that has one left.
LEMMA RetryType ==
    ASSUME TypeOK, NEW c \in Calls, AttemptInv(c),
           pc[c] \in {"beforeHist", "cas"}, Retry(c)
    PROVE  /\ pc' \in [Calls -> PCs]
           /\ attempt' \in [Calls -> 0 .. MaxAttempts]
<1>1. attempt[c] + 1 \in 0 .. MaxAttempts
  BY StoreAssumption DEF AttemptInv, Ended, TypeOK
<1> QED
  BY <1>1 DEF Retry, Goto, TypeOK, PCs

\* The end of writeVersionedState.
LEMMA CompleteType ==
    ASSUME TypeOK, NEW c \in Calls, Complete(c)
    PROVE  /\ pc' \in [Calls -> PCs]
           /\ seeding' \in [Calls -> BOOLEAN]
           /\ expected' \in [Calls -> Int]
           /\ draft' \in [Calls -> Drafts]
<1>1. CASE seeding[c]
  <2>1. [ver |-> 0, log |-> <<>>, run |-> NoRun] \in Rows
    BY DEF Rows
  <2>2. {} \in SUBSET Nights
    OBVIOUS
  <2> QED
    BY <1>1, <2>1, <2>2, MutateType DEF Complete
<1>2. CASE ~seeding[c]
  BY <1>2 DEF Complete, TypeOK, Goto, PCs
<1> QED BY <1>1, <1>2

LEMMA InitType == Init => TypeOK
<1> SUFFICES ASSUME Init PROVE TypeOK
  OBVIOUS
<1>1. EmptyRow \in Rows /\ EmptyDraft \in Drafts
  BY DEF EmptyRow, EmptyDraft, Rows, Drafts, Absent
<1>2. row \in Rows
  <2>1. ASSUME NEW r \in Runs \cup {NoRun}
        PROVE  [ver |-> 0, log |-> <<>>, run |-> r] \in Rows
    <3>1. <<>> \in Seq(Calls) /\ 0 \in Int
      OBVIOUS
    <3> QED BY <3>1 DEF Rows
  <2> QED
    BY <1>1, <2>1 DEF Init
<1>3. op \in [Calls -> Ops]
  BY StoreAssumption DEF Init
<1>4. /\ pc \in [Calls -> PCs]
      /\ attempt \in [Calls -> 0 .. MaxAttempts]
      /\ expected \in [Calls -> Int] /\ began \in [Calls -> Int]
  BY StoreAssumption DEF Init, PCs, Absent
<1>5. draft \in [Calls -> Drafts] /\ seen \in [Calls -> Rows]
  BY <1>1 DEF Init
<1>6. seeding \in [Calls -> BOOLEAN] /\ overlapped \in BOOLEAN /\ torn \in BOOLEAN
  BY DEF Init
<1>7. /\ hist \subseteq Nights /\ truth \subseteq Nights
      /\ before \in [Calls -> SUBSET Nights]
      /\ upserts \in [Calls -> SUBSET Nights]
      /\ deletes \in [Calls -> SUBSET Indices]
  BY DEF Init
<1> QED
  BY <1>2, <1>3, <1>4, <1>5, <1>6, <1>7 DEF TypeOK

\* Every step keeps the types.
LEMMA TypeStep ==
    ASSUME TypeOK, \A c \in Calls : AttemptInv(c), [Next]_vars
    PROVE  TypeOK'
<1>1. CASE UNCHANGED vars
  <2>1. overlapped' \in BOOLEAN /\ torn' \in BOOLEAN
    BY <1>1 DEF vars, TypeOK
  <2> QED
    BY <1>1, <2>1 DEF vars, call, TypeOK
<1>2. ASSUME NEW c \in Calls, Begin(c) PROVE TypeOK'
  BY <1>2 DEF Begin, TypeOK, Goto, PCs, Rows
<1>3. ASSUME NEW c \in Calls, ReadRow(c) PROVE TypeOK'
  <2>1. EmptyDraft \in Drafts
    BY DEF EmptyDraft, Drafts
  <2>2. draft' \in [Calls -> Drafts] /\ seen' \in [Calls -> Rows]
    BY <1>3, <2>1 DEF ReadRow, TypeOK
  <2>3. pc' \in [Calls -> PCs] /\ expected' \in [Calls -> Int]
    BY <1>3 DEF ReadRow, TypeOK, Goto, PCs, Absent
  <2>4. seeding' \in [Calls -> BOOLEAN]
    BY <1>3 DEF ReadRow, TypeOK
  <2>5. overlapped' \in BOOLEAN
    BY <1>3 DEF ReadRow
  <2> QED
    BY <1>3, <2>2, <2>3, <2>4, <2>5 DEF ReadRow, TypeOK
<1>4. ASSUME NEW c \in Calls, ReadHist(c) PROVE TypeOK'
  <2>1. seen[c] \in Rows /\ hist \in SUBSET Nights /\ Mutate(c, seen[c], hist)
    BY <1>4 DEF ReadHist, TypeOK
  <2> QED
    BY <1>4, <2>1, MutateType DEF ReadHist, TypeOK
<1>5. ASSUME NEW c \in Calls, BeforeRow(c) PROVE TypeOK'
  <2>1. pc' \in [Calls -> PCs] /\ seen' \in [Calls -> Rows]
    BY <1>5 DEF BeforeRow, TypeOK, Goto, PCs
  <2>2. before' \in [Calls -> SUBSET Nights]
    BY <1>5 DEF BeforeRow, TypeOK
  <2>3. overlapped' \in BOOLEAN
    BY <1>5 DEF BeforeRow
  <2> QED
    BY <1>5, <2>1, <2>2, <2>3 DEF BeforeRow, TypeOK
<1>6. ASSUME NEW c \in Calls, BeforeHist(c) PROVE TypeOK'
  <2>1. before' \in [Calls -> SUBSET Nights]
    BY <1>6 DEF BeforeHist, TypeOK
  <2>2. CASE seen[c].ver = expected[c]
    BY <1>6, <2>1, <2>2 DEF BeforeHist, TypeOK, Goto, PCs
  <2>3. CASE seen[c].ver # expected[c] /\ seeding[c]
    <3>1. seen[c] \in Rows /\ hist \in SUBSET Nights /\ Mutate(c, seen[c], hist)
      BY <1>6, <2>3 DEF BeforeHist, TypeOK
    <3> QED
      BY <1>6, <2>1, <2>3, <3>1, MutateType DEF BeforeHist, TypeOK
  <2>4. CASE seen[c].ver # expected[c] /\ ~seeding[c]
    <3>1. Retry(c) /\ pc[c] \in {"beforeHist", "cas"}
      BY <1>6, <2>4 DEF BeforeHist
    <3> QED
      BY <1>6, <2>1, <2>4, <3>1, RetryType DEF BeforeHist, TypeOK
  <2> QED BY <2>2, <2>3, <2>4
<1>7. ASSUME NEW c \in Calls, CompareAndSwap(c) PROVE TypeOK'
  <2>1. row' \in Rows
    BY <1>7 DEF CompareAndSwap, TypeOK, Rows, Drafts
  <2>2. truth' \in SUBSET Nights
    <3>1. op[c] \in Ops /\ row.run \in Runs \cup {NoRun} /\ truth \in SUBSET Nights
      BY DEF TypeOK, Rows
    <3> QED
      BY <1>7, <3>1, NewNightsType DEF CompareAndSwap
  <2>3. pc' \in [Calls -> PCs]
    BY <1>7 DEF CompareAndSwap, TypeOK, Goto, PCs
  <2> QED
    BY <1>7, <2>1, <2>2, <2>3 DEF CompareAndSwap, call, TypeOK
<1>8. ASSUME NEW c \in Calls, LoseRace(c) PROVE TypeOK'
  <2>1. seeding' \in [Calls -> BOOLEAN]
    BY <1>8 DEF LoseRace, TypeOK
  <2>2. CASE seeding[c]
    BY <1>8, <2>1, <2>2 DEF LoseRace, TypeOK, Goto, PCs
  <2>3. CASE ~seeding[c]
    <3>1. Retry(c) /\ pc[c] \in {"beforeHist", "cas"}
      BY <1>8, <2>3 DEF LoseRace
    <3> QED
      BY <1>8, <2>1, <3>1, RetryType DEF LoseRace, TypeOK
  <2> QED BY <2>2, <2>3
<1>9. ASSUME NEW c \in Calls, SyncRead(c) PROVE TypeOK'
  <2>1. draft[c].nights \in SUBSET Nights
    BY DEF TypeOK, Drafts
  <2>2. upserts' \in [Calls -> SUBSET Nights]
    BY <1>9, <2>1 DEF SyncRead, TypeOK
  <2>3. deletes' \in [Calls -> SUBSET Indices]
    <3>1. {m.i : m \in hist} \in SUBSET Indices
      BY DEF TypeOK, Nights
    <3>2. {m.i : m \in hist} \ {n.i : n \in draft[c].nights} \in SUBSET Indices
      BY <3>1
    <3>3. deletes' = [deletes EXCEPT ![c] = {m.i : m \in hist} \ {n.i : n \in draft[c].nights}]
      BY <1>9 DEF SyncRead
    <3> QED BY <3>2, <3>3 DEF TypeOK
  <2>4. Complete(c) \/ (Goto(c, "syncWrite") /\ UNCHANGED <<seeding, expected, draft>>)
    BY <1>9 DEF SyncRead
  <2>5. /\ pc' \in [Calls -> PCs]
        /\ seeding' \in [Calls -> BOOLEAN]
        /\ expected' \in [Calls -> Int]
        /\ draft' \in [Calls -> Drafts]
    <3>1. CASE Complete(c)
      BY <3>1, CompleteType
    <3>2. CASE Goto(c, "syncWrite") /\ UNCHANGED <<seeding, expected, draft>>
      BY <3>2 DEF TypeOK, Goto, PCs
    <3> QED BY <2>4, <3>1, <3>2
  <2> QED
    BY <1>9, <2>2, <2>3, <2>5 DEF SyncRead, TypeOK
<1>10. ASSUME NEW c \in Calls, SyncWrite(c) PROVE TypeOK'
  <2>1. PICK ups \in SUBSET upserts[c], dels \in SUBSET deletes[c] :
          /\ hist' = Written(hist, ups, dels)
          /\ upserts' = [upserts EXCEPT ![c] = @ \ ups]
          /\ deletes' = [deletes EXCEPT ![c] = @ \ dels]
          /\ Complete(c) \/ UNCHANGED <<pc, seeding, expected, draft>>
    BY <1>10 DEF SyncWrite
  <2>2. ups \in SUBSET Nights /\ hist' \in SUBSET Nights
    BY <2>1 DEF TypeOK, Written
  <2>3. upserts' \in [Calls -> SUBSET Nights] /\ deletes' \in [Calls -> SUBSET Indices]
    BY <2>1 DEF TypeOK
  <2>4. /\ pc' \in [Calls -> PCs]
        /\ seeding' \in [Calls -> BOOLEAN]
        /\ expected' \in [Calls -> Int]
        /\ draft' \in [Calls -> Drafts]
    <3>1. CASE Complete(c)
      BY <3>1, CompleteType
    <3>2. CASE UNCHANGED <<pc, seeding, expected, draft>>
      BY <3>2 DEF TypeOK
    <3> QED BY <2>1, <3>1, <3>2
  <2> QED
    BY <1>10, <2>2, <2>3, <2>4 DEF SyncWrite, TypeOK
<1>11. ASSUME NEW c \in Calls, Crash(c) PROVE TypeOK'
  <2>1. torn' \in BOOLEAN
    BY <1>11 DEF Crash
  <2> QED
    BY <1>11, <2>1 DEF Crash, call, TypeOK, Goto, PCs
<1> QED
  BY <1>1, <1>2, <1>3, <1>4, <1>5, <1>6, <1>7, <1>8, <1>9, <1>10, <1>11
     DEF Next, Step
-----------------------------------------------------------------------------
(* The document *)

LEMMA InitDoc == Init => DocInv
<1> SUFFICES ASSUME Init PROVE DocInv
  OBVIOUS
<1>1. TypeOK
  BY InitType
<1>2. row.ver \in {Absent, 0} /\ row.log = <<>>
  BY DEF Init, EmptyRow
<1>3. VersionInv /\ LoggedOnce
  BY <1>2 DEF VersionInv, LoggedOnce, Absent
<1>4. ASSUME NEW c \in Calls PROVE CallInv(c)
  <2>1. pc[c] = "new" /\ attempt[c] = 0 /\ ~seeding[c]
    BY DEF Init
  <2>2. ~Logged(c)
    BY <1>2 DEF Logged
  <2> QED
    BY <2>1, <2>2, StoreAssumption
       DEF CallInv, SeenInv, DraftInv, WrittenInv, AttemptInv, SeedInv,
           Drafted, SyncPCs, Ended
<1> QED
  BY <1>1, <1>3, <1>4 DEF DocInv

\* A step that writes neither the row nor anything of call d keeps what is
\* known of d.
LEMMA Frame ==
    ASSUME NEW d \in Calls, CallInv(d), row' = row,
           pc'[d] = pc[d], attempt'[d] = attempt[d], seeding'[d] = seeding[d],
           expected'[d] = expected[d], draft'[d] = draft[d],
           seen'[d] = seen[d], began'[d] = began[d]
    PROVE  CallInv(d)'
  BY DEF CallInv, SeenInv, DraftInv, WrittenInv, AttemptInv, SeedInv, Logged

\* What a call knows after the caller's function ran on the row r.
LEMMA MutateFacts ==
    ASSUME TypeOK, NEW c \in Calls, NEW r \in Rows, NEW h, Mutate(c, r, h)
    PROVE  /\ \A d \in Calls \ {c} :
                pc'[d] = pc[d] /\ seeding'[d] = seeding[d]
                  /\ expected'[d] = expected[d] /\ draft'[d] = draft[d]
           /\ ~seeding'[c]
           /\ \/ pc'[c] = "threw"
              \/ /\ pc'[c] = "beforeRow"
                 /\ expected'[c] = r.ver
                 /\ draft'[c].log = Append(r.log, c)
<1>1. CASE Rejects(op[c], r.run)
  BY <1>1 DEF Mutate, Goto, TypeOK
<1>2. CASE ~Rejects(op[c], r.run)
  <2>1. /\ draft' = [draft EXCEPT ![c] = Mutated(c, r.log, r.run, h)]
        /\ expected' = [expected EXCEPT ![c] = r.ver]
        /\ seeding' = [seeding EXCEPT ![c] = FALSE]
        /\ pc' = [pc EXCEPT ![c] = "beforeRow"]
    BY <1>2 DEF Mutate, Goto
  <2>2. Mutated(c, r.log, r.run, h).log = Append(r.log, c)
    BY DEF Mutated
  <2> QED
    BY <2>1, <2>2 DEF TypeOK
<1> QED BY <1>1, <1>2

\* A retry moves call c only, and counts one attempt.
LEMMA RetryFacts ==
    ASSUME TypeOK, NEW c \in Calls, Retry(c)
    PROVE  /\ \A d \in Calls \ {c} : pc'[d] = pc[d] /\ attempt'[d] = attempt[d]
           /\ attempt'[c] = attempt[c] + 1
           /\ \/ pc'[c] = "readRow" /\ attempt'[c] < MaxAttempts
              \/ pc'[c] = "threw"
  BY StoreAssumption DEF Retry, Goto, TypeOK

LEMMA BeginDoc ==
    ASSUME DocInv, NEW c \in Calls, Begin(c), TypeOK'
    PROVE  DocInv'
<1>1. row' = row /\ VersionInv' /\ LoggedOnce'
  BY DEF Begin, DocInv, VersionInv, LoggedOnce
<1>2. ASSUME NEW d \in Calls \ {c} PROVE CallInv(d)'
  BY <1>1, Frame DEF Begin, Goto, DocInv, TypeOK
<1>3. CallInv(c) /\ VersionInv /\ (Logged(c)' <=> Logged(c))
  BY <1>1 DEF DocInv, Logged
<1>4. /\ pc[c] = "new" /\ pc'[c] = "readRow" /\ began'[c] = row.ver
      /\ attempt'[c] = attempt[c] /\ seeding'[c] = seeding[c]
  BY DEF Begin, Goto, DocInv, TypeOK
<1>5. CallInv(c)'
  <2> USE <1>1, <1>3, <1>4, StoreAssumption
          DEF DocInv, TypeOK, CallInv, VersionInv, Rows, Drafted, Absent
  <2>1. SeenInv(c)'
    BY DEF SeenInv, DraftInv, AttemptInv, Ended
  <2>2. DraftInv(c)'
    BY DEF SeenInv, DraftInv, AttemptInv, SeedInv, Ended
  <2>3. WrittenInv(c)'
    BY DEF WrittenInv, SyncPCs
  <2>4. AttemptInv(c)'
    BY DEF SeenInv, DraftInv, AttemptInv, Ended
  <2>5. SeedInv(c)'
    BY DEF SeedInv, DraftInv
  <2> QED
    BY <2>1, <2>2, <2>3, <2>4, <2>5
<1> QED
  BY <1>1, <1>2, <1>3, <1>5 DEF DocInv

LEMMA ReadRowDoc ==
    ASSUME DocInv, NEW c \in Calls, ReadRow(c), TypeOK'
    PROVE  DocInv'
<1>1. row' = row /\ VersionInv' /\ LoggedOnce'
  BY DEF ReadRow, DocInv, VersionInv, LoggedOnce
<1>2. ASSUME NEW d \in Calls \ {c} PROVE CallInv(d)'
  BY <1>1, Frame DEF ReadRow, Goto, DocInv, TypeOK
<1>3. CallInv(c) /\ VersionInv /\ (Logged(c)' <=> Logged(c))
  BY <1>1 DEF DocInv, Logged
<1>4. /\ pc[c] = "readRow" /\ seen'[c] = row
      /\ attempt'[c] = attempt[c] /\ began'[c] = began[c]
      /\ \/ /\ row.ver = Absent /\ pc'[c] = "beforeRow" /\ seeding'[c]
            /\ expected'[c] = Absent /\ draft'[c].log = <<>>
         \/ row.ver # Absent /\ pc'[c] = "readHist" /\ seeding'[c] = seeding[c]
  <2>1. CASE row.ver = Absent
    <3>1. draft'[c] = EmptyDraft
      BY <2>1 DEF ReadRow, DocInv, TypeOK
    <3> QED
      BY <2>1, <3>1 DEF ReadRow, Goto, DocInv, TypeOK, EmptyDraft
  <2>2. CASE row.ver # Absent
    BY <2>2 DEF ReadRow, Goto, DocInv, TypeOK
  <2> QED BY <2>1, <2>2
<1>5. CallInv(c)'
  <2> USE <1>1, <1>3, <1>4, StoreAssumption
          DEF DocInv, TypeOK, CallInv, VersionInv, Rows, Drafted, Absent
  <2>1. SeenInv(c)'
    <3>1. row.ver \in Int /\ (row.ver # Absent => row.ver >= 0)
      OBVIOUS
    <3>2. pc[c] = "readRow" /\ seen'[c] = row /\ row' = row /\ attempt'[c] = attempt[c]
            /\ began'[c] = began[c]
      OBVIOUS
    <3>3. row.ver = Absent => pc'[c] \notin {"readHist", "beforeHist"}
      OBVIOUS
    <3>4. pc'[c] = "readHist" => attempt[c] <= row.ver - began[c]
      BY DEF AttemptInv
    <3>5. pc'[c] = "beforeHist" => expected'[c] <= row.ver
      BY DEF DraftInv
    <3> HIDE <1>1, <1>3, <1>4 DEF DocInv, TypeOK, CallInv, VersionInv, Rows, Drafted, Absent
    <3> QED
      BY <3>1, <3>2, <3>3, <3>4, <3>5 DEF SeenInv
  <2>2. DraftInv(c)'
    BY DEF SeenInv, DraftInv, AttemptInv, SeedInv, Ended
  <2>3. WrittenInv(c)'
    BY DEF WrittenInv, SyncPCs
  <2>4. AttemptInv(c)'
    BY DEF SeenInv, DraftInv, AttemptInv, Ended
  <2>5. SeedInv(c)'
    BY DEF SeedInv, DraftInv
  <2> QED
    BY <2>1, <2>2, <2>3, <2>4, <2>5
<1> QED
  BY <1>1, <1>2, <1>3, <1>5 DEF DocInv

LEMMA ReadHistDoc ==
    ASSUME DocInv, NEW c \in Calls, ReadHist(c), TypeOK'
    PROVE  DocInv'
<1>1. row' = row /\ VersionInv' /\ LoggedOnce'
  BY DEF ReadHist, DocInv, VersionInv, LoggedOnce
<1>2. ASSUME NEW d \in Calls \ {c} PROVE CallInv(d)'
  <2>1. seen[c] \in Rows /\ Mutate(c, seen[c], hist)
    BY DEF ReadHist, DocInv, TypeOK
  <2> QED
    BY <1>1, <2>1, MutateFacts, Frame DEF ReadHist, DocInv
<1>3. CallInv(c) /\ VersionInv /\ (Logged(c)' <=> Logged(c))
  BY <1>1 DEF DocInv, Logged
<1>4. /\ pc[c] = "readHist" /\ seen'[c] = seen[c]
      /\ attempt'[c] = attempt[c] /\ began'[c] = began[c]
      /\ ~seeding'[c]
      /\ \/ pc'[c] = "threw"
         \/ /\ pc'[c] = "beforeRow" /\ expected'[c] = seen[c].ver
            /\ draft'[c].log = Append(seen[c].log, c)
  <2>1. seen[c] \in Rows /\ Mutate(c, seen[c], hist)
    BY DEF ReadHist, DocInv, TypeOK
  <2> QED
    BY <2>1, MutateFacts DEF ReadHist, DocInv
<1>5. CallInv(c)'
  <2> USE <1>1, <1>3, <1>4, StoreAssumption
          DEF DocInv, TypeOK, CallInv, VersionInv, Rows, Drafted, Absent
  <2>1. SeenInv(c)'
    BY DEF SeenInv, DraftInv, AttemptInv, Ended
  <2>2. DraftInv(c)'
    BY DEF SeenInv, DraftInv, AttemptInv, SeedInv, Ended
  <2>3. WrittenInv(c)'
    BY DEF WrittenInv, SyncPCs
  <2>4. AttemptInv(c)'
    BY DEF SeenInv, DraftInv, AttemptInv, Ended
  <2>5. SeedInv(c)'
    BY DEF SeedInv, DraftInv
  <2> QED
    BY <2>1, <2>2, <2>3, <2>4, <2>5
<1> QED
  BY <1>1, <1>2, <1>3, <1>5 DEF DocInv

LEMMA BeforeRowDoc ==
    ASSUME DocInv, NEW c \in Calls, BeforeRow(c), TypeOK'
    PROVE  DocInv'
<1>1. row' = row /\ VersionInv' /\ LoggedOnce'
  BY DEF BeforeRow, DocInv, VersionInv, LoggedOnce
<1>2. ASSUME NEW d \in Calls \ {c} PROVE CallInv(d)'
  BY <1>1, Frame DEF BeforeRow, Goto, DocInv, TypeOK
<1>3. CallInv(c) /\ VersionInv /\ (Logged(c)' <=> Logged(c))
  BY <1>1 DEF DocInv, Logged
<1>4. /\ pc[c] = "beforeRow" /\ seen'[c] = row
      /\ attempt'[c] = attempt[c] /\ began'[c] = began[c]
      /\ seeding'[c] = seeding[c] /\ expected'[c] = expected[c]
      /\ draft'[c] = draft[c]
      /\ \/ row.ver = Absent /\ pc'[c] = "cas"
         \/ row.ver # Absent /\ pc'[c] = "beforeHist"
  BY DEF BeforeRow, Goto, DocInv, TypeOK
<1>5. CallInv(c)'
  <2> USE <1>1, <1>3, <1>4, StoreAssumption
          DEF DocInv, TypeOK, CallInv, VersionInv, Rows, Drafted, Absent
  <2>1. SeenInv(c)'
    <3>1. row.ver \in Int /\ (row.ver # Absent => row.ver >= 0)
      OBVIOUS
    <3>2. pc[c] = "beforeRow" /\ seen'[c] = row /\ row' = row /\ attempt'[c] = attempt[c]
            /\ began'[c] = began[c]
      OBVIOUS
    <3>3. row.ver = Absent => pc'[c] \notin {"readHist", "beforeHist"}
      OBVIOUS
    <3>4. pc'[c] = "readHist" => attempt[c] <= row.ver - began[c]
      BY DEF AttemptInv
    <3>5. pc'[c] = "beforeHist" => expected'[c] <= row.ver
      BY DEF DraftInv
    <3> HIDE <1>1, <1>3, <1>4 DEF DocInv, TypeOK, CallInv, VersionInv, Rows, Drafted, Absent
    <3> QED
      BY <3>1, <3>2, <3>3, <3>4, <3>5 DEF SeenInv
  <2>2. DraftInv(c)'
    BY DEF SeenInv, DraftInv, AttemptInv, SeedInv, Ended
  <2>3. WrittenInv(c)'
    BY DEF WrittenInv, SyncPCs
  <2>4. AttemptInv(c)'
    BY DEF SeenInv, DraftInv, AttemptInv, Ended
  <2>5. SeedInv(c)'
    BY DEF SeedInv, DraftInv
  <2> QED
    BY <2>1, <2>2, <2>3, <2>4, <2>5
<1> QED
  BY <1>1, <1>2, <1>3, <1>5 DEF DocInv

LEMMA BeforeHistDoc ==
    ASSUME DocInv, NEW c \in Calls, BeforeHist(c), TypeOK'
    PROVE  DocInv'
<1>1. row' = row /\ VersionInv' /\ LoggedOnce'
  BY DEF BeforeHist, DocInv, VersionInv, LoggedOnce
<1>2. ASSUME NEW d \in Calls \ {c} PROVE CallInv(d)'
  <2>1. CASE seen[c].ver = expected[c]
    BY <1>1, <2>1, Frame DEF BeforeHist, Goto, DocInv, TypeOK
  <2>2. CASE seen[c].ver # expected[c] /\ seeding[c]
    <3>1. seen[c] \in Rows /\ Mutate(c, seen[c], hist)
      BY <2>2 DEF BeforeHist, DocInv, TypeOK
    <3> QED
      BY <1>1, <2>2, <3>1, MutateFacts, Frame DEF BeforeHist, DocInv
  <2>3. CASE seen[c].ver # expected[c] /\ ~seeding[c]
    BY <1>1, <2>3, RetryFacts, Frame DEF BeforeHist, DocInv
  <2> QED BY <2>1, <2>2, <2>3
<1>3. CallInv(c) /\ VersionInv /\ (Logged(c)' <=> Logged(c))
  BY <1>1 DEF DocInv, Logged
<1>4. /\ pc[c] = "beforeHist" /\ seen'[c] = seen[c] /\ began'[c] = began[c]
      /\ \/ /\ pc'[c] = "cas" /\ attempt'[c] = attempt[c]
            /\ seeding'[c] = seeding[c] /\ expected'[c] = expected[c]
            /\ draft'[c] = draft[c]
         \/ /\ attempt'[c] = attempt[c] /\ ~seeding'[c]
            /\ \/ pc'[c] = "threw"
               \/ /\ pc'[c] = "beforeRow" /\ expected'[c] = seen[c].ver
                  /\ draft'[c].log = Append(seen[c].log, c)
         \/ /\ seen[c].ver # expected[c] /\ ~seeding[c] /\ ~seeding'[c]
            /\ attempt'[c] = attempt[c] + 1
            /\ \/ pc'[c] = "readRow" /\ attempt'[c] < MaxAttempts
               \/ pc'[c] = "threw"
  <2>1. CASE seen[c].ver = expected[c]
    BY <2>1 DEF BeforeHist, Goto, DocInv, TypeOK
  <2>2. CASE seen[c].ver # expected[c] /\ seeding[c]
    <3>1. seen[c] \in Rows /\ Mutate(c, seen[c], hist)
      BY <2>2 DEF BeforeHist, DocInv, TypeOK
    <3> QED
      BY <2>2, <3>1, MutateFacts DEF BeforeHist, DocInv
  <2>3. CASE seen[c].ver # expected[c] /\ ~seeding[c]
    BY <2>3, RetryFacts DEF BeforeHist, DocInv
  <2> QED BY <2>1, <2>2, <2>3
<1>5. CallInv(c)'
  <2> USE <1>1, <1>3, <1>4, StoreAssumption
          DEF DocInv, TypeOK, CallInv, VersionInv, Rows, Drafted, Absent
  <2>1. SeenInv(c)'
    BY DEF SeenInv, DraftInv, AttemptInv, Ended
  <2>2. DraftInv(c)'
    <3>1. CASE pc'[c] = "cas"
      BY <3>1 DEF DraftInv
    <3>2. CASE pc'[c] = "beforeRow"
      <4>1. expected'[c] = seen[c].ver /\ draft'[c].log = Append(seen[c].log, c)
              /\ ~seeding'[c] /\ attempt'[c] = attempt[c]
        BY <3>2
      <4>2. 0 <= seen[c].ver /\ seen[c].ver <= row.ver
              /\ (seen[c].ver = row.ver => seen[c].log = row.log)
        BY DEF SeenInv
      <4>3. attempt[c] <= seen[c].ver - began[c]
        BY DEF SeenInv, DraftInv
      <4> QED
        BY <4>1, <4>2, <4>3 DEF DraftInv
    <3> QED BY <3>1, <3>2 DEF DraftInv
  <2>3. WrittenInv(c)'
    BY DEF WrittenInv, SyncPCs
  <2>4. AttemptInv(c)'
    BY DEF SeenInv, DraftInv, AttemptInv, Ended
  <2>5. SeedInv(c)'
    BY DEF SeedInv, DraftInv
  <2> QED
    BY <2>1, <2>2, <2>3, <2>4, <2>5
<1> QED
  BY <1>1, <1>2, <1>3, <1>5 DEF DocInv

LEMMA LoseRaceDoc ==
    ASSUME DocInv, NEW c \in Calls, LoseRace(c), TypeOK'
    PROVE  DocInv'
<1>1. row' = row /\ VersionInv' /\ LoggedOnce'
  BY DEF LoseRace, DocInv, VersionInv, LoggedOnce
<1>2. ASSUME NEW d \in Calls \ {c} PROVE CallInv(d)'
  <2>1. CASE seeding[c]
    BY <1>1, <2>1, Frame DEF LoseRace, Goto, DocInv, TypeOK
  <2>2. CASE ~seeding[c]
    BY <1>1, <2>2, RetryFacts, Frame DEF LoseRace, DocInv, TypeOK
  <2> QED BY <2>1, <2>2
<1>3. CallInv(c) /\ VersionInv /\ (Logged(c)' <=> Logged(c))
  BY <1>1 DEF DocInv, Logged
<1>4. /\ pc[c] = "cas" /\ row.ver # expected[c] /\ began'[c] = began[c]
      /\ ~seeding'[c]
      /\ \/ pc'[c] = "readRow" /\ attempt'[c] = attempt[c]
         \/ /\ attempt'[c] = attempt[c] + 1
            /\ \/ pc'[c] = "readRow" /\ attempt'[c] < MaxAttempts
               \/ pc'[c] = "threw"
  <2>1. CASE seeding[c]
    BY <2>1 DEF LoseRace, Goto, DocInv, TypeOK
  <2>2. CASE ~seeding[c]
    BY <2>2, RetryFacts DEF LoseRace, DocInv, TypeOK
  <2> QED BY <2>1, <2>2
<1>5. CallInv(c)'
  <2> USE <1>1, <1>3, <1>4, StoreAssumption
          DEF DocInv, TypeOK, CallInv, VersionInv, Rows, Drafted, Absent
  <2>1. SeenInv(c)'
    BY DEF SeenInv, DraftInv, AttemptInv, Ended
  <2>2. DraftInv(c)'
    BY DEF SeenInv, DraftInv, AttemptInv, SeedInv, Ended
  <2>3. WrittenInv(c)'
    BY DEF WrittenInv, SyncPCs
  <2>4. AttemptInv(c)'
    <3>1. expected[c] <= row.ver /\ attempt[c] <= expected[c] - began[c]
      BY DEF DraftInv
    <3>2. Absent <= began[c] /\ attempt[c] < MaxAttempts
      BY DEF AttemptInv, Ended
    <3>3. attempt[c] + 1 <= row.ver - began[c]
      <4>1. /\ attempt[c] \in Int /\ began[c] \in Int /\ row.ver \in Int
            /\ expected[c] \in Int /\ row.ver # expected[c]
        OBVIOUS
      <4> HIDE <1>1, <1>3, <1>4 DEF DocInv, TypeOK, CallInv, VersionInv, Rows
      <4> QED
        BY <3>1, <4>1
    <3>4. pc'[c] \in {"readRow", "threw"} /\ (pc'[c] = "readRow" => attempt'[c] < MaxAttempts)
      BY <3>2
    <3> QED
      BY <3>2, <3>3, <3>4 DEF AttemptInv, Ended
  <2>5. SeedInv(c)'
    BY DEF SeedInv, DraftInv
  <2> QED
    BY <2>1, <2>2, <2>3, <2>4, <2>5
<1> QED
  BY <1>1, <1>2, <1>3, <1>5 DEF DocInv

LEMMA CrashDoc ==
    ASSUME DocInv, NEW c \in Calls, Crash(c), TypeOK'
    PROVE  DocInv'
<1>1. row' = row /\ VersionInv' /\ LoggedOnce'
  BY DEF Crash, DocInv, VersionInv, LoggedOnce
<1>2. ASSUME NEW d \in Calls \ {c} PROVE CallInv(d)'
  BY <1>1, Frame DEF Crash, Goto, call, DocInv, TypeOK
<1>3. CallInv(c) /\ VersionInv /\ (Logged(c)' <=> Logged(c))
  BY <1>1 DEF DocInv, Logged
<1>4. /\ pc'[c] = "crashed" /\ pc[c] \notin {"new", "returned", "threw", "crashed"}
      /\ attempt'[c] = attempt[c] /\ began'[c] = began[c]
  BY DEF Crash, Goto, call, DocInv, TypeOK
<1>5. CallInv(c)'
  <2> USE <1>1, <1>3, <1>4, StoreAssumption
          DEF DocInv, TypeOK, CallInv, VersionInv, Rows, Drafted, Absent
  <2>1. SeenInv(c)'
    BY DEF SeenInv, DraftInv, AttemptInv, Ended
  <2>2. DraftInv(c)'
    BY DEF SeenInv, DraftInv, AttemptInv, SeedInv, Ended
  <2>3. WrittenInv(c)'
    BY DEF WrittenInv, SyncPCs
  <2>4. AttemptInv(c)'
    BY DEF SeenInv, DraftInv, AttemptInv, Ended
  <2>5. SeedInv(c)'
    BY DEF SeedInv, DraftInv
  <2> QED
    BY <2>1, <2>2, <2>3, <2>4, <2>5
<1> QED
  BY <1>1, <1>2, <1>3, <1>5 DEF DocInv

\* Appending adds one element, at the end.
LEMMA AppendFacts ==
    ASSUME NEW S, NEW s \in Seq(S), NEW e \in S
    PROVE  /\ DOMAIN s = 1 .. Len(s) /\ Len(s) \in Nat
           /\ DOMAIN Append(s, e) = 1 .. Len(s) + 1
           /\ \A k \in DOMAIN s : Append(s, e)[k] = s[k]
           /\ Append(s, e)[Len(s) + 1] = e
  OBVIOUS

LEMMA CompareAndSwapDoc ==
    ASSUME DocInv, NEW c \in Calls, CompareAndSwap(c), TypeOK'
    PROVE  DocInv'
<1>1. /\ pc[c] = "cas" /\ row.ver = expected[c] /\ pc'[c] = "syncRead"
      /\ row' = [ver |-> row.ver + 1, log |-> draft[c].log, run |-> draft[c].run]
      /\ call' = call
      /\ \A d \in Calls \ {c} : pc'[d] = pc[d]
  BY DEF CompareAndSwap, Goto, DocInv, TypeOK, call
<1>2. CallInv(c) /\ VersionInv /\ LoggedOnce /\ row.ver \in Int /\ row.log \in Seq(Calls)
  BY DEF DocInv, TypeOK, Rows
<1>3. row'.ver = row.ver + 1 /\ row'.log = draft[c].log
  BY <1>1
<1>4. ~Logged(c)
  BY <1>1, <1>2 DEF CallInv, WrittenInv, SyncPCs
<1>5. /\ VersionInv' /\ LoggedOnce'
      /\ \A d \in Calls \ {c} : Logged(d)' <=> Logged(d)
      /\ IF seeding[c] THEN ~Logged(c)' ELSE Logged(c)'
  <2>1. CASE seeding[c]
    <3>1. expected[c] = Absent /\ row'.log = <<>> /\ row.log = <<>>
      BY <1>1, <1>2, <1>3, <2>1 DEF CallInv, DraftInv, Drafted, VersionInv, Absent
    <3>2. row'.ver = 0
      BY <1>1, <1>3, <3>1 DEF Absent
    <3> QED
      BY <1>4, <2>1, <3>1, <3>2 DEF VersionInv, LoggedOnce, Logged, Absent
  <2>2. CASE ~seeding[c]
    <3>1. row'.log = Append(row.log, c) /\ expected[c] >= 0
      BY <1>1, <1>2, <1>3, <2>2 DEF CallInv, DraftInv, Drafted
    <3>2. /\ DOMAIN row.log = 1 .. Len(row.log) /\ Len(row.log) \in Nat
          /\ DOMAIN row'.log = 1 .. Len(row.log) + 1
          /\ \A k \in DOMAIN row.log : row'.log[k] = row.log[k]
          /\ row'.log[Len(row.log) + 1] = c
      BY <1>2, <3>1, AppendFacts
    <3>3. VersionInv'
      BY <1>1, <1>2, <1>3, <3>1 DEF VersionInv, Absent
    <3>4. LoggedOnce'
      <4>1. \A k \in DOMAIN row'.log : k \in DOMAIN row.log \/ k = Len(row.log) + 1
        BY <3>2
      <4>2. \A k \in DOMAIN row.log : row'.log[k] # c
        BY <1>4, <3>2 DEF Logged
      <4> QED
        BY <1>2, <3>2, <4>1, <4>2 DEF LoggedOnce
    <3>5. \A d \in Calls \ {c} : Logged(d)' <=> Logged(d)
      BY <3>2 DEF Logged
    <3>6. Logged(c)'
      BY <3>2 DEF Logged
    <3> QED BY <2>2, <3>3, <3>4, <3>5, <3>6
  <2> QED BY <2>1, <2>2
<1>6. ASSUME NEW d \in Calls \ {c} PROVE CallInv(d)'
  <2>1. CallInv(d) /\ pc'[d] = pc[d] /\ (Logged(d)' <=> Logged(d))
    BY <1>1, <1>5 DEF DocInv
  <2>2. /\ seen[d].ver \in Int /\ expected[d] \in Int
        /\ began[d] \in Int /\ attempt[d] \in Int
    BY DEF DocInv, TypeOK, Rows
  <2>3. SeenInv(d)'
    BY <1>1, <1>2, <1>3, <2>1, <2>2 DEF CallInv, SeenInv, call
  <2>4. DraftInv(d)'
    BY <1>1, <1>2, <1>3, <2>1, <2>2 DEF CallInv, DraftInv, call
  <2>5. WrittenInv(d)'
    BY <1>1, <1>2, <1>3, <2>1, <2>2 DEF CallInv, WrittenInv, call
  <2>6. AttemptInv(d)' /\ SeedInv(d)'
    BY <1>1, <1>2, <1>3, <2>1, <2>2 DEF CallInv, AttemptInv, SeedInv, call
  <2> QED BY <2>3, <2>4, <2>5, <2>6 DEF CallInv
<1>7. CallInv(c)'
  <2>1. attempt[c] \in Int /\ began[c] \in Int
    BY DEF DocInv, TypeOK
  <2>2. WrittenInv(c)'
    BY <1>1, <1>2, <1>3, <1>5, <2>1
       DEF CallInv, WrittenInv, DraftInv, Drafted, SyncPCs, VersionInv, Absent, call
  <2>3. AttemptInv(c)'
    BY <1>1, <1>2, <1>3, <2>1 DEF CallInv, AttemptInv, Ended, call
  <2>4. SeenInv(c)' /\ DraftInv(c)' /\ SeedInv(c)'
    BY <1>1 DEF SeenInv, DraftInv, SeedInv, Drafted
  <2> QED BY <2>2, <2>3, <2>4 DEF CallInv
<1> QED
  BY <1>5, <1>6, <1>7 DEF DocInv

\* What the end of writeVersionedState leaves behind.
LEMMA CompleteFacts ==
    ASSUME TypeOK, NEW c \in Calls, Complete(c)
    PROVE  /\ \A d \in Calls \ {c} :
                pc'[d] = pc[d] /\ seeding'[d] = seeding[d]
                  /\ expected'[d] = expected[d] /\ draft'[d] = draft[d]
           /\ \/ ~seeding[c] /\ pc'[c] = "returned"
              \/ seeding[c] /\ ~seeding'[c] /\ pc'[c] = "threw"
              \/ /\ seeding[c] /\ ~seeding'[c] /\ pc'[c] = "beforeRow"
                 /\ expected'[c] = 0 /\ draft'[c].log = Append(<<>>, c)
<1>1. CASE seeding[c]
  <2>1. [ver |-> 0, log |-> <<>>, run |-> NoRun] \in Rows
    BY DEF Rows
  <2>2. Mutate(c, [ver |-> 0, log |-> <<>>, run |-> NoRun], {})
    BY <1>1 DEF Complete
  <2> QED
    BY <1>1, <2>1, <2>2, MutateFacts
<1>2. CASE ~seeding[c]
  BY <1>2 DEF Complete, Goto, TypeOK
<1> QED BY <1>1, <1>2

\* What one step of syncDerived leaves behind.
LEMMA SyncFacts ==
    ASSUME TypeOK, NEW c \in Calls, SyncRead(c) \/ SyncWrite(c)
    PROVE  /\ row' = row /\ seen' = seen /\ began' = began /\ attempt' = attempt
           /\ pc[c] \in SyncPCs
           /\ \A d \in Calls \ {c} :
                pc'[d] = pc[d] /\ seeding'[d] = seeding[d]
                  /\ expected'[d] = expected[d] /\ draft'[d] = draft[d]
           /\ \/ pc'[c] = "syncWrite" /\ seeding'[c] = seeding[c]
              \/ ~seeding[c] /\ pc'[c] = "returned"
              \/ seeding[c] /\ ~seeding'[c] /\ pc'[c] = "threw"
              \/ /\ seeding[c] /\ ~seeding'[c] /\ pc'[c] = "beforeRow"
                 /\ expected'[c] = 0 /\ draft'[c].log = Append(<<>>, c)
<1>1. CASE SyncRead(c)
  <2>1. Complete(c) \/ (Goto(c, "syncWrite") /\ UNCHANGED <<seeding, expected, draft>>)
    BY <1>1 DEF SyncRead
  <2>2. row' = row /\ seen' = seen /\ began' = began /\ attempt' = attempt
          /\ pc[c] \in SyncPCs
    BY <1>1 DEF SyncRead, SyncPCs
  <2>3. CASE Complete(c)
    BY <2>2, <2>3, CompleteFacts
  <2>4. CASE Goto(c, "syncWrite") /\ UNCHANGED <<seeding, expected, draft>>
    BY <2>2, <2>4 DEF Goto, TypeOK
  <2> QED BY <2>1, <2>3, <2>4
<1>2. CASE SyncWrite(c)
  <2>1. Complete(c) \/ UNCHANGED <<pc, seeding, expected, draft>>
    BY <1>2 DEF SyncWrite
  <2>2. row' = row /\ seen' = seen /\ began' = began /\ attempt' = attempt
          /\ pc[c] = "syncWrite"
    BY <1>2 DEF SyncWrite
  <2>3. CASE Complete(c)
    BY <2>2, <2>3, CompleteFacts DEF SyncPCs
  <2>4. CASE UNCHANGED <<pc, seeding, expected, draft>>
    BY <2>2, <2>4 DEF SyncPCs
  <2> QED BY <2>1, <2>3, <2>4
<1> QED BY <1>1, <1>2

LEMMA SyncDoc ==
    ASSUME DocInv, NEW c \in Calls, SyncRead(c) \/ SyncWrite(c), TypeOK'
    PROVE  DocInv'
<1>1. TypeOK
  BY DEF DocInv
<1>2. /\ row' = row /\ seen' = seen /\ began' = began /\ attempt' = attempt
      /\ pc[c] \in SyncPCs
      /\ \A d \in Calls \ {c} :
           pc'[d] = pc[d] /\ seeding'[d] = seeding[d]
             /\ expected'[d] = expected[d] /\ draft'[d] = draft[d]
  BY <1>1, SyncFacts
<1>3. \/ pc'[c] = "syncWrite" /\ seeding'[c] = seeding[c]
      \/ ~seeding[c] /\ pc'[c] = "returned"
      \/ seeding[c] /\ ~seeding'[c] /\ pc'[c] = "threw"
      \/ /\ seeding[c] /\ ~seeding'[c] /\ pc'[c] = "beforeRow"
         /\ expected'[c] = 0 /\ draft'[c].log = Append(<<>>, c)
  BY <1>1, SyncFacts
<1>4. VersionInv' /\ LoggedOnce' /\ (Logged(c)' <=> Logged(c))
  BY <1>2 DEF DocInv, VersionInv, LoggedOnce, Logged
<1>5. ASSUME NEW d \in Calls \ {c} PROVE CallInv(d)'
  BY <1>2, Frame DEF DocInv
<1>6. CallInv(c)'
  <2>1. CallInv(c) /\ VersionInv
    BY DEF DocInv
  <2>2. row.ver \in Int /\ attempt[c] \in Int /\ began[c] \in Int
    BY DEF DocInv, TypeOK, Rows
  <2>3. SeenInv(c)' /\ SeedInv(c)'
    BY <1>3 DEF SeenInv, SeedInv
  <2>4. DraftInv(c)'
    <3>1. CASE pc'[c] # "beforeRow"
      BY <1>3, <3>1 DEF DraftInv, Drafted
    <3>2. CASE pc'[c] = "beforeRow"
      <4>1. row.ver >= 0 /\ attempt[c] <= Absent - began[c]
        BY <1>2, <1>3, <2>1, <3>2 DEF CallInv, WrittenInv
      <4>2. attempt[c] <= 0 - began[c]
        BY <2>2, <4>1 DEF Absent
      <4>3. row.ver = 0 => row.log = <<>>
        BY <2>1 DEF VersionInv
      <4>4. expected'[c] = 0 /\ ~seeding'[c] /\ draft'[c].log = Append(<<>>, c)
        BY <1>3, <3>2
      <4> QED
        BY <1>2, <4>1, <4>2, <4>3, <4>4 DEF DraftInv
    <3> QED BY <3>1, <3>2
  <2>5. WrittenInv(c)'
    BY <1>2, <1>3, <1>4, <2>1 DEF CallInv, WrittenInv, SyncPCs
  <2>6. AttemptInv(c)'
    BY <1>2, <1>3, <2>1 DEF CallInv, AttemptInv, SyncPCs, Ended
  <2> QED BY <2>3, <2>4, <2>5, <2>6 DEF CallInv
<1> QED
  BY <1>4, <1>5, <1>6 DEF DocInv

-----------------------------------------------------------------------------
(* The theorems *)

LEMMA DocStep == ASSUME DocInv, [Next]_vars PROVE DocInv'
<1>1. TypeOK'
  BY TypeStep DEF DocInv, CallInv
<1>2. CASE UNCHANGED vars
  <2>1. VersionInv' /\ LoggedOnce'
    BY <1>2 DEF vars, DocInv, VersionInv, LoggedOnce
  <2>2. ASSUME NEW c \in Calls PROVE CallInv(c)'
    BY <1>2, Frame DEF vars, call, DocInv
  <2> QED BY <1>1, <2>1, <2>2 DEF DocInv
<1>3. CASE Next
  BY <1>1, <1>3, BeginDoc, ReadRowDoc, ReadHistDoc, BeforeRowDoc, BeforeHistDoc,
     CompareAndSwapDoc, LoseRaceDoc, SyncDoc, CrashDoc DEF Next, Step
<1> QED BY <1>2, <1>3

\* The inductive invariant: what a call remembers of the row is never newer
\* than the row, and, where it is as new, is what the row holds.
THEOREM DocumentInvariant == Spec => []DocInv
<1>1. Init => DocInv
  BY InitDoc
<1>2. DocInv /\ [Next]_vars => DocInv'
  BY DocStep
<1> QED BY <1>1, <1>2, PTL DEF Spec

\* Every variable of the store keeps its type (dataStore.ts:28-43).
THEOREM TypeCorrect == Spec => []TypeOK
<1>1. DocInv => TypeOK
  BY DEF DocInv
<1> QED BY <1>1, DocumentInvariant, PTL

\* A swap that succeeds overwrites the document with itself and one mutation
\* more: no interleaving of calls loses an update (dataStore.ts:149-151).
THEOREM NoLostUpdate == Spec => []DraftsExtendTheRow
<1>1. DocInv => DraftsExtendTheRow
  <2> SUFFICES ASSUME DocInv, NEW c \in Calls, pc[c] \in Drafted, row.ver = expected[c]
               PROVE  draft[c].log = IF seeding[c] THEN row.log ELSE Append(row.log, c)
    BY DEF DraftsExtendTheRow
  <2>1. DraftInv(c) /\ VersionInv
    BY DEF DocInv, CallInv
  <2>2. CASE seeding[c]
    <3>1. row.ver = Absent /\ draft[c].log = <<>>
      BY <2>1, <2>2 DEF DraftInv
    <3>2. row.log = <<>>
      BY <2>1, <3>1 DEF VersionInv, Absent
    <3> QED BY <2>2, <3>1, <3>2
  <2>3. CASE ~seeding[c]
    BY <2>1, <2>3 DEF DraftInv
  <2> QED BY <2>2, <2>3
<1> QED BY <1>1, DocumentInvariant, PTL

\* Every call that returned is in the document, once (dataStore.ts:174-184).
THEOREM AppliedExactlyOnce == Spec => []AppliedOnce
<1>1. DocInv => AppliedOnce
  BY DEF DocInv, AppliedOnce, LoggedOnce, CallInv, WrittenInv, Logged
<1> QED BY <1>1, DocumentInvariant, PTL

\* A call is given up only after as many writes of other calls as it had
\* attempts (dataStore.ts:175, :183).
THEOREM GivingUpNeedsContention == Spec => []ExhaustionNeedsContention
<1>1. DocInv => ExhaustionNeedsContention
  BY DEF DocInv, ExhaustionNeedsContention, CallInv, AttemptInv
<1> QED BY <1>1, DocumentInvariant, PTL

-----------------------------------------------------------------------------
(* Refinement *)

\* A step of call c shows its caller at most one of the steps of SerialDocument.
LEMMA StepRefines ==
    ASSUME DocInv, [Next]_vars
    PROVE  [Document!Next]_(Document!vars)
<1> DEFINE st == [d \in Calls |-> StatusOf(pc[d])]
<1>1. ASSUME row.log' = row.log, pc' = pc PROVE UNCHANGED Document!vars
  BY <1>1 DEF Document!vars
<1>2. ASSUME NEW c \in Calls, row.log' = row.log,
             \A d \in Calls \ {c} : pc'[d] = pc[d],
             StatusOf(pc[c]) = StatusOf(pc'[c])
      PROVE  UNCHANGED Document!vars
  <2>1. \A d \in Calls : StatusOf(pc'[d]) = StatusOf(pc[d])
    BY <1>2
  <2> QED BY <1>2, <2>1 DEF Document!vars
<1>3. ASSUME NEW c \in Calls, NEW s, \A d \in Calls \ {c} : pc'[d] = pc[d],
             StatusOf(pc'[c]) = s
      PROVE  st' = [st EXCEPT ![c] = s]
  BY <1>3
<1>4. CASE UNCHANGED vars
  BY <1>1, <1>4 DEF vars
<1>5. ASSUME NEW c \in Calls, Begin(c) PROVE [Document!Next]_(Document!vars)
  <2>1. /\ pc[c] = "new" /\ pc'[c] = "readRow" /\ row' = row
        /\ \A d \in Calls \ {c} : pc'[d] = pc[d]
    BY <1>5 DEF Begin, Goto, DocInv, TypeOK
  <2>2. st[c] = "new" /\ st' = [st EXCEPT ![c] = "pending"]
    BY <1>3, <2>1 DEF StatusOf
  <2>3. Document!Invoke(c)
    BY <2>1, <2>2 DEF Document!Invoke
  <2> QED BY <2>3 DEF Document!Next
<1>6. ASSUME NEW c \in Calls, CompareAndSwap(c) PROVE [Document!Next]_(Document!vars)
  <2>1. /\ pc[c] = "cas" /\ pc'[c] = "syncRead" /\ row'.log = draft[c].log
        /\ row.ver = expected[c] /\ \A d \in Calls \ {c} : pc'[d] = pc[d]
    BY <1>6 DEF CompareAndSwap, Goto, DocInv, TypeOK
  <2>2. DraftInv(c) /\ WrittenInv(c) /\ VersionInv
    BY DEF DocInv, CallInv
  <2>3. CASE seeding[c]
    <3>1. row'.log = <<>> /\ row.ver = Absent
      BY <2>1, <2>2, <2>3 DEF DraftInv, Drafted
    <3>2. row.log = <<>>
      BY <2>2, <3>1 DEF VersionInv, Absent
    <3> QED BY <1>2, <2>1, <3>1, <3>2 DEF StatusOf
  <2>4. CASE ~seeding[c]
    <3>1. row'.log = Append(row.log, c)
      BY <2>1, <2>2, <2>4 DEF DraftInv, Drafted
    <3>2. c \notin Document!Applied
      BY <2>1, <2>2 DEF WrittenInv, Logged, SyncPCs, Document!Applied
    <3>3. st[c] = "pending" /\ st' = st
      BY <2>1 DEF StatusOf
    <3>4. Document!Apply(c)
      BY <3>1, <3>2, <3>3 DEF Document!Apply
    <3> QED BY <3>4 DEF Document!Next
  <2> QED BY <2>3, <2>4
\* Losing the call is a step of SerialDocument from any running state.
<1>7. ASSUME NEW c \in Calls, row' = row, \A d \in Calls \ {c} : pc'[d] = pc[d],
             StatusOf(pc[c]) = "pending", StatusOf(pc'[c]) = "lost"
      PROVE  [Document!Next]_(Document!vars)
  <2>1. st[c] = "pending" /\ st' = [st EXCEPT ![c] = "lost"]
    BY <1>3, <1>7
  <2>2. Document!Lose(c)
    BY <1>7, <2>1 DEF Document!Lose
  <2> QED BY <2>2 DEF Document!Next
<1>8. ASSUME NEW c \in Calls, SyncRead(c) \/ SyncWrite(c)
      PROVE  [Document!Next]_(Document!vars)
  <2>1. TypeOK /\ WrittenInv(c)
    BY DEF DocInv, CallInv
  <2>2. /\ row' = row /\ pc[c] \in SyncPCs
        /\ \A d \in Calls \ {c} : pc'[d] = pc[d]
        /\ \/ pc'[c] \in {"syncWrite", "beforeRow"}
           \/ ~seeding[c] /\ pc'[c] = "returned"
           \/ pc'[c] = "threw"
    BY <1>8, <2>1, SyncFacts
  <2>3. StatusOf(pc[c]) = "pending"
    BY <2>2 DEF StatusOf, SyncPCs
  <2>4. CASE pc'[c] \in {"syncWrite", "beforeRow"}
    BY <1>2, <2>2, <2>3, <2>4 DEF StatusOf
  <2>5. CASE pc'[c] = "threw"
    BY <1>7, <2>2, <2>3, <2>5 DEF StatusOf
  <2>6. CASE ~seeding[c] /\ pc'[c] = "returned"
    <3>1. c \in Document!Applied
      BY <2>1, <2>2, <2>6 DEF WrittenInv, Logged, Document!Applied
    <3>2. st[c] = "pending" /\ st' = [st EXCEPT ![c] = "returned"]
      BY <1>3, <2>2, <2>3, <2>6 DEF StatusOf
    <3>3. Document!Return(c)
      BY <2>2, <3>1, <3>2 DEF Document!Return
    <3> QED BY <3>3 DEF Document!Next
  <2> QED BY <2>2, <2>4, <2>5, <2>6
<1>9. ASSUME NEW c \in Calls, row' = row, \A d \in Calls \ {c} : pc'[d] = pc[d],
             StatusOf(pc[c]) = "pending", StatusOf(pc'[c]) \in {"pending", "lost"}
      PROVE  [Document!Next]_(Document!vars)
  BY <1>2, <1>7, <1>9
<1>10. ASSUME NEW c \in Calls, ReadRow(c) \/ BeforeRow(c)
       PROVE  [Document!Next]_(Document!vars)
  <2>1. /\ row' = row /\ \A d \in Calls \ {c} : pc'[d] = pc[d]
        /\ pc[c] \in {"readRow", "beforeRow"}
        /\ pc'[c] \in {"beforeRow", "readHist", "cas", "beforeHist"}
    BY <1>10 DEF ReadRow, BeforeRow, Goto, DocInv, TypeOK
  <2> QED BY <1>9, <2>1 DEF StatusOf
<1>11. ASSUME NEW c \in Calls, ReadHist(c) PROVE [Document!Next]_(Document!vars)
  <2>1. TypeOK /\ seen[c] \in Rows /\ Mutate(c, seen[c], hist)
    BY <1>11 DEF ReadHist, DocInv, TypeOK
  <2>2. /\ row' = row /\ \A d \in Calls \ {c} : pc'[d] = pc[d]
        /\ pc[c] = "readHist" /\ pc'[c] \in {"threw", "beforeRow"}
    BY <1>11, <2>1, MutateFacts DEF ReadHist
  <2> QED BY <1>9, <2>2 DEF StatusOf
<1>12. ASSUME NEW c \in Calls, BeforeHist(c) \/ LoseRace(c)
       PROVE  [Document!Next]_(Document!vars)
  <2>1. TypeOK /\ seen[c] \in Rows
    BY DEF DocInv, TypeOK
  <2>2. row' = row /\ pc[c] \in {"beforeHist", "cas"}
    BY <1>12 DEF BeforeHist, LoseRace
  <2>3. Goto(c, "cas") \/ Goto(c, "readRow") \/ Mutate(c, seen[c], hist) \/ Retry(c)
    BY <1>12 DEF BeforeHist, LoseRace
  <2>4. /\ \A d \in Calls \ {c} : pc'[d] = pc[d]
        /\ pc'[c] \in {"cas", "readRow", "beforeRow", "threw"}
    <3>1. CASE Goto(c, "cas") \/ Goto(c, "readRow")
      BY <2>1, <3>1 DEF Goto, TypeOK
    <3>2. CASE Mutate(c, seen[c], hist)
      BY <2>1, <3>2, MutateFacts
    <3>3. CASE Retry(c)
      BY <2>1, <3>3, RetryFacts
    <3> QED BY <2>3, <3>1, <3>2, <3>3
  <2> QED BY <1>9, <2>2, <2>4 DEF StatusOf
<1>13. ASSUME NEW c \in Calls, Crash(c) PROVE [Document!Next]_(Document!vars)
  <2>1. /\ row' = row /\ \A d \in Calls \ {c} : pc'[d] = pc[d]
        /\ pc[c] \notin {"new", "returned", "threw", "crashed"}
        /\ pc'[c] = "crashed"
    BY <1>13 DEF Crash, Goto, DocInv, TypeOK
  <2> QED BY <1>9, <2>1 DEF StatusOf
<1> QED
  BY <1>4, <1>5, <1>6, <1>8, <1>10, <1>11, <1>12, <1>13 DEF Next, Step

\* updateState behaves, for its callers, as if each mutation were applied in
\* one step between the call and its return (dataStore.ts:174-184).
THEOREM StoreImplementsSerialDocument == Spec => ImplementsSerialDocument
<1>1. Init => Document!Init
  BY DEF Init, EmptyRow, Document!Init, StatusOf
<1>2. DocInv /\ [Next]_vars => [Document!Next]_(Document!vars)
  BY StepRefines
<1> QED
  BY <1>1, <1>2, DocumentInvariant, PTL DEF Spec, ImplementsSerialDocument, Document!Spec

-----------------------------------------------------------------------------
(* The nights: the history table and the nights of the document *)

UniqueIndices(h) == \A m, n \in h : m.i = n.i => m = n

\* No call is between its swap and its last history statement.
Idle == \A c \in Calls : pc[c] \notin SyncPCs

\* A version a call remembers that still is the row's was read while no call
\* was writing history, and none has begun to since: the nights read with it
\* are the document's, and so is the page's run.
FreshInv(c) ==
    /\ pc[c] = "readHist" \/ (pc[c] = "beforeHist" /\ seeding[c]) =>
         (seen[c].ver = row.ver => Idle /\ seen[c].run = row.run)
    /\ pc[c] \in Drafted /\ expected[c] = row.ver =>
         /\ Idle
         /\ IF seeding[c] THEN draft[c] = EmptyDraft
            ELSE draft[c].nights = NewNights(op[c], row.run, truth)
         /\ pc[c] = "cas" => before[c] = hist

\* A call that is writing history is alone at it, and what it has still to
\* write turns the table into the nights of the document.
SyncInv(c) ==
    pc[c] \in SyncPCs =>
      /\ \A d \in Calls : pc[d] \in SyncPCs => d = c
      /\ pc[c] = "syncRead" => /\ before[c] = hist
                               /\ UniqueIndices(hist)
                               /\ truth = draft[c].nights
      /\ pc[c] = "syncWrite" =>
           /\ Written(hist, upserts[c], deletes[c]) = truth
           /\ UniqueIndices(upserts[c])
           /\ \A n \in upserts[c] : n.i \notin deletes[c]
      /\ seeding[c] => /\ pc[c] = "syncRead"
                       /\ truth = {} /\ hist = {} /\ draft[c].nights = {}
                       /\ row = [ver |-> 0, log |-> <<>>, run |-> NoRun]

NightsInv ==
    /\ UniqueIndices(truth)
    /\ Idle => hist = truth
    /\ row.ver = Absent => Idle /\ truth = {}
    /\ \A c \in Calls : FreshInv(c) /\ SyncInv(c)

HistInv == ~overlapped /\ ~torn => NightsInv

\* The index of a new night is no other night's.
LEMMA NextIndexIsNew ==
    ASSUME NEW h \in SUBSET Nights
    PROVE  \A n \in h : n.i # NextIndex(h)
<1> SUFFICES ASSUME NEW n \in h PROVE n.i # NextIndex(h)
  OBVIOUS
<1> DEFINE S == {m.i : m \in h}
<1>1. S \in SUBSET Nat /\ S # {} /\ n.i \in S /\ \A x \in S : x <= MaxIndex
  BY StoreAssumption DEF Nights, Indices
<1>2. Max(S) \in Nat /\ n.i \in Nat /\ n.i <= Max(S)
  <2> HIDE DEF S
  <2> QED BY <1>1, HasMax, StoreAssumption
<1>3. NextIndex(h) = Max(S) + 1
  BY DEF NextIndex
<1> HIDE DEF S
<1> QED BY <1>2, <1>3

\* A mutation leaves at most one night at each index.
LEMMA NewNightsUnique ==
    ASSUME NEW o, NEW run, NEW h \in SUBSET Nights, UniqueIndices(h)
    PROVE  UniqueIndices(NewNights(o, run, h))
<1>1. ASSUME NEW r PROVE UniqueIndices(WithNight(h, r))
  <2>1. \A n \in h : n.i # NextIndex(h)
    BY NextIndexIsNew
  <2> DEFINE new == [i |-> NextIndex(h), run |-> r, rev |-> 0]
  <2>2. new.i = NextIndex(h)
    OBVIOUS
  <2> HIDE DEF new
  <2>3. UniqueIndices(h \cup {new})
    BY <2>1, <2>2 DEF UniqueIndices
  <2>4. WithNight(h, r) \subseteq h \cup {new}
    BY DEF WithNight, Newest, new
  <2> QED BY <2>3, <2>4 DEF UniqueIndices
<1>2. ASSUME NEW r PROVE UniqueIndices(Revised(h, r))
  <2> DEFINE f(n) == IF n.run = r THEN [n EXCEPT !.rev = 1] ELSE n
  <2>1. \A n \in h : f(n).i = n.i
    BY DEF Nights
  <2>2. Revised(h, r) = {f(n) : n \in h}
    BY DEF Revised
  <2> HIDE DEF f
  <2> QED BY <2>1, <2>2 DEF UniqueIndices
<1> QED BY <1>1, <1>2 DEF NewNights

\* The statements of a sync, one batch at a time, give what they give at once.
LEMMA WrittenInParts ==
    ASSUME NEW h, NEW ups, NEW dels, NEW u \in SUBSET ups, NEW d \in SUBSET dels,
           UniqueIndices(ups), \A n \in ups : n.i \notin dels
    PROVE  Written(Written(h, u, d), ups \ u, dels \ d) = Written(h, ups, dels)
<1> DEFINE ix(s) == {n.i : n \in s}
<1>1. \A x : x \in ix(ups) <=> x \in ix(u) \/ x \in ix(ups \ u)
  OBVIOUS
<1>2. \A n \in u : n.i \notin ix(ups \ u) /\ n.i \notin dels \ d
  BY DEF UniqueIndices
<1>3. \A hh, uu, dd : Written(hh, uu, dd) = {m \in hh : m.i \notin ix(uu) \cup dd} \cup uu
  BY DEF Written
<1> HIDE DEF ix
<1>4. ASSUME NEW m \in Written(h, ups, dels)
      PROVE  m \in Written(Written(h, u, d), ups \ u, dels \ d)
  BY <1>1, <1>2, <1>3, <1>4
<1>5. ASSUME NEW m \in Written(Written(h, u, d), ups \ u, dels \ d)
      PROVE  m \in Written(h, ups, dels)
  BY <1>1, <1>2, <1>3, <1>5
<1> QED BY <1>4, <1>5

\* With nothing left to write the table stays as it is.
LEMMA WrittenNothing ==
    ASSUME NEW h PROVE Written(h, {}, {}) = h
  BY DEF Written

\* The differences that syncDerived computes turn the table into the draft's
\* nights, when the nights read before the write are those in the table.
LEMMA WrittenDifferences ==
    ASSUME NEW h, NEW t, UniqueIndices(h), UniqueIndices(t)
    PROVE  /\ Written(h, t \ h, {m.i : m \in h} \ {n.i : n \in t}) = t
           /\ UniqueIndices(t \ h)
           /\ \A n \in t \ h : n.i \notin {m.i : m \in h} \ {k.i : k \in t}
<1> DEFINE dels == {m.i : m \in h} \ {n.i : n \in t}
<1>1. UniqueIndices(t \ h) /\ \A n \in t : n.i \notin dels
  BY DEF UniqueIndices
<1>2. ASSUME NEW m \in t PROVE m \in Written(h, t \ h, dels)
  <2>1. CASE m \in h
    <3>1. m.i \notin {n.i : n \in t \ h}
      BY <2>1 DEF UniqueIndices
    <3> QED BY <1>1, <2>1, <3>1 DEF Written
  <2>2. CASE m \notin h
    BY <2>2 DEF Written
  <2> QED BY <2>1, <2>2
<1>3. ASSUME NEW m \in Written(h, t \ h, dels) PROVE m \in t
  <2>1. CASE m \in h /\ m.i \notin {n.i : n \in t \ h} /\ m.i \notin dels
    <3>1. PICK n \in t : n.i = m.i
      BY <2>1
    <3>2. n \in h
      BY <2>1, <3>1
    <3> QED BY <2>1, <3>1, <3>2 DEF UniqueIndices
  <2> QED BY <1>3, <2>1 DEF Written
<1> QED BY <1>1, <1>2, <1>3

-----------------------------------------------------------------------------
(* The steps *)

LEMMA InitNights == Init => HistInv
<1> SUFFICES ASSUME Init PROVE NightsInv
  BY DEF HistInv
<1>1. \A c \in Calls : pc[c] = "new"
  BY DEF Init
<1>2. Idle /\ \A c \in Calls : FreshInv(c) /\ SyncInv(c)
  BY <1>1 DEF Idle, FreshInv, SyncInv, SyncPCs, Drafted
<1>3. truth = {} /\ hist = {}
  BY DEF Init
<1> QED
  BY <1>2, <1>3 DEF NightsInv, UniqueIndices

\* A step outside of writing history disturbs what is known of no other call.
LEMMA Aside ==
    ASSUME NightsInv, NEW c \in Calls,
           row' = row, hist' = hist, truth' = truth, op' = op,
           pc[c] \notin SyncPCs, pc'[c] \notin SyncPCs,
           \A d \in Calls \ {c} :
               /\ pc'[d] = pc[d] /\ seeding'[d] = seeding[d]
               /\ expected'[d] = expected[d] /\ draft'[d] = draft[d]
               /\ seen'[d] = seen[d] /\ before'[d] = before[d]
               /\ upserts'[d] = upserts[d] /\ deletes'[d] = deletes[d],
           FreshInv(c)'
    PROVE  NightsInv'
<1>1. Idle' <=> Idle
  BY DEF Idle
<1>2. FreshInv(c)' /\ SyncInv(c)'
  BY DEF SyncInv
<1>3. ASSUME NEW d \in Calls \ {c} PROVE FreshInv(d)' /\ SyncInv(d)'
  <2>1. FreshInv(d) /\ SyncInv(d)
    BY DEF NightsInv
  <2>2. FreshInv(d)'
    BY <1>1, <2>1 DEF FreshInv
  <2>3. SyncInv(d)'
    BY <2>1 DEF SyncInv
  <2> QED BY <2>2, <2>3
<1> QED
  BY <1>1, <1>2, <1>3 DEF NightsInv, UniqueIndices

\* What a call's draft holds after the caller's function ran on the row r and
\* the nights h.
LEMMA MutateNights ==
    ASSUME TypeOK, NEW c \in Calls, NEW r \in Rows, NEW h, Mutate(c, r, h)
    PROVE  /\ ~seeding'[c]
           /\ \/ pc'[c] = "threw"
              \/ /\ pc'[c] = "beforeRow"
                 /\ expected'[c] = r.ver
                 /\ draft'[c].nights = NewNights(op[c], r.run, h)
<1>1. CASE Rejects(op[c], r.run)
  BY <1>1 DEF Mutate, Goto, TypeOK
<1>2. CASE ~Rejects(op[c], r.run)
  <2>1. /\ draft' = [draft EXCEPT ![c] = Mutated(c, r.log, r.run, h)]
        /\ expected' = [expected EXCEPT ![c] = r.ver]
        /\ seeding' = [seeding EXCEPT ![c] = FALSE]
        /\ pc' = [pc EXCEPT ![c] = "beforeRow"]
    BY <1>2 DEF Mutate, Goto
  <2>2. Mutated(c, r.log, r.run, h).nights = NewNights(op[c], r.run, h)
    BY DEF Mutated
  <2> QED
    BY <2>1, <2>2 DEF TypeOK
<1> QED BY <1>1, <1>2

\* A draft of the row as it is, and of the nights of the document, is fresh.
LEMMA MutateFresh ==
    ASSUME TypeOK, NEW c \in Calls, NEW r \in Rows, NEW h, Mutate(c, r, h),
           row' = row, truth' = truth, op' = op,
           r.ver = row.ver => Idle' /\ h = truth /\ r.run = row.run
    PROVE  FreshInv(c)' /\ pc'[c] \notin SyncPCs
<1>1. /\ ~seeding'[c]
      /\ \/ pc'[c] = "threw"
         \/ /\ pc'[c] = "beforeRow"
            /\ expected'[c] = r.ver
            /\ draft'[c].nights = NewNights(op[c], r.run, h)
  BY MutateNights
<1>2. CASE pc'[c] = "threw"
  BY <1>2 DEF FreshInv, Drafted, SyncPCs
<1>3. CASE pc'[c] = "beforeRow"
  BY <1>1, <1>3 DEF FreshInv, Drafted, SyncPCs
<1> QED BY <1>1, <1>2, <1>3

LEMMA BeginNights ==
    ASSUME TypeOK, NightsInv, NEW c \in Calls, Begin(c)
    PROVE  NightsInv'
<1>1. pc[c] = "new" /\ pc'[c] = "readRow"
  BY DEF Begin, Goto, TypeOK
<1>2. FreshInv(c)' /\ pc[c] \notin SyncPCs /\ pc'[c] \notin SyncPCs
  BY <1>1 DEF FreshInv, Drafted, SyncPCs
<1> QED
  BY <1>2, Aside DEF Begin, Goto, TypeOK

LEMMA ReadRowNights ==
    ASSUME TypeOK, NightsInv, NEW c \in Calls, ReadRow(c), ~overlapped'
    PROVE  NightsInv'
<1>1. Idle
  BY DEF ReadRow, OtherSyncing, Idle, SyncPCs
<1>2. /\ pc[c] = "readRow" /\ seen'[c] = row /\ row' = row
      /\ \/ row.ver = Absent /\ pc'[c] = "beforeRow" /\ seeding'[c]
            /\ draft'[c] = EmptyDraft
         \/ pc'[c] = "readHist"
  BY DEF ReadRow, Goto, TypeOK
<1>3. Idle'
  BY <1>1, <1>2 DEF ReadRow, Goto, TypeOK, Idle, SyncPCs
<1>4. FreshInv(c)' /\ pc[c] \notin SyncPCs /\ pc'[c] \notin SyncPCs
  BY <1>2, <1>3 DEF FreshInv, Drafted, SyncPCs
<1>5. /\ row' = row /\ hist' = hist /\ truth' = truth /\ op' = op
      /\ \A d \in Calls \ {c} :
             /\ pc'[d] = pc[d] /\ seeding'[d] = seeding[d]
             /\ expected'[d] = expected[d] /\ draft'[d] = draft[d]
             /\ seen'[d] = seen[d] /\ before'[d] = before[d]
             /\ upserts'[d] = upserts[d] /\ deletes'[d] = deletes[d]
  BY DEF ReadRow, Goto, TypeOK
<1> QED
  BY <1>4, <1>5, Aside

LEMMA ReadHistNights ==
    ASSUME TypeOK, NightsInv, NEW c \in Calls, ReadHist(c)
    PROVE  NightsInv'
<1>1. seen[c] \in Rows /\ Mutate(c, seen[c], hist) /\ pc[c] = "readHist"
  BY DEF ReadHist, TypeOK
<1>2. \A d \in Calls \ {c} :
          pc'[d] = pc[d] /\ seeding'[d] = seeding[d]
            /\ expected'[d] = expected[d] /\ draft'[d] = draft[d]
  BY <1>1, MutateFacts
<1>3. pc'[c] \notin SyncPCs
  BY <1>1, MutateNights DEF SyncPCs
<1>4. Idle' <=> Idle
  BY <1>1, <1>2, <1>3 DEF Idle, SyncPCs
<1>5. seen[c].ver = row.ver => Idle' /\ hist = truth /\ seen[c].run = row.run
  BY <1>1, <1>4 DEF NightsInv, FreshInv
<1>6. FreshInv(c)'
  BY <1>1, <1>5, MutateFresh DEF ReadHist
<1>7. pc[c] \notin SyncPCs
  BY <1>1 DEF SyncPCs
<1> QED
  BY <1>2, <1>3, <1>6, <1>7, Aside DEF ReadHist

LEMMA BeforeRowNights ==
    ASSUME DocInv, NightsInv, NEW c \in Calls, BeforeRow(c), ~overlapped'
    PROVE  NightsInv'
<1>1. /\ pc[c] = "beforeRow" /\ seen'[c] = row /\ row' = row /\ truth' = truth
      /\ hist' = hist /\ op' = op
      /\ seeding'[c] = seeding[c] /\ expected'[c] = expected[c]
      /\ draft'[c] = draft[c]
      /\ \/ row.ver = Absent /\ pc'[c] = "cas" /\ before'[c] = {}
         \/ pc'[c] = "beforeHist"
  BY DEF BeforeRow, Goto, DocInv, TypeOK
<1>2. \A d \in Calls \ {c} :
          /\ pc'[d] = pc[d] /\ seeding'[d] = seeding[d]
          /\ expected'[d] = expected[d] /\ draft'[d] = draft[d]
          /\ seen'[d] = seen[d] /\ before'[d] = before[d]
          /\ upserts'[d] = upserts[d] /\ deletes'[d] = deletes[d]
  BY DEF BeforeRow, Goto, DocInv, TypeOK
<1>3. pc[c] \notin SyncPCs /\ pc'[c] \notin SyncPCs
  BY <1>1 DEF SyncPCs
<1>4. Idle' <=> Idle
  BY <1>2, <1>3 DEF Idle
<1>5. seeding[c] => Idle
  BY <1>3 DEF BeforeRow, OtherSyncing, Idle
<1>6. FreshInv(c)
  BY DEF NightsInv
<1>7. row.ver = Absent => Idle /\ hist = {}
  BY DEF NightsInv
<1>8. FreshInv(c)'
  <2>1. pc[c] \in Drafted
    BY <1>1 DEF Drafted
  <2>2. pc'[c] = "cas" => before'[c] = hist
    BY <1>1, <1>7
  <2> QED
    BY <1>1, <1>4, <1>5, <1>6, <2>1, <2>2 DEF FreshInv
<1> QED
  BY <1>1, <1>2, <1>3, <1>8, Aside

LEMMA BeforeHistNights ==
    ASSUME DocInv, NightsInv, NEW c \in Calls, BeforeHist(c)
    PROVE  NightsInv'
<1>1. /\ pc[c] = "beforeHist" /\ row' = row /\ truth' = truth /\ hist' = hist
      /\ op' = op /\ seen' = seen /\ before'[c] = hist
      /\ upserts' = upserts /\ deletes' = deletes
      /\ \A d \in Calls \ {c} : before'[d] = before[d]
  BY DEF BeforeHist, DocInv, TypeOK
<1>2. FreshInv(c) /\ pc[c] \notin SyncPCs /\ (Idle => hist = truth)
  BY <1>1 DEF NightsInv, SyncPCs
<1>3. /\ pc'[c] \notin SyncPCs
      /\ \A d \in Calls \ {c} :
             pc'[d] = pc[d] /\ seeding'[d] = seeding[d]
               /\ expected'[d] = expected[d] /\ draft'[d] = draft[d]
  <2>1. CASE seen[c].ver = expected[c]
    BY <2>1 DEF BeforeHist, Goto, DocInv, TypeOK, SyncPCs
  <2>2. CASE seen[c].ver # expected[c] /\ seeding[c]
    <3>1. seen[c] \in Rows /\ Mutate(c, seen[c], hist) /\ TypeOK
      BY <2>2 DEF BeforeHist, DocInv, TypeOK
    <3> QED
      BY <3>1, MutateFacts DEF SyncPCs
  <2>3. CASE seen[c].ver # expected[c] /\ ~seeding[c]
    BY <2>3, RetryFacts DEF BeforeHist, DocInv, SyncPCs
  <2> QED BY <2>1, <2>2, <2>3
<1>4. Idle' <=> Idle
  BY <1>2, <1>3 DEF Idle
<1>5. FreshInv(c)'
  <2>1. CASE seen[c].ver = expected[c]
    <3>1. /\ pc'[c] = "cas" /\ seeding'[c] = seeding[c]
          /\ expected'[c] = expected[c] /\ draft'[c] = draft[c]
      BY <2>1 DEF BeforeHist, Goto, DocInv, TypeOK
    <3> QED
      BY <1>1, <1>2, <1>4, <3>1 DEF FreshInv, Drafted
  <2>2. CASE seen[c].ver # expected[c] /\ seeding[c]
    <3>1. seen[c] \in Rows /\ Mutate(c, seen[c], hist) /\ TypeOK
      BY <2>2 DEF BeforeHist, DocInv, TypeOK
    <3>2. seen[c].ver = row.ver => Idle' /\ hist = truth /\ seen[c].run = row.run
      BY <1>1, <1>2, <1>4, <2>2 DEF FreshInv
    <3> QED
      BY <1>1, <3>1, <3>2, MutateFresh
  <2>3. CASE seen[c].ver # expected[c] /\ ~seeding[c]
    <3>1. pc'[c] = "readRow" \/ pc'[c] = "threw"
      BY <2>3, RetryFacts DEF BeforeHist, DocInv
    <3> QED
      BY <3>1 DEF FreshInv, Drafted
  <2> QED BY <2>1, <2>2, <2>3
<1> QED
  BY <1>1, <1>2, <1>3, <1>5, Aside

LEMMA LoseRaceNights ==
    ASSUME TypeOK, NightsInv, NEW c \in Calls, LoseRace(c)
    PROVE  NightsInv'
<1>1. /\ pc[c] = "cas" /\ (pc'[c] = "readRow" \/ pc'[c] = "threw")
      /\ \A d \in Calls \ {c} : pc'[d] = pc[d]
  <2>1. CASE seeding[c]
    BY <2>1 DEF LoseRace, Goto, TypeOK
  <2>2. CASE ~seeding[c]
    BY <2>2, RetryFacts DEF LoseRace
  <2> QED BY <2>1, <2>2
<1>2. \A d \in Calls \ {c} : seeding'[d] = seeding[d]
  BY DEF LoseRace, TypeOK
<1>3. FreshInv(c)' /\ pc[c] \notin SyncPCs /\ pc'[c] \notin SyncPCs
  BY <1>1 DEF FreshInv, Drafted, SyncPCs
<1> QED
  BY <1>1, <1>2, <1>3, Aside DEF LoseRace

LEMMA CrashNights ==
    ASSUME TypeOK, NightsInv, NEW c \in Calls, Crash(c), ~torn'
    PROVE  NightsInv'
<1>1. /\ pc'[c] = "crashed" /\ pc[c] \notin SyncPCs
      /\ \A d \in Calls \ {c} : pc'[d] = pc[d]
  BY DEF Crash, Goto, TypeOK
<1>2. FreshInv(c)' /\ pc'[c] \notin SyncPCs
  BY <1>1 DEF FreshInv, Drafted, SyncPCs
<1> QED
  BY <1>1, <1>2, Aside DEF Crash, call

\* While a call is writing history nothing another call remembers is fresh.
LEMMA NothingFresh ==
    ASSUME NightsInv, NEW c \in Calls, pc[c] \in SyncPCs, NEW d \in Calls \ {c}
    PROVE  /\ pc[d] \notin SyncPCs
           /\ pc[d] = "readHist" \/ (pc[d] = "beforeHist" /\ seeding[d]) =>
                seen[d].ver # row.ver
           /\ pc[d] \in Drafted => expected[d] # row.ver
  BY DEF NightsInv, FreshInv, SyncInv, Idle

LEMMA CompareAndSwapNights ==
    ASSUME DocInv, NightsInv, NEW c \in Calls, CompareAndSwap(c)
    PROVE  NightsInv'
<1>1. /\ pc[c] = "cas" /\ row.ver = expected[c]
      /\ row' = [ver |-> row.ver + 1, log |-> draft[c].log, run |-> draft[c].run]
      /\ truth' = IF seeding[c] THEN truth ELSE NewNights(op[c], row.run, truth)
      /\ pc' = [pc EXCEPT ![c] = "syncRead"]
      /\ hist' = hist /\ call' = call
  BY DEF CompareAndSwap, Goto
<1>2. /\ Idle /\ hist = truth /\ before[c] = hist /\ UniqueIndices(truth)
      /\ IF seeding[c] THEN draft[c] = EmptyDraft
         ELSE draft[c].nights = NewNights(op[c], row.run, truth)
  <2>1. pc[c] \in Drafted
    BY <1>1 DEF Drafted
  <2> QED
    BY <1>1, <2>1 DEF NightsInv, FreshInv
<1>3. row.ver \in Int /\ row.ver >= Absent /\ row'.ver = row.ver + 1 /\ truth \in SUBSET Nights
  BY <1>1 DEF DocInv, TypeOK, Rows, VersionInv
<1>4. pc'[c] = "syncRead" /\ \A d \in Calls \ {c} : pc'[d] = pc[d] /\ pc[d] \notin SyncPCs
  BY <1>1, <1>2 DEF DocInv, TypeOK, Idle
<1>5. UniqueIndices(truth') /\ truth' = draft[c].nights
  <2>1. CASE seeding[c]
    <3>1. draft[c].nights = {}
      BY <1>2, <2>1 DEF EmptyDraft
    <3>2. row.ver = Absent
      <4>1. CallInv(c) /\ pc[c] \in Drafted
        BY <1>1 DEF DocInv, Drafted
      <4> QED
        BY <1>1, <2>1, <4>1 DEF CallInv, DraftInv
    <3> QED
      BY <1>1, <1>2, <2>1, <3>1, <3>2 DEF NightsInv
  <2>2. CASE ~seeding[c]
    BY <1>1, <1>2, <1>3, <2>2, NewNightsUnique
  <2> QED BY <2>1, <2>2
<1>6. SyncInv(c)'
  <2>1. seeding[c] => truth' = {} /\ hist' = {}
                      /\ draft[c].nights = {}
                      /\ row' = [ver |-> 0, log |-> <<>>, run |-> NoRun]
    <3> SUFFICES ASSUME seeding[c]
                 PROVE  /\ truth' = {} /\ hist' = {} /\ draft[c].nights = {}
                        /\ row' = [ver |-> 0, log |-> <<>>, run |-> NoRun]
      OBVIOUS
    <3>1. CallInv(c) /\ pc[c] \in Drafted
      BY <1>1 DEF DocInv, Drafted
    <3>2. row.ver = Absent
      BY <1>1, <3>1 DEF CallInv, DraftInv
    <3>3. draft[c].nights = {} /\ draft[c].log = <<>> /\ draft[c].run = NoRun
      BY <1>2 DEF EmptyDraft
    <3>4. row.ver + 1 = 0
      BY <3>2 DEF Absent
    <3>5. truth = {}
      BY <3>2 DEF NightsInv
    <3> QED
      BY <1>1, <1>2, <3>3, <3>4, <3>5
  <2>2. /\ before'[c] = hist' /\ UniqueIndices(hist') /\ truth' = draft'[c].nights
        /\ seeding'[c] = seeding[c] /\ draft'[c] = draft[c]
    BY <1>1, <1>2, <1>5 DEF call
  <2>3. \A d \in Calls : pc'[d] \in SyncPCs => d = c
    BY <1>4
  <2> QED
    BY <1>4, <2>1, <2>2, <2>3 DEF SyncInv, UniqueIndices
<1>7. ASSUME NEW d \in Calls \ {c} PROVE FreshInv(d)' /\ SyncInv(d)'
  <2>1. CallInv(d) /\ seen[d].ver \in Int /\ expected[d] \in Int
    BY DEF DocInv, TypeOK, Rows
  <2>2. pc[d] \in {"readHist", "beforeHist"} => seen[d].ver <= row.ver
    BY <2>1 DEF CallInv, SeenInv
  <2>3. pc[d] \in Drafted => expected[d] <= row.ver
    BY <2>1 DEF CallInv, DraftInv
  <2>4. /\ pc'[d] = pc[d] /\ pc'[d] \notin SyncPCs
        /\ seen'[d] = seen[d] /\ expected'[d] = expected[d]
    BY <1>1, <1>4 DEF call
  <2>5. pc'[d] \in {"readHist", "beforeHist"} => seen'[d].ver # row'.ver
    BY <1>3, <2>1, <2>2, <2>4
  <2>6. pc'[d] \in Drafted => expected'[d] # row'.ver
    BY <1>3, <2>1, <2>3, <2>4
  <2> QED
    BY <2>4, <2>5, <2>6 DEF FreshInv, SyncInv
<1>8. FreshInv(c)'
  BY <1>4 DEF FreshInv, Drafted
<1>9. ~Idle' /\ row'.ver # Absent
  BY <1>3, <1>4 DEF Idle, SyncPCs, Absent
<1> QED
  BY <1>5, <1>6, <1>7, <1>8, <1>9 DEF NightsInv, UniqueIndices

\* A sync that ends leaves the document's nights in the table.
LEMMA EndOfSync ==
    ASSUME TypeOK, NightsInv, NEW c \in Calls, pc[c] \in SyncPCs, Complete(c),
           row' = row, truth' = truth, op' = op, hist' = truth, seen' = seen,
           before' = before
    PROVE  NightsInv'
<1>1. SyncInv(c) /\ UniqueIndices(truth) /\ (row.ver = Absent => Idle)
  BY DEF NightsInv
<1>2. \A d \in Calls \ {c} :
          pc'[d] = pc[d] /\ seeding'[d] = seeding[d]
            /\ expected'[d] = expected[d] /\ draft'[d] = draft[d]
  BY CompleteFacts
<1>3. pc'[c] \notin SyncPCs
  BY CompleteFacts DEF SyncPCs
<1>4. Idle'
  BY <1>2, <1>3, NothingFresh DEF Idle
<1>5. FreshInv(c)'
  <2>1. CASE ~seeding[c]
    <3>1. pc'[c] = "returned"
      BY <2>1 DEF Complete, Goto, TypeOK
    <3> QED BY <3>1 DEF FreshInv, Drafted
  <2>2. CASE seeding[c]
    <3> DEFINE r == [ver |-> 0, log |-> <<>>, run |-> NoRun]
    <3>1. r \in Rows
      BY DEF Rows
    <3>2. Mutate(c, r, {})
      BY <2>2 DEF Complete
    <3>3. truth = {} /\ r.run = row.run
      BY <1>1, <2>2 DEF SyncInv
    <3> QED
      BY <1>4, <3>1, <3>2, <3>3, MutateFresh
  <2> QED BY <2>1, <2>2
<1>6. SyncInv(c)'
  BY <1>3 DEF SyncInv
<1>7. ASSUME NEW d \in Calls \ {c} PROVE FreshInv(d)' /\ SyncInv(d)'
  BY <1>2, NothingFresh DEF FreshInv, SyncInv
<1>8. row'.ver # Absent
  BY <1>1 DEF Idle
<1> QED
  BY <1>1, <1>4, <1>5, <1>6, <1>7, <1>8 DEF NightsInv, UniqueIndices

\* A sync that goes on has that much less to write.
LEMMA SyncGoesOn ==
    ASSUME NightsInv, NEW c \in Calls, pc[c] \in SyncPCs,
           pc'[c] = "syncWrite",
           row' = row, truth' = truth, seen' = seen,
           ~seeding'[c],
           \A d \in Calls \ {c} : pc'[d] = pc[d] /\ seeding'[d] = seeding[d]
                                    /\ expected'[d] = expected[d],
           Written(hist', upserts'[c], deletes'[c]) = truth,
           UniqueIndices(upserts'[c]),
           \A n \in upserts'[c] : n.i \notin deletes'[c]
    PROVE  NightsInv'
<1>1. UniqueIndices(truth) /\ (row.ver = Absent => Idle)
  BY DEF NightsInv
<1>2. ASSUME NEW d \in Calls \ {c} PROVE FreshInv(d)' /\ SyncInv(d)' /\ pc'[d] \notin SyncPCs
  BY NothingFresh DEF FreshInv, SyncInv
<1>3. FreshInv(c)'
  BY DEF FreshInv, Drafted
<1>4. SyncInv(c)'
  BY <1>2 DEF SyncInv, UniqueIndices
<1>5. ~Idle' /\ row'.ver # Absent
  BY <1>1 DEF Idle, SyncPCs
<1> QED
  BY <1>1, <1>2, <1>3, <1>4, <1>5 DEF NightsInv, UniqueIndices

LEMMA SyncReadNights ==
    ASSUME TypeOK, NightsInv, NEW c \in Calls, SyncRead(c)
    PROVE  NightsInv'
<1> DEFINE ups  == draft[c].nights \ before[c]
           dels == {m.i : m \in hist} \ {n.i : n \in draft[c].nights}
<1>1. /\ pc[c] = "syncRead" /\ pc[c] \in SyncPCs
      /\ row' = row /\ hist' = hist /\ op' = op /\ truth' = truth
      /\ seen' = seen /\ before' = before
      /\ upserts'[c] = ups /\ deletes'[c] = dels
  BY DEF SyncRead, TypeOK, SyncPCs
<1>2. IF ups = {} /\ dels = {} THEN Complete(c)
      ELSE Goto(c, "syncWrite") /\ UNCHANGED <<seeding, expected, draft>>
  BY DEF SyncRead
<1>3. /\ before[c] = hist /\ truth = draft[c].nights
      /\ UniqueIndices(hist) /\ UniqueIndices(truth)
      /\ seeding[c] => draft[c].nights = {} /\ hist = {}
  BY <1>1 DEF NightsInv, SyncInv
<1>4. /\ Written(hist, ups, dels) = truth /\ UniqueIndices(ups)
      /\ \A n \in ups : n.i \notin dels
  BY <1>3, WrittenDifferences
<1>5. seeding[c] => ups = {} /\ dels = {}
  BY <1>3
<1> HIDE DEF ups, dels
<1>6. CASE ups = {} /\ dels = {}
  BY <1>1, <1>2, <1>4, <1>6, WrittenNothing, EndOfSync
<1>7. CASE ~(ups = {} /\ dels = {})
  <2>1. /\ pc'[c] = "syncWrite" /\ ~seeding'[c]
        /\ \A d \in Calls \ {c} : pc'[d] = pc[d] /\ seeding'[d] = seeding[d]
                                    /\ expected'[d] = expected[d]
    BY <1>2, <1>5, <1>7 DEF Goto, TypeOK
  <2>2. /\ Written(hist', upserts'[c], deletes'[c]) = truth
        /\ UniqueIndices(upserts'[c])
        /\ \A n \in upserts'[c] : n.i \notin deletes'[c]
    BY <1>1, <1>4
  <2> QED
    BY <1>1, <2>1, <2>2, SyncGoesOn
<1> QED BY <1>6, <1>7

LEMMA SyncWriteNights ==
    ASSUME TypeOK, NightsInv, NEW c \in Calls, SyncWrite(c)
    PROVE  NightsInv'
<1>1. PICK ups \in SUBSET upserts[c], dels \in SUBSET deletes[c] :
        /\ hist' = Written(hist, ups, dels)
        /\ upserts' = [upserts EXCEPT ![c] = @ \ ups]
        /\ deletes' = [deletes EXCEPT ![c] = @ \ dels]
        /\ IF ups = upserts[c] /\ dels = deletes[c]
           THEN Complete(c) ELSE UNCHANGED <<pc, seeding, expected, draft>>
  BY DEF SyncWrite
<1>2. /\ pc[c] = "syncWrite" /\ pc[c] \in SyncPCs
      /\ row' = row /\ op' = op /\ truth' = truth
      /\ seen' = seen /\ before' = before
  BY DEF SyncWrite, SyncPCs
<1>3. upserts'[c] = upserts[c] \ ups /\ deletes'[c] = deletes[c] \ dels
  BY <1>1 DEF TypeOK
<1>4. /\ Written(hist, upserts[c], deletes[c]) = truth
      /\ UniqueIndices(upserts[c])
      /\ \A n \in upserts[c] : n.i \notin deletes[c]
      /\ ~seeding[c]
  BY <1>2 DEF NightsInv, SyncInv
<1>5. CASE ups = upserts[c] /\ dels = deletes[c]
  BY <1>1, <1>2, <1>4, <1>5, EndOfSync
<1>6. CASE ~(ups = upserts[c] /\ dels = deletes[c])
  <2>1. Written(hist', upserts'[c], deletes'[c]) = truth
    BY <1>1, <1>3, <1>4, WrittenInParts
  <2>2. UniqueIndices(upserts'[c]) /\ \A n \in upserts'[c] : n.i \notin deletes'[c]
    BY <1>3, <1>4 DEF UniqueIndices
  <2>3. UNCHANGED <<pc, seeding, expected, draft>>
    BY <1>1, <1>6
  <2> QED
    BY <1>2, <1>4, <2>1, <2>2, <2>3, SyncGoesOn
<1> QED BY <1>5, <1>6

\* The flags that excuse the table are never taken back.
LEMMA ExcusesStay ==
    ASSUME TypeOK, [Next]_vars
    PROVE  ~overlapped' /\ ~torn' => ~overlapped /\ ~torn
<1>1. CASE UNCHANGED vars
  BY <1>1 DEF vars
<1>2. ASSUME NEW c \in Calls, Step(c) \/ Crash(c)
      PROVE  ~overlapped' /\ ~torn' => ~overlapped /\ ~torn
  BY <1>2 DEF Step, Begin, ReadRow, ReadHist, BeforeRow, BeforeHist,
              CompareAndSwap, LoseRace, SyncRead, SyncWrite, Crash
<1> QED BY <1>1, <1>2 DEF Next

LEMMA NightsStep ==
    ASSUME DocInv, HistInv, [Next]_vars
    PROVE  HistInv'
<1> SUFFICES ASSUME ~overlapped', ~torn' PROVE NightsInv'
  BY DEF HistInv
<1>1. NightsInv /\ TypeOK
  BY ExcusesStay DEF HistInv, DocInv
<1>2. CASE UNCHANGED vars
  <2>1. Idle' <=> Idle
    BY <1>2 DEF vars, Idle
  <2>2. ASSUME NEW c \in Calls PROVE FreshInv(c)' /\ SyncInv(c)'
    <3>1. FreshInv(c) /\ SyncInv(c)
      BY <1>1 DEF NightsInv
    <3>2. FreshInv(c)'
      BY <1>2, <2>1, <3>1 DEF vars, call, FreshInv
    <3>3. SyncInv(c)'
      BY <1>2, <3>1 DEF vars, call, SyncInv, UniqueIndices
    <3> QED BY <3>2, <3>3
  <2> QED
    BY <1>1, <1>2, <2>1, <2>2 DEF NightsInv, vars, UniqueIndices
<1>3. CASE Next
  BY <1>1, <1>3, BeginNights, ReadRowNights, ReadHistNights, BeforeRowNights,
     BeforeHistNights, CompareAndSwapNights, LoseRaceNights, SyncReadNights,
     SyncWriteNights, CrashNights DEF Next, Step
<1> QED BY <1>2, <1>3

\* The history table and the row are written in separate statements, yet, as
\* long as nobody reads between them and no process dies there, the table holds
\* exactly the nights of the calls applied one at a time (dataStore.ts:138-152).
THEOREM HistoryIsSerial == Spec => []SerialHistory
<1>1. Init => HistInv
  BY InitNights
<1>2. DocInv /\ HistInv /\ [Next]_vars => HistInv'
  BY NightsStep
<1>3. HistInv => SerialHistory
  BY DEF HistInv, NightsInv, SerialHistory, Idle
<1> QED BY <1>1, <1>2, <1>3, DocumentInvariant, PTL DEF Spec
==============================================================================
