--------------------------- MODULE VersionedStore ---------------------------
(***************************************************************************)
(* FdeDataStore.updateState (collector-worker/dataStore.ts): the only way  *)
(* any part of the program changes a tenant's state in production.         *)
(*                                                                         *)
(* The state is kept in two places of D1.  The `state` row holds the       *)
(* document without its nights, guarded by a version; the `history` table  *)
(* holds one row per night, keyed by its index within the page.  A call    *)
(* reads the row, then the table; lets the caller's function mutate the    *)
(* draft; reads both again to compute differences; writes the row with a   *)
(* compare-and-swap on the version; and only then, in further statements,  *)
(* brings the history table up to the draft.  Every D1 statement (and      *)
(* every D1 batch) is atomic; between two of them any other call may run.  *)
(*                                                                         *)
(* One page of one tenant is modelled: rows of different tenants never     *)
(* meet, and the indices of different pages are independent.  The row is   *)
(* abstracted to the sequence of the calls whose mutations it contains and *)
(* to the run the page is reserved for; a night, to its index, its run and *)
(* whether a later mutation revised it.                                    *)
(***************************************************************************)
EXTENDS Integers, Sequences, FiniteSets, FiniteSetsExt

CONSTANTS Calls,        \* the invocations of updateState
          Runs,         \* collection run ids
          NoRun,        \* the page is not running
          Mutations,    \* the mutations the calls may carry
          MaxAttempts,  \* attempts of one call                (8 in the code)
          HistoryCap,   \* nights kept for a page            (180 in the code)
          BatchSize,    \* statements of one D1 batch         (50 in the code)
          MaxIndex,     \* bound of the model on night indices
          MayCrash      \* whether a process may die during a call

Indices == 0 .. MaxIndex
Nights  == [i : Indices, run : Runs, rev : {0, 1}]

\* The mutations passed to updateState, by what they do to the two tables:
\* "edit" changes the document and no night (flags, jobs, digests, ...);
\* "start" reserves the page for a run; "append" is appendNight, "ensure" the
\* commit of one strategy or agent scan of a workflow (ensureWorkflowNight).
Ops == [kind : {"edit"}, run : {NoRun}]
       \cup [kind : {"start", "append", "ensure"}, run : Runs]

ASSUME StoreAssumption ==
    /\ NoRun \notin Runs
    /\ Mutations \subseteq Ops
    /\ MaxAttempts \in Nat \ {0}
    /\ HistoryCap \in Nat \ {0}
    /\ BatchSize \in Nat \ {0}
    /\ MaxIndex \in Nat
    /\ MayCrash \in BOOLEAN

PCs == {"new", "readRow", "readHist", "beforeRow", "beforeHist", "cas",
        "syncRead", "syncWrite", "returned", "threw", "crashed"}

\* The calls whose compare-and-swap has succeeded and whose history rows are
\* not all written yet.
SyncPCs == {"syncRead", "syncWrite"}

Absent == -1            \* the version standing for "no row" (null in the code)

VARIABLES
    row,        \* the state row: its version, the calls applied, page.runId
    hist,       \* the rows of the history table
    pc,         \* where each call stands
    op,         \* the mutation of each call
    attempt,    \* completed attempts of updateState's loop
    seeding,    \* the call is inside the write of the initial state
    expected,   \* expectedVersion of writeVersionedState
    draft,      \* the document it will write
    seen,       \* the row read last
    before,     \* the nights read by writeVersionedState
    upserts,    \* history statements still to run
    deletes,
    \* History variables, read by no action of the code:
    began,      \* the row's version when the call began
    truth,      \* the nights of the document if calls applied one at a time
    overlapped, \* a call read the row for its draft during another one's sync
    torn        \* a call died between its compare-and-swap and its last batch

call == <<op, attempt, seeding, expected, draft, seen, before, upserts,
          deletes, began>>
vars == <<row, hist, pc, call, truth, overlapped, torn>>

Rows   == [ver : Int, log : Seq(Calls), run : Runs \cup {NoRun}]
Drafts == [log : Seq(Calls), run : Runs \cup {NoRun}, nights : SUBSET Nights]

EmptyRow   == [ver |-> Absent, log |-> <<>>, run |-> NoRun]
EmptyDraft == [log |-> <<>>, run |-> NoRun, nights |-> {}]

-----------------------------------------------------------------------------
(* The mutations *)

\* `page.history.reduce((max, item) => Math.max(max, item.i), -1) + 1`
NextIndex(h) == IF h = {} THEN 0 ELSE Max({n.i : n \in h}) + 1

\* The new night's index is within the bound of the model.
Room(h) == NextIndex(h) \in Indices

\* `page.history.slice(-180)` of a history sorted by index
Newest(h) == {n \in h : Cardinality({m \in h : m.i > n.i}) < HistoryCap}

WithNight(h, r) == Newest(h \cup {[i |-> NextIndex(h), run |-> r, rev |-> 0]})

Revised(h, r) == {IF n.run = r THEN [n EXCEPT !.rev = 1] ELSE n : n \in h}

Has(h, r) == \E n \in h : n.run = r

\* The caller's function throws: updateState passes the error on.
Rejects(o, run) == o.kind = "ensure" /\ run # o.run

NewRun(o, run, h) ==
    CASE o.kind = "start" -> o.run
      [] o.kind = "append" /\ ~Has(h, o.run) /\ run = o.run -> NoRun
      [] OTHER -> run

NewNights(o, run, h) ==
    CASE o.kind = "append" /\ ~Has(h, o.run) /\ run = o.run -> WithNight(h, o.run)
      [] o.kind = "ensure" /\ ~Has(h, o.run) -> WithNight(h, o.run)
      [] o.kind = "ensure" /\ Has(h, o.run) -> Revised(h, o.run)
      [] OTHER -> h

\* The draft call c makes of a row and the nights read with it.
Mutated(c, log, run, h) ==
    [log    |-> Append(log, c),
     run    |-> NewRun(op[c], run, h),
     nights |-> NewNights(op[c], run, h)]

-----------------------------------------------------------------------------
(* The initial state and the beginning of a call *)

\* Either the tenant has no row yet, or its document exists (version 0 stands
\* for whatever version it has) and the page is reserved for some run or none.
Init == /\ \/ row = EmptyRow
           \/ \E r \in Runs \cup {NoRun} : row = [ver |-> 0, log |-> <<>>, run |-> r]
        /\ hist = {}
        /\ pc = [c \in Calls |-> "new"]
        /\ op \in [Calls -> Mutations]
        /\ attempt = [c \in Calls |-> 0]
        /\ seeding = [c \in Calls |-> FALSE]
        /\ expected = [c \in Calls |-> Absent]
        /\ draft = [c \in Calls |-> EmptyDraft]
        /\ seen = [c \in Calls |-> EmptyRow]
        /\ before = [c \in Calls |-> {}]
        /\ upserts = [c \in Calls |-> {}]
        /\ deletes = [c \in Calls |-> {}]
        /\ began = [c \in Calls |-> Absent]
        /\ truth = {}
        /\ overlapped = FALSE
        /\ torn = FALSE

Goto(c, l) == pc' = [pc EXCEPT ![c] = l]

OtherSyncing(c) == \E d \in Calls \ {c} : pc[d] \in SyncPCs
\* A caller invokes updateState.
Begin(c) ==
    /\ pc[c] = "new"
    /\ Goto(c, "readRow")
    /\ began' = [began EXCEPT ![c] = row.ver]
    /\ UNCHANGED <<row, hist, op, attempt, seeding, expected, draft, seen,
                   before, upserts, deletes, truth, overlapped, torn>>

-----------------------------------------------------------------------------
(* Reading: readVersionedState, then the caller's mutation of the draft *)

\* SELECT of the state row.  Without a row the call first writes the initial
\* state (seed = true), expecting that there still is none.
ReadRow(c) ==
    /\ pc[c] = "readRow"
    /\ seen' = [seen EXCEPT ![c] = row]
    /\ overlapped' = (overlapped \/ OtherSyncing(c))
    /\ IF row.ver = Absent
       THEN /\ seeding' = [seeding EXCEPT ![c] = TRUE]
            /\ expected' = [expected EXCEPT ![c] = Absent]
            /\ draft' = [draft EXCEPT ![c] = EmptyDraft]
            /\ Goto(c, "beforeRow")
       ELSE /\ Goto(c, "readHist")
            /\ UNCHANGED <<seeding, expected, draft>>
    /\ UNCHANGED <<row, hist, op, attempt, before, upserts, deletes, began,
                   truth, torn>>

\* Variant: the version the row will have is expected of it.
Mutate_VersionOffByOne(c, r, h) ==
    /\ seeding' = [seeding EXCEPT ![c] = FALSE]
    /\ draft' = [draft EXCEPT ![c] = Mutated(c, r.log, r.run, h)]
    /\ expected' = [expected EXCEPT ![c] = r.ver + 1]
    /\ Goto(c, "beforeRow")

\* The draft of a call from a row r and the nights h, or the caller's error.
Mutate(c, r, h) ==
    /\ seeding' = [seeding EXCEPT ![c] = FALSE]
    /\ IF Rejects(op[c], r.run)
       THEN /\ Goto(c, "threw")
            /\ UNCHANGED <<expected, draft>>
       ELSE /\ Room(h)
            /\ draft' = [draft EXCEPT ![c] = Mutated(c, r.log, r.run, h)]
            /\ expected' = [expected EXCEPT ![c] = r.ver]
            /\ Goto(c, "beforeRow")

\* SELECT of the history rows, which hydrates the row read before; then mutate.
ReadHist(c) ==
    /\ pc[c] = "readHist"
    /\ Mutate(c, seen[c], hist)
    /\ UNCHANGED <<row, hist, op, attempt, seen, before, upserts, deletes,
                   began, truth, overlapped, torn>>

-----------------------------------------------------------------------------
(* writeVersionedState *)

\* Variant: the loop writes the same draft again instead of reading anew.
Retry_SameDraft(c) ==
    /\ UNCHANGED attempt
    /\ Goto(c, "beforeRow")

\* A conflict ends the attempt; the eighth one ends the call.
Retry(c) ==
    /\ attempt' = [attempt EXCEPT ![c] = @ + 1]
    /\ Goto(c, IF attempt[c] + 1 < MaxAttempts THEN "readRow" ELSE "threw")

\* rawState: SELECT of the row a second time.  No row: nothing to compare with.
BeforeRow(c) ==
    /\ pc[c] = "beforeRow"
    /\ seen' = [seen EXCEPT ![c] = row]
    /\ overlapped' = (overlapped \/ (seeding[c] /\ OtherSyncing(c)))
    /\ IF row.ver = Absent
       THEN /\ before' = [before EXCEPT ![c] = {}]
            /\ Goto(c, "cas")
       ELSE /\ Goto(c, "beforeHist")
            /\ UNCHANGED before
    /\ UNCHANGED <<row, hist, op, attempt, seeding, expected, draft, upserts,
                   deletes, began, truth, torn>>

\* Variant: a conflict is answered by expecting the version just found.
BeforeHist_AdoptVersion(c) ==
    /\ pc[c] = "beforeHist"
    /\ before' = [before EXCEPT ![c] = hist]
    /\ expected' = [expected EXCEPT ![c] = seen[c].ver]
    /\ Goto(c, "cas")
    /\ UNCHANGED <<row, hist, op, attempt, seeding, draft, seen, upserts,
                   deletes, began, truth, overlapped, torn>>

\* materializedState: SELECT of the nights, then the version check.  When the
\* initial state was to be written and a row has appeared, readVersionedState
\* returns that row (`written.conflict`) and the call goes on from it.
BeforeHist(c) ==
    /\ pc[c] = "beforeHist"
    /\ before' = [before EXCEPT ![c] = hist]
    /\ IF seen[c].ver = expected[c]
       THEN /\ Goto(c, "cas")
            /\ UNCHANGED <<attempt, seeding, expected, draft>>
       ELSE IF seeding[c]
       THEN /\ Mutate(c, seen[c], hist)
            /\ UNCHANGED attempt
       ELSE /\ Retry(c)
            /\ UNCHANGED <<seeding, expected, draft>>
    /\ UNCHANGED <<row, hist, op, seen, upserts, deletes, began, truth,
                   overlapped, torn>>

\* Variant: UPDATE without "AND version = ?".
CompareAndSwap_Unguarded(c) ==
    /\ pc[c] = "cas"
    /\ Room(truth)
    /\ row' = [ver |-> row.ver + 1, log |-> draft[c].log, run |-> draft[c].run]
    /\ truth' = IF seeding[c] THEN truth ELSE NewNights(op[c], row.run, truth)
    /\ Goto(c, "syncRead")
    /\ UNCHANGED <<hist, call, overlapped, torn>>

\* INSERT ... ON CONFLICT DO NOTHING, or UPDATE ... WHERE version = ?.
CompareAndSwap(c) ==
    /\ pc[c] = "cas"
    /\ row.ver = expected[c]
    /\ Room(truth)
    /\ row' = [ver |-> row.ver + 1, log |-> draft[c].log, run |-> draft[c].run]
    /\ truth' = IF seeding[c] THEN truth ELSE NewNights(op[c], row.run, truth)
    /\ Goto(c, "syncRead")
    /\ UNCHANGED <<hist, call, overlapped, torn>>

\* Variant: `rows_written` is not looked at.
LoseRace_Unnoticed(c) ==
    /\ pc[c] = "cas"
    /\ row.ver # expected[c]
    /\ Goto(c, "syncRead")
    /\ UNCHANGED <<row, hist, call, truth, overlapped, torn>>

\* No row was written.  The state read on the way out is dropped by
\* updateState, and becomes the current one when the initial state was to be
\* written: in both cases the call goes on by reading anew.
LoseRace(c) ==
    /\ pc[c] = "cas"
    /\ row.ver # expected[c]
    /\ IF seeding[c]
       THEN Goto(c, "readRow") /\ UNCHANGED attempt
       ELSE Retry(c)
    /\ seeding' = [seeding EXCEPT ![c] = FALSE]
    /\ UNCHANGED <<row, hist, op, expected, draft, seen, before, upserts,
                   deletes, began, truth, overlapped, torn>>

-----------------------------------------------------------------------------
(* syncDerived: the history table follows the row *)

\* writeVersionedState returns.  After the initial state comes the mutation,
\* of that state and of its empty history; otherwise updateState returns.
Complete(c) ==
    IF seeding[c]
    THEN Mutate(c, [ver |-> 0, log |-> <<>>, run |-> NoRun], {})
    ELSE /\ Goto(c, "returned")
         /\ UNCHANGED <<seeding, expected, draft>>

\* Variant: the new nights and the old ones are swapped in the comparison.
SyncRead_Swapped(c) ==
    LET ups  == before[c] \ draft[c].nights
        dels == {m.i : m \in hist} \ {n.i : n \in draft[c].nights}
    IN  /\ pc[c] = "syncRead"
        /\ upserts' = [upserts EXCEPT ![c] = ups]
        /\ deletes' = [deletes EXCEPT ![c] = dels]
        /\ IF ups = {} /\ dels = {}
           THEN Complete(c)
           ELSE Goto(c, "syncWrite") /\ UNCHANGED <<seeding, expected, draft>>
        /\ UNCHANGED <<row, hist, op, attempt, seen, before, began, truth,
                       overlapped, torn>>

\* SELECT of the stored nights, and the statements that follow from them: a
\* night is written if it is not among the nights read before the write, and
\* a stored row is deleted if the draft has no night at its index.
SyncRead(c) ==
    LET ups  == draft[c].nights \ before[c]
        dels == {m.i : m \in hist} \ {n.i : n \in draft[c].nights}
    IN  /\ pc[c] = "syncRead"
        /\ upserts' = [upserts EXCEPT ![c] = ups]
        /\ deletes' = [deletes EXCEPT ![c] = dels]
        /\ IF ups = {} /\ dels = {}
           THEN Complete(c)
           ELSE Goto(c, "syncWrite") /\ UNCHANGED <<seeding, expected, draft>>
        /\ UNCHANGED <<row, hist, op, attempt, seen, before, began, truth,
                       overlapped, torn>>

Written(h, ups, dels) ==
    {m \in h : m.i \notin {n.i : n \in ups} \cup dels} \cup ups

\* One D1 batch: as many statements as fit, every upsert before any delete.
SyncWrite(c) ==
    /\ pc[c] = "syncWrite"
    /\ \E ups \in SUBSET upserts[c], dels \in SUBSET deletes[c] :
        LET all == ups = upserts[c] /\ dels = deletes[c]
        IN  /\ Cardinality(ups) + Cardinality(dels) <= BatchSize
            /\ all \/ Cardinality(ups) + Cardinality(dels) = BatchSize
            /\ dels # {} => ups = upserts[c]
            /\ hist' = Written(hist, ups, dels)
            /\ upserts' = [upserts EXCEPT ![c] = @ \ ups]
            /\ deletes' = [deletes EXCEPT ![c] = @ \ dels]
            /\ IF all THEN Complete(c) ELSE UNCHANGED <<pc, seeding, expected, draft>>
    /\ UNCHANGED <<row, op, attempt, seen, before, began, truth, overlapped, torn>>

\* The process running the call dies (or its caller has given up waiting).
Crash(c) ==
    /\ MayCrash
    /\ pc[c] \notin {"new", "returned", "threw", "crashed"}
    /\ Goto(c, "crashed")
    /\ torn' = (torn \/ pc[c] \in SyncPCs)
    /\ UNCHANGED <<row, hist, call, truth, overlapped>>

Step(c) ==
    \/ Begin(c) \/ ReadRow(c) \/ ReadHist(c) \/ BeforeRow(c) \/ BeforeHist(c)
    \/ CompareAndSwap(c) \/ LoseRace(c) \/ SyncRead(c) \/ SyncWrite(c)

Next == \E c \in Calls : Step(c) \/ Crash(c)

Spec == Init /\ [][Next]_vars

\* A call that is running goes on running: neither D1 nor the Workers runtime
\* stops a request for ever without killing it.
FairSpec == Spec /\ \A c \in Calls : WF_vars(pc[c] # "new" /\ Step(c))

-----------------------------------------------------------------------------
(* Properties *)

TypeOK ==
    /\ row \in Rows
    /\ hist \subseteq Nights
    /\ pc \in [Calls -> PCs]
    /\ op \in [Calls -> Ops]
    /\ attempt \in [Calls -> 0 .. MaxAttempts]
    /\ seeding \in [Calls -> BOOLEAN]
    /\ expected \in [Calls -> Int]
    /\ draft \in [Calls -> Drafts]
    /\ seen \in [Calls -> Rows]
    /\ before \in [Calls -> SUBSET Nights]
    /\ upserts \in [Calls -> SUBSET Nights]
    /\ deletes \in [Calls -> SUBSET Indices]
    /\ began \in [Calls -> Int]
    /\ truth \subseteq Nights
    /\ overlapped \in BOOLEAN
    /\ torn \in BOOLEAN

Drafted == {"beforeRow", "beforeHist", "cas"}
Ended   == {"returned", "threw", "crashed"}

\* The version check works: a draft that is still up to date when it is
\* compared with the row is the row's own document with this call's mutation
\* added, so the swap loses nobody's update.  It is what writeVersionedState
\* relies on when it overwrites the whole document (dataStore.ts:149-151).
DraftsExtendTheRow ==
    \A c \in Calls :
        pc[c] \in Drafted /\ row.ver = expected[c] =>
            draft[c].log = IF seeding[c] THEN row.log ELSE Append(row.log, c)

\* A call in the log is one whose swap succeeded, and it is there once.
AppliedOnce ==
    /\ \A j, k \in DOMAIN row.log : row.log[j] = row.log[k] => j = k
    /\ \A c \in Calls : pc[c] = "returned" => \E k \in DOMAIN row.log : row.log[k] = c

\* "State update retry exhausted" is never bad luck alone: each failed attempt
\* of a call is paid for by another call's write within it, so giving up after
\* eight attempts means eight other writes succeeded meanwhile (:174-183).
ExhaustionNeedsContention ==
    \A c \in Calls :
        pc[c] # "new" /\ attempt[c] > 0 => attempt[c] <= row.ver - began[c]

\* The nights follow the document as long as no call reads the row for its
\* draft while another one is between its swap and its last history statement,
\* and no process dies there: then, once nobody is writing history, the table
\* holds exactly the nights that the calls, applied one at a time, produce.
SerialHistory ==
    ~overlapped /\ ~torn /\ (\A c \in Calls : pc[c] \notin SyncPCs) => hist = truth

\* README.md:166 and :157-158: a committed night is "safely stored" and
\* concurrent updates are kept by compare-and-swap.  Without any crash, once
\* every call has ended, no night that a successful write added is missing.
CommittedNightsSurvive ==
    ~torn /\ (\A c \in Calls : pc[c] \in Ended \cup {"new"}) =>
        {n.run : n \in truth} \subseteq {n.run : n \in hist}

\* Every call comes to an end: no conflict sends it back for ever.
EveryCallEnds == \A c \in Calls : pc[c] = "readRow" ~> pc[c] \in Ended

-----------------------------------------------------------------------------
(* The inductive invariant *)

Logged(c) == \E k \in DOMAIN row.log : row.log[k] = c

VersionInv == /\ row.ver >= Absent
              /\ row.ver <= 0 => row.log = <<>>

LoggedOnce == \A j, k \in DOMAIN row.log : row.log[j] = row.log[k] => j = k

\* What a call has read and not yet used.
SeenInv(c) ==
    pc[c] \in {"readHist", "beforeHist"} =>
        /\ 0 <= seen[c].ver /\ seen[c].ver <= row.ver
        /\ seen[c].ver = row.ver => seen[c].log = row.log
        /\ pc[c] = "readHist" => attempt[c] <= seen[c].ver - began[c]
        /\ pc[c] = "beforeHist" => expected[c] <= seen[c].ver

\* What a call is about to write.
DraftInv(c) ==
    pc[c] \in Drafted =>
        /\ expected[c] <= row.ver
        /\ attempt[c] <= expected[c] - began[c]
        /\ seeding[c] => expected[c] = Absent /\ draft[c].log = <<>>
        /\ ~seeding[c] => expected[c] >= 0
        /\ ~seeding[c] /\ row.ver = expected[c] => draft[c].log = Append(row.log, c)

\* What a call has written.
WrittenInv(c) ==
    /\ pc[c] \in SyncPCs /\ seeding[c] => row.ver >= 0 /\ attempt[c] <= Absent - began[c]
    /\ pc[c] \in SyncPCs /\ ~seeding[c] => Logged(c)
    /\ pc[c] = "returned" => Logged(c)
    /\ Logged(c) => \/ pc[c] \in SyncPCs /\ ~seeding[c]
                    \/ pc[c] \in {"returned", "crashed"}

\* A failed attempt has seen another call's write; the last one ends the call.
AttemptInv(c) ==
    /\ pc[c] = "new" => attempt[c] = 0
    /\ pc[c] # "new" => Absent <= began[c] /\ attempt[c] <= row.ver - began[c]
    /\ pc[c] \notin Ended => attempt[c] < MaxAttempts

\* The flag is set only while the initial state is being written.
SeedInv(c) == pc[c] \in {"new", "readRow", "readHist"} => ~seeding[c]

CallInv(c) == /\ SeenInv(c) /\ DraftInv(c) /\ WrittenInv(c)
              /\ AttemptInv(c) /\ SeedInv(c)

\* What every step preserves, and what the properties of the document follow
\* from: a version only grows, so a version a call remembers that still is the
\* row's was read from the very document the row holds.
DocInv == /\ TypeOK
          /\ VersionInv
          /\ LoggedOnce
          /\ \A c \in Calls : CallInv(c)

-----------------------------------------------------------------------------
(* The store implements SerialDocument: a caller's view of the row *)

StatusOf(l) == IF l = "new" THEN "new"
               ELSE IF l = "returned" THEN "returned"
               ELSE IF l \in {"threw", "crashed"} THEN "lost"
               ELSE "pending"

Document == INSTANCE SerialDocument
                WITH log <- row.log, status <- [c \in Calls |-> StatusOf(pc[c])]

\* Every call that returns has been applied exactly once, indivisibly, between
\* its beginning and its return; what failed was applied at most once.
ImplementsSerialDocument == Document!Spec
=============================================================================
