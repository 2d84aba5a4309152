--------------------------- MODULE DigestDelivery ---------------------------
(***************************************************************************)
(* The nightly digest: one record per night ("cohort") in the tenant's     *)
(* document, claimed and delivered by any number of invocations of         *)
(* processDailyDigests: the worker's cron, and the app after each          *)
(* committed collection.                                                   *)
(*                                                                         *)
(* Time.  An invocation takes `now` once, for all it does: the worker's is *)
(* the time its cron was scheduled for.  What matters is the difference    *)
(* between two such instants, so the model keeps ages: sender[s].age is    *)
(* how long ago the `now` of s was, digest[c].claim how long ago           *)
(* claimedAt was, digest[c].retry how long ago retryAfterISO was (negative *)
(* if it is to come).  Ages above Oldest are the same as Oldest to every   *)
(* reader, and so is an instant that is not set.                           *)
(***************************************************************************)
EXTENDS Integers

CONSTANTS Pages, Senders,
          NumNights,
          Window,      \* CLAIM_WINDOW_MS, in ticks
          MaxAge,      \* how long an invocation may live, in ticks
          RetryDelay,  \* retryAfterSeconds of an answer, in ticks
          Contention,  \* whether an attempt of claimDailyDigest may lose its swap
          Faults,      \* whether invocations die and answers are lost
          EndpointSet  \* "always", or "maybe": users set and remove the endpoint

Nights == 1 .. NumNights

ASSUME DigestAssumption ==
    /\ NumNights \in Nat \ {0}
    /\ Window \in Nat /\ MaxAge \in Nat /\ RetryDelay \in Nat
    /\ Contention \in BOOLEAN /\ Faults \in BOOLEAN
    /\ EndpointSet \in {"always", "maybe"}

Oldest  == MaxAge + Window + 1
NoNight == 0

\* Messages are not counted beyond what a property asks: whether there was one,
\* and without faults whether there was another.
EnoughPosts == IF Faults THEN 1 ELSE 2

VARIABLES
    night,     \* the newest night that has begun for some page
    jobs,      \* what has become of each page in each cohort
    monitored, \* the pages that are not paused
    digest,    \* alertDigests
    endpoint,  \* alertWebhookUrl is set
    notice,    \* sensitivityNotice
    sender,    \* the invocations of processDailyDigests
    posts,     \* history variable: the messages accepted for each night
    vouched,   \* history variable: of these, the ones an invocation vouches for:
               \* sent, and recorded or still to be, under a claim that is its own
    told,      \* history variable: a message with the notice was accepted
    raced,     \* history variable: the nights whose claim was taken off by an
               \* invocation of the same instant that had not stored it
    steady     \* history variable: the pages that were never paused

collection == <<night, jobs, monitored, steady>>
history    == <<posts, vouched, told, raced>>
delivery   == <<digest, endpoint, notice, sender, history>>
vars == <<collection, digest, endpoint, notice, sender, history>>

\* `stored` is history: the claim it goes on with is in the document.
IdleSender == [pc |-> "idle", age |-> 0, claimed |-> NoNight, stored |-> FALSE,
               carries |-> FALSE, result |-> "none"]

Init ==
    /\ night = 1
    /\ jobs = [c \in Nights |-> [p \in Pages |-> "due"]]
    /\ monitored = Pages
    /\ digest = [c \in Nights |-> [st |-> "none", expected |-> {},
                                   claim |-> Oldest, retry |-> Oldest]]
    /\ endpoint \in IF EndpointSet = "always" THEN {TRUE} ELSE BOOLEAN
    /\ notice \in {"none", "owed"}
    /\ sender = [s \in Senders |-> IdleSender]
    /\ posts = [c \in Nights |-> 0]
    /\ vouched = [c \in Nights |-> 0]
    /\ told = FALSE
    /\ raced = {}
    /\ steady = Pages

-----------------------------------------------------------------------------
(* The collection whose end a digest waits for *)

\* "again" is a job beside one that has settled.
ActiveIn(c, p) == jobs[c][p] \in {"active", "again"}

\* The cohort has a job of the page that is not active.
SettledIn(c, p) == jobs[c][p] \in {"settled", "again"}

\* dispatchFdeNightly with dueOnly: a page with a live job is passed over and
\* stays due until the next cron, or for good when its next night has begun.  A
\* night begins page by page, within less than a day.  Whether a page is due a
\* second time in a night is open: a failed dispatch deletes its lastScheduledAt,
\* and setCollectionSchedule puts its slot of today ahead again.
DispatchDue(c, p) ==
    /\ c \in {night - 1, night}
    /\ p \in monitored
    /\ \A d \in Nights : ~ActiveIn(d, p)
    /\ \A d \in Nights : d > c => jobs[d][p] = "due"
    /\ jobs' = [jobs EXCEPT ![c][p] = IF @ = "due" THEN "active" ELSE "again"]
    /\ UNCHANGED <<night, monitored, steady, delivery>>

\* The job ends, with a result or without: its dispatch may have failed.
JobSettles(c, p) ==
    /\ ActiveIn(c, p)
    /\ jobs' = [jobs EXCEPT ![c][p] = "settled"]
    /\ UNCHANGED <<night, monitored, steady, delivery>>

\* A page is not paused while it is collected.
Pause(p) ==
    /\ \A c \in Nights : ~ActiveIn(c, p)
    /\ monitored' = monitored \ {p}
    /\ steady' = steady \ {p}
    /\ UNCHANGED <<night, jobs, delivery>>

Resume(p) ==
    /\ monitored' = monitored \cup {p}
    /\ UNCHANGED <<night, jobs, steady, delivery>>

NextNight ==
    /\ night < NumNights
    /\ night' = night + 1
    /\ UNCHANGED <<jobs, monitored, steady, delivery>>

\* ensureScheduledDailyDigest: the latest night whose window has closed for all
\* pages, which is the one before, when a night has begun for some of them.
EnsureDailyDigest(c) ==
    /\ c \in {night - 1, night}
    /\ monitored # {}
    /\ digest[c].st = "none"
    /\ digest' = [digest EXCEPT ![c].st = "open", ![c].expected = monitored]
    /\ UNCHANGED <<collection, endpoint, notice, sender, history>>

SetEndpoint ==
    /\ EndpointSet = "maybe"
    /\ endpoint' = ~endpoint
    /\ UNCHANGED <<collection, digest, notice, sender, history>>

-----------------------------------------------------------------------------
(* claimDailyDigest *)

\* Variant: a digest with no collected page yet counts as settled.
DigestReady_NoneActive(c) ==
    /\ digest[c].st = "open"
    /\ \A p \in Pages : ~ActiveIn(c, p)

\* Variant: a page that was paused meanwhile is waited for.
DigestReady_PausedToo(c) ==
    /\ digest[c].st = "open"
    /\ \A p \in digest[c].expected : SettledIn(c, p)

DigestReady(c) ==
    /\ digest[c].st = "open"
    /\ \A p \in Pages : ~ActiveIn(c, p)
    /\ \A p \in digest[c].expected \cap monitored : SettledIn(c, p)

\* Variant: the claim is recorded and not looked at.
Claimable_Ignored(c, age) ==
    /\ DigestReady(c)
    /\ digest[c].retry >= age

\* `retryAfterISO > now` and `now - claimedAt <= CLAIM_WINDOW_MS` exclude it.
Claimable(c, age) ==
    /\ DigestReady(c)
    /\ digest[c].retry >= age
    /\ digest[c].claim - age > Window

Candidates(s) == {c \in Nights : Claimable(c, sender[s].age)}

\* Candidates are tried from the oldest on.
First(s, c) == c \in Candidates(s) /\ \A d \in Candidates(s) : c <= d

Begin(s) ==
    /\ sender[s].pc = "idle"
    /\ sender' = [sender EXCEPT ![s] = [IdleSender EXCEPT !.pc = "claim"]]
    /\ UNCHANGED <<collection, digest, endpoint, notice, history>>

\* An attempt of the update loses its swap; `claimed` stays assigned.
ClaimLost(s) ==
    /\ Contention
    /\ sender[s].pc = "claim"
    /\ \E c \in Nights : First(s, c) /\ sender' = [sender EXCEPT ![s].claimed = c]
    /\ UNCHANGED <<collection, digest, endpoint, notice, history>>

\* The attempt that is stored claims the oldest candidate.  Without one, the
\* invocation returns, unless an earlier attempt left it a digest.
Claim(s) ==
    /\ sender[s].pc = "claim"
    /\ \/ \E c \in Nights :
            /\ First(s, c)
            /\ digest' = [digest EXCEPT ![c].claim = sender[s].age]
            /\ sender' = [sender EXCEPT ![s].pc = "read", ![s].claimed = c,
                                        ![s].stored = TRUE]
       \/ /\ Candidates(s) = {}
          /\ sender' = [sender EXCEPT ![s] =
                          IF @.claimed = NoNight THEN IdleSender ELSE [@ EXCEPT !.pc = "read"]]
          /\ UNCHANGED digest
    /\ UNCHANGED <<collection, endpoint, notice, history>>

-----------------------------------------------------------------------------
(* The delivery, and finishDailyDigest *)

Holding(s) == sender[s].pc \in {"read", "post", "finish"}

\* What an invocation delivers is its own while its claim is stored and is not old
\* enough for another to take.
Entitled(s) == Holding(s) /\ sender[s].stored /\ sender[s].age <= Window

\* A message was accepted, and its sender knows: what it may vouch for.
Delivered(s) == sender[s].pc = "finish" /\ sender[s].result = "sent"

Vouch(c, n) == vouched' = [vouched EXCEPT ![c] = IF c \in raced THEN @ ELSE @ + n]

\* The state is read again: without an endpoint there is nothing to send.
ReadState(s) ==
    /\ sender[s].pc = "read"
    /\ sender' = [sender EXCEPT
                    ![s].carries = (notice = "owed"),
                    ![s].pc     = IF endpoint THEN "post" ELSE "finish",
                    ![s].result = IF endpoint THEN "none" ELSE "nobody"]
    /\ UNCHANGED <<collection, digest, endpoint, notice, history>>

Deliver(s) ==
    /\ posts' = [posts EXCEPT ![sender[s].claimed] = IF @ < EnoughPosts THEN @ + 1 ELSE @]
    /\ told' = (told \/ sender[s].carries)

Answer(s, r) == sender' = [sender EXCEPT ![s].pc = "finish", ![s].result = r]

\* The message is accepted.
PostAccepted(s) ==
    /\ sender[s].pc = "post"
    /\ Deliver(s)
    /\ Answer(s, "sent")
    /\ IF Entitled(s) THEN Vouch(sender[s].claimed, 1) ELSE UNCHANGED vouched
    /\ UNCHANGED <<collection, digest, endpoint, notice, raced>>

\* The message is refused, perhaps with a Retry-After; or it is accepted, and
\* the ten seconds of WEBHOOK_TIMEOUT_MS are over before the answer.
PostFails(s) ==
    /\ sender[s].pc = "post"
    /\ \/ \E r \in {"failed", "later"} : Answer(s, r) /\ UNCHANGED history
       \/ Faults /\ Deliver(s) /\ Answer(s, "failed") /\ UNCHANGED <<vouched, raced>>
    /\ UNCHANGED <<collection, digest, endpoint, notice>>

\* Variant: the notice is spent on a message that failed.
Finish_SpendsNotice(s) ==
    LET c == sender[s].claimed
    IN  /\ sender[s].pc = "finish"
        /\ digest' = [digest EXCEPT ![c].claim = Oldest,
                                    ![c].st = IF sender[s].result = "sent" THEN "done" ELSE @]
        /\ notice' = IF notice = "owed" THEN "cleared" ELSE notice
        /\ sender' = [sender EXCEPT ![s] = IdleSender]
        /\ UNCHANGED <<collection, endpoint, history>>

\* Only the holder of the claim changes the digest.  After a failure the
\* invocation ends; otherwise it goes on to the next digest with the same `now`.
Finish(s) ==
    LET c    == sender[s].claimed
        over == sender[s].result \in {"sent", "nobody"}
    IN  /\ sender[s].pc = "finish"
        /\ IF digest[c].st = "open" /\ digest[c].claim = sender[s].age
           THEN /\ digest' = [digest EXCEPT
                     ![c].st    = IF over THEN "done" ELSE @,
                     ![c].claim = Oldest,
                     ![c].retry = IF sender[s].result = "later"
                                  THEN sender[s].age - RetryDelay ELSE Oldest]
                /\ notice' = IF over /\ notice = "owed" THEN "cleared" ELSE notice
                /\ raced' = IF sender[s].stored THEN raced ELSE raced \cup {c}
           ELSE UNCHANGED <<digest, notice, raced>>
        /\ sender' = [sender EXCEPT ![s] =
                        IF sender[s].result \in {"failed", "later"} THEN IdleSender
                        ELSE [IdleSender EXCEPT !.pc = "claim", !.age = sender[s].age]]
        /\ UNCHANGED <<collection, endpoint, posts, vouched, told>>

\* The invocation is killed, or a read or an update of it fails.
Die(s) ==
    /\ Faults
    /\ sender[s].pc # "idle"
    /\ sender' = [sender EXCEPT ![s] = IdleSender]
    /\ IF Entitled(s) /\ Delivered(s)
       THEN Vouch(sender[s].claimed, -1) ELSE UNCHANGED vouched
    /\ UNCHANGED <<collection, digest, endpoint, notice, posts, told, raced>>

Older(t) == IF t < Oldest THEN t + 1 ELSE Oldest

\* The night is delivered, and its outcome waits, when the claim becomes too old.
Overruns(c) ==
    \E s \in Senders : /\ Entitled(s) /\ Delivered(s)
                       /\ sender[s].claimed = c /\ sender[s].age = Window

\* Time passes; no invocation lives longer than MaxAge.
Tick ==
    /\ \A s \in Senders : sender[s].pc # "idle" => sender[s].age < MaxAge
    /\ sender' = [s \in Senders |-> IF sender[s].pc = "idle" THEN sender[s]
                                    ELSE [sender[s] EXCEPT !.age = @ + 1]]
    /\ digest' = [c \in Nights |-> [digest[c] EXCEPT !.claim = Older(@), !.retry = Older(@)]]
    /\ vouched' = [c \in Nights |-> IF c \notin raced /\ Overruns(c)
                                   THEN vouched[c] - 1 ELSE vouched[c]]
    /\ UNCHANGED <<collection, endpoint, notice, posts, told, raced>>

SenderStep(s) ==
    \/ Begin(s) \/ ClaimLost(s) \/ Claim(s) \/ ReadState(s)
    \/ PostAccepted(s) \/ PostFails(s) \/ Finish(s)

Next ==
    \/ \E p \in Pages : Pause(p) \/ Resume(p)
    \/ \E c \in Nights, p \in Pages : DispatchDue(c, p) \/ JobSettles(c, p)
    \/ \E c \in Nights : EnsureDailyDigest(c)
    \/ NextNight \/ SetEndpoint \/ Tick
    \/ \E s \in Senders : SenderStep(s) \/ Die(s)

Spec == Init /\ [][Next]_vars

\* Invocations keep coming (the cron, every 15 minutes), time passes, and there
\* is no step at which every one of them dies, the record of a delivery included,
\* nor an endpoint that refuses for ever.  Nothing is promised about users.
FairSpec ==
    /\ Spec
    /\ WF_vars(Tick)
    /\ \A s \in Senders :
        /\ WF_vars(SenderStep(s))
        /\ SF_vars(Claim(s)) /\ SF_vars(ReadState(s))
        /\ SF_vars(PostAccepted(s))
        /\ SF_vars(Finish(s) /\ sender[s].result \in {"sent", "nobody"})

-----------------------------------------------------------------------------
(* Properties *)

TypeOK ==
    /\ night \in Nights
    /\ jobs \in [Nights -> [Pages -> {"due", "active", "settled", "again"}]]
    /\ monitored \subseteq Pages /\ steady \subseteq Pages
    /\ digest \in [Nights -> [st : {"none", "open", "done"}, expected : SUBSET Pages,
                              claim : 0 .. Oldest, retry : (-RetryDelay) .. Oldest]]
    /\ endpoint \in BOOLEAN /\ notice \in {"none", "owed", "cleared"} /\ told \in BOOLEAN
    /\ raced \subseteq Nights
    /\ sender \in [Senders ->
         [pc : {"idle", "claim", "read", "post", "finish"}, age : 0 .. MaxAge,
          claimed : Nights \cup {NoNight}, stored : BOOLEAN, carries : BOOLEAN,
          result : {"none", "nobody", "sent", "failed", "later"}]]
    /\ posts \in [Nights -> Nat] /\ vouched \in [Nights -> Int]

\* A night is told again only when a message of it went without a voucher: its
\* answer was lost, its sender died before the record or recorded past the claim
\* window, or it left past the window or on a claim that was never stored.  Of the
\* others there is one, however many invocations overlap, outlive their claims or
\* retry.  (A claim of the same instant may be taken off by an invocation that had
\* lost its swap; nothing is said of that night from then on.)
AtMostOnceKnown == \A c \in Nights \ raced : vouched[c] <= 1

\* From the claim to the end of its window, or to the record of the outcome, an
\* invocation delivers a night that is open, whose claimedAt is its own, and that no
\* other such invocation delivers, whatever those do that outlived their window or
\* had lost their swap.  (With the same exception.)
ClaimIsExclusive ==
    \A s \in Senders : Entitled(s) /\ sender[s].claimed \notin raced =>
        /\ digest[sender[s].claimed].st = "open"
        /\ digest[sender[s].claimed].claim = sender[s].age
        /\ \A t \in Senders :
              Entitled(t) /\ sender[t].claimed = sender[s].claimed => t = s

\* No message leaves before every page it is about has a settled job of that
\* night, unless the page was paused; whatever users and the collection do between
\* the claim and the delivery, and although `claimed` outlives a lost attempt.
SentWhenSettled ==
    \A c \in Nights : posts[c] > 0 =>
        \A p \in digest[c].expected \cap steady : SettledIn(c, p)

\* dailyDigest.ts:159-160, "Told once.  Cleared only on a message that actually
\* completed": the notice is not dropped before a message that carries it was
\* accepted.
NoticeIsTold == notice = "cleared" => told

\* dailyDigest.ts:179, "One message per settled cohort", and the test "claims
\* concurrent delivery only once": nothing dies, no answer is lost, and a night
\* is told at most once.
OneMessagePerNight == \A c \in Nights : posts[c] <= 1

Collected(c) ==
    /\ digest[c].st = "open"
    /\ \A p \in Pages : ~ActiveIn(c, p)
    /\ \A p \in digest[c].expected : p \in monitored => SettledIn(c, p)

\* A night whose pages have all been collected or paused, and stay so, is told in
\* the end, whichever invocations die or are refused on the way, and although an
\* older night is always tried first.
EveryNightIsTold == \A c \in Nights : []<>~Collected(c)
=============================================================================
