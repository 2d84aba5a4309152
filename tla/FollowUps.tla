----------------------------- MODULE FollowUps -----------------------------
(* The 2, 7 and 30-day comparisons after a change marker
   (src/lib/followups.ts, the marker routes and src/lib/collector.ts).  Any
   collection that ends, any nightly sweep and any notification starts an
   invocation of processFollowUps; it claims each due follow-up in the
   document, posts to Slack outside the document, and records the answer.

   Time is relative: an item keeps how long ago it was last attempted, an
   invocation how long ago it took the `now` it uses for everything it does. *)
EXTENDS Integers, FiniteSets

CONSTANTS Items,        \* the follow-ups
          Invocations,  \* concurrent invocations of processFollowUps
          ClaimWindow,  \* FOLLOW_UP_CLAIM_WINDOW_MS, in ticks
          MaxLife,      \* how long an invocation lives, in ticks
          MaxRetryAfter \* longest delay Slack asks for, in ticks

ASSUME FollowUpAssumption ==
    /\ ClaimWindow \in Nat \ {0}
    /\ MaxLife \in Nat
    /\ MaxRetryAfter \in Nat

VARIABLES followUps,    \* the stored follow-ups
          pageMonitored, \* is their page actively monitored?
          earlierNight, \* was a night collected before the marker?
          calls,        \* the invocations
          told          \* history: the follow-ups Slack accepted

followUpVars == <<followUps, pageMonitored, earlierNight, calls, told>>

LongAgo == ClaimWindow + MaxLife + 1  \* an attempt so old it blocks nobody
NoDelay == -MaxLife                   \* a retry delay that blocks nobody

(* since: ticks since lastAttemptISO; delay: ticks until retryAfterISO. *)
FollowUp == [stored : BOOLEAN, due : BOOLEAN, sent : BOOLEAN,
             since : 0..LongAgo, delay : NoDelay..MaxRetryAfter]

Steps == {"idle", "loop", "claim", "deliver", "finish"}

(* claimed is the outer variable of claimFollowUp, which an attempt that lost
   its swap has set already; raced records that nothing else claimed for it. *)
Call == [pc : Steps, age : 0..MaxLife, todo : SUBSET Items,
         item : Items, claimed : BOOLEAN, raced : BOOLEAN,
         accepted : BOOLEAN, retryAfter : 0..MaxRetryAfter, asked : BOOLEAN]

MutClaimableAtOnce(i, age) ==     \* the claim of another invocation is not asked
    /\ followUps[i].stored /\ ~followUps[i].sent /\ followUps[i].due
    /\ pageMonitored
    /\ followUps[i].delay + age <= 0

Claimable(i, age) ==
    /\ followUps[i].stored /\ ~followUps[i].sent /\ followUps[i].due
    /\ pageMonitored
    /\ followUps[i].delay + age <= 0
    /\ followUps[i].since - age >= ClaimWindow

Due == {i \in Items :
            followUps[i].stored /\ followUps[i].due /\ ~followUps[i].sent}

Busy(c) == calls[c].pc # "idle"

(* Invocations that are between a claim and the record of its answer. *)
Holds(c, i) == calls[c].pc \in {"deliver", "finish"} /\ calls[c].item = i

-----------------------------------------------------------------------------
InitFollowUps ==
    /\ followUps = [i \in Items |->
                       [stored |-> TRUE, due |-> FALSE, sent |-> FALSE,
                        since |-> LongAgo, delay |-> NoDelay]]
    /\ pageMonitored = TRUE
    /\ earlierNight \in BOOLEAN
    /\ \E i \in Items :
          calls = [c \in Invocations |->
                      [pc |-> "idle", age |-> 0, todo |-> {}, item |-> i,
                       claimed |-> FALSE, raced |-> FALSE,
                       accepted |-> FALSE, retryAfter |-> 0,
                       asked |-> FALSE]]
    /\ told = {}

(* A tick.  No invocation outlives MaxLife. *)
Tick ==
    /\ \A c \in Invocations : Busy(c) => calls[c].age < MaxLife
    /\ followUps' = [i \in Items |->
          [followUps[i] EXCEPT
              !.since = IF @ < LongAgo THEN @ + 1 ELSE LongAgo,
              !.delay = IF @ > NoDelay THEN @ - 1 ELSE NoDelay]]
    /\ calls' = [c \in Invocations |->
          [calls[c] EXCEPT !.age = IF Busy(c) THEN @ + 1 ELSE 0]]
    /\ UNCHANGED <<pageMonitored, earlierNight, told>>

(* The due date comes, or a marker that moves takes it along. *)
SetDue(i, due) ==
    /\ followUps[i].due # due
    /\ followUps' = [followUps EXCEPT ![i].due = due]
    /\ UNCHANGED <<pageMonitored, earlierNight, calls, told>>

(* The marker or the page is deleted, and its follow-ups with it. *)
DeleteMarker(i) ==
    /\ followUps[i].stored
    /\ followUps' = [followUps EXCEPT ![i].stored = FALSE]
    /\ UNCHANGED <<pageMonitored, earlierNight, calls, told>>

SetPageFlag ==
    /\ pageMonitored' = ~pageMonitored
    /\ UNCHANGED <<followUps, earlierNight, calls, told>>

-----------------------------------------------------------------------------
(* processFollowUps takes its `now` and its candidates once. *)
Invoke(c) ==
    /\ calls[c].pc = "idle"
    /\ Due # {}
    /\ calls' = [calls EXCEPT ![c].pc = "loop", ![c].age = 0, ![c].todo = Due]
    /\ UNCHANGED <<followUps, pageMonitored, earlierNight, told>>

NextCandidate(c) ==
    /\ calls[c].pc = "loop"
    /\ \/ \E i \in calls[c].todo :
             calls' = [calls EXCEPT ![c].pc = "claim", ![c].item = i,
                                    ![c].todo = @ \ {i},
                                    ![c].claimed = FALSE, ![c].raced = FALSE]
       \/ /\ calls[c].todo = {}
          /\ calls' = [calls EXCEPT ![c].pc = "idle", ![c].age = 0]
    /\ UNCHANGED <<followUps, pageMonitored, earlierNight, told>>

(* The mutation ran and claimed, and the swap of the document was lost: the
   mutation runs again on the newer document, claimed stays set. *)
LoseSwap(c) ==
    /\ calls[c].pc = "claim"
    /\ Claimable(calls[c].item, calls[c].age)
    /\ calls' = [calls EXCEPT ![c].claimed = TRUE]
    /\ UNCHANGED <<followUps, pageMonitored, earlierNight, told>>

claimFollowUp(c) ==
    LET i == calls[c].item
        claim == Claimable(i, calls[c].age)
        goesOn == claim \/ calls[c].claimed
    IN /\ calls[c].pc = "claim"
       /\ followUps' = IF claim
                       THEN [followUps EXCEPT ![i].since = calls[c].age]
                       ELSE followUps
       /\ calls' = [calls EXCEPT
                       ![c].pc = IF goesOn THEN "deliver" ELSE "loop",
                       ![c].claimed = goesOn,
                       ![c].raced = goesOn /\ ~claim]
       /\ UNCHANGED <<pageMonitored, earlierNight, told>>

(* The state is read again: without a night before the marker there is nothing
   to compare, otherwise Slack is asked and accepts, refuses or asks for a
   delay. *)
Deliver(c) ==
    /\ calls[c].pc = "deliver"
    /\ \E accepted \in BOOLEAN, asked \in BOOLEAN, n \in 0..MaxRetryAfter :
          /\ accepted => earlierNight /\ ~asked
          /\ asked => earlierNight
          /\ ~asked => n = 0
          /\ calls' = [calls EXCEPT ![c].pc = "finish",
                          ![c].accepted = accepted, ![c].asked = asked,
                          ![c].retryAfter = n]
          /\ told' = IF accepted THEN told \cup {calls[c].item} ELSE told
    /\ UNCHANGED <<followUps, pageMonitored, earlierNight>>

(* Only the attempt that claimed last records its answer. *)
finishFollowUp(c) ==
    LET i == calls[c].item
        mine == /\ followUps[i].stored /\ ~followUps[i].sent
                /\ followUps[i].since = calls[c].age
    IN /\ calls[c].pc = "finish"
       /\ followUps' =
             IF mine
             THEN [followUps EXCEPT
                      ![i].sent = calls[c].accepted,
                      ![i].delay = IF calls[c].asked
                                   THEN calls[c].retryAfter - calls[c].age
                                   ELSE NoDelay]
             ELSE followUps
       /\ calls' = [calls EXCEPT ![c].pc = "loop", ![c].accepted = FALSE,
                       ![c].asked = FALSE, ![c].retryAfter = 0,
                       ![c].claimed = FALSE, ![c].raced = FALSE]
       /\ UNCHANGED <<pageMonitored, earlierNight, told>>

(* The invocation dies: its time is up, the eighth swap is lost, a crash. *)
Die(c) ==
    /\ Busy(c)
    /\ calls' = [calls EXCEPT ![c].pc = "idle", ![c].age = 0, ![c].todo = {},
                    ![c].claimed = FALSE, ![c].raced = FALSE,
                    ![c].accepted = FALSE, ![c].asked = FALSE,
                    ![c].retryAfter = 0]
    /\ UNCHANGED <<followUps, pageMonitored, earlierNight, told>>

Proceed(c) == NextCandidate(c) \/ claimFollowUp(c) \/ finishFollowUp(c)

NextFollowUps ==
    \/ Tick
    \/ SetPageFlag
    \/ \E i \in Items :
          \/ \E due \in BOOLEAN : SetDue(i, due)
          \/ DeleteMarker(i)
    \/ \E c \in Invocations :
          \/ Invoke(c)
          \/ LoseSwap(c)
          \/ Proceed(c)
          \/ Deliver(c)
          \/ Die(c)

SpecFollowUps == InitFollowUps /\ [][NextFollowUps]_followUpVars

-----------------------------------------------------------------------------
(* The shape of the state. *)
FollowUpsTypeOK ==
    /\ followUps \in [Items -> FollowUp]
    /\ pageMonitored \in BOOLEAN
    /\ earlierNight \in BOOLEAN
    /\ calls \in [Invocations -> Call]
    /\ told \subseteq Items

(* Two invocations work on the same follow-up only when their claims are a
   claim window apart, or when one of them goes on after a claim that lost its
   swap.  The second is what keeps the claim from being exclusive. *)
ClaimsAreApart ==
    \A c, d \in Invocations, i \in Items :
        (c # d /\ Holds(c, i) /\ Holds(d, i)
            /\ ~calls[c].raced /\ ~calls[d].raced)
        => \/ calls[c].age - calls[d].age >= ClaimWindow
           \/ calls[d].age - calls[c].age >= ClaimWindow

(* A follow-up is marked sent only when Slack accepted it, whichever
   invocations' answers were recorded, skipped or overtaken. *)
SentWasTold == \A i \in Items : followUps[i].sent => i \in told
=============================================================================
