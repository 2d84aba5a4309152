------------------------ MODULE DigestDeliveryProofs ------------------------
(* Proofs about DigestDelivery, for every number of pages, nights and senders. *)
EXTENDS DigestDelivery, TLAPS

DigestRecord == [st : {"none", "open", "done"}, expected : SUBSET Pages,
                 claim : 0 .. Oldest, retry : (-RetryDelay) .. Oldest]

SenderRecord == [pc : {"idle", "claim", "read", "post", "finish"}, age : 0 .. MaxAge,
                 claimed : Nights \cup {NoNight}, stored : BOOLEAN, carries : BOOLEAN,
                 result : {"none", "nobody", "sent", "failed", "later"}]

-----------------------------------------------------------------------------
(* Types *)

LEMMA OldestIsNat == Oldest \in Nat /\ MaxAge < Oldest /\ Window < Oldest
  BY DigestAssumption DEF Oldest

LEMMA IdleType == IdleSender \in SenderRecord
  BY DigestAssumption DEF IdleSender, SenderRecord

LEMMA TypeInit == ASSUME Init PROVE TypeOK
<1>1. night \in Nights /\ monitored \subseteq Pages /\ steady \subseteq Pages
  BY DigestAssumption DEF Init, Nights
<1>2. jobs \in [Nights -> [Pages -> {"due", "active", "settled", "again"}]]
  BY DEF Init
<1>3. digest \in [Nights -> DigestRecord]
  BY DigestAssumption, OldestIsNat DEF Init, DigestRecord
<1>4. /\ endpoint \in BOOLEAN /\ notice \in {"none", "owed", "cleared"}
      /\ told \in BOOLEAN /\ raced \subseteq Nights
  BY DEF Init
<1>5. sender \in [Senders -> SenderRecord]
  BY IdleType DEF Init
<1>6. posts \in [Nights -> Nat] /\ vouched \in [Nights -> Int]
  BY DEF Init
<1>. QED BY <1>1, <1>2, <1>3, <1>4, <1>5, <1>6 DEF TypeOK, SenderRecord, DigestRecord

\* Steps of users and of the collection leave what senders use alone.
LEMMA TypeOthers ==
  ASSUME TypeOK,
         \/ \E p \in Pages : Pause(p) \/ Resume(p)
         \/ \E c \in Nights, p \in Pages : DispatchDue(c, p) \/ JobSettles(c, p)
         \/ NextNight \/ SetEndpoint
  PROVE  TypeOK'
<1>1. CASE \E p \in Pages : Pause(p) \/ Resume(p)
  BY <1>1 DEF TypeOK, Pause, Resume, delivery, history
<1>2. CASE \E c \in Nights, p \in Pages : DispatchDue(c, p) \/ JobSettles(c, p)
  <2>. PICK c \in Nights, p \in Pages : DispatchDue(c, p) \/ JobSettles(c, p)
    BY <1>2
  <2>1. PICK j \in {"active", "settled", "again"} : jobs' = [jobs EXCEPT ![c][p] = j]
    BY DEF DispatchDue, JobSettles
  <2>2. jobs' \in [Nights -> [Pages -> {"due", "active", "settled", "again"}]]
    BY <2>1 DEF TypeOK
  <2>. QED BY <2>2 DEF TypeOK, DispatchDue, JobSettles, delivery, history
<1>3. CASE NextNight
  <2>1. night' \in Nights
    BY <1>3, DigestAssumption DEF TypeOK, NextNight, Nights
  <2>. QED BY <1>3, <2>1 DEF TypeOK, NextNight, delivery, history
<1>4. CASE SetEndpoint
  BY <1>4 DEF TypeOK, SetEndpoint, collection, history
<1>. QED BY <1>1, <1>2, <1>3, <1>4

LEMMA TypeEnsure ==
  ASSUME TypeOK, NEW c \in Nights, EnsureDailyDigest(c) PROVE TypeOK'
<1>1. digest' \in [Nights -> DigestRecord]
  <2>1. digest \in [Nights -> DigestRecord] /\ monitored \in SUBSET Pages
    BY DEF TypeOK, DigestRecord
  <2>2. [digest[c] EXCEPT !.st = "open", !.expected = monitored] \in DigestRecord
    BY <2>1 DEF DigestRecord
  <2>3. digest' = [digest EXCEPT ![c] = [@ EXCEPT !.st = "open", !.expected = monitored]]
    BY <2>1 DEF EnsureDailyDigest, DigestRecord
  <2>. QED BY <2>1, <2>2, <2>3
<1>. QED BY <1>1 DEF TypeOK, EnsureDailyDigest, DigestRecord, collection, history

LEMMA TypeTick == ASSUME TypeOK, Tick PROVE TypeOK'
<1>1. sender' \in [Senders -> SenderRecord]
  <2>. SUFFICES ASSUME NEW s \in Senders, sender[s].pc # "idle"
                PROVE  [sender[s] EXCEPT !.age = @ + 1] \in SenderRecord
    BY DEF TypeOK, Tick, SenderRecord
  <2>1. sender[s] \in SenderRecord /\ sender[s].age < MaxAge
    BY DEF TypeOK, Tick, SenderRecord
  <2>2. sender[s].age + 1 \in 0 .. MaxAge
    BY <2>1, DigestAssumption DEF SenderRecord
  <2>. QED BY <2>1, <2>2 DEF SenderRecord
<1>2. ASSUME NEW t \in (-RetryDelay) .. Oldest
      PROVE  Older(t) \in (-RetryDelay) .. Oldest /\ (t >= 0 => Older(t) \in 0 .. Oldest)
  BY DigestAssumption, OldestIsNat DEF Older
<1>3. digest' \in [Nights -> DigestRecord]
  <2>. SUFFICES ASSUME NEW c \in Nights
                PROVE  [digest[c] EXCEPT !.claim = Older(@), !.retry = Older(@)] \in DigestRecord
    BY DEF Tick
  <2>1. digest[c] \in DigestRecord
    BY DEF TypeOK, DigestRecord
  <2>2. Older(digest[c].claim) \in 0 .. Oldest
    BY <2>1, <1>2, DigestAssumption, OldestIsNat DEF DigestRecord
  <2>3. Older(digest[c].retry) \in (-RetryDelay) .. Oldest
    BY <2>1, <1>2 DEF DigestRecord
  <2>. QED BY <2>1, <2>2, <2>3 DEF DigestRecord
<1>4. vouched' \in [Nights -> Int]
  <2>. DEFINE v(c) == IF c \notin raced /\ Overruns(c) THEN vouched[c] - 1 ELSE vouched[c]
  <2>1. \A c \in Nights : vouched[c] \in Int
    BY DEF TypeOK
  <2>2. \A c \in Nights : v(c) \in Int
    BY <2>1
  <2>3. vouched' = [c \in Nights |-> v(c)]
    BY DEF Tick
  <2>. HIDE DEF v
  <2>. QED BY <2>2, <2>3
<1>. QED BY <1>1, <1>3, <1>4 DEF TypeOK, Tick, SenderRecord, DigestRecord, collection

\* What time does to an invocation, and to a digest.
LEMMA SenderAges ==
  ASSUME TypeOK, Tick, NEW s \in Senders
  PROVE  /\ sender'[s].pc = sender[s].pc /\ sender'[s].claimed = sender[s].claimed
         /\ sender'[s].result = sender[s].result /\ sender'[s].stored = sender[s].stored
         /\ sender'[s].carries = sender[s].carries
         /\ sender[s].pc # "idle" => /\ sender[s].age \in 0 .. (MaxAge - 1)
                                      /\ sender'[s].age = sender[s].age + 1
<1>1. sender[s] \in SenderRecord /\ (sender[s].pc # "idle" => sender[s].age < MaxAge)
  BY DEF TypeOK, Tick, SenderRecord
<1>2. sender'[s] = IF sender[s].pc = "idle" THEN sender[s]
                   ELSE [sender[s] EXCEPT !.age = sender[s].age + 1]
  BY DEF Tick
<1>. QED BY <1>1, <1>2, DigestAssumption DEF SenderRecord

LEMMA DigestAges ==
  ASSUME TypeOK, Tick, NEW c \in Nights
  PROVE  /\ digest'[c].st = digest[c].st /\ digest'[c].expected = digest[c].expected
         /\ digest'[c].claim = Older(digest[c].claim)
<1>1. digest[c] \in DigestRecord
  BY DEF TypeOK, DigestRecord
<1>2. digest'[c] = [digest[c] EXCEPT !.claim = Older(digest[c].claim),
                                     !.retry = Older(digest[c].retry)]
  BY DEF Tick
<1>. QED BY <1>1, <1>2 DEF DigestRecord

LEMMA TypeClaiming ==
  ASSUME TypeOK, NEW s \in Senders, Begin(s) \/ ClaimLost(s) \/ Claim(s) \/ ReadState(s)
  PROVE  TypeOK'
<1>. USE DEF SenderRecord, DigestRecord
<1>1. sender[s] \in SenderRecord
  BY DEF TypeOK
<1>2. CASE Begin(s)
  <2>1. sender' \in [Senders -> SenderRecord]
    BY <1>2, IdleType DEF TypeOK, Begin
  <2>. QED BY <1>2, <2>1 DEF TypeOK, Begin, collection, history
<1>3. CASE ClaimLost(s)
  <2>1. sender' \in [Senders -> SenderRecord]
    <3>1. PICK c \in Nights : sender' = [sender EXCEPT ![s].claimed = c]
      BY <1>3 DEF ClaimLost
    <3>. QED BY <3>1, <1>1 DEF TypeOK
  <2>. QED BY <1>3, <2>1 DEF TypeOK, ClaimLost, collection, history
<1>4. CASE Claim(s)
  <2>1. sender' \in [Senders -> SenderRecord]
    <3>1. CASE \E c \in Nights : sender' = [sender EXCEPT ![s].pc = "read", ![s].claimed = c,
                                                        ![s].stored = TRUE]
      <4>1. PICK c \in Nights : sender' = [sender EXCEPT ![s].pc = "read", ![s].claimed = c,
                                                        ![s].stored = TRUE]
        BY <3>1
      <4>2. [sender[s] EXCEPT !.pc = "read", !.claimed = c, !.stored = TRUE] \in SenderRecord
        BY <1>1
      <4>3. sender' = [sender EXCEPT ![s] =
                          [sender[s] EXCEPT !.pc = "read", !.claimed = c, !.stored = TRUE]]
        BY <4>1, <1>1 DEF TypeOK
      <4>. QED BY <4>2, <4>3 DEF TypeOK
    <3>2. CASE sender' = [sender EXCEPT ![s] =
                            IF @.claimed = NoNight THEN IdleSender ELSE [@ EXCEPT !.pc = "read"]]
      BY <3>2, <1>1, IdleType DEF TypeOK
    <3>. QED BY <1>4, <3>1, <3>2 DEF Claim
  <2>2. digest' \in [Nights -> DigestRecord]
    <3>1. digest \in [Nights -> DigestRecord]
      BY DEF TypeOK
    <3>2. sender[s].age \in 0 .. Oldest
      BY <1>1, OldestIsNat, DigestAssumption
    <3>3. ASSUME NEW c \in Nights, digest' = [digest EXCEPT ![c].claim = sender[s].age]
          PROVE  digest' \in [Nights -> DigestRecord]
      BY <3>1, <3>2, <3>3
    <3>. QED BY <1>4, <3>1, <3>3 DEF Claim
  <2>. QED BY <1>4, <2>1, <2>2 DEF TypeOK, Claim, collection, history
<1>5. CASE ReadState(s)
  <2>1. sender' \in [Senders -> SenderRecord]
    BY <1>5, <1>1 DEF TypeOK, ReadState
  <2>. QED BY <1>5, <2>1 DEF TypeOK, ReadState, collection, history
<1>. QED BY <1>2, <1>3, <1>4, <1>5

LEMMA VouchType ==
  ASSUME TypeOK, NEW c, NEW n \in Int, Vouch(c, n) PROVE vouched' \in [Nights -> Int]
<1>1. vouched \in [Nights -> Int]
  BY DEF TypeOK
<1>2. PICK m : vouched' = [vouched EXCEPT ![c] = m] /\ (m = vouched[c] \/ m = vouched[c] + n)
  BY DEF Vouch
<1>3. c \in Nights => m \in Int
  BY <1>1, <1>2
<1>. QED BY <1>1, <1>2, <1>3

LEMMA TypeDelivery ==
  ASSUME TypeOK, NEW s \in Senders, PostAccepted(s) \/ PostFails(s), sender[s].claimed \in Nights
  PROVE  TypeOK'
<1>. USE DEF SenderRecord, DigestRecord
<1>1. sender[s] \in SenderRecord
  BY DEF TypeOK
<1>2. EnoughPosts \in Nat
  BY DigestAssumption DEF EnoughPosts
<1>3. ASSUME Deliver(s)
      PROVE  posts' \in [Nights -> Nat] /\ told' \in BOOLEAN
  <2>1. posts \in [Nights -> Nat] /\ told \in BOOLEAN /\ sender[s].carries \in BOOLEAN
    BY <1>1 DEF TypeOK
  <2>. QED BY <1>3, <2>1, <1>2 DEF Deliver
<1>4. ASSUME NEW r \in {"sent", "failed", "later"}, Answer(s, r)
      PROVE  sender' \in [Senders -> SenderRecord]
  BY <1>4, <1>1 DEF TypeOK, Answer
<1>5. CASE PostAccepted(s)
  <2>1. Deliver(s) /\ Answer(s, "sent")
    BY <1>5 DEF PostAccepted
  <2>2. sender' \in [Senders -> SenderRecord] /\ posts' \in [Nights -> Nat] /\ told' \in BOOLEAN
    BY <2>1, <1>3, <1>4
  <2>3. vouched' \in [Nights -> Int]
    <3>1. CASE Vouch(sender[s].claimed, 1)
      BY <3>1, VouchType
    <3>2. CASE UNCHANGED vouched
      BY <3>2 DEF TypeOK
    <3>. QED BY <1>5, <3>1, <3>2 DEF PostAccepted
  <2>. QED BY <1>5, <2>2, <2>3 DEF TypeOK, PostAccepted, collection
<1>6. CASE PostFails(s)
  <2>1. sender' \in [Senders -> SenderRecord]
    BY <1>6, <1>4 DEF PostFails
  <2>2. posts' \in [Nights -> Nat] /\ told' \in BOOLEAN
    <3>1. CASE UNCHANGED history
      BY <3>1 DEF TypeOK, history
    <3>2. CASE Deliver(s)
      BY <3>2, <1>3
    <3>. QED BY <1>6, <3>1, <3>2 DEF PostFails
  <2>3. UNCHANGED <<vouched, raced>>
    BY <1>6 DEF PostFails, history
  <2>. QED BY <1>6, <2>1, <2>2, <2>3 DEF TypeOK, PostFails, collection
<1>. QED BY <1>5, <1>6

LEMMA TypeFinish ==
  ASSUME TypeOK, NEW s \in Senders, Finish(s), Holding(s) => sender[s].claimed \in Nights
  PROVE  TypeOK'
<1>. USE DEF SenderRecord, DigestRecord
<1>. DEFINE c == sender[s].claimed
            over == sender[s].result \in {"sent", "nobody"}
<1>1. sender[s] \in SenderRecord /\ digest \in [Nights -> DigestRecord]
  BY DEF TypeOK
<1>2. sender' \in [Senders -> SenderRecord]
  <2>1. [IdleSender EXCEPT !.pc = "claim", !.age = sender[s].age] \in SenderRecord
    BY <1>1 DEF IdleSender
  <2>2. PICK r \in SenderRecord : sender' = [sender EXCEPT ![s] = r]
    BY <2>1, IdleType DEF Finish
  <2>. QED BY <2>2 DEF TypeOK
<1>3. digest' \in [Nights -> DigestRecord]
  <2>1. CASE UNCHANGED digest
    BY <2>1, <1>1
  <2>2. CASE digest' = [digest EXCEPT
                     ![c].st    = IF over THEN "done" ELSE @,
                     ![c].claim = Oldest,
                     ![c].retry = IF sender[s].result = "later"
                                  THEN sender[s].age - RetryDelay ELSE Oldest]
    <3>1. sender[s].age - RetryDelay \in (-RetryDelay) .. Oldest
      BY <1>1, OldestIsNat, DigestAssumption
    <3>2. Oldest \in 0 .. Oldest /\ Oldest \in (-RetryDelay) .. Oldest
      BY OldestIsNat, DigestAssumption
    <3>. DEFINE R == IF sender[s].result = "later" THEN sender[s].age - RetryDelay ELSE Oldest
    <3>3. R \in (-RetryDelay) .. Oldest
      BY <3>1, <3>2
    <3>4. digest' = [digest EXCEPT ![c].st = IF over THEN "done" ELSE @,
                                   ![c].claim = Oldest, ![c].retry = R]
      BY <2>2
    <3>. HIDE DEF R
    <3>5. CASE c \in Nights
      <4>. DEFINE new == [digest[c] EXCEPT !.st = IF over THEN "done" ELSE @,
                                           !.claim = Oldest, !.retry = R]
      <4>1. digest[c] \in DigestRecord
        BY <3>5, <1>1
      <4>2. new \in DigestRecord
        BY <4>1, <3>2, <3>3
      <4>3. digest' = [digest EXCEPT ![c] = new]
        BY <3>4, <4>1, <1>1
      <4>. HIDE DEF new
      <4>. QED BY <4>2, <4>3, <1>1
    <3>6. CASE c \notin Nights
      BY <3>4, <3>6, <1>1
    <3>. QED BY <3>5, <3>6
  <2>. QED BY <2>1, <2>2 DEF Finish
<1>4. notice' \in {"none", "owed", "cleared"}
  BY DEF TypeOK, Finish
<1>5. raced' \subseteq Nights
  BY DEF TypeOK, Finish, Holding
<1>. QED BY <1>2, <1>3, <1>4, <1>5 DEF TypeOK, Finish, collection

LEMMA TypeDie == ASSUME TypeOK, NEW s \in Senders, Die(s) PROVE TypeOK'
<1>1. sender' \in [Senders -> SenderRecord]
  BY IdleType DEF TypeOK, Die, SenderRecord
<1>2. vouched' \in [Nights -> Int]
  <2>1. CASE UNCHANGED vouched
    BY <2>1 DEF TypeOK
  <2>2. CASE Vouch(sender[s].claimed, -1)
    BY <2>2, VouchType
  <2>. QED BY <2>1, <2>2 DEF Die
<1>. QED BY <1>1, <1>2 DEF TypeOK, Die, SenderRecord, collection

-----------------------------------------------------------------------------
(* Types, whatever is contended and however long one lives *)

TypeInv == TypeOK /\ \A s \in Senders : Holding(s) => sender[s].claimed \in Nights

LEMMA Leaves ==
  ASSUME TypeOK, NEW s \in Senders, Begin(s) \/ Finish(s) \/ Die(s)
  PROVE  sender'[s].pc \in {"idle", "claim"}
<1>1. CASE Begin(s)
  <2>1. sender'[s] = [IdleSender EXCEPT !.pc = "claim"]
    BY <1>1 DEF Begin, TypeOK
  <2>. QED BY <2>1 DEF IdleSender
<1>2. CASE Finish(s)
  <2>. DEFINE new == [IdleSender EXCEPT !.pc = "claim", !.age = sender[s].age]
  <2>1. new.pc = "claim" /\ IdleSender.pc = "idle"
    BY DEF IdleSender
  <2>2. sender' = [sender EXCEPT ![s] =
                     IF sender[s].result \in {"failed", "later"} THEN IdleSender ELSE new]
    BY <1>2 DEF Finish
  <2>. HIDE DEF new
  <2>3. sender'[s] = IdleSender \/ sender'[s] = new
    BY <2>2 DEF TypeOK
  <2>. QED BY <2>1, <2>3
<1>3. CASE Die(s)
  <2>1. sender'[s] = IdleSender
    BY <1>3 DEF Die, TypeOK
  <2>. QED BY <2>1 DEF IdleSender
<1>. QED BY <1>1, <1>2, <1>3

LEMMA TypeNext == ASSUME TypeInv, [Next]_vars PROVE TypeInv'
<1>. USE DEF TypeInv
<1>0. CASE UNCHANGED vars
  BY <1>0 DEF TypeOK, Holding, vars, collection, history
<1>1. CASE \/ \E p \in Pages : Pause(p) \/ Resume(p)
           \/ \E c \in Nights, p \in Pages : DispatchDue(c, p) \/ JobSettles(c, p)
           \/ NextNight \/ SetEndpoint
  <2>1. UNCHANGED sender
    BY <1>1 DEF Pause, Resume, DispatchDue, JobSettles, NextNight, SetEndpoint, delivery
  <2>2. TypeOK'
    BY <1>1, TypeOthers
  <2>. QED BY <2>1, <2>2 DEF Holding
<1>2. ASSUME NEW c \in Nights, EnsureDailyDigest(c) PROVE TypeInv'
  BY <1>2, TypeEnsure DEF EnsureDailyDigest, Holding
<1>3. CASE Tick
  <2>1. \A s \in Senders : Holding(s)' => Holding(s) /\ sender'[s].claimed = sender[s].claimed
    BY <1>3, SenderAges DEF Holding
  <2>. QED BY <1>3, <2>1, TypeTick
<1>4. ASSUME NEW s \in Senders, SenderStep(s) \/ Die(s) PROVE TypeInv'
  <2>1. TypeOK'
    BY <1>4, TypeClaiming, TypeDelivery, TypeFinish, TypeDie
       DEF SenderStep, Holding, PostAccepted, PostFails
  <2>2. \A t \in Senders : t # s => sender'[t] = sender[t]
    BY <1>4 DEF SenderStep, Begin, ClaimLost, Claim, ReadState, PostAccepted, PostFails,
                Answer, Finish, Die, TypeOK
  <2>3. Holding(s)' => sender'[s].claimed \in Nights
    <3>1. CASE Begin(s) \/ ClaimLost(s) \/ Finish(s) \/ Die(s)
      <4>1. CASE Begin(s) \/ Finish(s) \/ Die(s)
        BY <4>1, Leaves DEF Holding
      <4>2. CASE ClaimLost(s)
        BY <4>2 DEF ClaimLost, Holding, TypeOK
      <4>. QED BY <3>1, <4>1, <4>2
    <3>2. CASE Claim(s)
      <4>1. sender'[s].claimed # NoNight \/ sender'[s].pc = "idle"
        <5>1. CASE \E c \in Nights : sender' = [sender EXCEPT ![s].pc = "read", ![s].claimed = c,
                                                            ![s].stored = TRUE]
          BY <5>1, DigestAssumption DEF TypeOK, Nights, NoNight
        <5>2. CASE sender' = [sender EXCEPT ![s] =
                       IF @.claimed = NoNight THEN IdleSender ELSE [@ EXCEPT !.pc = "read"]]
          BY <5>2 DEF TypeOK, IdleSender
        <5>. QED BY <3>2, <5>1, <5>2 DEF Claim
      <4>. QED BY <4>1, <2>1 DEF TypeOK, Holding
    <3>3. CASE ReadState(s) \/ PostAccepted(s) \/ PostFails(s)
      <4>1. Holding(s) /\ sender'[s].claimed = sender[s].claimed
        BY <3>3 DEF ReadState, PostAccepted, PostFails, Answer, Holding, TypeOK
      <4>. QED BY <4>1
    <3>. QED BY <1>4, <3>1, <3>2, <3>3 DEF SenderStep
  <2>. QED BY <2>1, <2>2, <2>3 DEF Holding
<1>. QED BY <1>0, <1>1, <1>2, <1>3, <1>4 DEF Next

\* Every variable keeps its type; in particular no instant leaves the range of
\* ages that the model keeps.
THEOREM DigestTypeCorrect == Spec => []TypeOK
<1>1. Init => TypeInv
  <2>1. Init => \A s \in Senders : sender[s].pc = "idle"
    BY DEF Init, IdleSender
  <2>. QED BY <2>1, TypeInit DEF TypeInv, Holding
<1>2. TypeInv /\ [Next]_vars => TypeInv'
  BY TypeNext
<1>3. TypeInv => TypeOK
  BY DEF TypeInv
<1>. QED BY <1>1, <1>2, <1>3, PTL DEF Spec

-----------------------------------------------------------------------------
(* The claim, whatever is contended and however long one lives *)

\* A message that an invocation vouches for is on record, or about to be.
Known(c) ==
    \/ digest[c].st = "done"
    \/ \E s \in Senders : Entitled(s) /\ Delivered(s) /\ sender[s].claimed = c

VouchedIsKnown == \A c \in Nights \ raced : vouched[c] > 0 => Known(c)

\* An invocation that has no claim yet has stored none.
NoneStored == \A s \in Senders : sender[s].pc \in {"idle", "claim"} => ~sender[s].stored

ClaimInv == TypeInv /\ NoneStored /\ ClaimIsExclusive /\ VouchedIsKnown /\ AtMostOnceKnown

LEMMA ClaimInit == ASSUME Init PROVE ClaimInv
<1>1. \A s \in Senders : sender[s] = IdleSender
  BY DEF Init
<1>2. IdleSender.pc = "idle" /\ IdleSender.stored = FALSE
  BY DEF IdleSender
<1>3. \A s \in Senders : ~Holding(s) /\ ~Entitled(s) /\ ~sender[s].stored
  BY <1>1, <1>2 DEF Holding, Entitled
<1>4. NoneStored /\ ClaimIsExclusive
  BY <1>3 DEF NoneStored, ClaimIsExclusive
<1>5. VouchedIsKnown /\ AtMostOnceKnown
  BY DEF Init, VouchedIsKnown, AtMostOnceKnown
<1>. QED BY <1>3, <1>4, <1>5, TypeInit DEF ClaimInv, TypeInv

\* An invocation that does not move stays what it is.
LEMMA Bystander ==
  ASSUME NEW t \in Senders, sender'[t] = sender[t]
  PROVE  /\ Entitled(t)' <=> Entitled(t)
         /\ Delivered(t)' <=> Delivered(t)
         /\ sender'[t].claimed = sender[t].claimed /\ sender'[t].age = sender[t].age
         /\ sender'[t].pc = sender[t].pc /\ sender'[t].stored = sender[t].stored
  BY DEF Entitled, Holding, Delivered

\* Of the invocations with one claim that is stored and fresh there is one.
LEMMA OneEntitled ==
  ASSUME ClaimInv, NEW s \in Senders, NEW t \in Senders, Entitled(s), Entitled(t),
         sender[s].claimed = sender[t].claimed, sender[s].claimed \notin raced
  PROVE  s = t
  BY DEF ClaimInv, ClaimIsExclusive

\* Steps that change neither an invocation nor the history of messages.
LEMMA ClaimOthers ==
  ASSUME ClaimInv, TypeInv', UNCHANGED <<sender, vouched, raced>>,
         \A c \in Nights : digest[c].st # "none" => digest'[c] = digest[c]
  PROVE  ClaimInv'
<1>1. \A s \in Senders : Entitled(s)' <=> Entitled(s)
  BY Bystander
<1>2. \A s \in Senders : Entitled(s) => sender[s].claimed \in Nights
  BY DEF ClaimInv, TypeInv, Entitled
<1>3. NoneStored' /\ ClaimIsExclusive'
  BY <1>1, <1>2 DEF ClaimInv, NoneStored, ClaimIsExclusive
<1>4. \A c \in Nights : Known(c) => Known(c)'
  BY <1>1 DEF Known, Delivered
<1>5. VouchedIsKnown' /\ AtMostOnceKnown'
  BY <1>4 DEF ClaimInv, VouchedIsKnown, AtMostOnceKnown
<1>. QED BY <1>3, <1>5 DEF ClaimInv

\* Time takes a claim and the invocation that stored it along, and with the end of
\* the window the message that waits for its record has no voucher any more.
LEMMA ClaimTick == ASSUME ClaimInv, TypeInv', Tick PROVE ClaimInv'
<1>0. TypeOK /\ UNCHANGED raced
  BY DEF ClaimInv, TypeInv, Tick
<1>1. ASSUME NEW s \in Senders
      PROVE  /\ sender'[s].pc = sender[s].pc /\ sender'[s].claimed = sender[s].claimed
             /\ sender'[s].result = sender[s].result /\ sender'[s].stored = sender[s].stored
             /\ sender[s].pc # "idle" => /\ sender[s].age \in 0 .. (MaxAge - 1)
                                          /\ sender'[s].age = sender[s].age + 1
  BY <1>0, SenderAges
<1>2. ASSUME NEW c \in Nights
      PROVE  digest'[c].st = digest[c].st /\ digest'[c].claim = Older(digest[c].claim)
  BY <1>0, DigestAges
<1>3. ASSUME NEW s \in Senders
      PROVE  /\ Entitled(s)' <=> Entitled(s) /\ sender[s].age # Window
             /\ Delivered(s)' <=> Delivered(s)
  BY <1>1, DigestAssumption DEF Entitled, Delivered, Holding
<1>4. NoneStored'
  BY <1>1 DEF ClaimInv, NoneStored
<1>5. ClaimIsExclusive'
  <2>. SUFFICES ASSUME NEW s \in Senders, Entitled(s)', sender'[s].claimed \notin raced
                PROVE  /\ digest'[sender'[s].claimed].st = "open"
                       /\ digest'[sender'[s].claimed].claim = sender'[s].age
                       /\ \A t \in Senders :
                             Entitled(t)' /\ sender'[t].claimed = sender'[s].claimed => t = s
    BY <1>0 DEF ClaimIsExclusive
  <2>1. /\ digest[sender[s].claimed].st = "open"
        /\ digest[sender[s].claimed].claim = sender[s].age
        /\ \A t \in Senders : Entitled(t) /\ sender[t].claimed = sender[s].claimed => t = s
    BY <1>1, <1>3 DEF ClaimInv, ClaimIsExclusive
  <2>2. sender[s].claimed \in Nights /\ sender[s].pc # "idle"
    BY <1>3 DEF ClaimInv, TypeInv, Entitled, Holding
  <2>3. Older(sender[s].age) = sender[s].age + 1
    BY <1>1, <2>2, OldestIsNat, DigestAssumption DEF Older
  <2>. QED BY <1>1, <1>2, <1>3, <2>1, <2>2, <2>3
<1>6. ASSUME NEW c \in Nights, c \notin raced
      PROVE  vouched'[c] <= 1 /\ (vouched'[c] > 0 => Known(c)')
  <2>1. vouched[c] \in Int /\ vouched[c] <= 1 /\ (vouched[c] > 0 => Known(c))
    BY <1>0, <1>6 DEF ClaimInv, VouchedIsKnown, AtMostOnceKnown, TypeOK
  <2>2. CASE Overruns(c)
    <3>1. vouched'[c] = vouched[c] - 1
      BY <1>6, <2>2 DEF Tick
    <3>. QED BY <2>1, <3>1
  <2>3. CASE ~Overruns(c)
    <3>1. vouched'[c] = vouched[c]
      BY <2>3 DEF Tick
    <3>2. Known(c) => Known(c)'
      BY <1>1, <1>2, <1>3, <2>3 DEF Known, Overruns
    <3>. QED BY <2>1, <3>1, <3>2
  <2>. QED BY <2>2, <2>3
<1>7. VouchedIsKnown' /\ AtMostOnceKnown'
  BY <1>0, <1>6 DEF VouchedIsKnown, AtMostOnceKnown, Known
<1>. QED BY <1>4, <1>5, <1>7 DEF ClaimInv

LEMMA ClaimEnters ==
  ASSUME ClaimInv, TypeInv', NEW s \in Senders, Begin(s) \/ ClaimLost(s) \/ ReadState(s)
  PROVE  ClaimInv'
<1>0. TypeOK
  BY DEF ClaimInv, TypeInv
<1>1. UNCHANGED <<digest, vouched, raced>>
  BY DEF Begin, ClaimLost, ReadState, history
<1>2. ASSUME NEW t \in Senders, t # s PROVE sender'[t] = sender[t]
  BY <1>0, <1>2 DEF Begin, ClaimLost, ReadState, TypeOK
<1>3. /\ Entitled(s)' => /\ Entitled(s) /\ sender'[s].claimed = sender[s].claimed
                         /\ sender'[s].age = sender[s].age
      /\ ~Delivered(s)
      /\ sender'[s].pc \in {"idle", "claim"} => ~sender'[s].stored
  <2>1. CASE Begin(s)
    <3>1. sender'[s] = [IdleSender EXCEPT !.pc = "claim"]
      BY <1>0, <2>1 DEF Begin, TypeOK
    <3>. QED BY <2>1, <3>1 DEF Begin, Entitled, Holding, Delivered, IdleSender
  <2>2. CASE ClaimLost(s)
    <3>1. PICK c \in Nights : sender' = [sender EXCEPT ![s].claimed = c]
      BY <2>2 DEF ClaimLost
    <3>2. sender'[s].pc = "claim" /\ sender[s].pc = "claim" /\ sender'[s].stored = sender[s].stored
      BY <1>0, <2>2, <3>1 DEF ClaimLost, TypeOK
    <3>. QED BY <3>2 DEF ClaimInv, NoneStored, Entitled, Holding, Delivered
  <2>3. CASE ReadState(s)
    BY <1>0, <2>3 DEF ReadState, TypeOK, Entitled, Holding, Delivered
  <2>. QED BY <2>1, <2>2, <2>3
<1>4. NoneStored'
  BY <1>2, <1>3 DEF ClaimInv, NoneStored
<1>5. \A t \in Senders : Entitled(t)' => /\ Entitled(t) /\ sender'[t].claimed = sender[t].claimed
                                         /\ sender'[t].age = sender[t].age
  BY <1>2, <1>3, Bystander
<1>6. ClaimIsExclusive'
  BY <1>1, <1>5 DEF ClaimInv, ClaimIsExclusive
<1>7. \A c \in Nights : Known(c) => Known(c)'
  BY <1>1, <1>2, <1>3, Bystander DEF Known
<1>8. VouchedIsKnown' /\ AtMostOnceKnown'
  BY <1>1, <1>7 DEF ClaimInv, VouchedIsKnown, AtMostOnceKnown
<1>. QED BY <1>4, <1>6, <1>8 DEF ClaimInv

\* The window: a claim no older than it is not taken, and it is as old as the
\* invocation that stored it.
LEMMA ClaimedByNobody ==
  ASSUME ClaimInv, NEW s \in Senders, NEW c \in Nights \ raced, First(s, c),
         NEW t \in Senders, Entitled(t)
  PROVE  sender[t].claimed # c
<1>1. digest[c].claim - sender[s].age > Window
  BY DEF First, Candidates, Claimable
<1>2. sender[s].age \in 0 .. MaxAge /\ sender[t].age \in 0 .. MaxAge /\ sender[t].age <= Window
  BY DEF ClaimInv, TypeInv, TypeOK, Entitled
<1>3. sender[t].claimed = c => digest[c].claim = sender[t].age
  BY DEF ClaimInv, ClaimIsExclusive
<1>. QED BY <1>1, <1>2, <1>3, DigestAssumption

LEMMA ClaimClaim ==
  ASSUME ClaimInv, TypeInv', NEW s \in Senders, Claim(s) PROVE ClaimInv'
<1>0. TypeOK /\ sender[s].pc = "claim" /\ ~sender[s].stored
  BY DEF ClaimInv, TypeInv, NoneStored, Claim
<1>1. UNCHANGED <<vouched, raced>>
  BY DEF Claim, history
<1>2. ASSUME NEW t \in Senders, t # s PROVE sender'[t] = sender[t]
  BY <1>0, <1>2 DEF Claim, TypeOK
<1>3. ~Delivered(s) /\ ~Entitled(s)
  BY <1>0 DEF Delivered, Entitled
<1>4. CASE Candidates(s) = {}
  <2>1. UNCHANGED digest
    BY <1>4 DEF Claim, First
  <2>2. sender'[s] = IdleSender \/ sender'[s] = [sender[s] EXCEPT !.pc = "read"]
    BY <1>0, <1>4 DEF Claim, First, TypeOK
  <2>3. ~sender'[s].stored
    BY <1>0, <2>2 DEF IdleSender, TypeOK
  <2>4. ~Entitled(s)'
    BY <2>3 DEF Entitled
  <2>5. NoneStored'
    BY <1>2, <2>3 DEF ClaimInv, NoneStored
  <2>6. ClaimIsExclusive'
    BY <1>1, <1>2, <2>1, <2>4, Bystander DEF ClaimInv, ClaimIsExclusive
  <2>7. \A c \in Nights : Known(c) => Known(c)'
    BY <1>2, <1>3, <2>1, Bystander DEF Known
  <2>8. VouchedIsKnown' /\ AtMostOnceKnown'
    BY <1>1, <2>7 DEF ClaimInv, VouchedIsKnown, AtMostOnceKnown
  <2>. QED BY <2>5, <2>6, <2>8 DEF ClaimInv
<1>5. CASE Candidates(s) # {}
  <2>1. PICK c \in Nights : /\ First(s, c)
                             /\ digest' = [digest EXCEPT ![c].claim = sender[s].age]
                             /\ sender' = [sender EXCEPT ![s].pc = "read", ![s].claimed = c,
                                                        ![s].stored = TRUE]
    BY <1>5 DEF Claim
  <2>2. sender'[s].pc = "read" /\ sender'[s].claimed = c /\ sender'[s].age = sender[s].age
    BY <1>0, <2>1 DEF TypeOK
  <2>3. digest'[c].claim = sender[s].age /\ \A d \in Nights : digest'[d].st = digest[d].st
    BY <1>0, <2>1 DEF TypeOK
  <2>4. \A d \in Nights : d # c => digest'[d] = digest[d]
    BY <1>0, <2>1 DEF TypeOK
  <2>5. digest[c].st = "open"
    BY <2>1 DEF First, Candidates, Claimable, DigestReady
  <2>6. c \notin raced => \A t \in Senders : Entitled(t) => sender[t].claimed # c
    BY <2>1, ClaimedByNobody
  <2>7. NoneStored'
    BY <1>2, <2>2 DEF ClaimInv, NoneStored
  <2>8. ClaimIsExclusive'
    <3>1. \A t \in Senders : Entitled(t) => sender[t].claimed \in Nights
      BY DEF ClaimInv, TypeInv, Entitled
    <3>2. \A t \in Senders : t # s /\ Entitled(t)' =>
               /\ Entitled(t) /\ sender'[t].claimed = sender[t].claimed
               /\ sender'[t].age = sender[t].age
      BY <1>2, Bystander
    <3>. QED BY <1>1, <2>2, <2>3, <2>4, <2>5, <2>6, <3>1, <3>2 DEF ClaimInv, ClaimIsExclusive
  <2>9. \A d \in Nights : Known(d) => Known(d)'
    BY <1>2, <1>3, <2>3, Bystander DEF Known
  <2>10. VouchedIsKnown' /\ AtMostOnceKnown'
    BY <1>1, <2>9 DEF ClaimInv, VouchedIsKnown, AtMostOnceKnown
  <2>. QED BY <2>7, <2>8, <2>10 DEF ClaimInv
<1>. QED BY <1>4, <1>5

\* While an invocation delivers a night under its own claim, nobody vouches for a
\* message of it yet.
LEMMA ClaimPost ==
  ASSUME ClaimInv, TypeInv', NEW s \in Senders, PostAccepted(s) \/ PostFails(s)
  PROVE  ClaimInv'
<1>0. TypeOK /\ sender[s].claimed \in Nights /\ sender[s].pc = "post"
  BY DEF ClaimInv, TypeInv, Holding, PostAccepted, PostFails
<1>. PICK c \in Nights : c = sender[s].claimed
  BY <1>0
<1>1. UNCHANGED <<digest, raced>>
  BY DEF PostAccepted, PostFails, history
<1>2. PICK r \in {"sent", "failed", "later"} : Answer(s, r) /\ (PostAccepted(s) => r = "sent")
  BY DEF PostAccepted, PostFails
<1>3. /\ sender'[s].pc = "finish" /\ sender'[s].result = r /\ sender'[s].claimed = c
      /\ sender'[s].age = sender[s].age /\ sender'[s].stored = sender[s].stored
      /\ \A t \in Senders : t # s => sender'[t] = sender[t]
  BY <1>0, <1>2 DEF Answer, TypeOK
<1>4. (Entitled(s)' <=> Entitled(s)) /\ ~Delivered(s)
  BY <1>0, <1>3 DEF Entitled, Holding, Delivered
<1>5. \A t \in Senders : /\ Entitled(t)' <=> Entitled(t)
                         /\ sender'[t].claimed = sender[t].claimed
                         /\ sender'[t].age = sender[t].age
  BY <1>3, <1>4, Bystander
<1>6. NoneStored' /\ ClaimIsExclusive'
  BY <1>1, <1>3, <1>5 DEF ClaimInv, NoneStored, ClaimIsExclusive
<1>7. \A d \in Nights : Known(d) => Known(d)'
  BY <1>1, <1>3, <1>4, Bystander DEF Known
<1>8. CASE UNCHANGED vouched
  BY <1>1, <1>6, <1>7, <1>8 DEF ClaimInv, VouchedIsKnown, AtMostOnceKnown
<1>9. CASE PostAccepted(s) /\ Entitled(s) /\ Vouch(c, 1)
  <2>1. vouched \in [Nights -> Int]
    BY <1>0 DEF TypeOK
  <2>2. /\ c \notin raced => vouched'[c] = vouched[c] + 1
        /\ \A d \in Nights : d # c => vouched'[d] = vouched[d]
    BY <1>0, <1>9, <2>1 DEF Vouch
  <2>3. c \notin raced => ~Known(c)
    <3>1. c \notin raced => digest[c].st = "open"
      BY <1>9 DEF ClaimInv, ClaimIsExclusive
    <3>2. c \notin raced => \A t \in Senders : ~(Entitled(t) /\ Delivered(t) /\ sender[t].claimed = c)
      BY <1>4, <1>9, OneEntitled
    <3>. QED BY <3>1, <3>2 DEF Known
  <2>4. c \notin raced => vouched'[c] <= 1
    BY <1>0, <2>1, <2>2, <2>3 DEF ClaimInv, VouchedIsKnown
  <2>5. Known(c)'
    BY <1>2, <1>3, <1>4, <1>9 DEF Known, Delivered
  <2>6. ASSUME NEW d \in Nights, d \notin raced
        PROVE  vouched'[d] <= 1 /\ (vouched'[d] > 0 => Known(d)')
    <3>1. CASE d = c
      BY <2>4, <2>5, <2>6, <3>1
    <3>2. CASE d # c
      BY <1>7, <2>2, <2>6, <3>2 DEF ClaimInv, VouchedIsKnown, AtMostOnceKnown
    <3>. QED BY <3>1, <3>2
  <2>7. VouchedIsKnown' /\ AtMostOnceKnown'
    BY <1>1, <2>6 DEF VouchedIsKnown, AtMostOnceKnown, Known
  <2>. QED BY <1>6, <2>7 DEF ClaimInv
<1>. QED BY <1>8, <1>9 DEF PostAccepted, PostFails, history

\* The outcome is recorded under the invocation's own claim, or not at all; only an
\* invocation of the same instant that had stored none may take another's claim off.
LEMMA ClaimFinish ==
  ASSUME ClaimInv, TypeInv', NEW s \in Senders, Finish(s) PROVE ClaimInv'
<1>. DEFINE c == sender[s].claimed
            mine == digest[c].st = "open" /\ digest[c].claim = sender[s].age
<1>0. TypeOK /\ c \in Nights /\ sender[s].pc = "finish" /\ UNCHANGED vouched
  BY DEF ClaimInv, TypeInv, Holding, Finish
<1>1. \A t \in Senders : t # s => sender'[t] = sender[t]
  BY <1>0 DEF Finish, TypeOK
<1>2. ~sender'[s].stored /\ ~Entitled(s)'
  <2>. DEFINE again == [IdleSender EXCEPT !.pc = "claim", !.age = sender[s].age]
  <2>1. ~again.stored /\ ~IdleSender.stored
    BY DEF IdleSender
  <2>2. sender' = [sender EXCEPT ![s] =
                     IF sender[s].result \in {"failed", "later"} THEN IdleSender ELSE again]
    BY DEF Finish
  <2>. HIDE DEF again
  <2>3. sender'[s] = IdleSender \/ sender'[s] = again
    BY <1>0, <2>2 DEF TypeOK
  <2>. QED BY <2>1, <2>3 DEF Entitled
<1>3. NoneStored'
  BY <1>1, <1>2 DEF ClaimInv, NoneStored
<1>4. /\ \A d \in Nights : d # c => digest'[d] = digest[d]
      /\ mine /\ sender[s].result = "sent" => digest'[c].st = "done"
      /\ ~mine => UNCHANGED <<digest, raced>>
      /\ mine => raced' = IF sender[s].stored THEN raced ELSE raced \cup {c}
  <2>1. CASE mine
    BY <1>0, <2>1 DEF Finish, TypeOK
  <2>2. CASE ~mine
    BY <2>2 DEF Finish
  <2>. QED BY <2>1, <2>2
<1>5. raced \subseteq raced'
  BY <1>4
\* Under the claim it takes off nobody else delivers.
<1>6. ASSUME mine, c \notin raced', NEW t \in Senders, Entitled(t), sender[t].claimed = c
      PROVE  t = s
  <2>1. sender[s].stored /\ c \notin raced
    BY <1>4, <1>6
  <2>2. sender[t].age = sender[s].age /\ sender[t].age <= Window
    BY <1>6, <2>1 DEF ClaimInv, ClaimIsExclusive, Entitled
  <2>3. Entitled(s)
    BY <1>0, <2>1, <2>2 DEF Entitled, Holding
  <2>. QED BY <1>6, <2>1, <2>3, OneEntitled
\* Who has a claim of its own records under it.
<1>7. ASSUME ~mine, c \notin raced PROVE ~Entitled(s)
  BY <1>7 DEF ClaimInv, ClaimIsExclusive
<1>8. ASSUME NEW t \in Senders, Entitled(t)', sender'[t].claimed \notin raced'
      PROVE  /\ t # s /\ Entitled(t) /\ sender'[t] = sender[t]
             /\ sender[t].claimed \in Nights /\ sender[t].claimed \notin raced
             /\ digest'[sender[t].claimed] = digest[sender[t].claimed]
  <2>1. t # s /\ Entitled(t) /\ sender'[t] = sender[t]
    BY <1>1, <1>2, <1>8, Bystander
  <2>2. sender[t].claimed \in Nights /\ sender[t].claimed \notin raced
    BY <1>5, <1>8, <2>1 DEF ClaimInv, TypeInv, Entitled
  <2>3. sender[t].claimed = c => ~mine
    BY <1>6, <1>8, <2>1
  <2>. QED BY <1>4, <2>1, <2>2, <2>3
<1>9. ClaimIsExclusive'
  BY <1>8 DEF ClaimInv, ClaimIsExclusive
<1>10. ASSUME NEW d \in Nights, d \notin raced', Known(d), vouched[d] > 0
       PROVE  Known(d)'
  <2>1. d \notin raced
    BY <1>5, <1>10
  <2>2. CASE digest[d].st = "done"
    <3>1. digest'[d] = digest[d]
      BY <1>4, <2>2
    <3>. QED BY <2>2, <3>1 DEF Known
  <2>3. CASE \E t \in Senders : Entitled(t) /\ Delivered(t) /\ sender[t].claimed = d
    <3>. PICK t \in Senders : Entitled(t) /\ Delivered(t) /\ sender[t].claimed = d
      BY <2>3
    <3>1. CASE t # s
      BY <1>1, <3>1, Bystander DEF Known
    <3>2. CASE t = s
      <4>1. mine /\ sender[s].result = "sent"
        BY <1>7, <2>1, <3>2 DEF Delivered
      <4>. QED BY <1>4, <3>2, <4>1 DEF Known
    <3>. QED BY <3>1, <3>2
  <2>. QED BY <1>10, <2>2, <2>3 DEF Known
<1>11. VouchedIsKnown'
  BY <1>0, <1>5, <1>10 DEF ClaimInv, VouchedIsKnown, Known
<1>12. AtMostOnceKnown'
  BY <1>0, <1>5 DEF ClaimInv, AtMostOnceKnown
<1>. QED BY <1>3, <1>9, <1>11, <1>12 DEF ClaimInv

LEMMA ClaimDie == ASSUME ClaimInv, TypeInv', NEW s \in Senders, Die(s) PROVE ClaimInv'
<1>. DEFINE c == sender[s].claimed
<1>0. TypeOK /\ UNCHANGED <<digest, raced>>
  BY DEF ClaimInv, TypeInv, Die
<1>1. /\ sender'[s] = IdleSender
      /\ \A t \in Senders : t # s => sender'[t] = sender[t]
  BY <1>0 DEF Die, TypeOK
<1>2. ~sender'[s].stored /\ ~Entitled(s)'
  BY <1>1 DEF IdleSender, Entitled
<1>3. NoneStored'
  BY <1>1, <1>2 DEF ClaimInv, NoneStored
<1>4. \A t \in Senders : Entitled(t)' => t # s /\ Entitled(t) /\ sender'[t] = sender[t]
  BY <1>1, <1>2, Bystander
<1>5. ClaimIsExclusive'
  BY <1>0, <1>4 DEF ClaimInv, ClaimIsExclusive
<1>6. \A d \in Nights : Known(d) => Known(d)' \/ (Entitled(s) /\ Delivered(s) /\ d = c)
  BY <1>0, <1>1, Bystander DEF Known
<1>7. ASSUME NEW d \in Nights, d \notin raced
      PROVE  vouched'[d] <= 1 /\ (vouched'[d] > 0 => Known(d)')
  <2>1. vouched[d] \in Int /\ vouched[d] <= 1 /\ (vouched[d] > 0 => Known(d))
    BY <1>0, <1>7 DEF ClaimInv, VouchedIsKnown, AtMostOnceKnown, TypeOK
  <2>2. CASE Entitled(s) /\ Delivered(s)
    <3>1. Vouch(c, -1)
      BY <2>2 DEF Die
    <3>2. vouched'[d] = IF d = c THEN vouched[d] - 1 ELSE vouched[d]
      BY <1>0, <1>7, <3>1 DEF Vouch, TypeOK
    <3>. QED BY <1>6, <2>1, <3>2
  <2>3. CASE ~(Entitled(s) /\ Delivered(s))
    <3>1. vouched' = vouched
      BY <2>3 DEF Die
    <3>. QED BY <1>6, <2>1, <2>3, <3>1
  <2>. QED BY <2>2, <2>3
<1>8. VouchedIsKnown' /\ AtMostOnceKnown'
  BY <1>0, <1>7 DEF VouchedIsKnown, AtMostOnceKnown, Known
<1>. QED BY <1>3, <1>5, <1>8 DEF ClaimInv

LEMMA ClaimNext == ASSUME ClaimInv, [Next]_vars PROVE ClaimInv'
<1>0. TypeInv'
  BY TypeNext DEF ClaimInv
<1>1. CASE UNCHANGED <<sender, vouched, raced, digest>>
  BY <1>0, <1>1, ClaimOthers
<1>2. CASE \E c \in Nights : EnsureDailyDigest(c)
  <2>. PICK c \in Nights : EnsureDailyDigest(c)
    BY <1>2
  <2>1. UNCHANGED <<sender, vouched, raced>>
    BY DEF EnsureDailyDigest, history
  <2>2. \A d \in Nights : digest[d].st # "none" => digest'[d] = digest[d]
    BY DEF EnsureDailyDigest, ClaimInv, TypeInv, TypeOK
  <2>. QED BY <1>0, <2>1, <2>2, ClaimOthers
<1>3. CASE Tick
  BY <1>0, <1>3, ClaimTick
<1>4. ASSUME NEW s \in Senders, SenderStep(s) \/ Die(s) PROVE ClaimInv'
  BY <1>0, <1>4, ClaimEnters, ClaimClaim, ClaimPost, ClaimFinish, ClaimDie DEF SenderStep
<1>. QED BY <1>1, <1>2, <1>3, <1>4
         DEF Next, vars, Pause, Resume, DispatchDue, JobSettles, NextNight, SetEndpoint,
             collection, delivery, history

\* However long invocations live and wherever they die, a digest whose claim is
\* stored and no older than the window is delivered by the one that stored it, which
\* keeps it open and its own, and by no other such invocation.
THEOREM ExclusiveClaim == Spec => []ClaimIsExclusive
<1>1. Init => ClaimInv
  BY ClaimInit
<1>2. ClaimInv /\ [Next]_vars => ClaimInv'
  BY ClaimNext
<1>3. ClaimInv => ClaimIsExclusive
  BY DEF ClaimInv
<1>. QED BY <1>1, <1>2, <1>3, PTL DEF Spec

\* Of the messages of a night all but one had their answer lost, or were sent or
\* recorded outside a stored claim and its window; for every window, every lifetime
\* and every number of invocations, nights and faults.
THEOREM ToldOnce == Spec => []AtMostOnceKnown
<1>1. Init => ClaimInv
  BY ClaimInit
<1>2. ClaimInv /\ [Next]_vars => ClaimInv'
  BY ClaimNext
<1>3. ClaimInv => AtMostOnceKnown
  BY DEF ClaimInv
<1>. QED BY <1>1, <1>2, <1>3, PTL DEF Spec

-----------------------------------------------------------------------------
(* The notice, whatever is contended and however long one lives *)

\* An invocation that took its snapshot while the notice was owed carries it, so
\* what it delivers has told it.
NoticeInv ==
    /\ TypeInv
    /\ endpoint = TRUE
    /\ \A s \in Senders :
        /\ sender[s].pc \in {"post", "finish"} /\ notice = "owed" => sender[s].carries
        /\ sender[s].pc = "finish" => sender[s].result # "nobody"
        /\ sender[s].pc = "finish" /\ sender[s].result = "sent" /\ sender[s].carries => told
    /\ NoticeIsTold

LEMMA NoticeNext ==
  ASSUME NoticeInv, EndpointSet = "always", [Next]_vars PROVE NoticeInv'
<1>. USE DEF NoticeInv
<1>1. TypeInv' /\ TypeOK
  BY TypeNext DEF TypeInv
<1>2. endpoint' = TRUE
  <2>1. ~SetEndpoint
    BY DEF SetEndpoint
  <2>. QED BY <2>1 DEF Next, vars, Pause, Resume, DispatchDue, JobSettles, NextNight, EnsureDailyDigest,
         SenderStep, Begin, ClaimLost, Claim, ReadState, PostAccepted, PostFails, Finish, Die,
         Tick, delivery
<1>3. CASE UNCHANGED <<sender, notice, told>>
  BY <1>1, <1>2, <1>3 DEF NoticeIsTold
<1>4. CASE Tick
  <2>1. UNCHANGED <<notice, told>>
    BY <1>4 DEF Tick, history
  <2>2. \A s \in Senders : /\ sender'[s].pc = sender[s].pc
                           /\ sender'[s].carries = sender[s].carries
                           /\ sender'[s].result = sender[s].result
    BY <1>1, <1>4, SenderAges
  <2>. QED BY <1>1, <1>2, <2>1, <2>2 DEF NoticeIsTold
<1>5. ASSUME NEW s \in Senders, SenderStep(s) \/ Die(s) PROVE NoticeInv'
  <2>1. \A t \in Senders : t # s => sender'[t] = sender[t]
    BY <1>1, <1>5 DEF SenderStep, Begin, ClaimLost, Claim, ReadState, PostAccepted, PostFails,
                      Answer, Finish, Die, TypeOK
  <2>2. /\ told => told'
        /\ notice' = "owed" => notice = "owed"
        /\ notice' = "cleared" => \/ notice = "cleared"
                                  \/ notice = "owed" /\ sender[s].pc = "finish"
                                       /\ sender[s].result = "sent"
    <3>1. CASE Finish(s)
      BY <3>1 DEF Finish, history
    <3>2. CASE PostAccepted(s) \/ PostFails(s)
      <4>1. UNCHANGED notice
        BY <3>2 DEF PostAccepted, PostFails
      <4>2. told => told'
        BY <3>2 DEF PostAccepted, PostFails, Deliver, history
      <4>. QED BY <4>1, <4>2
    <3>3. CASE Begin(s) \/ ClaimLost(s) \/ Claim(s) \/ ReadState(s) \/ Die(s)
      <4>1. UNCHANGED <<notice, told>>
        BY <3>3 DEF Begin, ClaimLost, Claim, ReadState, Die, history
      <4>. QED BY <4>1, <1>1 DEF TypeOK
    <3>. QED BY <1>5, <3>1, <3>2, <3>3 DEF SenderStep
  <2>3. NoticeIsTold'
    BY <2>2 DEF NoticeIsTold
  <2>4. /\ sender'[s].pc \in {"post", "finish"} /\ notice' = "owed" => sender'[s].carries
        /\ sender'[s].pc = "finish" => sender'[s].result # "nobody"
        /\ sender'[s].pc = "finish" /\ sender'[s].result = "sent" /\ sender'[s].carries => told'
    <3>1. CASE Begin(s) \/ ClaimLost(s) \/ Claim(s) \/ Finish(s) \/ Die(s)
      <4>1. sender'[s].pc \in {"idle", "claim", "read"}
        <5>1. CASE Begin(s) \/ Finish(s) \/ Die(s)
          BY <1>1, <5>1, Leaves
        <5>2. CASE ClaimLost(s)
          BY <1>1, <5>2 DEF ClaimLost, TypeOK
        <5>3. CASE Claim(s)
          <6>1. CASE \E c \in Nights : sender' = [sender EXCEPT ![s].pc = "read",
                                                   ![s].claimed = c, ![s].stored = TRUE]
            BY <1>1, <6>1 DEF TypeOK
          <6>2. CASE sender' = [sender EXCEPT ![s] =
                         IF @.claimed = NoNight THEN IdleSender ELSE [@ EXCEPT !.pc = "read"]]
            BY <1>1, <6>2 DEF IdleSender, TypeOK
          <6>. QED BY <5>3, <6>1, <6>2 DEF Claim
        <5>. QED BY <3>1, <5>1, <5>2, <5>3
      <4>. QED BY <4>1
    <3>2. CASE ReadState(s)
      BY <1>1, <3>2 DEF ReadState, TypeOK
    <3>3. CASE PostAccepted(s)
      BY <1>1, <3>3 DEF PostAccepted, Deliver, Answer, TypeOK
    <3>4. CASE PostFails(s)
      <4>1. sender[s].pc = "post"
        BY <3>4 DEF PostFails
      <4>2. PICK r \in {"failed", "later"} : Answer(s, r)
        BY <3>4 DEF PostFails
      <4>3. /\ sender'[s].pc = "finish" /\ sender'[s].result = r
            /\ sender'[s].carries = sender[s].carries
        BY <1>1, <4>2 DEF Answer, TypeOK
      <4>4. UNCHANGED notice
        BY <3>4 DEF PostFails
      <4>. QED BY <4>1, <4>2, <4>3, <4>4
    <3>. QED BY <1>5, <3>1, <3>2, <3>3, <3>4 DEF SenderStep
  <2>. QED BY <1>1, <1>2, <2>1, <2>2, <2>3, <2>4
<1>. QED BY <1>3, <1>4, <1>5 DEF Next, vars, Pause, Resume, DispatchDue, JobSettles, NextNight,
            EnsureDailyDigest, SetEndpoint, delivery, history

\* Where the endpoint stays configured, the notice is dropped only after a message
\* that carries it was accepted, however many invocations overlap, die or retry.
THEOREM NoticeTold == ASSUME EndpointSet = "always" PROVE Spec => []NoticeIsTold
<1>1. Init => NoticeInv
  <2>1. Init => \A s \in Senders : sender[s].pc = "idle"
    BY DEF Init, IdleSender
  <2>2. Init => endpoint = TRUE /\ NoticeIsTold
    BY DEF Init, NoticeIsTold
  <2>. QED BY <2>1, <2>2, TypeInit DEF NoticeInv, TypeInv, Holding
<1>2. NoticeInv /\ [Next]_vars => NoticeInv'
  BY NoticeNext
<1>3. NoticeInv => NoticeIsTold
  BY DEF NoticeInv
<1>. QED BY <1>1, <1>2, <1>3, PTL DEF Spec
-----------------------------------------------------------------------------
(* What a message waits for, whatever is contended and however long one lives *)

\* A digest that was open and settled once: of the pages it expects, those never
\* paused have a settled job of its night.
Ready(c) ==
    /\ digest[c].st # "none"
    /\ \A p \in digest[c].expected \cap steady : SettledIn(c, p)

ReadyInv ==
    /\ TypeInv
    /\ steady \subseteq monitored
    /\ \A s \in Senders, c \in Nights : sender[s].claimed = c => Ready(c)
    /\ \A c \in Nights : posts[c] > 0 => Ready(c)

LEMMA ReadyStays ==
  ASSUME TypeOK, [Next]_vars, NEW c \in Nights, Ready(c) PROVE Ready(c)'
<1>1. steady' \subseteq steady
  BY DEF Next, vars, Pause, Resume, DispatchDue, JobSettles, NextNight, EnsureDailyDigest,
         SetEndpoint, Tick, SenderStep, Begin, ClaimLost, Claim, ReadState, PostAccepted,
         PostFails, Finish, Die, collection
<1>2. digest'[c].expected = digest[c].expected /\ digest'[c].st # "none"
  <2>0. digest[c].st # "none"
    BY DEF Ready
  <2>1. CASE UNCHANGED digest
    BY <2>0, <2>1
  <2>2. CASE \E d \in Nights : EnsureDailyDigest(d)
    BY <2>0, <2>2 DEF EnsureDailyDigest, TypeOK
  <2>3. CASE Tick
    BY <2>0, <2>3, DigestAges
  <2>4. CASE \E s \in Senders : Claim(s) \/ Finish(s)
    <3>. PICK s \in Senders : Claim(s) \/ Finish(s)
      BY <2>4
    <3>0. digest \in [Nights -> DigestRecord]
      BY DEF TypeOK, DigestRecord
    <3>1. CASE Claim(s)
      <4>1. CASE \E d \in Nights : digest' = [digest EXCEPT ![d].claim = sender[s].age]
        BY <2>0, <3>0, <4>1 DEF DigestRecord
      <4>. QED BY <3>1, <4>1, <2>1 DEF Claim
    <3>2. CASE Finish(s)
      <4>. DEFINE d == sender[s].claimed
                  over == IF sender[s].result \in {"sent", "nobody"} THEN "done" ELSE digest[d].st
                  wait == IF sender[s].result = "later" THEN sender[s].age - RetryDelay ELSE Oldest
      <4>1. CASE digest[d].st = "open"
                 /\ digest' = [digest EXCEPT ![d].st = over, ![d].claim = Oldest, ![d].retry = wait]
        <5>. HIDE DEF wait
        <5>. QED BY <2>0, <3>0, <4>1 DEF DigestRecord
      <4>. QED BY <3>2, <4>1, <2>1 DEF Finish
    <3>. QED BY <3>1, <3>2
  <2>. QED BY <2>1, <2>2, <2>3, <2>4
       DEF Next, vars, Pause, Resume, DispatchDue, JobSettles, NextNight, SetEndpoint,
           SenderStep, Begin, ClaimLost, ReadState, PostAccepted, PostFails, Die, delivery
<1>3. ASSUME NEW p \in Pages, SettledIn(c, p) PROVE SettledIn(c, p)'
  <2>1. CASE UNCHANGED jobs
    BY <2>1, <1>3 DEF SettledIn
  <2>2. CASE \E d \in Nights, q \in Pages : DispatchDue(d, q) \/ JobSettles(d, q)
    <3>. PICK d \in Nights, q \in Pages : DispatchDue(d, q) \/ JobSettles(d, q)
      BY <2>2
    <3>1. CASE DispatchDue(d, q)
      <4>1. jobs' = [jobs EXCEPT ![d][q] = IF jobs[d][q] = "due" THEN "active" ELSE "again"]
        BY <3>1 DEF DispatchDue
      <4>2. CASE d = c /\ q = p
        BY <4>1, <4>2, <1>3 DEF TypeOK, SettledIn
      <4>3. CASE ~(d = c /\ q = p)
        BY <4>1, <4>3, <1>3 DEF TypeOK, SettledIn
      <4>. QED BY <4>2, <4>3
    <3>2. CASE JobSettles(d, q)
      BY <3>2, <1>3 DEF JobSettles, TypeOK, SettledIn
    <3>. QED BY <3>1, <3>2
  <2>. QED BY <2>1, <2>2
       DEF Next, vars, Pause, Resume, NextNight, EnsureDailyDigest, SetEndpoint, Tick,
           SenderStep, Begin, ClaimLost, Claim, ReadState, PostAccepted, PostFails, Finish,
           Die, collection
<1>4. digest[c].expected \subseteq Pages
  BY DEF TypeOK
<1>. QED BY <1>1, <1>2, <1>3, <1>4 DEF Ready

LEMMA ReadyClaimed ==
  ASSUME TypeOK, steady \subseteq monitored, NEW s \in Senders, NEW c \in Nights, First(s, c)
  PROVE  Ready(c)
  BY DEF First, Candidates, Claimable, DigestReady, Ready

LEMMA ReadyNext == ASSUME ReadyInv, [Next]_vars PROVE ReadyInv'
<1>1. TypeInv' /\ TypeOK
  BY TypeNext DEF ReadyInv, TypeInv
<1>2. (steady \subseteq monitored)'
  BY DEF ReadyInv, Next, vars, Pause, Resume, DispatchDue, JobSettles, NextNight,
         EnsureDailyDigest, SetEndpoint, Tick, SenderStep, Begin, ClaimLost, Claim, ReadState,
         PostAccepted, PostFails, Finish, Die, collection, delivery
<1>3. ASSUME NEW s \in Senders, NEW c \in Nights, sender'[s].claimed = c PROVE Ready(c)'
  <2>1. c # NoNight
    BY DigestAssumption DEF Nights, NoNight
  <2>2. CASE sender'[s].claimed = sender[s].claimed
    <3>1. Ready(c)
      BY <1>3, <2>2 DEF ReadyInv
    <3>. QED BY <1>1, <3>1, ReadyStays
  <2>3. CASE sender'[s].claimed # sender[s].claimed
    <3>1. First(s, c)
      <4>1. UNCHANGED sender => FALSE
        BY <2>3
      <4>2. ~Tick
        <5>1. Tick => sender'[s].claimed = sender[s].claimed
          <6>1. ASSUME Tick
                PROVE  sender'[s] = sender[s] \/ sender'[s] = [sender[s] EXCEPT !.age = @ + 1]
            BY <6>1 DEF Tick
          <6>2. [sender[s] EXCEPT !.age = @ + 1].claimed = sender[s].claimed
            BY <1>1 DEF TypeOK
          <6>. QED BY <6>1, <6>2
        <5>. QED BY <5>1, <2>3
      <4>3. PICK t \in Senders : SenderStep(t) \/ Die(t)
        BY <4>1, <4>2 DEF Next, vars, Pause, Resume, DispatchDue, JobSettles, NextNight,
                          EnsureDailyDigest, SetEndpoint, delivery
      <4>4. t = s
        BY <1>1, <2>3, <4>3 DEF SenderStep, Begin, ClaimLost, Claim, ReadState, PostAccepted,
                                PostFails, Answer, Finish, Die, TypeOK
      <4>5. ~Begin(s) /\ ~Finish(s) /\ ~Die(s)
        <5>1. IdleSender.claimed = NoNight
          BY DEF IdleSender
        <5>. DEFINE young == [IdleSender EXCEPT !.pc = "claim"]
                    again == [IdleSender EXCEPT !.pc = "claim", !.age = sender[s].age]
        <5>2. young.claimed = NoNight /\ again.claimed = NoNight
          BY DEF IdleSender
        <5>3. Begin(s) => sender'[s] = young
          BY <1>1 DEF Begin, TypeOK
        <5>4. Finish(s) => sender' = [sender EXCEPT ![s] =
                  IF sender[s].result \in {"failed", "later"} THEN IdleSender ELSE again]
          BY DEF Finish
        <5>5. Die(s) => sender'[s] = IdleSender
          BY <1>1 DEF Die, TypeOK
        <5>. HIDE DEF young, again
        <5>6. Finish(s) => sender'[s] = IdleSender \/ sender'[s] = again
          BY <1>1, <5>4 DEF TypeOK
        <5>. QED BY <1>3, <2>1, <5>1, <5>2, <5>3, <5>5, <5>6
      <4>6. ~ReadState(s) /\ ~PostAccepted(s) /\ ~PostFails(s)
        BY <1>1, <2>3 DEF ReadState, PostAccepted, PostFails, Answer, TypeOK
      <4>7. CASE ClaimLost(s)
        BY <1>1, <1>3, <4>7 DEF ClaimLost, TypeOK
      <4>8. CASE Claim(s)
        <5>1. CASE \E d \in Nights :
                      /\ First(s, d)
                      /\ sender' = [sender EXCEPT ![s].pc = "read", ![s].claimed = d,
                                                 ![s].stored = TRUE]
          BY <1>1, <1>3, <5>1 DEF TypeOK
        <5>2. CASE sender' = [sender EXCEPT ![s] =
                      IF @.claimed = NoNight THEN IdleSender ELSE [@ EXCEPT !.pc = "read"]]
          BY <1>1, <1>3, <2>1, <2>3, <5>2 DEF TypeOK, IdleSender
        <5>. QED BY <4>8, <5>1, <5>2 DEF Claim
      <4>. QED BY <4>3, <4>4, <4>5, <4>6, <4>7, <4>8 DEF SenderStep
    <3>2. Ready(c)
      BY <1>1, <3>1, ReadyClaimed DEF ReadyInv
    <3>. QED BY <1>1, <3>2, ReadyStays
  <2>. QED BY <2>2, <2>3
<1>4. ASSUME NEW c \in Nights, posts'[c] > 0 PROVE Ready(c)'
  <2>1. CASE posts[c] > 0
    BY <1>1, <2>1, ReadyStays DEF ReadyInv
  <2>2. CASE ~(posts[c] > 0)
    <3>1. posts' # posts
      BY <1>4, <2>2
    <3>2. PICK s \in Senders : sender[s].pc = "post" /\ Deliver(s)
      BY <3>1 DEF Next, vars, Pause, Resume, DispatchDue, JobSettles, NextNight,
                  EnsureDailyDigest, SetEndpoint, Tick, SenderStep, Begin, ClaimLost, Claim,
                  ReadState, PostAccepted, PostFails, Finish, Die, delivery, history
    <3>3. sender[s].claimed = c
      BY <1>1, <1>4, <2>2, <3>2 DEF Deliver, TypeOK
    <3>4. Ready(c)
      BY <3>3 DEF ReadyInv
    <3>. QED BY <1>1, <3>4, ReadyStays
  <2>. QED BY <2>1, <2>2
<1>. QED BY <1>1, <1>2, <1>3, <1>4 DEF ReadyInv

\* No message precedes the collection it is about: whatever users and the collection
\* do between the claim and the delivery, however old a claim is, and although
\* `claimed` outlives an attempt that lost its swap.
THEOREM ToldWhenSettled == Spec => []SentWhenSettled
<1>1. Init => ReadyInv
  <2>1. Init => \A s \in Senders : ~Holding(s) /\ sender[s].claimed = NoNight
    BY DEF Init, IdleSender, Holding
  <2>2. Init => steady \subseteq monitored /\ \A c \in Nights : posts[c] = 0
    BY DEF Init
  <2>3. \A c \in Nights : c # NoNight
    BY DigestAssumption DEF Nights, NoNight
  <2>. QED BY <2>1, <2>2, <2>3, TypeInit DEF ReadyInv, TypeInv
<1>2. ReadyInv /\ [Next]_vars => ReadyInv'
  BY ReadyNext
<1>3. ReadyInv => SentWhenSettled
  BY DEF ReadyInv, Ready, SentWhenSettled
<1>. QED BY <1>1, <1>2, <1>3, PTL DEF Spec
=============================================================================
