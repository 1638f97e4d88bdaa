---------------------------- MODULE RewardsProofs ----------------------------
(***************************************************************************)
(* What the play server counts and pays: the books of the points           *)
(* settlement, for every set of accounts, every rate, and any number of    *)
(* runs, rollbacks and crashes; and the counters of likes and views.       *)
(***************************************************************************)
EXTENDS MCRewards, SumTheorems, FiniteSetTheorems, TLAPS

J == job["points"]

Fields == {"stage", "acct", "to", "amt", "todo", "share", "undo", "leg"}
IsJob(j) == DOMAIN j = Fields

(* The thread of the settlement, and the transfer it waits for               *)
ThreadInv ==
    /\ DOMAIN job = Pipelines /\ IsJob(J)
    /\ "by" \in DOMAIN xfer /\ (xfer.by = "points" => J.stage = "sending")

PointsType == [pts : Int, morm : Int, carry : Int]

BooksInv ==
    /\ unsettled \in [Accounts -> Int]
    /\ points \in [Accounts -> PointsType]
    /\ \A a \in Accounts : points[a].morm * PointsPerMorm + points[a].carry = points[a].pts

(***************************************************************************)
(* The strengthening: from the booking to its end, the thread remembers    *)
(* what it has to put back, and putting it back is exactly the inverse.    *)
(***************************************************************************)
Underway == {"send", "sending", "unsent"}

UndoInv ==
    /\ J.stage # "idle" => \A a \in Accounts : a \in DOMAIN J.share /\ J.share[a] \in Int
    /\ J.stage \in Underway =>
         /\ J.acct \in Accounts /\ J.amt \in Int /\ J.undo \in Int
         /\ J.amt * PointsPerMorm + points[J.acct].carry = J.share[J.acct] + J.undo

FixedInv == mode = "fixed" => ThreadInv /\ BooksInv /\ UndoInv

LEMMA InitInv == Init => FixedInv
<1> SUFFICES ASSUME Init PROVE ThreadInv /\ BooksInv /\ UndoInv
  BY DEF FixedInv
<1>1. J = Idle
  BY DEF Init, J, Pipelines
<1>2. ThreadInv
  BY <1>1 DEF Init, ThreadInv, IsJob, Fields, Idle, NoXfer
<1>3. BooksInv
  BY RewardsAssumption DEF Init, BooksInv, PointsType, NoPoints
<1>4. UndoInv
  BY <1>1 DEF UndoInv, Underway, Idle
<1>5. QED
  BY <1>2, <1>3, <1>4

-----------------------------------------------------------------------------
(* Steps that leave the settlement's books and its thread alone              *)

LEMMA Untouched ==
    ASSUME FixedInv, mode = "fixed", UNCHANGED <<unsettled, points>>,
           J' = J, DOMAIN job' = DOMAIN job,
           "by" \in DOMAIN xfer', xfer'.by = "points" => J.stage = "sending"
    PROVE  FixedInv'
BY DEF FixedInv, ThreadInv, BooksInv, UndoInv

LEMMA OtherThread ==
    ASSUME FixedInv, mode = "fixed", UNCHANGED <<unsettled, points, xfer>>,
           NEW k, k # "points", NEW v, job' = [job EXCEPT ![k] = v]
    PROVE  FixedInv'
<1>1. J' = J /\ DOMAIN job' = DOMAIN job
  BY DEF FixedInv, ThreadInv, J, Pipelines
<1>2. QED
  BY <1>1, Untouched DEF FixedInv, ThreadInv

LEMMA SameThreads ==
    ASSUME FixedInv, mode = "fixed", UNCHANGED <<unsettled, points, xfer, job>>
    PROVE  FixedInv'
BY Untouched DEF FixedInv, ThreadInv, J

-----------------------------------------------------------------------------
(* l1_transfer                                                              *)

(* Only the stage of the thread changes, to one that the books allow for.   *)
LEMMA StageInv ==
    ASSUME FixedInv, mode = "fixed", UNCHANGED <<unsettled, points>>,
           NEW k, NEW stage, job' = [job EXCEPT ![k].stage = stage],
           k = "points" => /\ stage # "idle"
                           /\ stage \in Underway => J.stage \in Underway
                           /\ J.stage # "idle",
           "by" \in DOMAIN xfer',
           xfer'.by = "points" => IF k = "points" THEN stage = "sending" ELSE J.stage = "sending"
    PROVE  FixedInv'
<1>1. CASE k # "points"
  <2>1. J' = J /\ DOMAIN job' = DOMAIN job
    BY <1>1 DEF FixedInv, ThreadInv, J, Pipelines
  <2>2. QED
    BY <1>1, <2>1, Untouched
<1>2. CASE k = "points"
  <2>1. DOMAIN job' = Pipelines /\ J' = [J EXCEPT !.stage = stage]
    BY <1>2 DEF FixedInv, ThreadInv, J, Pipelines
  <2>2. /\ IsJob(J') /\ J'.stage = stage /\ J'.acct = J.acct /\ J'.amt = J.amt
        /\ J'.share = J.share /\ J'.undo = J.undo
    <3>1. IsJob(J)
      BY DEF FixedInv, ThreadInv
    <3>2. QED
      BY <2>1, <3>1 DEF IsJob, Fields
  <2>3. ThreadInv'
    BY <1>2, <2>1, <2>2 DEF ThreadInv, IsJob
  <2>4. BooksInv'
    BY DEF FixedInv, BooksInv
  <2>5. UndoInv'
    BY <1>2, <2>2 DEF FixedInv, UndoInv
  <2>6. QED
    BY <2>3, <2>4, <2>5 DEF FixedInv
<1>3. QED
  BY <1>1, <1>2

LEMMA TransferInv == FixedInv /\ mode = "fixed" /\ Transfer => FixedInv'
<1> SUFFICES ASSUME FixedInv, mode = "fixed", Transfer PROVE FixedInv'
  OBVIOUS
<1>1. "by" \in DOMAIN xfer /\ (xfer.by = "points" => J.stage = "sending")
  BY DEF FixedInv, ThreadInv
<1>2. "by" \in DOMAIN NoXfer /\ NoXfer.by = "nobody"
  BY DEF NoXfer
<1>3. ASSUME NEW k \in Pipelines, TransferBegin(k)
      PROVE  FixedInv'
  <2>1. "by" \in DOMAIN xfer' /\ xfer'.by = k
    BY <1>3 DEF TransferBegin, NoXfer
  <2>2. job' = [job EXCEPT ![k].stage = "sending"] /\ job[k].stage = "send"
    BY <1>3 DEF TransferBegin, Goto
  <2>3. QED
    BY <1>3, <2>1, <2>2, StageInv DEF TransferBegin, users, books, Underway, J
<1>4. CASE TransferNonce \/ TransferPost
  <2>1. UNCHANGED <<unsettled, points, job>>
    BY <1>4 DEF TransferNonce, TransferPost, users, books
  <2>2. "by" \in DOMAIN xfer' /\ xfer'.by = xfer.by
    BY <1>1, <1>4 DEF TransferNonce, TransferPost
  <2>3. QED
    BY <1>1, <2>1, <2>2, Untouched DEF J
<1>5. ASSUME NEW stage \in {"sent", "unsent"}, Release(stage), UNCHANGED <<users, books, mode>>
      PROVE  FixedInv'
  <2>1. job' = [job EXCEPT ![xfer.by].stage = stage] /\ xfer' = NoXfer
    BY <1>5 DEF Release, Goto
  <2>2. UNCHANGED <<unsettled, points>>
    BY <1>5 DEF users, books
  <2>3. QED
    BY <1>1, <1>2, <2>1, <2>2, StageInv DEF Underway
<1>6. QED
  BY <1>3, <1>4, <1>5 DEF Transfer, TransferConfirm, TransferGiveUp

-----------------------------------------------------------------------------
(* The settlement                                                           *)

LEMMA FixedBeginInv == FixedInv /\ mode = "fixed" /\ FixedBegin => FixedInv'
<1> SUFFICES ASSUME FixedInv, mode = "fixed", FixedBegin PROVE FixedInv'
  OBVIOUS
<1> DEFINE anew == [Idle EXCEPT !.stage = "next", !.share = [a \in Accounts |-> 0],
                                !.todo = {a \in Accounts : unsettled[a] > 0}]
<1>1. J.stage = "idle" /\ job' = [job EXCEPT !["points"] = anew]
  BY DEF FixedBegin, MayStart, J
<1>2. IsJob(Idle)
  BY DEF IsJob, Fields, Idle
<1>3. IsJob(anew) /\ anew.stage = "next" /\ anew.share = [a \in Accounts |-> 0]
  BY <1>2 DEF IsJob, Fields
<1>4. DOMAIN job' = Pipelines /\ J' = anew
  BY <1>1 DEF FixedInv, ThreadInv, J, Pipelines
<1> HIDE DEF anew
<1>5. UNCHANGED <<unsettled, points, xfer>>
  BY DEF FixedBegin, users, books
<1>6. ThreadInv'
  BY <1>1, <1>3, <1>4, <1>5 DEF FixedInv, ThreadInv
<1>7. BooksInv'
  BY <1>5 DEF FixedInv, BooksInv
<1>8. UndoInv'
  BY <1>3, <1>4 DEF UndoInv, Underway
<1>9. QED
  BY <1>6, <1>7, <1>8 DEF FixedInv

LEMMA FixedSettleInv ==
    ASSUME NEW a \in Accounts, FixedInv, mode = "fixed", FixedSettle(a)
    PROVE  FixedInv'
<1> DEFINE pool == unsettled[a] + points[a].carry
           morm == pool \div PointsPerMorm
           left == pool - morm * PointsPerMorm
<1>1. /\ AtNext(J) /\ J.stage # "idle" /\ J.stage # "sending"
      /\ UNCHANGED xfer
  BY DEF FixedSettle, AtNext, J
<1>2. /\ PointsPerMorm \in Nat \ {0} /\ unsettled[a] \in Int /\ points[a] \in PointsType
      /\ DOMAIN job = Pipelines /\ IsJob(J) /\ "by" \in DOMAIN xfer /\ xfer.by # "points"
  BY <1>1, RewardsAssumption DEF FixedInv, ThreadInv, BooksInv
<1>3. pool \in Int /\ morm \in Int /\ left \in Int
        /\ morm * PointsPerMorm + left = unsettled[a] + points[a].carry
  <2>1. pool \in Int
    BY <1>2 DEF PointsType
  <2> HIDE DEF pool
  <2>2. morm \in Int
    BY <1>2, <2>1
  <2> HIDE DEF morm
  <2>3. morm * PointsPerMorm \in Int
    BY <1>2, <2>2
  <2>4. left \in Int /\ morm * PointsPerMorm + left = pool
    BY <2>1, <2>3
  <2> QED BY <2>1, <2>2, <2>4 DEF pool
<1>4. CASE UNCHANGED <<unsettled, points>> /\ job' = [job EXCEPT !["points"].todo = @ \ {a}]
  <2>1. DOMAIN job' = Pipelines /\ J' = [J EXCEPT !.todo = @ \ {a}]
    BY <1>2, <1>4 DEF J, Pipelines
  <2>2. /\ IsJob(J') /\ J'.stage = J.stage /\ J'.acct = J.acct /\ J'.amt = J.amt
        /\ J'.share = J.share /\ J'.undo = J.undo
    BY <1>2, <2>1 DEF IsJob, Fields
  <2>3. ThreadInv'
    BY <1>1, <1>2, <2>1, <2>2 DEF ThreadInv
  <2>4. BooksInv' /\ UndoInv'
    BY <1>4, <2>2 DEF FixedInv, BooksInv, UndoInv
  <2>5. QED
    BY <2>3, <2>4 DEF FixedInv
<1>5. CASE PointsReserve(a, unsettled[a], morm, left, J)
  <2> HIDE DEF pool, morm, left
  <2> DEFINE booked == [J EXCEPT !.todo = @ \ {a}, !.share[a] = unsettled[a],
                                 !.undo = points[a].carry]
             sent == [booked EXCEPT !.stage = "send", !.acct = a, !.to = Dest[a], !.amt = morm]
  <2>1. /\ unsettled' = [unsettled EXCEPT ![a] = @ - unsettled[a]]
        /\ points' = [points EXCEPT ![a] =
             [pts |-> @.pts + unsettled[a], morm |-> @.morm + morm, carry |-> left]]
        /\ job' = [job EXCEPT !["points"] = sent]
    BY <1>5 DEF PointsReserve, Send
  <2>2. /\ sent.stage = "send" /\ sent.acct = a /\ sent.amt = morm
        /\ sent.share = [J.share EXCEPT ![a] = unsettled[a]] /\ sent.undo = points[a].carry
        /\ IsJob(sent)
    <3>1. /\ IsJob(booked) /\ booked.undo = points[a].carry
          /\ booked.share = [J.share EXCEPT ![a] = unsettled[a]]
      BY <1>2 DEF IsJob, Fields
    <3> HIDE DEF booked
    <3>2. QED
      BY <3>1 DEF IsJob, Fields
  <2>3. DOMAIN job' = Pipelines /\ J' = sent
    BY <1>2, <2>1 DEF J, Pipelines
  <2> HIDE DEF booked, sent
  <2>4. ThreadInv'
    BY <1>1, <1>2, <2>2, <2>3 DEF ThreadInv
  <2>5. unsettled' \in [Accounts -> Int] /\ points' \in [Accounts -> PointsType]
    BY <1>2, <1>3, <2>1 DEF FixedInv, BooksInv, PointsType
  <2>6. /\ points'[a].carry = left /\ points'[a].morm = points[a].morm + morm
        /\ points'[a].pts = points[a].pts + unsettled[a]
        /\ \A b \in Accounts : b # a => points'[b] = points[b]
    BY <2>1 DEF FixedInv, BooksInv
  <2>7. points'[a].morm * PointsPerMorm + points'[a].carry = points'[a].pts
    <3>1. points[a].morm * PointsPerMorm + points[a].carry = points[a].pts
      BY DEF FixedInv, BooksInv
    <3>2. (points[a].morm + morm) * PointsPerMorm
            = points[a].morm * PointsPerMorm + morm * PointsPerMorm
      BY <1>2, <1>3 DEF PointsType
    <3>3. QED
      BY <1>2, <1>3, <2>6, <3>1, <3>2 DEF PointsType
  <2>8. BooksInv'
    BY <2>5, <2>6, <2>7 DEF FixedInv, BooksInv
  <2>9. UndoInv'
    BY <1>1, <1>2, <1>3, <2>2, <2>3, <2>6 DEF FixedInv, UndoInv, PointsType
  <2>10. QED
    BY <2>4, <2>8, <2>9 DEF FixedInv
<1>6. QED
  BY <1>4, <1>5 DEF FixedSettle, J

LEMMA PointsUndoInv ==
    ASSUME FixedInv, mode = "fixed", PointsUndo
    PROVE  FixedInv'
<1> DEFINE a == J.acct
           kept == [Idle EXCEPT !.stage = "next", !.todo = J.todo, !.share = J.share]
<1>1. /\ J.stage = "unsent" /\ UNCHANGED xfer
      /\ unsettled' = [unsettled EXCEPT ![a] = @ + J.share[a]]
      /\ points' = [points EXCEPT ![a] =
           [pts |-> @.pts - J.share[a], morm |-> @.morm - J.amt, carry |-> J.undo]]
      /\ job' = [job EXCEPT !["points"] = kept]
  BY DEF PointsUndo, Continue, J
<1>2. /\ DOMAIN job = Pipelines /\ "by" \in DOMAIN xfer /\ xfer.by # "points"
      /\ PointsPerMorm \in Nat \ {0}
  BY <1>1, RewardsAssumption DEF FixedInv, ThreadInv
<1>3. /\ a \in Accounts /\ J.amt \in Int /\ J.undo \in Int /\ J.share[a] \in Int
      /\ J.amt * PointsPerMorm + points[a].carry = J.share[a] + J.undo
      /\ \A b \in Accounts : b \in DOMAIN J.share /\ J.share[b] \in Int
  BY <1>1 DEF FixedInv, UndoInv, Underway
<1>4. IsJob(kept) /\ kept.stage = "next" /\ kept.share = J.share
  <2>1. IsJob(Idle)
    BY DEF IsJob, Fields, Idle
  <2>2. QED
    BY <2>1 DEF IsJob, Fields
<1>5. DOMAIN job' = Pipelines /\ J' = kept
  BY <1>1, <1>2 DEF J, Pipelines
<1> HIDE DEF a, kept
<1>6. ThreadInv'
  BY <1>1, <1>2, <1>4, <1>5 DEF ThreadInv
<1>7. points[a] \in PointsType /\ unsettled[a] \in Int
  BY <1>3 DEF FixedInv, BooksInv
<1>8. unsettled' \in [Accounts -> Int] /\ points' \in [Accounts -> PointsType]
  BY <1>1, <1>3, <1>7 DEF FixedInv, BooksInv, PointsType
<1>9. /\ points'[a].carry = J.undo /\ points'[a].morm = points[a].morm - J.amt
      /\ points'[a].pts = points[a].pts - J.share[a]
      /\ \A b \in Accounts : b # a => points'[b] = points[b]
  BY <1>1, <1>3 DEF FixedInv, BooksInv
<1>10. points'[a].morm * PointsPerMorm + points'[a].carry = points'[a].pts
  <2>1. points[a].morm * PointsPerMorm + points[a].carry = points[a].pts
    BY <1>3 DEF FixedInv, BooksInv
  <2>2. (points[a].morm - J.amt) * PointsPerMorm
          = points[a].morm * PointsPerMorm - J.amt * PointsPerMorm
    BY <1>2, <1>3, <1>7 DEF PointsType
  <2>3. QED
    BY <1>2, <1>3, <1>7, <1>9, <2>1, <2>2 DEF PointsType
<1>11. BooksInv'
  BY <1>8, <1>9, <1>10 DEF FixedInv, BooksInv
<1>12. UndoInv'
  BY <1>3, <1>4, <1>5 DEF UndoInv, Underway
<1>13. QED
  BY <1>6, <1>11, <1>12 DEF FixedInv

(* The thread ends, or all threads end with the process.                    *)
LEMMA StoppedInv ==
    ASSUME FixedInv, mode = "fixed", UNCHANGED <<unsettled, points>>,
           DOMAIN job' = Pipelines, J' = Idle,
           "by" \in DOMAIN xfer' /\ xfer'.by # "points"
    PROVE  FixedInv'
<1>1. IsJob(Idle) /\ Idle.stage = "idle"
  BY DEF IsJob, Fields, Idle
<1>2. ThreadInv'
  BY <1>1 DEF ThreadInv
<1>3. BooksInv' /\ UndoInv'
  BY <1>1 DEF FixedInv, BooksInv, UndoInv, Underway
<1>4. QED
  BY <1>2, <1>3 DEF FixedInv

LEMMA PointsStepInv == FixedInv /\ mode = "fixed" /\ PointsStep => FixedInv'
<1> SUFFICES ASSUME FixedInv, mode = "fixed", PointsStep PROVE FixedInv'
  OBVIOUS
<1>1. CASE PointsEnd
  <2>1. job' = [job EXCEPT !["points"] = Idle] /\ J.stage # "sending"
    BY <1>1 DEF PointsEnd, Stop, AtNext, J
  <2>2. /\ UNCHANGED <<unsettled, points, xfer>> /\ DOMAIN job' = Pipelines /\ J' = Idle
        /\ "by" \in DOMAIN xfer' /\ xfer'.by # "points"
    BY <1>1, <2>1 DEF PointsEnd, users, books, FixedInv, ThreadInv, J, Pipelines
  <2>3. QED
    BY <2>2, StoppedInv
<1>2. QED
  BY <1>1, PointsUndoInv, FixedSettleInv DEF PointsStep, ProportionalSettle

-----------------------------------------------------------------------------
(* Everything else                                                          *)

LEMMA OtherPipelinesInv ==
    FixedInv /\ mode = "fixed" /\ (PayoutStep \/ ReferralStep \/ ChallengeStep) => FixedInv'
<1> SUFFICES ASSUME FixedInv, mode = "fixed", PayoutStep \/ ReferralStep \/ ChallengeStep
             PROVE  FixedInv'
  OBVIOUS
<1>1. CASE PayoutStep
  <2>1. UNCHANGED <<unsettled, points, xfer>> /\ \E v : job' = [job EXCEPT !["payout"] = v]
    BY <1>1 DEF PayoutStep, PayoutDone, PayoutUndo, Stop, users, books
  <2>2. QED
    BY <2>1, OtherThread
<1>2. CASE ReferralStep
  <2>1. /\ UNCHANGED <<unsettled, points, xfer>>
        /\ \E v : job' = [job EXCEPT !["referral"] = v]
    BY <1>2 DEF ReferralStep, ReferralRefereePaid, ReferralRefereeUndo, ReferralReferrerDone,
                ReferralEnd, ReferralClaim, Stop, Send, Continue, users, books
  <2>2. QED
    BY <2>1, OtherThread
<1>3. CASE ChallengeStep
  <2>1. /\ UNCHANGED <<unsettled, points, xfer>>
        /\ \/ \E v : job' = [job EXCEPT !["challenge"] = v]
           \/ \E t : job' = [job EXCEPT !["challenge"].todo = t]
    BY <1>3 DEF ChallengeStep, ChallengeUndo, ChallengeEnd, ChallengeAward, Stop, Send,
                Continue, users, books
  <2>2. QED
    BY <2>1, OtherThread
<1>4. QED
  BY <1>1, <1>2, <1>3

LEMMA StartInv == FixedInv /\ mode = "fixed" /\ Start => FixedInv'
<1> SUFFICES ASSUME FixedInv, mode = "fixed", Start PROVE FixedInv'
  OBVIOUS
<1>1. CASE ReferralBegin
  <2>1. /\ UNCHANGED <<unsettled, points, xfer>>
        /\ \E v : job' = [job EXCEPT !["referral"] = v]
    BY <1>1 DEF ReferralBegin, users, books
  <2>2. QED
    BY <2>1, OtherThread
<1>2. ASSUME NEW a \in Accounts, PayoutReserve(a)
      PROVE  FixedInv'
  <2>1. UNCHANGED <<unsettled, points, xfer>> /\ \E v : job' = [job EXCEPT !["payout"] = v]
    BY <1>2 DEF PayoutReserve, Send, users
  <2>2. QED
    BY <2>1, OtherThread
<1>3. ASSUME NEW ranked \in Rankings, ChallengeBegin(ranked)
      PROVE  FixedInv'
  <2>1. /\ UNCHANGED <<unsettled, points, xfer>>
        /\ \E v : job' = [job EXCEPT !["challenge"] = v]
    BY <1>3 DEF ChallengeBegin, users, books
  <2>2. QED
    BY <2>1, OtherThread
<1>4. QED
  BY <1>1, <1>2, <1>3, FixedBeginInv DEF Start, ProportionalBegin

LEMMA UserInv == FixedInv /\ mode = "fixed" /\ (Node \/ User) => FixedInv'
<1> SUFFICES ASSUME FixedInv, mode = "fixed", Node \/ User PROVE FixedInv'
  OBVIOUS
<1>1. CASE Node
  <2>1. UNCHANGED <<unsettled, points, xfer, job>>
    BY <1>1 DEF Node, DropQueued, Seal, Spend, users, books
  <2>2. QED
    BY <2>1, SameThreads
<1>2. ASSUME NEW a \in Accounts, GrantPoints(a)
      PROVE  FixedInv'
  <2>1. /\ unsettled' = [unsettled EXCEPT ![a] = @ + 1]
        /\ UNCHANGED <<points, xfer, job>>
    BY <1>2 DEF GrantPoints, books
  <2>2. J' = J
    BY <2>1 DEF J
  <2>3. ThreadInv' /\ UndoInv'
    BY <2>1, <2>2 DEF FixedInv, ThreadInv, UndoInv
  <2>4. BooksInv'
    BY <2>1 DEF FixedInv, BooksInv
  <2>5. QED
    BY <2>3, <2>4 DEF FixedInv
<1>3. ASSUME UNCHANGED <<unsettled, books, job, xfer>>
      PROVE  FixedInv'
  BY <1>3, SameThreads DEF books
<1>4. ASSUME NEW a \in Accounts, NEW r, AttachReferral(a, r)
      PROVE  FixedInv'
  BY <1>4, SameThreads DEF AttachReferral, users
<1>5. QED
  BY <1>1, <1>2, <1>3, <1>4 DEF User, IntervalPasses, ApprovePost, Earn, SetHold

LEMMA CrashInv == FixedInv /\ mode = "fixed" /\ Crash => FixedInv'
<1> SUFFICES ASSUME FixedInv, mode = "fixed", Crash PROVE FixedInv'
  OBVIOUS
<1>1. /\ UNCHANGED <<unsettled, points>> /\ DOMAIN job' = Pipelines /\ J' = Idle
      /\ "by" \in DOMAIN xfer' /\ xfer'.by # "points"
  BY DEF Crash, users, books, J, Pipelines, NoXfer
<1>2. QED
  BY <1>1, StoppedInv

LEMMA StepInv == FixedInv /\ [Next]_vars => FixedInv'
<1> SUFFICES ASSUME FixedInv, [Next]_vars PROVE FixedInv'
  OBVIOUS
<1>1. mode' = mode
  <2>1. CASE Next
    BY <2>1
       DEF Next, Transfer, TransferBegin, TransferNonce, TransferPost, TransferConfirm,
           TransferGiveUp, PayoutStep, PayoutDone, PayoutUndo, ReferralStep,
           ReferralRefereePaid, ReferralRefereeUndo, ReferralReferrerDone, ReferralEnd,
           ReferralClaim, PointsStep, PointsUndo, PointsEnd, FixedSettle,
           ProportionalSettle, ChallengeStep, ChallengeUndo, ChallengeEnd, ChallengeAward,
           Start, ReferralBegin, FixedBegin, ProportionalBegin, PayoutReserve,
           ChallengeBegin, Node, DropQueued, Seal, Spend, User, IntervalPasses,
           ApprovePost, GrantPoints, Earn, SetHold, AttachReferral, Crash
  <2>2. QED
    BY <2>1 DEF vars
<1>2. CASE mode # "fixed"
  BY <1>1, <1>2 DEF FixedInv
<1>3. CASE mode = "fixed" /\ Next
  BY <1>3, TransferInv, OtherPipelinesInv, PointsStepInv, StartInv, UserInv, CrashInv DEF Next
<1>4. CASE mode = "fixed" /\ UNCHANGED vars
  BY <1>4, SameThreads DEF vars, users, books
<1>5. QED
  BY <1>2, <1>3, <1>4

(* At a fixed rate the MORM paid and the points carried over are worth the    *)
(* points that count as settled (play_server.py:_settle_fixed), through every *)
(* rollback, crash and interleaving with the other pipelines.                 *)
THEOREM SettlementBalances == Spec => []SettledBalance
<1>1. FixedInv => SettledBalance
  BY DEF FixedInv, BooksInv, SettledBalance
<1>2. QED
  BY <1>1, InitInv, StepInv, PTL DEF Spec

-----------------------------------------------------------------------------
Requests ==
    [step : {"idle", "like", "view", "grant", "insert", "spread", "pay"},
     op : Kinds \cup {"none"}, who : Watchers \cup {Nobody}, on : Contents \cup {Nobody},
     via : People \cup {Nobody}, had : BOOLEAN]

EngageTypes ==
    /\ req \in [Threads -> Requests]
    /\ likes \in [Contents -> Int] /\ likers \subseteq Contents \X People
    /\ recent \in [Contents \X Keys -> Int] /\ viewed \subseteq Contents \X Keys

LikersOf(c) == {a \in People : <<c, a>> \in likers}
Toggles(t) == req[t].step = "like"
Counts(t) == req[t].step = "view"

(***************************************************************************)
(* The strengthening.  A toggle under way still has the answer its SELECT  *)
(* gave, and no other of that account and video is under way, unless two   *)
(* of them crossed (LikesInv); and a viewer's key in _seen_view pays for   *)
(* one view, counted or on its way (ViewsInv).                             *)
(***************************************************************************)
LikesInv ==
    /\ \A c \in Contents :
         /\ IsFiniteSet(LikersOf(c))
         /\ c \notin crossed => likes[c] = Cardinality(LikersOf(c))
    /\ \A t \in Threads : Toggles(t) =>
         /\ req[t].who \in People /\ req[t].on \in Contents
         /\ req[t].on \notin crossed =>
              /\ IF req[t].had THEN <<req[t].on, req[t].who>> \in likers
                 ELSE <<req[t].on, req[t].who>> \notin likers
              /\ \A s \in Threads \ {t} :
                   Toggles(s) /\ req[s].on = req[t].on => req[s].who # req[t].who

ViewsInv ==
    /\ \A t \in Threads : Counts(t) => req[t].who \in Watchers /\ req[t].on \in Contents
    /\ \A c \in Contents, k \in Keys :
         /\ IsFiniteSet(Counting(c, k))
         /\ recent[<<c, k>>] + Cardinality(Counting(c, k)) <= IF <<c, k>> \in viewed THEN 1 ELSE 0

EngageInv == EngageTypes /\ LikesInv /\ ViewsInv

LEMMA Started ==
    /\ NoRequest \in Requests /\ NoRequest.step = "idle" /\ NoRequest.who = Nobody
BY DEF NoRequest, Requests

LEMMA EngageInitInv == EngageInit => EngageInv
<1> SUFFICES ASSUME EngageInit PROVE EngageInv
  OBVIOUS
<1>1. EngageTypes
  BY Started DEF EngageInit, EngageTypes
<1>2. \A t \in Threads : ~ Toggles(t) /\ ~ Counts(t)
  BY Started DEF EngageInit, Toggles, Counts
<1>3. \A c \in Contents : LikersOf(c) = {}
  BY DEF EngageInit, LikersOf
<1>4. \A c \in Contents, k \in Keys : Counting(c, k) = {} /\ recent[<<c, k>>] = 0
  BY <1>2 DEF EngageInit, Counting, Counts
<1>5. IsFiniteSet({}) /\ Cardinality({}) = 0
  BY FS_EmptySet
<1>6. LikesInv
  <2>1. \A c \in Contents : likes[c] = 0
    BY DEF EngageInit
  <2>2. \A c \in Contents : IsFiniteSet(LikersOf(c)) /\ likes[c] = Cardinality(LikersOf(c))
    BY <1>3, <1>5, <2>1
  <2>3. \A t \in Threads : ~ Toggles(t)
    BY <1>2
  <2> QED BY <2>2, <2>3, Zenon DEF LikesInv
<1>7. ViewsInv
  <2>1. ASSUME NEW c \in Contents, NEW k \in Keys
        PROVE  recent[<<c, k>>] + Cardinality(Counting(c, k)) = 0
    <3>1. Cardinality(Counting(c, k)) = 0 /\ recent[<<c, k>>] = 0
      BY <1>4, <1>5
    <3> QED BY <3>1
  <2>2. \A c \in Contents, k \in Keys : IsFiniteSet(Counting(c, k))
    BY <1>4, <1>5
  <2> QED BY <1>2, <2>1, <2>2 DEF ViewsInv
<1> QED BY <1>1, <1>6, <1>7 DEF EngageInv

(* Steps of a request that neither toggles nor counts, before or after.     *)
LEMMA OtherSteps ==
    ASSUME EngageInv, NEW t \in Threads, NEW r \in Requests, ~ Toggles(t), ~ Counts(t),
           r.step \notin {"like", "view"}, Proceed(t, r),
           UNCHANGED <<likes, likers, viewed, recent, crossed>>
    PROVE  EngageInv'
<1>1. req' \in [Threads -> Requests]
        /\ \A s \in Threads : req'[s] = IF s = t THEN r ELSE req[s]
  BY DEF Proceed, EngageInv, EngageTypes
<1>2. \A s \in Threads : /\ Toggles(s)' <=> Toggles(s)
                         /\ Counts(s)' <=> Counts(s)
                         /\ Toggles(s) \/ Counts(s) => req'[s] = req[s]
  BY <1>1 DEF Toggles, Counts
<1>3. \A c \in Contents : LikersOf(c)' = LikersOf(c)
  BY DEF LikersOf
<1>4. \A c \in Contents, k \in Keys : Counting(c, k)' = Counting(c, k)
  BY <1>2 DEF Counting, Counts
<1>5. EngageTypes'
  BY <1>1 DEF EngageInv, EngageTypes
<1>6. LikesInv'
  BY <1>2, <1>3 DEF EngageInv, LikesInv
<1>7. ViewsInv'
  BY <1>2, <1>4 DEF EngageInv, ViewsInv
<1> QED BY <1>5, <1>6, <1>7 DEF EngageInv

LEMMA OtherStepsInv ==
    ASSUME EngageInv, NEW t \in Threads,
           GrantCheck(t) \/ GrantInsert(t) \/ SpreadCheck(t) \/ SpreadPay(t)
    PROVE  EngageInv'
<1> DEFINE r == req[t]
           insert == [r EXCEPT !.step = "insert"]
           spread == [r EXCEPT !.step = "spread"]
           room == Earned(ledger, Uploader[r.on]) < Cap
           pay == [r EXCEPT !.step = "pay", !.had = room]
<1>1. UNCHANGED <<likes, likers, viewed, recent, crossed>> /\ ~ Toggles(t) /\ ~ Counts(t)
  BY DEF GrantCheck, GrantInsert, SpreadCheck, SpreadPay, counters, Toggles, Counts
<1>2. r \in Requests /\ room \in BOOLEAN
  BY DEF EngageInv, EngageTypes
<1> HIDE DEF room
<1>3. insert \in Requests /\ insert.step = "insert" /\ spread \in Requests /\ spread.step = "spread"
  BY <1>2 DEF Requests
<1>4. pay \in Requests /\ pay.step = "pay"
  <2> DEFINE p == [r EXCEPT !.step = "pay"]
  <2>1. p \in Requests /\ p.step = "pay"
    BY <1>2 DEF Requests
  <2>2. pay = [p EXCEPT !.had = room]
    BY <1>2 DEF Requests
  <2> HIDE DEF p, pay
  <2> QED BY <1>2, <2>1, <2>2 DEF Requests
<1>5. Proceed(t, insert) \/ Proceed(t, spread) \/ Proceed(t, pay) \/ Proceed(t, NoRequest)
  BY DEF GrantCheck, GrantInsert, SpreadCheck, SpreadPay, AfterGrant, End, room
<1> HIDE DEF insert, spread, pay
<1> QED BY <1>1, <1>3, <1>4, <1>5, Started, OtherSteps

LEMMA BeginsInv ==
    ASSUME EngageInv, NEW t \in Threads, NEW a \in People, NEW c \in Contents,
           Comment(t, a, c) \/ ShareVideo(t, a, c)
    PROVE  EngageInv'
<1> DEFINE comment == [NoRequest EXCEPT !.step = "grant", !.op = "comment", !.who = a, !.on = c]
           share == [NoRequest EXCEPT !.step = "grant", !.op = "share", !.who = a, !.on = c]
<1>1. UNCHANGED <<likes, likers, viewed, recent, crossed>> /\ ~ Toggles(t) /\ ~ Counts(t)
  BY DEF Comment, ShareVideo, Begin, Serve, counters, Toggles, Counts
<1>2. /\ comment \in Requests /\ comment.step = "grant"
      /\ share \in Requests /\ share.step = "grant"
  BY DEF NoRequest, Requests, Watchers, Kinds
<1>3. Proceed(t, comment) \/ Proceed(t, share)
  BY DEF Comment, ShareVideo, Begin
<1> HIDE DEF comment, share
<1> QED BY <1>1, <1>2, <1>3, OtherSteps

-----------------------------------------------------------------------------
(* Likes                                                                    *)

LEMMA LikeInv ==
    ASSUME EngageInv, NEW t \in Threads, NEW a \in People, NEW c \in Contents, Like(t, a, c)
    PROVE  EngageInv'
<1> DEFINE had == <<c, a>> \in likers
           r == [NoRequest EXCEPT !.step = "like", !.op = "like", !.who = a, !.on = c, !.had = had]
           rivals == {s \in Threads : req[s].step = "like" /\ req[s].who = a /\ req[s].on = c}
<1>1. /\ req' = [req EXCEPT ![t] = r] /\ req[t].step = "idle"
      /\ UNCHANGED <<likes, likers, viewed, recent>>
      /\ crossed' = IF rivals = {} THEN crossed ELSE crossed \cup {c}
  BY DEF Like, Serve, Proceed, counters
<1>2. r \in Requests /\ r.step = "like" /\ r.who = a /\ r.on = c /\ (r.had <=> had)
  <2>1. had \in BOOLEAN
    OBVIOUS
  <2> HIDE DEF had
  <2> QED BY <2>1 DEF NoRequest, Requests, Watchers, Kinds
<1> HIDE DEF r
<1>3. req' \in [Threads -> Requests]
        /\ \A s \in Threads : req'[s] = IF s = t THEN r ELSE req[s]
  BY <1>1, <1>2 DEF EngageInv, EngageTypes
<1>4. EngageTypes'
  BY <1>1, <1>3 DEF EngageInv, EngageTypes
<1>5. ViewsInv'
  <2>1. \A s \in Threads : /\ Counts(s)' <=> Counts(s)
                           /\ Counts(s) => req'[s] = req[s]
    BY <1>1, <1>2, <1>3 DEF Counts
  <2>2. \A d \in Contents, k \in Keys : Counting(d, k)' = Counting(d, k)
    BY <2>1 DEF Counting, Counts
  <2> QED BY <1>1, <2>1, <2>2 DEF EngageInv, ViewsInv
<1>6. crossed \subseteq crossed' /\ (c \notin crossed' => rivals = {})
  BY <1>1
<1>7. ASSUME NEW s \in Threads, req'[s].step = "like"
      PROVE  /\ req'[s].who \in People /\ req'[s].on \in Contents
             /\ req'[s].on \notin crossed' =>
                  /\ IF req'[s].had THEN <<req'[s].on, req'[s].who>> \in likers
                     ELSE <<req'[s].on, req'[s].who>> \notin likers
                  /\ \A u \in Threads \ {s} :
                       req'[u].step = "like" /\ req'[u].on = req'[s].on => req'[u].who # req'[s].who
  <2>1. CASE s = t
    BY <1>2, <1>3, <1>6, <2>1
  <2>2. CASE s # t
    <3>1. req'[s] = req[s]
      BY <1>3, <2>2
    <3>2. /\ req[s].who \in People /\ req[s].on \in Contents
          /\ req[s].on \notin crossed =>
               /\ IF req[s].had THEN <<req[s].on, req[s].who>> \in likers
                  ELSE <<req[s].on, req[s].who>> \notin likers
               /\ \A u \in Threads \ {s} :
                    req[u].step = "like" /\ req[u].on = req[s].on => req[u].who # req[s].who
      BY <1>7, <3>1 DEF EngageInv, LikesInv, Toggles
    <3>3. c \notin crossed' => ~ (req[s].who = a /\ req[s].on = c)
      BY <1>6, <1>7, <3>1
    <3> QED BY <1>2, <1>3, <1>6, <3>1, <3>2, <3>3
  <2> QED BY <2>1, <2>2
<1>8. \A d \in Contents : LikersOf(d)' = LikersOf(d)
  BY <1>1 DEF LikersOf
<1>9. LikesInv'
  BY <1>1, <1>6, <1>7, <1>8 DEF EngageInv, LikesInv, Toggles
<1> QED BY <1>4, <1>5, <1>9 DEF EngageInv

LEMMA MaxZero == ASSUME NEW n \in Int, n >= 0 PROVE Max({0, n}) = n
BY DEF Max

LEMMA MaxInt == ASSUME NEW n \in Int PROVE Max({0, n}) \in Int
BY DEF Max

LEMMA LikeWriteInv ==
    ASSUME EngageInv, NEW t \in Threads, LikeWrite(t), NEW c \in Contents, NEW a \in People,
           c = req[t].on, a = req[t].who
    PROVE  EngageInv'
<1> DEFINE r == req[t]
           grant == [r EXCEPT !.step = "grant"]
<1>1. /\ r \in Requests /\ r.step = "like"
      /\ UNCHANGED <<viewed, recent, crossed>>
      /\ \A d \in Contents : IsFiniteSet(LikersOf(d))
  BY DEF LikeWrite, EngageInv, EngageTypes, LikesInv, Toggles
<1>2. PICK q \in {NoRequest, grant} : req' = [req EXCEPT ![t] = q]
  BY DEF LikeWrite, End, Proceed
<1>3. grant \in Requests /\ grant.step = "grant"
  BY <1>1 DEF Requests
<1> HIDE DEF grant
<1>4. q \in Requests /\ q.step \in {"idle", "grant"}
  BY <1>2, <1>3, Started
<1>5. req' \in [Threads -> Requests]
        /\ \A s \in Threads : req'[s] = IF s = t THEN q ELSE req[s]
  BY <1>2, <1>4 DEF EngageInv, EngageTypes
<1>6. ViewsInv'
  <2>1. \A s \in Threads : /\ Counts(s)' <=> Counts(s)
                           /\ Counts(s) => req'[s] = req[s]
    BY <1>1, <1>4, <1>5 DEF Counts
  <2>2. \A d \in Contents, k \in Keys : Counting(d, k)' = Counting(d, k)
    BY <2>1 DEF Counting, Counts
  <2> QED BY <1>1, <2>1, <2>2 DEF EngageInv, ViewsInv
<1>7. \/ /\ r.had /\ likers' = likers \ {<<c, a>>}
         /\ likes' = [likes EXCEPT ![c] = Max({0, likes[c] - 1})]
      \/ /\ ~ r.had /\ likers' = likers \cup {<<c, a>>}
         /\ likes' = [likes EXCEPT ![c] = likes[c] + 1]
  BY DEF LikeWrite
<1>8. likers' \subseteq Contents \X People /\ likes' \in [Contents -> Int]
  <2>1. likes[c] \in Int /\ Max({0, likes[c] - 1}) \in Int
    <3>1. likes[c] \in Int /\ likes[c] - 1 \in Int
      BY DEF EngageInv, EngageTypes
    <3> QED BY <3>1, MaxInt
  <2> QED BY <1>1, <1>7, <2>1 DEF EngageInv, EngageTypes
<1>9. EngageTypes'
  BY <1>1, <1>5, <1>8 DEF EngageInv, EngageTypes
<1>10. \A d \in Contents : LikersOf(d)' = IF d # c THEN LikersOf(d)
                                          ELSE IF r.had THEN LikersOf(c) \ {a} ELSE LikersOf(c) \cup {a}
  BY <1>1, <1>7 DEF LikersOf
<1>11. \A d \in Contents : IsFiniteSet(LikersOf(d)')
  BY <1>1, <1>10, FS_AddElement, FS_RemoveElement
<1>12. ASSUME c \notin crossed PROVE likes'[c] = Cardinality(LikersOf(c)')
  <2>1. likes[c] = Cardinality(LikersOf(c))
    BY <1>1, <1>12 DEF EngageInv, LikesInv
  <2>2. IF r.had THEN <<c, a>> \in likers ELSE <<c, a>> \notin likers
    BY <1>1, <1>12 DEF EngageInv, LikesInv, Toggles
  <2>3. Cardinality(LikersOf(c)) \in Nat
    BY <1>1, FS_CardinalityType
  <2>4. CASE r.had
    <3>1. a \in LikersOf(c)
      <4>1. <<c, a>> \in likers
        BY <2>2, <2>4, Zenon
      <4> QED BY <1>1, <4>1 DEF LikersOf
    <3>2. LikersOf(c)' = LikersOf(c) \ {a}
      BY <1>1, <1>10, <2>4
    <3>3. Cardinality(LikersOf(c) \ {a}) = Cardinality(LikersOf(c)) - 1
            /\ Cardinality(LikersOf(c) \ {a}) \in Nat
      BY <1>1, <3>1, FS_RemoveElement, FS_CardinalityType
    <3>4. Max({0, likes[c] - 1}) = likes[c] - 1
      BY <2>1, <2>3, <3>3, MaxZero
    <3>5. likes'[c] = Max({0, likes[c] - 1})
      BY <1>1, <1>7, <2>4 DEF EngageInv, EngageTypes
    <3> QED BY <2>1, <3>2, <3>3, <3>4, <3>5
  <2>5. CASE ~ r.had
    <3>1. a \notin LikersOf(c)
      <4>1. <<c, a>> \notin likers
        BY <2>2, <2>5, Zenon
      <4> QED BY <4>1 DEF LikersOf
    <3>2. LikersOf(c)' = LikersOf(c) \cup {a}
      BY <1>1, <1>10, <2>5
    <3>3. Cardinality(LikersOf(c) \cup {a}) = Cardinality(LikersOf(c)) + 1
      BY <1>1, <3>1, FS_AddElement
    <3>4. likes'[c] = likes[c] + 1
      BY <1>1, <1>7, <2>5 DEF EngageInv, EngageTypes
    <3> QED BY <2>1, <3>2, <3>3, <3>4
  <2> QED BY <2>4, <2>5
<1>13. ASSUME NEW d \in Contents, d \notin crossed PROVE likes'[d] = Cardinality(LikersOf(d)')
  <2>1. CASE d = c
    BY <1>12, <1>13, <2>1
  <2>2. CASE d # c
    BY <1>7, <1>10, <1>13, <2>2 DEF EngageInv, EngageTypes, LikesInv
  <2> QED BY <2>1, <2>2
<1>14. ASSUME NEW s \in Threads, req'[s].step = "like"
       PROVE  /\ req'[s].who \in People /\ req'[s].on \in Contents
              /\ req'[s].on \notin crossed =>
                   /\ IF req'[s].had THEN <<req'[s].on, req'[s].who>> \in likers'
                      ELSE <<req'[s].on, req'[s].who>> \notin likers'
                   /\ \A u \in Threads \ {s} :
                        req'[u].step = "like" /\ req'[u].on = req'[s].on => req'[u].who # req'[s].who
  <2>1. s # t /\ req'[s] = req[s]
    BY <1>4, <1>5, <1>14
  <2>2. /\ req[s].who \in People /\ req[s].on \in Contents
        /\ req[s].on \notin crossed =>
             /\ IF req[s].had THEN <<req[s].on, req[s].who>> \in likers
                  ELSE <<req[s].on, req[s].who>> \notin likers
             /\ \A u \in Threads \ {s} :
                  req[u].step = "like" /\ req[u].on = req[s].on => req[u].who # req[s].who
    BY <1>14, <2>1 DEF EngageInv, LikesInv, Toggles
  <2>3. req[s].on \notin crossed => <<req[s].on, req[s].who>> # <<c, a>>
    BY <1>1, <2>1, <2>2
  <2> QED BY <1>4, <1>5, <1>7, <2>1, <2>2, <2>3
<1>15. LikesInv'
  BY <1>1, <1>11, <1>13, <1>14 DEF LikesInv, Toggles
<1> QED BY <1>6, <1>9, <1>15 DEF EngageInv

-----------------------------------------------------------------------------
(* Views                                                                    *)

LEMMA WatchInv ==
    ASSUME EngageInv, NEW t \in Threads, NEW v \in Watchers, NEW c \in Contents,
           NEW via \in People \cup {Nobody}, Watch(t, v, c, via)
    PROVE  EngageInv'
<1> DEFINE k == Viewer(v)
           key == <<c, k>>
           r == [NoRequest EXCEPT !.step = "view", !.op = "view", !.who = v, !.on = c, !.via = via]
<1>1. /\ UNCHANGED <<likes, likers, crossed, recent>> /\ req[t].step = "idle"
      /\ key \notin viewed /\ viewed' = viewed \cup {key}
      /\ req' = [req EXCEPT ![t] = r] \/ req' = req
  BY DEF Watch, ViewKey, Serve, Proceed
<1>2. k \in Keys /\ key \in Contents \X Keys
  BY DEF Viewer, Keys
<1>3. r \in Requests /\ r.step = "view" /\ r.who = v /\ r.on = c
  BY DEF NoRequest, Requests, Kinds
<1> HIDE DEF r, k
<1>4. /\ req' \in [Threads -> Requests]
      /\ \A s \in Threads : s # t => req'[s] = req[s]
      /\ req'[t] \in {r, req[t]}
  BY <1>1, <1>3 DEF EngageInv, EngageTypes
<1>5. EngageTypes'
  BY <1>1, <1>2, <1>4 DEF EngageInv, EngageTypes
<1>6. LikesInv'
  <2>1. \A s \in Threads : /\ req'[s].step = "like" <=> req[s].step = "like"
                           /\ req[s].step = "like" => req'[s] = req[s]
    BY <1>1, <1>3, <1>4
  <2>2. \A d \in Contents : LikersOf(d)' = LikersOf(d)
    BY <1>1 DEF LikersOf
  <2> QED BY <1>1, <2>1, <2>2 DEF EngageInv, LikesInv, Toggles
<1>7. ASSUME NEW d \in Contents, NEW l \in Keys, <<d, l>> # key
      PROVE  Counting(d, l)' = Counting(d, l)
  BY <1>1, <1>3, <1>4, <1>7 DEF Counting, k
<1>8. Counting(c, k)' = Counting(c, k) \/ Counting(c, k)' = Counting(c, k) \cup {t}
  BY <1>1, <1>3, <1>4 DEF Counting
<1>9. ASSUME NEW d \in Contents, NEW l \in Keys
      PROVE  /\ IsFiniteSet(Counting(d, l)')
             /\ recent'[<<d, l>>] + Cardinality(Counting(d, l)') <=
                  IF <<d, l>> \in viewed' THEN 1 ELSE 0
  <2>1. /\ IsFiniteSet(Counting(d, l)) /\ recent[<<d, l>>] \in Int
        /\ recent[<<d, l>>] + Cardinality(Counting(d, l)) <= IF <<d, l>> \in viewed THEN 1 ELSE 0
    BY DEF EngageInv, ViewsInv, EngageTypes
  <2>2. Cardinality(Counting(d, l)) \in Nat
    BY <2>1, FS_CardinalityType
  <2>3. CASE <<d, l>> # key
    <3>1. Counting(d, l)' = Counting(d, l)
      BY <1>7, <2>3
    <3>2. <<d, l>> \in viewed' <=> <<d, l>> \in viewed
      BY <1>1, <2>3
    <3> QED BY <1>1, <2>1, <3>1, <3>2
  <2>4. CASE <<d, l>> = key
    <3>1. d = c /\ l = k /\ <<d, l>> \notin viewed /\ <<d, l>> \in viewed'
      BY <1>1, <2>4
    <3>2. recent[<<d, l>>] + Cardinality(Counting(d, l)) <= 0
      BY <2>1, <3>1
    <3>3. CASE Counting(c, k)' = Counting(c, k)
      BY <1>1, <2>1, <2>2, <3>1, <3>2, <3>3
    <3>4. CASE Counting(c, k)' = Counting(c, k) \cup {t}
      <4>1. /\ IsFiniteSet(Counting(c, k) \cup {t})
            /\ Cardinality(Counting(c, k) \cup {t}) \in Nat
            /\ Cardinality(Counting(c, k) \cup {t}) <= Cardinality(Counting(c, k)) + 1
        <5>1. IsFiniteSet(Counting(c, k)) /\ Cardinality(Counting(c, k)) \in Nat
          BY <2>1, <2>2, <3>1
        <5>2. IsFiniteSet(Counting(c, k) \cup {t})
          BY <5>1, FS_AddElement
        <5>3. Cardinality(Counting(c, k) \cup {t}) =
                IF t \in Counting(c, k) THEN Cardinality(Counting(c, k))
                ELSE Cardinality(Counting(c, k)) + 1
          BY <5>1, FS_AddElement
        <5> QED BY <5>1, <5>2, <5>3
      <4>2. Counting(d, l)' = Counting(c, k) \cup {t}
        BY <3>1, <3>4
      <4> QED BY <1>1, <2>1, <2>2, <3>1, <3>2, <4>1, <4>2
    <3> QED BY <1>8, <3>3, <3>4
  <2> QED BY <2>3, <2>4
<1>10. ASSUME NEW s \in Threads, req'[s].step = "view"
       PROVE  req'[s].who \in Watchers /\ req'[s].on \in Contents
  <2>1. CASE req'[s] = r
    BY <1>3, <2>1
  <2>2. CASE req'[s] = req[s]
    <3>1. Counts(s)
      BY <1>10, <2>2 DEF Counts
    <3> QED BY <2>2, <3>1 DEF EngageInv, ViewsInv
  <2>3. req'[s] = r \/ req'[s] = req[s]
    BY <1>4
  <2> QED BY <2>1, <2>2, <2>3
<1>11. ViewsInv'
  BY <1>9, <1>10 DEF ViewsInv, Counts
<1> QED BY <1>5, <1>6, <1>11 DEF EngageInv

LEMMA CountedInv ==
    ASSUME EngageInv, NEW t \in Threads, WatchCounted(t), NEW c \in Contents, NEW v \in Watchers,
           c = req[t].on, v = req[t].who
    PROVE  EngageInv'
<1> DEFINE k == Viewer(v)
           key == <<c, k>>
           r == req[t]
           grant == [r EXCEPT !.step = "grant"]
<1>1. /\ UNCHANGED <<likes, likers, crossed, viewed>> /\ r.step = "view"
      /\ recent' = [recent EXCEPT ![key] = recent[key] + 1]
      /\ req' = [req EXCEPT ![t] = grant] \/ req' = [req EXCEPT ![t] = NoRequest]
  BY DEF WatchCounted, Proceed, End
<1>2. k \in Keys /\ key \in Contents \X Keys
  BY DEF Viewer, Keys
<1>3. grant \in Requests /\ grant.step = "grant"
  BY DEF Requests, EngageInv, EngageTypes
<1> HIDE DEF grant, k
<1>4. PICK q \in Requests : q.step \in {"grant", "idle"} /\ req' = [req EXCEPT ![t] = q]
  BY <1>1, <1>3, Started
<1>5. req' \in [Threads -> Requests] /\ req'[t] = q
        /\ \A s \in Threads : s # t => req'[s] = req[s]
  BY <1>4 DEF EngageInv, EngageTypes
<1>6. recent[key] \in Int /\ recent' \in [Contents \X Keys -> Int]
        /\ \A l \in Contents \X Keys : recent'[l] = IF l = key THEN recent[key] + 1 ELSE recent[l]
  <2> HIDE DEF key
  <2> QED BY <1>1, <1>2 DEF EngageInv, EngageTypes
<1>7. EngageTypes'
  BY <1>1, <1>5, <1>6 DEF EngageInv, EngageTypes
<1>8. LikesInv'
  <2>1. \A s \in Threads : /\ req'[s].step = "like" <=> req[s].step = "like"
                           /\ req[s].step = "like" => req'[s] = req[s]
    BY <1>1, <1>4, <1>5
  <2>2. \A d \in Contents : LikersOf(d)' = LikersOf(d)
    BY <1>1 DEF LikersOf
  <2> QED BY <1>1, <2>1, <2>2 DEF EngageInv, LikesInv, Toggles
<1>9. ASSUME NEW d \in Contents, NEW l \in Keys, <<d, l>> # key
      PROVE  Counting(d, l)' = Counting(d, l)
  BY <1>1, <1>4, <1>5, <1>9 DEF Counting, k
<1>10. t \in Counting(c, k) /\ Counting(c, k)' = Counting(c, k) \ {t}
  BY <1>1, <1>4, <1>5 DEF Counting, k
<1>11. ASSUME NEW d \in Contents, NEW l \in Keys
       PROVE  /\ IsFiniteSet(Counting(d, l)')
              /\ recent'[<<d, l>>] + Cardinality(Counting(d, l)') <=
                   IF <<d, l>> \in viewed' THEN 1 ELSE 0
  <2>1. /\ IsFiniteSet(Counting(d, l)) /\ recent[<<d, l>>] \in Int
        /\ recent[<<d, l>>] + Cardinality(Counting(d, l)) <= IF <<d, l>> \in viewed THEN 1 ELSE 0
    BY DEF EngageInv, ViewsInv, EngageTypes
  <2>2. CASE <<d, l>> # key
    <3>1. Counting(d, l)' = Counting(d, l) /\ recent'[<<d, l>>] = recent[<<d, l>>]
      BY <1>6, <1>9, <2>2
    <3> QED BY <1>1, <2>1, <3>1
  <2>3. CASE <<d, l>> = key
    <3>1. d = c /\ l = k
      BY <2>3
    <3>2. /\ IsFiniteSet(Counting(d, l) \ {t})
          /\ Cardinality(Counting(d, l) \ {t}) = Cardinality(Counting(d, l)) - 1
          /\ Cardinality(Counting(d, l)) \in Nat
      BY <1>10, <2>1, <3>1, FS_RemoveElement, FS_CardinalityType
    <3>3. Counting(d, l)' = Counting(d, l) \ {t} /\ recent'[<<d, l>>] = recent[<<d, l>>] + 1
      BY <1>2, <1>6, <1>10, <2>3, <3>1
    <3> QED BY <1>1, <2>1, <3>2, <3>3
  <2> QED BY <2>2, <2>3
<1>12. ASSUME NEW s \in Threads, req'[s].step = "view"
       PROVE  req'[s].who \in Watchers /\ req'[s].on \in Contents
  BY <1>4, <1>5, <1>12 DEF EngageInv, ViewsInv, Counts
<1>13. ViewsInv'
  BY <1>11, <1>12 DEF ViewsInv, Counts
<1> QED BY <1>7, <1>8, <1>13 DEF EngageInv

-----------------------------------------------------------------------------
(* Time, restarts, and the administrator                                    *)

LEMMA HoursInv ==
    ASSUME EngageInv, NEW days \in BOOLEAN, HoursPass(days)
    PROVE  EngageInv'
<1>1. /\ UNCHANGED <<likes, likers, req, crossed>> /\ viewed' = {}
      /\ recent' = [key \in Contents \X Keys |-> - Cardinality(Counting(key[1], key[2]))]
  BY DEF HoursPass
<1>2. \A d \in Contents, l \in Keys : Counting(d, l)' = Counting(d, l)
  BY <1>1 DEF Counting
<1>3. ASSUME NEW d \in Contents, NEW l \in Keys
      PROVE  /\ IsFiniteSet(Counting(d, l)) /\ Cardinality(Counting(d, l)) \in Nat
             /\ recent'[<<d, l>>] = - Cardinality(Counting(d, l))
  BY <1>1, FS_CardinalityType DEF EngageInv, ViewsInv
<1>4. recent' \in [Contents \X Keys -> Int]
  <2>1. \A key \in Contents \X Keys : - Cardinality(Counting(key[1], key[2])) \in Int
    BY <1>3
  <2> QED BY <1>1, <2>1
<1>5. EngageTypes'
  BY <1>1, <1>4 DEF EngageInv, EngageTypes
<1>6. LikesInv'
  BY <1>1 DEF EngageInv, LikesInv, Toggles, LikersOf
<1>7. ASSUME NEW d \in Contents, NEW l \in Keys
      PROVE  recent'[<<d, l>>] + Cardinality(Counting(d, l)') <= 0
  <2>1. Counting(d, l)' = Counting(d, l)
    BY <1>2
  <2> QED BY <1>3, <2>1
<1>8. \A d \in Contents, l \in Keys : IsFiniteSet(Counting(d, l)')
  BY <1>2, <1>3
<1>9. \A s \in Threads : Counts(s)' => req'[s].who \in Watchers /\ req'[s].on \in Contents
  BY <1>1 DEF EngageInv, ViewsInv, Counts
<1>10. ViewsInv'
  BY <1>1, <1>7, <1>8, <1>9 DEF ViewsInv
<1> QED BY <1>5, <1>6, <1>10 DEF EngageInv

LEMMA RestartInv ==
    ASSUME EngageInv, Restart
    PROVE  EngageInv'
<1>1. /\ UNCHANGED <<likes, likers, crossed>> /\ viewed' = {}
      /\ recent' = [key \in Contents \X Keys |-> 0]
      /\ req' = [t \in Threads |-> NoRequest]
  BY DEF Restart
<1>2. EngageTypes'
  BY <1>1, Started DEF EngageInv, EngageTypes
<1>3. \A s \in Threads : req'[s].step = "idle"
  BY <1>1, Started
<1>4. \A d \in Contents : LikersOf(d)' = LikersOf(d)
  BY <1>1 DEF LikersOf
<1>5. LikesInv'
  BY <1>1, <1>3, <1>4 DEF EngageInv, LikesInv, Toggles
<1>6. ASSUME NEW d \in Contents, NEW l \in Keys
      PROVE  IsFiniteSet(Counting(d, l)') /\ recent'[<<d, l>>] + Cardinality(Counting(d, l)') = 0
  <2>1. Counting(d, l)' = {} /\ recent'[<<d, l>>] = 0
    BY <1>1, <1>3 DEF Counting
  <2>2. IsFiniteSet({}) /\ Cardinality({}) = 0
    BY FS_EmptySet
  <2>3. Cardinality(Counting(d, l)') = 0
    BY <2>1, <2>2
  <2> QED BY <2>1, <2>2, <2>3
<1>7. ViewsInv'
  BY <1>3, <1>6 DEF ViewsInv, Counts
<1> QED BY <1>2, <1>5, <1>7 DEF EngageInv

LEMMA Undisturbed ==
    ASSUME EngageInv, UNCHANGED <<counters, req, crossed, recent>>
    PROVE  EngageInv'
<1>1. /\ EngageTypes' /\ \A d \in Contents : LikersOf(d)' = LikersOf(d)
      /\ \A d \in Contents, l \in Keys : Counting(d, l)' = Counting(d, l)
  BY DEF EngageInv, EngageTypes, counters, LikersOf, Counting
<1>2. LikesInv'
  BY <1>1 DEF EngageInv, LikesInv, Toggles, counters
<1>3. ViewsInv'
  BY <1>1 DEF EngageInv, ViewsInv, Counts, counters
<1> QED BY <1>1, <1>2, <1>3 DEF EngageInv

LEMMA EngageStepInv == EngageInv /\ [EngageNext]_engaged => EngageInv'
<1> SUFFICES ASSUME EngageInv, [EngageNext]_engaged PROVE EngageInv'
  OBVIOUS
<1>1. CASE UNCHANGED engaged \/ (\E c \in Contents : Publish(c)) \/ \E a \in People : BecomeEligible(a)
  BY <1>1, Undisturbed DEF engaged, Publish, BecomeEligible
<1>2. ASSUME NEW t \in Threads, LikeWrite(t) PROVE EngageInv'
  <2>1. req[t].on \in Contents /\ req[t].who \in People
    BY <1>2 DEF LikeWrite, EngageInv, LikesInv, Toggles
  <2> QED BY <1>2, <2>1, LikeWriteInv
<1>3. ASSUME NEW t \in Threads, WatchCounted(t) PROVE EngageInv'
  <2>1. req[t].on \in Contents /\ req[t].who \in Watchers
    BY <1>3 DEF WatchCounted, EngageInv, ViewsInv, Counts
  <2> QED BY <1>3, <2>1, CountedInv
<1>4. ASSUME NEW t \in Threads, Request(t) PROVE EngageInv'
  BY <1>4, LikeInv, BeginsInv, WatchInv DEF Request
<1>5. ASSUME NEW t \in Threads, Handling(t) PROVE EngageInv'
  BY <1>2, <1>3, <1>5, OtherStepsInv DEF Handling
<1> QED BY <1>1, <1>4, <1>5, HoursInv, RestartInv DEF EngageNext, Outside

(* The counter of likes is the number of rows, through every order of       *)
(* toggles that do not cross, and a viewer counts once for a video until    *)
(* _seen_view is emptied (toggle_like, record_watch), for any number of     *)
(* people, videos and request threads.                                      *)
THEOREM CountersExact == PointsSpec => []EngagementExact
<1>1. PointsInit => EngageInv
  BY EngageInitInv DEF PointsInit
<1>2. EngageInv /\ [PointsNext]_<<part, vars, engaged>> => EngageInv'
  <2>1. [PointsNext]_<<part, vars, engaged>> => [EngageNext]_engaged
    BY DEF PointsNext
  <2> QED BY <2>1, EngageStepInv
<1>3. EngageInv => EngagementExact
  <2> SUFFICES ASSUME EngageInv PROVE LikesExact /\ ViewsOncePerViewer
    BY DEF EngagementExact
  <2>1. LikesExact
    BY DEF EngageInv, LikesInv, LikesExact, LikersOf
  <2>2. ASSUME NEW key \in Contents \X Keys PROVE recent[key] <= 1
    <3>1. PICK c \in Contents, k \in Keys : key = <<c, k>>
      OBVIOUS
    <3>2. /\ IsFiniteSet(Counting(c, k)) /\ recent[<<c, k>>] \in Int
          /\ recent[<<c, k>>] + Cardinality(Counting(c, k)) <= 1
      <4>1. IsFiniteSet(Counting(c, k))
        BY DEF EngageInv, ViewsInv
      <4>2. recent[<<c, k>>] \in Int
        BY DEF EngageInv, EngageTypes
      <4>3. recent[<<c, k>>] + Cardinality(Counting(c, k)) <= IF <<c, k>> \in viewed THEN 1 ELSE 0
        BY DEF EngageInv, ViewsInv
      <4>4. Cardinality(Counting(c, k)) \in Nat
        BY <4>1, FS_CardinalityType
      <4> QED BY <4>1, <4>2, <4>3, <4>4
    <3>3. Cardinality(Counting(c, k)) \in Nat
      BY <3>2, FS_CardinalityType
    <3> QED BY <3>1, <3>2, <3>3
  <2> QED BY <2>1, <2>2 DEF ViewsOncePerViewer
<1> QED BY <1>1, <1>2, <1>3, PTL DEF PointsSpec

-----------------------------------------------------------------------------
(***************************************************************************)
(* What the four pipelines may pay.  Types first: threads, the transfer    *)
(* that holds the lock, tables.                                            *)
(***************************************************************************)
Engaged == {"send", "sending", "sent", "unsent"}

JobsTyped ==
    /\ DOMAIN job = Pipelines
    /\ \A k \in Pipelines :
         /\ IsJob(job[k])
         /\ job[k].stage \in Engaged =>
              job[k].acct \in Accounts /\ job[k].to \in Accounts /\ job[k].amt \in Nat

XferFields == {"by", "step", "to", "amt", "b0", "nonce"}

XferTyped ==
    /\ DOMAIN xfer = XferFields /\ xfer.by \in Pipelines \cup {"nobody"}
    /\ xfer.by = "nobody" => xfer.step = "none"
    /\ \A k \in Pipelines : job[k].stage = "sending" <=> xfer.by = k
    /\ xfer.by # "nobody" =>
         xfer.to = job[xfer.by].to /\ xfer.amt = job[xfer.by].amt /\ xfer.b0 \in Nat

RefType == [by : Accounts \cup {NoAccount}, qualified : BOOLEAN, rewarded : BOOLEAN, sent : BOOLEAN]

TablesTyped ==
    /\ earned \in [Accounts -> Int] /\ peak \in [Accounts -> Int]
    /\ paid \in [Accounts -> Int] /\ awards \in [Accounts -> Nat]
    /\ unsettled \in [Accounts -> Nat] /\ points \in [Accounts -> PointsType]
    /\ refs \in [Accounts -> RefType] /\ runs \in [Pipelines -> Nat]
    /\ wallet \in [Accounts -> Nat] /\ landed \in [Accounts -> Nat]
    /\ \A t \in queued : t.to \in Accounts /\ t.amt \in Nat

PointsShares ==
    /\ J.stage # "idle" => J.share \in [Accounts -> Nat] /\ J.todo \subseteq Accounts
    /\ J.stage # "idle" /\ mode = "proportional" =>
         \A a \in J.todo : 0 < J.share[a] /\ J.share[a] <= unsettled[a]
    /\ J.stage \in Engaged => J.undo \in Int

C == job["challenge"]
ChallengeShares ==
    C.stage # "idle" =>
      C.todo \subseteq Accounts /\ \A a \in C.todo : a \in DOMAIN C.share /\ C.share[a] \in Nat

PayTypes == JobsTyped /\ XferTyped /\ TablesTyped /\ PointsShares /\ ChallengeShares

(***************************************************************************)
(* The budget: while a run goes on, what it has not come to yet is within  *)
(* the budget too.                                                         *)
(***************************************************************************)
Settled == SumFunction([a \in Accounts |-> points[a].morm])
SnapTotal == SumFunctionOnSet(J.share, Accounts)

BudgetInv ==
    mode = "proportional" =>
      /\ Settled <= Budget * runs["points"]
      /\ J.stage # "idle" =>
           Settled * SnapTotal + Budget * SumFunctionOnSet(J.share, J.todo)
             <= (Budget * runs["points"]) * SnapTotal

(***************************************************************************)
(* Payments: every thread that sends, or has given up, stands for a        *)
(* booking that has not landed, unless its transfer has been sealed.       *)
(***************************************************************************)
Arrived == xfer.step = "poll" /\ Tx(xfer) \notin queued /\ wallet[xfer.to] >= xfer.b0 + xfer.amt

OpenFor(k, w) ==
    IF /\ job[k].to = w
       /\ job[k].stage \in {"send", "unsent"} \/ (job[k].stage = "sending" /\ ~ Arrived)
    THEN job[k].amt ELSE 0
Open(w) == OpenFor("payout", w) + OpenFor("referral", w) + OpenFor("points", w) + OpenFor("challenge", w)

Covered == \A w \in Accounts : landed[w] + Open(w) <= Booked(w)
Mine(t) == xfer.step = "poll" /\ t = Tx(xfer)
Orphans == \A t \in queued : Mine(t) \/ landed[t.to] + Open(t.to) + t.amt <= Booked(t.to)

Destined(k) == job[k].stage \in Underway => job[k].to = Dest[job[k].acct]
AwardHeld == C.stage \in Underway => awards[C.acct] = C.amt

R == job["referral"]
ReferralHeld ==
    /\ R.stage # "idle" =>
         \A e \in R.todo : e \in Accounts /\ ~ refs[e].rewarded /\ refs[e].by # NoAccount
    /\ R.stage \in Engaged =>
         /\ refs[R.acct].by # NoAccount /\ R.amt = Bonus
         /\ R.leg = "referee" => R.to = R.acct /\ refs[R.acct].rewarded /\ ~ refs[R.acct].sent
RefsHeld == \A e \in Accounts :
    (refs[e].by = NoAccount => ~ refs[e].rewarded) /\ (refs[e].sent => refs[e].rewarded)

ClaimsHeld ==
    /\ Destined("payout") /\ Destined("points") /\ Destined("challenge")
    /\ AwardHeld /\ ReferralHeld /\ RefsHeld

MoneyInv ==
    /\ \A a \in Accounts : paid[a] <= peak[a]
    /\ ClaimsHeld
    /\ Calm => /\ xfer.by # "nobody" => wallet[xfer.to] >= xfer.b0
               /\ Covered /\ Orphans

PayInv == PayTypes /\ BudgetInv /\ MoneyInv

-----------------------------------------------------------------------------
(* What the four ways to move a thread do to its record                     *)

LEMMA GotoFields ==
    ASSUME JobsTyped, NEW k \in Pipelines, NEW s, Goto(k, s)
    PROVE  /\ DOMAIN job' = Pipelines /\ \A l \in Pipelines \ {k} : job'[l] = job[l]
           /\ IsJob(job'[k]) /\ job'[k].stage = s
           /\ job'[k].acct = job[k].acct /\ job'[k].to = job[k].to /\ job'[k].amt = job[k].amt
           /\ job'[k].todo = job[k].todo /\ job'[k].share = job[k].share
           /\ job'[k].undo = job[k].undo /\ job'[k].leg = job[k].leg
<1>1. job' = [job EXCEPT ![k].stage = s] /\ DOMAIN job = Pipelines /\ IsJob(job[k])
  BY DEF Goto, JobsTyped
<1>2. DOMAIN job' = Pipelines /\ \A l \in Pipelines \ {k} : job'[l] = job[l]
  BY <1>1
<1>3. job'[k] = [job[k] EXCEPT !.stage = s]
  BY <1>1
<1> QED BY <1>1, <1>2, <1>3 DEF IsJob, Fields

LEMMA SendFields ==
    ASSUME JobsTyped, NEW k \in Pipelines, NEW j, IsJob(j), NEW a, NEW to, NEW amt,
           Send(k, j, a, to, amt)
    PROVE  /\ DOMAIN job' = Pipelines /\ \A l \in Pipelines \ {k} : job'[l] = job[l]
           /\ IsJob(job'[k]) /\ job'[k].stage = "send"
           /\ job'[k].acct = a /\ job'[k].to = to /\ job'[k].amt = amt
           /\ job'[k].todo = j.todo /\ job'[k].share = j.share
           /\ job'[k].undo = j.undo /\ job'[k].leg = j.leg
<1> DEFINE sent == [j EXCEPT !.stage = "send", !.acct = a, !.to = to, !.amt = amt]
<1>1. job' = [job EXCEPT ![k] = sent] /\ DOMAIN job = Pipelines
  BY DEF Send, JobsTyped
<1>2. /\ IsJob(sent) /\ sent.stage = "send" /\ sent.acct = a /\ sent.to = to /\ sent.amt = amt
      /\ sent.todo = j.todo /\ sent.share = j.share /\ sent.undo = j.undo /\ sent.leg = j.leg
  BY DEF IsJob, Fields
<1> HIDE DEF sent
<1>3. DOMAIN job' = Pipelines /\ job'[k] = sent /\ \A l \in Pipelines \ {k} : job'[l] = job[l]
  BY <1>1
<1> QED BY <1>2, <1>3

LEMMA ContinueFields ==
    ASSUME JobsTyped, NEW k \in Pipelines, Continue(k)
    PROVE  /\ DOMAIN job' = Pipelines /\ \A l \in Pipelines \ {k} : job'[l] = job[l]
           /\ IsJob(job'[k]) /\ job'[k].stage = "next"
           /\ job'[k].todo = job[k].todo /\ job'[k].share = job[k].share
<1> DEFINE on == [Idle EXCEPT !.stage = "next", !.todo = job[k].todo, !.share = job[k].share]
<1>1. job' = [job EXCEPT ![k] = on] /\ DOMAIN job = Pipelines
  BY DEF Continue, JobsTyped
<1>2. IsJob(Idle)
  BY DEF IsJob, Fields, Idle
<1>3. IsJob(on) /\ on.stage = "next" /\ on.todo = job[k].todo /\ on.share = job[k].share
  BY <1>2 DEF IsJob, Fields
<1> HIDE DEF on
<1>4. DOMAIN job' = Pipelines /\ job'[k] = on /\ \A l \in Pipelines \ {k} : job'[l] = job[l]
  BY <1>1
<1> QED BY <1>3, <1>4

LEMMA IdleIs == IsJob(Idle) /\ Idle.stage = "idle"
BY DEF IsJob, Fields, Idle

LEMMA StopFields ==
    ASSUME JobsTyped, NEW k \in Pipelines, Stop(k)
    PROVE  /\ DOMAIN job' = Pipelines /\ \A l \in Pipelines \ {k} : job'[l] = job[l]
           /\ IsJob(job'[k]) /\ job'[k].stage = "idle"
<1>1. job' = [job EXCEPT ![k] = Idle] /\ DOMAIN job = Pipelines
  BY DEF Stop, JobsTyped
<1> QED BY <1>1, IdleIs

\* An account less to go through, and nothing else
LEMMA SkipFields ==
    ASSUME JobsTyped, NEW k \in Pipelines, NEW a, job' = [job EXCEPT ![k].todo = @ \ {a}]
    PROVE  /\ DOMAIN job' = Pipelines /\ \A l \in Pipelines \ {k} : job'[l] = job[l]
           /\ IsJob(job'[k]) /\ job'[k].stage = job[k].stage
           /\ job'[k].acct = job[k].acct /\ job'[k].to = job[k].to /\ job'[k].amt = job[k].amt
           /\ job'[k].todo = job[k].todo \ {a} /\ job'[k].share = job[k].share
           /\ job'[k].undo = job[k].undo /\ job'[k].leg = job[k].leg
<1>1. DOMAIN job = Pipelines /\ IsJob(job[k])
  BY DEF JobsTyped
<1>2. DOMAIN job' = Pipelines /\ \A l \in Pipelines \ {k} : job'[l] = job[l]
  BY <1>1
<1>3. job'[k] = [job[k] EXCEPT !.todo = @ \ {a}]
  BY <1>1
<1> QED BY <1>1, <1>2, <1>3 DEF IsJob, Fields

-----------------------------------------------------------------------------
(* A step of one thread, outside of its transfer                            *)

OwnStep(k) ==
    /\ UNCHANGED xfer
    /\ DOMAIN job' = Pipelines /\ \A l \in Pipelines \ {k} : job'[l] = job[l]
    /\ IsJob(job'[k]) /\ job'[k].stage # "sending" /\ job[k].stage # "sending"
    /\ job'[k].stage \in Engaged =>
         job'[k].acct \in Accounts /\ job'[k].to \in Accounts /\ job'[k].amt \in Nat

LEMMA OwnJobs ==
    ASSUME JobsTyped, XferTyped, NEW k \in Pipelines, OwnStep(k)
    PROVE  JobsTyped' /\ XferTyped'
<1>1. JobsTyped'
  BY DEF JobsTyped, OwnStep
<1>2. \A l \in Pipelines : job'[l].stage = "sending" <=> xfer.by = l
  BY DEF XferTyped, OwnStep
<1>3. xfer.by # "nobody" => job'[xfer.by] = job[xfer.by]
  BY DEF XferTyped, OwnStep
<1>4. XferTyped'
  BY <1>2, <1>3 DEF XferTyped, OwnStep
<1> QED BY <1>1, <1>4

LEMMA OpenTyped ==
    ASSUME JobsTyped, NEW w \in Accounts
    PROVE  (\A k \in Pipelines : OpenFor(k, w) \in Nat) /\ Open(w) \in Nat
<1>1. \A k \in Pipelines : OpenFor(k, w) \in Nat
  BY DEF JobsTyped, OpenFor, Engaged
<1> QED BY <1>1 DEF Open, Pipelines

\* What a thread books it adds to what may land; what it puts back it takes off.
Sends(k, w) == IF job'[k].stage = "send" /\ job'[k].to = w THEN job'[k].amt ELSE 0
PutsBack(k, w) == IF job[k].stage = "unsent" /\ job[k].to = w THEN job[k].amt ELSE 0

LEMMA OwnOpen ==
    ASSUME JobsTyped, NEW k \in Pipelines, OwnStep(k), NEW w \in Accounts,
           UNCHANGED <<wallet, queued>>, job[k].stage # "send", job'[k].stage # "unsent"
    PROVE  Open(w)' = Open(w) + Sends(k, w) - PutsBack(k, w) /\ Sends(k, w) \in Nat /\ PutsBack(k, w) \in Nat
<1>0. Arrived' <=> Arrived
  BY DEF Arrived, OwnStep, Tx
<1>1. \A l \in Pipelines \ {k} : OpenFor(l, w)' = OpenFor(l, w)
  <2> SUFFICES ASSUME NEW l \in Pipelines \ {k} PROVE OpenFor(l, w)' = OpenFor(l, w)
    OBVIOUS
  <2>1. job'[l] = job[l]
    BY DEF OwnStep
  <2> QED BY <1>0, <2>1 DEF OpenFor
<1>2. OpenFor(k, w) = PutsBack(k, w) /\ OpenFor(k, w)' = Sends(k, w)
  BY DEF OpenFor, PutsBack, Sends, OwnStep
<1>3. JobsTyped'
  BY DEF JobsTyped, OwnStep
<1>4. (\A l \in Pipelines : OpenFor(l, w) \in Nat) /\ OpenFor(k, w)' \in Nat
  <2>1. \A l \in Pipelines : OpenFor(l, w) \in Nat
    BY OpenTyped
  <2>2. OpenFor(k, w)' \in Nat
    BY <1>3 DEF JobsTyped, OpenFor, Engaged
  <2> QED BY <2>1, <2>2
<1> QED
  BY <1>1, <1>2, <1>4 DEF Open, Pipelines

LEMMA OwnMoney ==
    ASSUME JobsTyped, TablesTyped, NEW k \in Pipelines, OwnStep(k), Covered, Orphans,
           UNCHANGED <<wallet, landed, queued>>, job[k].stage # "send", job'[k].stage # "unsent",
           \A w \in Accounts : /\ Booked(w) \in Int /\ Booked(w)' \in Int
                               /\ Booked(w)' >= Booked(w) + Sends(k, w) - PutsBack(k, w)
    PROVE  Covered' /\ Orphans'
<1>1. \A w \in Accounts : landed'[w] = landed[w] /\ landed[w] \in Int /\ Open(w) \in Nat
  BY OpenTyped DEF TablesTyped
<1>2. \A w \in Accounts : /\ Open(w)' = Open(w) + Sends(k, w) - PutsBack(k, w)
                          /\ Sends(k, w) \in Nat /\ PutsBack(k, w) \in Nat
  BY OwnOpen
<1>3. \A w \in Accounts : Booked(w)' - Open(w)' >= Booked(w) - Open(w) /\ Open(w)' \in Int
  BY <1>1, <1>2
<1>4. Covered'
  BY <1>1, <1>3 DEF Covered
<1>5. \A t \in queued : t.to \in Accounts /\ t.amt \in Nat
  BY DEF TablesTyped
<1>6. \A t \in queued : Mine(t)' <=> Mine(t)
  BY DEF Mine, OwnStep, Tx
<1>7. ASSUME NEW t \in queued PROVE Mine(t)' \/ landed'[t.to] + Open(t.to)' + t.amt <= Booked(t.to)'
  <2>1. CASE Mine(t)
    BY <1>6, <2>1
  <2>2. CASE landed[t.to] + Open(t.to) + t.amt <= Booked(t.to)
    BY <1>1, <1>3, <1>5, <2>2
  <2> QED BY <2>1, <2>2 DEF Orphans
<1>8. Orphans'
  BY <1>7 DEF Orphans
<1> QED BY <1>4, <1>8
-----------------------------------------------------------------------------
(* What a wallet has been booked, and how a step changes it                 *)

Column(a) == paid[a] + points[a].morm + awards[a]
Feeders(w) == {a \in Accounts : Dest[a] = w}
Welcomed(w) == {e \in {w} : refs[e].rewarded}
Brought(w) == {e \in Accounts : refs[e].by = w /\ refs[e].sent}

LEMMA BookedIs ==
    ASSUME NEW w
    PROVE  Booked(w) = SumFunctionOnSet([a \in Feeders(w) |-> Column(a)], Feeders(w))
                         + Bonus * Cardinality(Welcomed(w)) + Bonus * Cardinality(Brought(w))
BY DEF Booked, Column, Feeders, Welcomed, Brought, SumFunction

LEMMA BookedParts ==
    ASSUME TablesTyped, NEW w \in Accounts
    PROVE  /\ IsFiniteSet(Feeders(w)) /\ \A a \in Accounts : Column(a) \in Int
           /\ SumFunctionOnSet([a \in Feeders(w) |-> Column(a)], Feeders(w)) \in Int
           /\ Bonus * Cardinality(Welcomed(w)) \in Int /\ Bonus * Cardinality(Brought(w)) \in Int
           /\ Booked(w) \in Int
<1>1. IsFiniteSet(Feeders(w)) /\ IsFiniteSet(Brought(w)) /\ IsFiniteSet(Welcomed(w))
  <2>1. IsFiniteSet(Accounts) /\ IsFiniteSet({w})
    BY RewardsAssumption, FS_Singleton
  <2>2. Feeders(w) \subseteq Accounts /\ Brought(w) \subseteq Accounts /\ Welcomed(w) \subseteq {w}
    BY DEF Feeders, Brought, Welcomed
  <2> QED BY <2>1, <2>2, FS_Subset
<1>2. \A a \in Accounts : Column(a) \in Int
  BY DEF TablesTyped, Column, PointsType
<1>3. SumFunctionOnSet([a \in Feeders(w) |-> Column(a)], Feeders(w)) \in Int
  <2> DEFINE f == [a \in Feeders(w) |-> Column(a)]
  <2>1. \A a \in Feeders(w) : f[a] \in Int
    BY <1>2 DEF Feeders
  <2> HIDE DEF f
  <2> QED BY <1>1, <2>1, SumInt DEF f
<1>4. Cardinality(Welcomed(w)) \in Nat /\ Cardinality(Brought(w)) \in Nat /\ Bonus \in Nat
  BY <1>1, FS_CardinalityType, RewardsAssumption
<1>5. Bonus * Cardinality(Welcomed(w)) \in Int /\ Bonus * Cardinality(Brought(w)) \in Int
  BY <1>4
<1> QED BY <1>1, <1>2, <1>3, <1>5, BookedIs

\* The same of the next state.
AllBooked == \A w \in Accounts : Booked(w) \in Int

LEMMA BookedNow == TablesTyped => AllBooked
BY BookedParts DEF AllBooked

LEMMA BookedThen == TablesTyped' => AllBooked'
BY BookedNow, PTL

LEMMA BookedSame ==
    ASSUME UNCHANGED books, NEW w
    PROVE  Booked(w)' = Booked(w)
BY DEF books, Booked

\* The column of one account changes.
LEMMA BookedColumn ==
    ASSUME TablesTyped, TablesTyped', UNCHANGED refs, NEW a \in Accounts,
           \A b \in Accounts \ {a} : Column(b)' = Column(b), NEW w \in Accounts
    PROVE  Booked(w)' = Booked(w) + IF Dest[a] = w THEN Column(a)' - Column(a) ELSE 0
<1> DEFINE S == Feeders(w)
           f == [b \in S |-> Column(b)]
           g == [b \in S |-> Column(b)']
<1>1. /\ IsFiniteSet(S) /\ S \subseteq Accounts /\ S' = S
      /\ \A b \in S : f[b] = Column(b) /\ f[b] \in Int
      /\ \A b \in S : g[b] = Column(b)' /\ g[b] \in Int
  <2>1. IsFiniteSet(S) /\ S \subseteq Accounts /\ S' = S
    BY BookedParts DEF Feeders
  <2>2. \A b \in Accounts : Column(b) \in Int /\ Column(b)' \in Int
    BY DEF TablesTyped, Column, PointsType
  <2> QED BY <2>1, <2>2
<1>2. a \in S <=> Dest[a] = w
  BY DEF Feeders
<1>3. /\ Booked(w) = SumFunctionOnSet(f, S)
                       + Bonus * Cardinality(Welcomed(w)) + Bonus * Cardinality(Brought(w))
      /\ Booked(w)' = SumFunctionOnSet(g, S)
                        + Bonus * Cardinality(Welcomed(w)) + Bonus * Cardinality(Brought(w))
  BY DEF Booked, Column, Feeders, Welcomed, Brought, SumFunction
<1>4. /\ SumFunctionOnSet(f, S) \in Int /\ Bonus * Cardinality(Welcomed(w)) \in Int
      /\ Bonus * Cardinality(Brought(w)) \in Int
  BY BookedParts
<1> HIDE DEF S, f, g
<1>5. CASE a \in S
  <2>1. SumFunctionOnSet(g, S) = SumFunctionOnSet(f, S) - f[a] + g[a]
    <3>1. (\A b \in S : f[b] \in Int) /\ (\A b \in S : g[b] \in Int) /\ \A b \in S \ {a} : g[b] = f[b]
      BY <1>1
    <3> QED BY <1>1, <1>5, <3>1, SumChange
  <2> QED BY <1>1, <1>2, <1>3, <1>4, <1>5, <2>1
<1>6. CASE a \notin S
  <2>1. SumFunctionOnSet(f, S) = SumFunctionOnSet(g, S)
    <3>1. \A b \in S : f[b] = g[b]
      BY <1>1, <1>6
    <3> QED BY <1>1, <3>1, SumEqual
  <2> QED BY <1>2, <1>3, <1>4, <1>6, <2>1
<1> QED BY <1>5, <1>6

\* A referral is claimed or put back: one account's welcome.
LEMMA BookedWelcome ==
    ASSUME TablesTyped, UNCHANGED <<paid, points, awards>>, NEW e \in Accounts,
           \A d \in Accounts : refs'[d].by = refs[d].by /\ refs'[d].sent = refs[d].sent,
           \A d \in Accounts \ {e} : refs'[d].rewarded = refs[d].rewarded,
           refs'[e].rewarded <=> ~ refs[e].rewarded, NEW w \in Accounts
    PROVE  Booked(w)' = Booked(w) + IF e # w THEN 0 ELSE IF refs'[e].rewarded THEN Bonus ELSE - Bonus
<1> DEFINE sum == SumFunctionOnSet([a \in Feeders(w) |-> Column(a)], Feeders(w))
<1>1. sum' = sum /\ Brought(w)' = Brought(w)
  <2>1. sum' = sum
    BY DEF Column, Feeders
  <2>2. Brought(w)' = Brought(w)
    BY DEF Brought
  <2> QED BY <2>1, <2>2
<1>2. /\ Booked(w) = sum + Bonus * Cardinality(Welcomed(w)) + Bonus * Cardinality(Brought(w))
      /\ Booked(w)' = sum + Bonus * Cardinality(Welcomed(w)') + Bonus * Cardinality(Brought(w))
  <2>1. Booked(w)' = (sum + Bonus * Cardinality(Welcomed(w)) + Bonus * Cardinality(Brought(w)))'
    BY DEF Booked, Column, Feeders, Welcomed, Brought, SumFunction
  <2> QED BY <1>1, <2>1, BookedIs
<1>3. sum \in Int /\ Bonus \in Nat /\ Bonus * Cardinality(Brought(w)) \in Int
  BY BookedParts, RewardsAssumption
<1> HIDE DEF sum
<1>4. CASE e # w
  <2>1. Welcomed(w)' = Welcomed(w)
    BY <1>4 DEF Welcomed
  <2>2. Bonus * Cardinality(Welcomed(w)) \in Int
    BY BookedParts
  <2> QED BY <1>2, <1>3, <1>4, <2>1, <2>2
<1>5. CASE e = w
  <2>1. /\ Welcomed(w) = IF refs[e].rewarded THEN {w} ELSE {}
        /\ Welcomed(w)' = IF refs'[e].rewarded THEN {w} ELSE {}
    BY <1>5 DEF Welcomed
  <2>2. Cardinality({w}) = 1 /\ Cardinality({}) = 0
    BY FS_Singleton, FS_EmptySet
  <2>3. CASE refs[e].rewarded
    <3>1. Cardinality(Welcomed(w)) = 1 /\ Cardinality(Welcomed(w)') = 0 /\ ~ refs'[e].rewarded
      BY <2>1, <2>2, <2>3
    <3> QED BY <1>2, <1>3, <1>5, <3>1
  <2>4. CASE ~ refs[e].rewarded
    <3>1. Cardinality(Welcomed(w)) = 0 /\ Cardinality(Welcomed(w)') = 1 /\ refs'[e].rewarded
      BY <2>1, <2>2, <2>4
    <3> QED BY <1>2, <1>3, <1>5, <3>1
  <2> QED BY <2>3, <2>4
<1> QED BY <1>4, <1>5

\* The referrer's leg is marked as sent.
LEMMA BookedBrought ==
    ASSUME TablesTyped, UNCHANGED <<paid, points, awards>>, NEW e \in Accounts,
           \A d \in Accounts : refs'[d].by = refs[d].by /\ refs'[d].rewarded = refs[d].rewarded,
           \A d \in Accounts \ {e} : refs'[d].sent = refs[d].sent,
           refs'[e].sent, ~ refs[e].sent, NEW w \in Accounts
    PROVE  Booked(w)' = Booked(w) + IF refs[e].by = w THEN Bonus ELSE 0
<1> DEFINE sum == SumFunctionOnSet([a \in Feeders(w) |-> Column(a)], Feeders(w))
<1>1. sum' = sum /\ Welcomed(w)' = Welcomed(w)
  <2>1. sum' = sum
    BY DEF Column, Feeders
  <2>2. Welcomed(w)' = Welcomed(w)
    BY DEF Welcomed
  <2> QED BY <2>1, <2>2
<1>2. /\ Booked(w) = sum + Bonus * Cardinality(Welcomed(w)) + Bonus * Cardinality(Brought(w))
      /\ Booked(w)' = sum + Bonus * Cardinality(Welcomed(w)) + Bonus * Cardinality(Brought(w)')
  <2>1. Booked(w)' = (sum + Bonus * Cardinality(Welcomed(w)) + Bonus * Cardinality(Brought(w)))'
    BY DEF Booked, Column, Feeders, Welcomed, Brought, SumFunction
  <2> QED BY <1>1, <2>1, BookedIs
<1>3. sum \in Int /\ Bonus \in Nat /\ Bonus * Cardinality(Welcomed(w)) \in Int /\ Bonus * Cardinality(Brought(w)) \in Int
  BY BookedParts, RewardsAssumption
<1> HIDE DEF sum
<1>4. CASE refs[e].by # w
  <2>1. Brought(w)' = Brought(w)
    BY <1>4 DEF Brought
  <2> QED BY <1>2, <1>3, <1>4, <2>1
<1>5. CASE refs[e].by = w
  <2>1. Brought(w)' = Brought(w) \cup {e} /\ e \notin Brought(w)
    BY <1>5 DEF Brought
  <2>2. IsFiniteSet(Brought(w))
    <3>1. Brought(w) \subseteq Accounts
      BY DEF Brought
    <3> QED BY <3>1, FS_Subset, RewardsAssumption
  <2>3. Cardinality(Brought(w)') = Cardinality(Brought(w)) + 1 /\ Cardinality(Brought(w)) \in Nat
    BY <2>1, <2>2, FS_AddElement, FS_CardinalityType
  <2>4. Bonus * (Cardinality(Brought(w)) + 1) = Bonus * Cardinality(Brought(w)) + Bonus
    BY <1>3, <2>3
  <2> QED BY <1>2, <1>3, <1>5, <2>3, <2>4
<1> QED BY <1>4, <1>5

-----------------------------------------------------------------------------
(* What a step of a pipeline leaves to the others                           *)

\* The settlement and its books stand still.
LEMMA PointsApart ==
    ASSUME TablesTyped, PointsShares, BudgetInv, J' = J,
           UNCHANGED <<unsettled, points, mode>>, runs'["points"] = runs["points"]
    PROVE  PointsShares' /\ BudgetInv'
<1>1. PointsShares'
  BY DEF PointsShares
<1>2. Settled' = Settled /\ SnapTotal' = SnapTotal
  BY DEF Settled, SnapTotal
<1>3. BudgetInv'
  BY <1>2 DEF BudgetInv
<1> QED BY <1>1, <1>3

\* Started pipelines are counted.
LEMMA StartCounts ==
    ASSUME TablesTyped, NEW k \in Pipelines, MayStart(k)
    PROVE  /\ runs' \in [Pipelines -> Nat] /\ job[k].stage = "idle"
           /\ runs'[k] = runs[k] + 1 /\ \A l \in Pipelines \ {k} : runs'[l] = runs[l]
BY DEF TablesTyped, MayStart

\* A step of a pipeline that is not the settlement: what it has to show.
LEMMA OtherPipeline ==
    ASSUME PayInv, NEW k \in {"payout", "referral", "challenge"}, OwnStep(k),
           job[k].stage # "send", job'[k].stage # "unsent",
           UNCHANGED <<unsettled, points, wallet, landed, queued, mode>>,
           runs'["points"] = runs["points"], TablesTyped',
           \A b \in Accounts : paid'[b] <= peak'[b],
           k # "referral" => UNCHANGED refs /\ Destined(k)',
           k = "referral" => ReferralHeld' /\ RefsHeld',
           k # "challenge" => UNCHANGED awards,
           k = "challenge" => ChallengeShares' /\ AwardHeld',
           \A w \in Accounts : Booked(w)' >= Booked(w) + Sends(k, w) - PutsBack(k, w)
    PROVE  PayInv'
<1>1. /\ JobsTyped /\ XferTyped /\ TablesTyped /\ PointsShares /\ ChallengeShares /\ BudgetInv
      /\ ClaimsHeld /\ k \in Pipelines /\ UNCHANGED xfer
  BY DEF PayInv, PayTypes, MoneyInv, Pipelines, OwnStep
<1>2. JobsTyped' /\ XferTyped'
  BY <1>1, OwnJobs
<1>3. /\ J' = J /\ (k # "challenge" => C' = C) /\ (k # "referral" => R' = R)
      /\ (k # "payout" => job'["payout"] = job["payout"])
  BY DEF J, C, R, Pipelines, OwnStep
<1>4. PointsShares' /\ BudgetInv'
  BY <1>1, <1>3, PointsApart
<1>5. ChallengeShares' /\ AwardHeld'
  BY <1>1, <1>3 DEF ChallengeShares, AwardHeld, ClaimsHeld
<1>6. ReferralHeld' /\ RefsHeld'
  BY <1>1, <1>3 DEF ReferralHeld, RefsHeld, ClaimsHeld
<1>7. Destined("payout")' /\ Destined("points")' /\ Destined("challenge")'
  BY <1>1, <1>3 DEF Destined, ClaimsHeld, J, C
<1>8. ASSUME Calm PROVE (xfer'.by # "nobody" => wallet'[xfer'.to] >= xfer'.b0) /\ Covered' /\ Orphans'
  <2>1. (xfer.by # "nobody" => wallet[xfer.to] >= xfer.b0) /\ Covered /\ Orphans
    BY <1>8 DEF PayInv, MoneyInv
  <2>2. \A w \in Accounts : Booked(w) \in Int /\ Booked(w)' \in Int
    <3> SUFFICES ASSUME NEW w \in Accounts PROVE Booked(w) \in Int /\ Booked(w)' \in Int
      OBVIOUS
    <3>1. Booked(w) \in Int
      BY <1>1, BookedParts
    <3>2. Booked(w)' \in Int
      BY BookedThen DEF AllBooked
    <3> QED BY <3>1, <3>2
  <2>3. Covered' /\ Orphans'
    BY <1>1, <2>1, <2>2, OwnMoney
  <2> QED BY <1>1, <2>1, <2>3
<1> QED BY <1>2, <1>4, <1>5, <1>6, <1>7, <1>8 DEF PayInv, PayTypes, MoneyInv, ClaimsHeld

-----------------------------------------------------------------------------
(* payout(m0r)                                                              *)

LEMMA PayoutReservePays ==
    ASSUME PayInv, NEW a \in Accounts, PayoutReserve(a)
    PROVE  PayInv'
<1> DEFINE amt == earned[a] - paid[a]
<1>1. /\ JobsTyped /\ XferTyped /\ TablesTyped /\ PointsShares /\ ChallengeShares /\ BudgetInv
      /\ ClaimsHeld
  BY DEF PayInv, PayTypes, MoneyInv
<1>2. /\ MayStart("payout") /\ amt >= PayoutMin /\ paid' = [paid EXCEPT ![a] = @ + amt]
      /\ peak' = [peak EXCEPT ![a] = IF @ < earned[a] THEN earned[a] ELSE @]
      /\ Send("payout", Idle, a, Dest[a], amt)
      /\ UNCHANGED <<earned, unsettled, points, refs, awards, xfer, wallet, queued, landed, mode>>
  BY DEF PayoutReserve, users, chain
<1>3. amt \in Nat /\ earned[a] \in Int /\ paid[a] \in Int /\ Dest[a] \in Accounts /\ "payout" \in Pipelines
  <2>1. earned[a] \in Int /\ paid[a] \in Int
    BY <1>1 DEF TablesTyped
  <2>2. PayoutMin \in Nat /\ Dest[a] \in Accounts
    BY RewardsAssumption
  <2> QED BY <1>2, <2>1, <2>2 DEF Pipelines
<1> HIDE DEF amt
<1>4. /\ DOMAIN job' = Pipelines /\ \A l \in Pipelines \ {"payout"} : job'[l] = job[l]
      /\ IsJob(job'["payout"]) /\ job'["payout"].stage = "send" /\ job'["payout"].acct = a
      /\ job'["payout"].to = Dest[a] /\ job'["payout"].amt = amt
  BY <1>1, <1>2, <1>3, IdleIs, SendFields
<1>5. /\ runs' \in [Pipelines -> Nat] /\ job["payout"].stage = "idle"
      /\ runs'["points"] = runs["points"]
  BY <1>1, <1>2, <1>3, StartCounts DEF Pipelines
<1>6. OwnStep("payout")
  BY <1>2, <1>3, <1>4, <1>5 DEF OwnStep
<1>8. TablesTyped'
  BY <1>1, <1>2, <1>3, <1>5 DEF TablesTyped
<1>9. \A b \in Accounts : paid'[b] <= peak'[b]
  <2>1. paid'[a] = earned[a] /\ peak'[a] >= earned[a]
    BY <1>1, <1>2, <1>3 DEF TablesTyped, amt
  <2>2. \A b \in Accounts \ {a} : paid'[b] = paid[b] /\ peak'[b] = peak[b]
    BY <1>1, <1>2 DEF TablesTyped
  <2>3. \A b \in Accounts : paid[b] <= peak[b]
    BY DEF PayInv, MoneyInv
  <2> QED BY <2>1, <2>2, <2>3
<1>10. Destined("payout")'
  BY <1>4 DEF Destined
<1>11. /\ \A b \in Accounts \ {a} : Column(b)' = Column(b)
       /\ Column(a)' = Column(a) + amt /\ Column(a) \in Int
  BY <1>1, <1>2, <1>3 DEF Column, TablesTyped, PointsType
<1>12. ASSUME NEW w \in Accounts
       PROVE  Booked(w)' >= Booked(w) + Sends("payout", w) - PutsBack("payout", w)
  <2>1. Booked(w)' = Booked(w) + IF Dest[a] = w THEN Column(a)' - Column(a) ELSE 0
    BY <1>1, <1>2, <1>8, <1>11, BookedColumn
  <2>2. Booked(w) \in Int
    BY <1>1, BookedParts
  <2>3. PutsBack("payout", w) = 0 /\ Sends("payout", w) = IF Dest[a] = w THEN amt ELSE 0
    BY <1>4, <1>5 DEF PutsBack, Sends
  <2> QED BY <1>3, <1>11, <2>1, <2>2, <2>3
<1> QED BY <1>2, <1>4, <1>5, <1>6, <1>8, <1>9, <1>10, <1>12, OtherPipeline

\* A step that books nothing and puts nothing back.
LEMMA QuietPipeline ==
    ASSUME PayInv, NEW k \in {"payout", "referral", "challenge"}, OwnStep(k),
           job[k].stage \notin {"send", "unsent"}, job'[k].stage \notin {"send", "unsent"},
           UNCHANGED <<unsettled, points, wallet, landed, queued, mode, earned, peak, paid, awards>>,
           UNCHANGED refs \/ (k = "referral" /\ TablesTyped' /\ \A w \in Accounts : Booked(w)' = Booked(w)),
           runs'["points"] = runs["points"], runs' \in [Pipelines -> Nat],
           k = "referral" => ReferralHeld' /\ RefsHeld',
           k = "challenge" => ChallengeShares'
    PROVE  PayInv'
<1>1. TablesTyped /\ \A b \in Accounts : paid[b] <= peak[b]
  BY DEF PayInv, PayTypes, MoneyInv
<1>2. TablesTyped'
  BY <1>1 DEF TablesTyped
<1>3. job'[k].stage \notin Underway
  BY DEF OwnStep, Underway
<1>4. (k # "referral" => Destined(k)') /\ (k = "challenge" => AwardHeld')
  BY <1>3 DEF Destined, AwardHeld, C
<1>5. \A w \in Accounts : Booked(w)' = Booked(w)
  BY BookedSame DEF books
<1>6. \A w \in Accounts : Sends(k, w) = 0 /\ PutsBack(k, w) = 0 /\ Booked(w) \in Int
  BY <1>1, BookedParts DEF Sends, PutsBack
<1>7. \A w \in Accounts : Booked(w)' >= Booked(w) + Sends(k, w) - PutsBack(k, w)
  BY <1>5, <1>6
<1> QED BY <1>1, <1>2, <1>4, <1>7, OtherPipeline

LEMMA PayoutDonePays == ASSUME PayInv, PayoutDone PROVE PayInv'
<1>1. JobsTyped /\ TablesTyped /\ "payout" \in Pipelines
  BY DEF PayInv, PayTypes, Pipelines
<1>2. /\ job["payout"].stage = "sent" /\ Stop("payout")
      /\ UNCHANGED <<unsettled, points, wallet, landed, queued, mode, earned, peak, paid, awards, refs, xfer, runs>>
  BY DEF PayoutDone, users, books, chain
<1>3. /\ DOMAIN job' = Pipelines /\ \A l \in Pipelines \ {"payout"} : job'[l] = job[l]
      /\ IsJob(job'["payout"]) /\ job'["payout"].stage = "idle"
  BY <1>1, <1>2, StopFields
<1>4. OwnStep("payout")
  BY <1>2, <1>3 DEF OwnStep, Engaged
<1> QED BY <1>1, <1>2, <1>3, <1>4, QuietPipeline DEF TablesTyped

LEMMA PayoutUndoPays == ASSUME PayInv, PayoutUndo PROVE PayInv'
<1> DEFINE P == job["payout"]
<1>1. /\ JobsTyped /\ TablesTyped /\ ClaimsHeld /\ "payout" \in Pipelines
      /\ \A b \in Accounts : paid[b] <= peak[b]
  BY DEF PayInv, PayTypes, MoneyInv, Pipelines
<1>2. /\ P.stage = "unsent" /\ Stop("payout") /\ paid' = [paid EXCEPT ![P.acct] = @ - P.amt]
      /\ UNCHANGED <<unsettled, points, wallet, landed, queued, mode, earned, peak, awards, refs, xfer, runs>>
  BY DEF PayoutUndo, users, chain
<1>3. PICK a \in Accounts : a = P.acct /\ P.amt \in Nat /\ P.to = Dest[a]
  BY <1>1, <1>2 DEF JobsTyped, ClaimsHeld, Destined, Engaged, Underway
<1>4. /\ DOMAIN job' = Pipelines /\ \A l \in Pipelines \ {"payout"} : job'[l] = job[l]
      /\ IsJob(job'["payout"]) /\ job'["payout"].stage = "idle"
  BY <1>1, <1>2, StopFields
<1>5. OwnStep("payout")
  BY <1>2, <1>4 DEF OwnStep, Engaged
<1> HIDE DEF P
<1>6. paid[a] \in Int /\ paid' \in [Accounts -> Int] /\ paid'[a] = paid[a] - P.amt
  BY <1>1, <1>2, <1>3 DEF TablesTyped
<1>7. TablesTyped'
  BY <1>1, <1>2, <1>6 DEF TablesTyped
<1>8. \A b \in Accounts : paid'[b] <= peak'[b]
  <2>1. \A b \in Accounts \ {a} : paid'[b] = paid[b]
    BY <1>1, <1>2, <1>3 DEF TablesTyped
  <2>2. peak[a] \in Int
    BY <1>1, <1>3 DEF TablesTyped
  <2> QED BY <1>1, <1>2, <1>3, <1>6, <2>1, <2>2
<1>9. Destined("payout")'
  BY <1>4 DEF Destined, Underway
<1>10. /\ \A b \in Accounts \ {a} : Column(b)' = Column(b)
       /\ Column(a)' = Column(a) - P.amt /\ Column(a) \in Int
  <2>1. \A b \in Accounts \ {a} : paid'[b] = paid[b]
    BY <1>1, <1>2, <1>3 DEF TablesTyped
  <2>2. points[a].morm \in Int /\ awards[a] \in Int
    BY <1>1, <1>3 DEF TablesTyped, PointsType
  <2>3. UNCHANGED <<points, awards>>
    BY <1>2
  <2> QED BY <1>3, <1>6, <2>1, <2>2, <2>3 DEF Column
<1>11. ASSUME NEW w \in Accounts
       PROVE  Booked(w)' >= Booked(w) + Sends("payout", w) - PutsBack("payout", w)
  <2>1. Booked(w)' = Booked(w) + IF Dest[a] = w THEN Column(a)' - Column(a) ELSE 0
    BY <1>1, <1>2, <1>3, <1>7, <1>10, BookedColumn
  <2>2. Booked(w) \in Int
    BY <1>1, BookedParts
  <2>3. Sends("payout", w) = 0 /\ PutsBack("payout", w) = IF Dest[a] = w THEN P.amt ELSE 0
    BY <1>2, <1>3, <1>4 DEF PutsBack, Sends, P
  <2> QED BY <1>3, <1>10, <2>1, <2>2, <2>3
<1> QED BY <1>1, <1>2, <1>4, <1>5, <1>7, <1>8, <1>9, <1>11, OtherPipeline DEF P

-----------------------------------------------------------------------------
(* settle_referrals                                                         *)

\* Who brought whom, and what for, decides about the bonuses.
LEMMA BookedByRefs ==
    ASSUME UNCHANGED <<paid, points, awards>>,
           \A e \in Accounts : /\ refs'[e].rewarded = refs[e].rewarded
                               /\ refs'[e].sent = refs[e].sent
                               /\ refs'[e].sent => refs'[e].by = refs[e].by,
           NEW w \in Accounts
    PROVE  Booked(w)' = Booked(w)
<1>1. Welcomed(w)' = Welcomed(w)
  BY DEF Welcomed
<1>2. Brought(w)' = Brought(w)
  BY DEF Brought
<1>3. SumFunctionOnSet([a \in Feeders(w) |-> Column(a)], Feeders(w))'
        = SumFunctionOnSet([a \in Feeders(w) |-> Column(a)], Feeders(w))
  BY DEF Column, Feeders
<1>4. Booked(w)' = (SumFunctionOnSet([a \in Feeders(w) |-> Column(a)], Feeders(w))
                      + Bonus * Cardinality(Welcomed(w)) + Bonus * Cardinality(Brought(w)))'
  BY DEF Booked, Column, Feeders, Welcomed, Brought, SumFunction
<1> QED BY <1>1, <1>2, <1>3, <1>4, BookedIs

LEMMA ReferralBeginPays == ASSUME PayInv, ReferralBegin PROVE PayInv'
<1> DEFINE now == {e \in Referees : refs[e].qualified \/ e \in posted}
           todo == {e \in now : ~ refs[e].rewarded}
           begun == [Idle EXCEPT !.stage = "next", !.todo = todo]
<1>1. /\ JobsTyped /\ TablesTyped /\ RefsHeld /\ "referral" \in Pipelines
  BY DEF PayInv, PayTypes, MoneyInv, ClaimsHeld, Pipelines
<1>2. /\ MayStart("referral") /\ job' = [job EXCEPT !["referral"] = begun]
      /\ refs' = [e \in Accounts |-> [refs[e] EXCEPT !.qualified = e \in now]]
      /\ UNCHANGED <<unsettled, points, wallet, landed, queued, mode, earned, peak, paid, awards, xfer>>
  BY DEF ReferralBegin, users, chain
<1>3. IsJob(begun) /\ begun.stage = "next" /\ begun.todo = todo
  BY IdleIs DEF IsJob, Fields
<1>4. \A e \in todo : e \in Accounts /\ ~ refs[e].rewarded /\ refs[e].by # NoAccount
  BY DEF Referees
<1>5. \A e \in Accounts : (e \in now) \in BOOLEAN
  OBVIOUS
<1> HIDE DEF now, todo, begun
<1>6. /\ DOMAIN job' = Pipelines /\ job'["referral"] = begun
      /\ \A l \in Pipelines \ {"referral"} : job'[l] = job[l]
  BY <1>1, <1>2 DEF JobsTyped
<1>7. /\ runs' \in [Pipelines -> Nat] /\ job["referral"].stage = "idle"
      /\ runs'["points"] = runs["points"]
  BY <1>1, <1>2, StartCounts DEF Pipelines
<1>8. OwnStep("referral")
  BY <1>2, <1>3, <1>6, <1>7 DEF OwnStep, Engaged
<1>9. \A e \in Accounts : /\ refs'[e].by = refs[e].by /\ refs'[e].rewarded = refs[e].rewarded
                          /\ refs'[e].sent = refs[e].sent /\ refs'[e] \in RefType
  <2> SUFFICES ASSUME NEW e \in Accounts
               PROVE  /\ refs'[e].by = refs[e].by /\ refs'[e].rewarded = refs[e].rewarded
                      /\ refs'[e].sent = refs[e].sent /\ refs'[e] \in RefType
    OBVIOUS
  <2>1. refs[e] \in RefType /\ refs'[e] = [refs[e] EXCEPT !.qualified = e \in now]
    BY <1>1, <1>2 DEF TablesTyped
  <2> QED BY <1>5, <2>1 DEF RefType
<1>10. TablesTyped'
  BY <1>1, <1>2, <1>7, <1>9 DEF TablesTyped
<1>11. ReferralHeld' /\ RefsHeld'
  BY <1>1, <1>3, <1>4, <1>6, <1>9 DEF ReferralHeld, RefsHeld, R, Engaged
<1>12. \A w \in Accounts : Booked(w)' = Booked(w)
  BY <1>2, <1>9, BookedByRefs
<1> QED BY <1>2, <1>3, <1>6, <1>7, <1>8, <1>10, <1>11, <1>12, QuietPipeline

LEMMA ReferralClaimPays == ASSUME PayInv, NEW e \in Accounts, ReferralClaim(e) PROVE PayInv'
<1> DEFINE n == Cardinality(Rewarded(refs[e].by))
           claimed == [R EXCEPT !.todo = @ \ {e}, !.leg = "referee", !.undo = n]
<1>1. /\ JobsTyped /\ TablesTyped /\ RefsHeld /\ ReferralHeld /\ "referral" \in Pipelines
      /\ \A b \in Accounts : paid[b] <= peak[b]
  BY DEF PayInv, PayTypes, MoneyInv, ClaimsHeld, Pipelines
<1>2. /\ R.stage = "next" /\ e \in R.todo /\ Send("referral", claimed, e, e, Bonus)
      /\ refs' = [refs EXCEPT ![e].rewarded = TRUE]
      /\ UNCHANGED <<unsettled, points, wallet, landed, queued, mode, earned, peak, paid, awards, xfer, runs>>
  BY DEF ReferralClaim, users, chain, R
<1>3. ~ refs[e].rewarded /\ refs[e].by # NoAccount /\ ~ refs[e].sent /\ refs[e] \in RefType
  BY <1>1, <1>2 DEF ReferralHeld, RefsHeld, TablesTyped
<1>4. IsJob(claimed) /\ claimed.todo = R.todo \ {e} /\ claimed.leg = "referee"
  <2>1. IsJob(R)
    BY <1>1 DEF JobsTyped, R
  <2> QED BY <2>1 DEF IsJob, Fields
<1> HIDE DEF claimed
<1>5. /\ DOMAIN job' = Pipelines /\ \A l \in Pipelines \ {"referral"} : job'[l] = job[l]
      /\ IsJob(R') /\ R'.stage = "send" /\ R'.acct = e /\ R'.to = e /\ R'.amt = Bonus
      /\ R'.todo = R.todo \ {e} /\ R'.leg = "referee"
  BY <1>1, <1>2, <1>4, SendFields DEF R
<1>6. Bonus \in Nat
  BY RewardsAssumption
<1>7. OwnStep("referral")
  BY <1>2, <1>5, <1>6 DEF OwnStep, R
<1>8. /\ refs'[e] = [refs[e] EXCEPT !.rewarded = TRUE]
      /\ \A d \in Accounts \ {e} : refs'[d] = refs[d]
  BY <1>1, <1>2 DEF TablesTyped
<1>9. /\ refs'[e].rewarded /\ refs'[e].by = refs[e].by /\ refs'[e].sent = refs[e].sent
      /\ refs'[e] \in RefType
  BY <1>3, <1>8 DEF RefType
<1>10. TablesTyped'
  BY <1>1, <1>2, <1>8, <1>9 DEF TablesTyped
<1>11. ReferralHeld' /\ RefsHeld'
  <2>1. \A d \in R'.todo : d \in Accounts /\ ~ refs'[d].rewarded /\ refs'[d].by # NoAccount
    BY <1>1, <1>2, <1>5, <1>8 DEF ReferralHeld
  <2>2. ReferralHeld'
    BY <1>3, <1>5, <1>9, <2>1 DEF ReferralHeld
  <2>3. RefsHeld'
    BY <1>1, <1>3, <1>8, <1>9 DEF RefsHeld
  <2> QED BY <2>2, <2>3
<1>12. ASSUME NEW w \in Accounts
       PROVE  Booked(w)' >= Booked(w) + Sends("referral", w) - PutsBack("referral", w)
  <2>1. Booked(w)' = Booked(w) + IF e # w THEN 0 ELSE IF refs'[e].rewarded THEN Bonus ELSE - Bonus
    <3>1. \A d \in Accounts : refs'[d].by = refs[d].by /\ refs'[d].sent = refs[d].sent
      BY <1>8, <1>9
    <3>2. \A d \in Accounts \ {e} : refs'[d].rewarded = refs[d].rewarded
      BY <1>8
    <3>3. refs'[e].rewarded <=> ~ refs[e].rewarded
      BY <1>3, <1>9
    <3>4. UNCHANGED <<paid, points, awards>>
      BY <1>2
    <3> QED BY <1>1, <3>1, <3>2, <3>3, <3>4, BookedWelcome
  <2>2. Booked(w) \in Int
    BY <1>1, BookedParts
  <2>3. PutsBack("referral", w) = 0 /\ Sends("referral", w) = IF e = w THEN Bonus ELSE 0
    BY <1>2, <1>5 DEF PutsBack, Sends, R
  <2> QED BY <1>6, <1>9, <2>1, <2>2, <2>3
<1>13. job["referral"].stage # "send" /\ job'["referral"].stage # "unsent"
  BY <1>2, <1>5 DEF R
<1>14. \A b \in Accounts : paid'[b] <= peak'[b]
  BY <1>1, <1>2
<1> QED BY <1>2, <1>7, <1>10, <1>11, <1>12, <1>13, <1>14, OtherPipeline

LEMMA ReferralPaidPays == ASSUME PayInv, ReferralRefereePaid PROVE PayInv'
<1>1. /\ JobsTyped /\ TablesTyped /\ RefsHeld /\ ReferralHeld /\ "referral" \in Pipelines
      /\ \A b \in Accounts : paid[b] <= peak[b]
  BY DEF PayInv, PayTypes, MoneyInv, ClaimsHeld, Pipelines
<1>2. /\ R.stage = "sent" /\ R.leg = "referee" /\ IsJob(R)
      /\ \/ /\ Send("referral", [R EXCEPT !.leg = "referrer"], R.acct, refs[R.acct].by, Bonus)
            /\ refs' = [refs EXCEPT ![R.acct].sent = TRUE]
         \/ Continue("referral") /\ UNCHANGED refs
      /\ UNCHANGED <<unsettled, points, wallet, landed, queued, mode, earned, peak, paid, awards, xfer, runs>>
  BY <1>1 DEF ReferralRefereePaid, ReferralLeg, users, chain, R, JobsTyped
<1>3. PICK e \in Accounts : e = R.acct /\ refs[e].by # NoAccount /\ refs[e].rewarded /\ ~ refs[e].sent
  BY <1>1, <1>2 DEF ReferralHeld, JobsTyped, Engaged, R
<1>4. refs[e] \in RefType /\ refs[e].by \in Accounts /\ Bonus \in Nat
  BY <1>1, <1>3, RewardsAssumption DEF TablesTyped, RefType
<1>5. CASE Continue("referral") /\ UNCHANGED refs
  <2>1. /\ DOMAIN job' = Pipelines /\ \A l \in Pipelines \ {"referral"} : job'[l] = job[l]
        /\ IsJob(R') /\ R'.stage = "next" /\ R'.todo = R.todo
    BY <1>1, <1>5, ContinueFields DEF R
  <2>2. OwnStep("referral")
    BY <1>2, <2>1 DEF OwnStep, Engaged, R
  <2>3. ReferralHeld' /\ RefsHeld'
    BY <1>1, <1>2, <1>5, <2>1 DEF ReferralHeld, RefsHeld, Engaged
  <2> QED BY <1>1, <1>2, <1>5, <2>1, <2>2, <2>3, QuietPipeline DEF R, TablesTyped
<1>6. CASE /\ Send("referral", [R EXCEPT !.leg = "referrer"], R.acct, refs[R.acct].by, Bonus)
           /\ refs' = [refs EXCEPT ![R.acct].sent = TRUE]
  <2> DEFINE next == [R EXCEPT !.leg = "referrer"]
  <2>1. IsJob(next) /\ next.todo = R.todo /\ next.leg = "referrer"
    BY <1>2 DEF IsJob, Fields
  <2> HIDE DEF next
  <2>2. Send("referral", next, e, refs[e].by, Bonus)
    BY <1>3, <1>6 DEF next
  <2>3. /\ DOMAIN job' = Pipelines /\ \A l \in Pipelines \ {"referral"} : job'[l] = job[l]
        /\ IsJob(R') /\ R'.stage = "send" /\ R'.acct = e /\ R'.to = refs[e].by /\ R'.amt = Bonus
        /\ R'.todo = R.todo /\ R'.leg = "referrer"
    BY <1>1, <2>1, <2>2, SendFields DEF R
  <2>4. OwnStep("referral")
    BY <1>2, <1>4, <2>3 DEF OwnStep, R
  <2>5. refs'[e] = [refs[e] EXCEPT !.sent = TRUE] /\ \A d \in Accounts \ {e} : refs'[d] = refs[d]
    BY <1>1, <1>3, <1>6 DEF TablesTyped
  <2>6. /\ refs'[e].sent /\ refs'[e].by = refs[e].by /\ refs'[e].rewarded = refs[e].rewarded
        /\ refs'[e] \in RefType
    BY <1>4, <2>5 DEF RefType
  <2>7. TablesTyped'
    <3>1. refs \in [Accounts -> RefType] /\ refs' = [refs EXCEPT ![e].sent = TRUE]
      BY <1>1, <1>3, <1>6 DEF TablesTyped
    <3>2. refs' \in [Accounts -> RefType]
      BY <2>6, <3>1
    <3>3. UNCHANGED <<unsettled, points, wallet, landed, queued, earned, peak, paid, awards, runs>>
      BY <1>2
    <3> QED BY <1>1, <3>2, <3>3 DEF TablesTyped
  <2>8. ReferralHeld' /\ RefsHeld'
    <3>1. \A d \in R'.todo : d \in Accounts /\ ~ refs'[d].rewarded /\ refs'[d].by # NoAccount
      <4>1. \A d \in R.todo : d \in Accounts /\ ~ refs[d].rewarded /\ refs[d].by # NoAccount
        BY <1>1, <1>2 DEF ReferralHeld
      <4>2. \A d \in Accounts : refs'[d].rewarded = refs[d].rewarded /\ refs'[d].by = refs[d].by
        BY <2>5, <2>6
      <4> QED BY <2>3, <4>1, <4>2
    <3>2. ReferralHeld'
      BY <1>3, <2>3, <2>6, <3>1 DEF ReferralHeld
    <3>3. RefsHeld'
      BY <1>1, <1>3, <2>5, <2>6 DEF RefsHeld
    <3> QED BY <3>2, <3>3
  <2>9. ASSUME NEW w \in Accounts
        PROVE  Booked(w)' >= Booked(w) + Sends("referral", w) - PutsBack("referral", w)
    <3>1. Booked(w)' = Booked(w) + IF refs[e].by = w THEN Bonus ELSE 0
      <4>1. \A d \in Accounts : refs'[d].by = refs[d].by /\ refs'[d].rewarded = refs[d].rewarded
        BY <2>5, <2>6
      <4>2. \A d \in Accounts \ {e} : refs'[d].sent = refs[d].sent
        BY <2>5
      <4>3. refs'[e].sent /\ ~ refs[e].sent /\ UNCHANGED <<paid, points, awards>>
        BY <1>2, <1>3, <2>6
      <4> QED BY <1>1, <4>1, <4>2, <4>3, BookedBrought
    <3>2. Booked(w) \in Int
      BY <1>1, BookedParts
    <3>3. PutsBack("referral", w) = 0 /\ Sends("referral", w) = IF refs[e].by = w THEN Bonus ELSE 0
      BY <1>2, <2>3 DEF PutsBack, Sends, R
    <3> QED BY <1>4, <3>1, <3>2, <3>3
  <2>10. job["referral"].stage # "send" /\ job'["referral"].stage # "unsent"
    BY <1>2, <2>3 DEF R
  <2>11. \A b \in Accounts : paid'[b] <= peak'[b]
    BY <1>1, <1>2
  <2> QED BY <1>2, <2>4, <2>7, <2>8, <2>9, <2>10, <2>11, OtherPipeline
<1> QED BY <1>2, <1>5, <1>6

LEMMA ReferralUndoPays == ASSUME PayInv, ReferralRefereeUndo PROVE PayInv'
<1>1. /\ JobsTyped /\ TablesTyped /\ RefsHeld /\ ReferralHeld /\ "referral" \in Pipelines
      /\ \A b \in Accounts : paid[b] <= peak[b]
  BY DEF PayInv, PayTypes, MoneyInv, ClaimsHeld, Pipelines
<1>2. /\ R.stage = "unsent" /\ R.leg = "referee" /\ Continue("referral")
      /\ refs' = [refs EXCEPT ![R.acct].rewarded = FALSE]
      /\ UNCHANGED <<unsettled, points, wallet, landed, queued, mode, earned, peak, paid, awards, xfer, runs>>
  BY DEF ReferralRefereeUndo, ReferralLeg, users, chain, R
<1>3. PICK e \in Accounts : /\ e = R.acct /\ refs[e].by # NoAccount /\ refs[e].rewarded
                            /\ ~ refs[e].sent /\ R.to = e /\ R.amt = Bonus
  BY <1>1, <1>2 DEF ReferralHeld, JobsTyped, Engaged, R
<1>4. refs[e] \in RefType /\ Bonus \in Nat
  BY <1>1, <1>3, RewardsAssumption DEF TablesTyped
<1>5. /\ DOMAIN job' = Pipelines /\ \A l \in Pipelines \ {"referral"} : job'[l] = job[l]
      /\ IsJob(R') /\ R'.stage = "next" /\ R'.todo = R.todo
  BY <1>1, <1>2, ContinueFields DEF R
<1>6. OwnStep("referral")
  BY <1>2, <1>5 DEF OwnStep, Engaged, R
<1>7. refs'[e] = [refs[e] EXCEPT !.rewarded = FALSE] /\ \A d \in Accounts \ {e} : refs'[d] = refs[d]
  BY <1>1, <1>2, <1>3 DEF TablesTyped
<1>8. /\ ~ refs'[e].rewarded /\ refs'[e].by = refs[e].by /\ refs'[e].sent = refs[e].sent
      /\ refs'[e] \in RefType
  BY <1>4, <1>7 DEF RefType
<1>9. TablesTyped'
  BY <1>1, <1>2, <1>7, <1>8 DEF TablesTyped
<1>10. ReferralHeld' /\ RefsHeld'
  <2>1. \A d \in R'.todo : d \in Accounts /\ ~ refs'[d].rewarded /\ refs'[d].by # NoAccount
    BY <1>1, <1>2, <1>5, <1>7, <1>8 DEF ReferralHeld
  <2>2. ReferralHeld'
    BY <1>5, <2>1 DEF ReferralHeld, Engaged
  <2>3. RefsHeld'
    BY <1>1, <1>3, <1>7, <1>8 DEF RefsHeld
  <2> QED BY <2>2, <2>3
<1>11. ASSUME NEW w \in Accounts
       PROVE  Booked(w)' >= Booked(w) + Sends("referral", w) - PutsBack("referral", w)
  <2>1. Booked(w)' = Booked(w) + IF e # w THEN 0 ELSE IF refs'[e].rewarded THEN Bonus ELSE - Bonus
    <3>1. \A d \in Accounts : refs'[d].by = refs[d].by /\ refs'[d].sent = refs[d].sent
      BY <1>7, <1>8
    <3>2. \A d \in Accounts \ {e} : refs'[d].rewarded = refs[d].rewarded
      BY <1>7
    <3>3. refs'[e].rewarded <=> ~ refs[e].rewarded
      BY <1>3, <1>8
    <3>4. UNCHANGED <<paid, points, awards>>
      BY <1>2
    <3> QED BY <1>1, <3>1, <3>2, <3>3, <3>4, BookedWelcome
  <2>2. Booked(w) \in Int
    BY <1>1, BookedParts
  <2>3. Sends("referral", w) = 0 /\ PutsBack("referral", w) = IF e = w THEN Bonus ELSE 0
    BY <1>2, <1>3, <1>5 DEF PutsBack, Sends, R
  <2> QED BY <1>4, <1>8, <2>1, <2>2, <2>3
<1>12. job["referral"].stage # "send" /\ job'["referral"].stage # "unsent"
  BY <1>2, <1>5 DEF R
<1>13. \A b \in Accounts : paid'[b] <= peak'[b]
  BY <1>1, <1>2
<1> QED BY <1>2, <1>6, <1>9, <1>10, <1>11, <1>12, <1>13, OtherPipeline

LEMMA ReferrerDonePays == ASSUME PayInv, ReferralReferrerDone PROVE PayInv'
<1>1. /\ JobsTyped /\ TablesTyped /\ RefsHeld /\ ReferralHeld /\ "referral" \in Pipelines
      /\ \A b \in Accounts : paid[b] <= peak[b]
  BY DEF PayInv, PayTypes, MoneyInv, ClaimsHeld, Pipelines
<1>2. /\ R.stage \in {"sent", "unsent"} /\ Continue("referral")
      /\ UNCHANGED <<unsettled, points, wallet, landed, queued, mode, earned, peak, paid, awards, refs, xfer, runs>>
  BY DEF ReferralReferrerDone, users, books, chain, R
<1>3. /\ DOMAIN job' = Pipelines /\ \A l \in Pipelines \ {"referral"} : job'[l] = job[l]
      /\ IsJob(R') /\ R'.stage = "next" /\ R'.todo = R.todo
  BY <1>1, <1>2, ContinueFields DEF R
<1>4. OwnStep("referral")
  BY <1>2, <1>3 DEF OwnStep, Engaged, R
<1>5. TablesTyped'
  BY <1>1, <1>2 DEF TablesTyped
<1>6. ReferralHeld' /\ RefsHeld'
  BY <1>1, <1>2, <1>3 DEF ReferralHeld, RefsHeld, Engaged
<1>7. ASSUME NEW w \in Accounts
      PROVE  Booked(w)' >= Booked(w) + Sends("referral", w) - PutsBack("referral", w)
  <2>1. Booked(w)' = Booked(w) /\ Booked(w) \in Int
    BY <1>1, <1>2, BookedSame, BookedParts DEF books
  <2>2. Sends("referral", w) = 0 /\ PutsBack("referral", w) \in Nat
    BY <1>1, <1>3 DEF PutsBack, Sends, R, JobsTyped, Engaged
  <2> QED BY <2>1, <2>2
<1>8. job["referral"].stage # "send" /\ job'["referral"].stage # "unsent"
  BY <1>2, <1>3 DEF R
<1>9. \A b \in Accounts : paid'[b] <= peak'[b]
  BY <1>1, <1>2
<1> QED BY <1>2, <1>4, <1>5, <1>6, <1>7, <1>8, <1>9, OtherPipeline

LEMMA ReferralEndPays == ASSUME PayInv, ReferralEnd PROVE PayInv'
<1>1. /\ JobsTyped /\ TablesTyped /\ RefsHeld /\ ReferralHeld /\ "referral" \in Pipelines
  BY DEF PayInv, PayTypes, MoneyInv, ClaimsHeld, Pipelines
<1>2. /\ R.stage = "next" /\ Stop("referral")
      /\ UNCHANGED <<unsettled, points, wallet, landed, queued, mode, earned, peak, paid, awards, refs, xfer, runs>>
  BY DEF ReferralEnd, users, books, chain, R
<1>3. /\ DOMAIN job' = Pipelines /\ \A l \in Pipelines \ {"referral"} : job'[l] = job[l]
      /\ IsJob(R') /\ R'.stage = "idle"
  BY <1>1, <1>2, StopFields DEF R
<1>4. OwnStep("referral")
  BY <1>2, <1>3 DEF OwnStep, Engaged, R
<1>5. ReferralHeld' /\ RefsHeld'
  BY <1>1, <1>2, <1>3 DEF ReferralHeld, RefsHeld, Engaged
<1> QED BY <1>1, <1>2, <1>3, <1>4, <1>5, QuietPipeline DEF R, TablesTyped

-----------------------------------------------------------------------------
(* settle_challenge                                                         *)

LEMMA PartTyped ==
    ASSUME NEW n \in Nat, NEW i \in 1..n
    PROVE  Part(n, i) \in Nat
<1>1. Pool \in Nat
  BY RewardsAssumption
<1>2. CASE n = 3
  <2>1. <<5, 3, 2>>[i] \in Nat
    <3>1. i = 1 \/ i = 2 \/ i = 3
      BY <1>2
    <3> QED BY <3>1
  <2>2. PICK m \in Nat : m = <<5, 3, 2>>[i]
    BY <2>1
  <2>3. Part(n, i) = (Pool * m) \div 10
    BY <1>2, <2>2 DEF Part
  <2>4. Pool * m \in Nat
    BY <1>1
  <2> QED BY <2>3, <2>4
<1>3. CASE n # 3
  <2>1. Part(n, i) = Pool \div n /\ n > 0
    BY <1>3 DEF Part
  <2> QED BY <1>1, <2>1
<1> QED BY <1>2, <1>3

LEMMA ChallengeBeginPays ==
    ASSUME PayInv, NEW ranked \in Rankings, ChallengeBegin(ranked)
    PROVE  PayInv'
<1> DEFINE best == {ranked[i] : i \in DOMAIN ranked}
           place(a) == CHOOSE i \in DOMAIN ranked : ranked[i] = a
           parts == [a \in best |-> Part(Len(ranked), place(a))]
           begun == [Idle EXCEPT !.stage = "next", !.todo = best, !.share = parts]
<1>1. JobsTyped /\ TablesTyped /\ "challenge" \in Pipelines
  BY DEF PayInv, PayTypes, Pipelines
<1>2. /\ MayStart("challenge") /\ job' = [job EXCEPT !["challenge"] = begun]
      /\ UNCHANGED <<unsettled, points, wallet, landed, queued, mode, earned, peak, paid, awards, refs, xfer>>
  BY DEF ChallengeBegin, users, books, chain
<1>3. ranked \in Seq(Accounts) /\ Len(ranked) \in Nat /\ DOMAIN ranked = 1..Len(ranked)
  BY RewardsAssumption
<1>4. best \subseteq Accounts
  BY <1>3
<1>5. \A a \in best : place(a) \in 1..Len(ranked)
  BY <1>3
<1>6. \A a \in best : a \in DOMAIN parts /\ parts[a] \in Nat
  <2> SUFFICES ASSUME NEW a \in best PROVE a \in DOMAIN parts /\ parts[a] \in Nat
    OBVIOUS
  <2>1. PICK i \in 1..Len(ranked) : i = place(a)
    BY <1>5
  <2>2. Part(Len(ranked), i) \in Nat
    BY <1>3, PartTyped
  <2> HIDE DEF best, place
  <2> QED BY <2>1, <2>2
<1> HIDE DEF best, place, parts
<1>7. IsJob(begun) /\ begun.stage = "next" /\ begun.todo = best /\ begun.share = parts
  BY IdleIs DEF IsJob, Fields
<1> HIDE DEF begun
<1>8. /\ DOMAIN job' = Pipelines /\ C' = begun /\ \A l \in Pipelines \ {"challenge"} : job'[l] = job[l]
  BY <1>1, <1>2 DEF JobsTyped, C
<1>9. /\ runs' \in [Pipelines -> Nat] /\ job["challenge"].stage = "idle"
      /\ runs'["points"] = runs["points"]
  BY <1>1, <1>2, StartCounts DEF Pipelines
<1>10. OwnStep("challenge")
  BY <1>2, <1>7, <1>8, <1>9 DEF OwnStep, Engaged, C
<1>11. ChallengeShares'
  BY <1>4, <1>6, <1>7, <1>8 DEF ChallengeShares
<1> QED BY <1>2, <1>7, <1>8, <1>9, <1>10, <1>11, QuietPipeline DEF C

LEMMA ChallengeAwardPays ==
    ASSUME PayInv, NEW a \in Accounts, ChallengeAward(a)
    PROVE  PayInv'
<1>1. /\ JobsTyped /\ TablesTyped /\ ChallengeShares /\ "challenge" \in Pipelines
      /\ \A b \in Accounts : paid[b] <= peak[b]
  BY DEF PayInv, PayTypes, MoneyInv, Pipelines
<1>2. /\ C.stage \in {"next", "sent"} /\ a \in C.todo /\ IsJob(C)
      /\ C.stage \in Engaged => C.acct \in Accounts /\ C.to \in Accounts /\ C.amt \in Nat
  BY <1>1 DEF ChallengeAward, AtNext, C, JobsTyped
<1>3. UNCHANGED <<unsettled, points, wallet, landed, queued, mode, earned, peak, paid, refs, xfer, runs>>
  BY DEF ChallengeAward, users, chain
<1>4. C.todo \subseteq Accounts /\ \A b \in C.todo : b \in DOMAIN C.share /\ C.share[b] \in Nat
  BY <1>1, <1>2 DEF ChallengeShares
<1>5. CASE job' = [job EXCEPT !["challenge"].todo = @ \ {a}] /\ UNCHANGED awards
  <2>1. /\ DOMAIN job' = Pipelines /\ \A l \in Pipelines \ {"challenge"} : job'[l] = job[l]
        /\ IsJob(C') /\ C'.stage = C.stage /\ C'.acct = C.acct /\ C'.to = C.to /\ C'.amt = C.amt
        /\ C'.todo = C.todo \ {a} /\ C'.share = C.share
    BY <1>1, <1>5, SkipFields DEF C
  <2>2. OwnStep("challenge")
    BY <1>2, <1>3, <2>1 DEF OwnStep, C
  <2>3. ChallengeShares'
    BY <1>4, <2>1 DEF ChallengeShares
  <2> QED BY <1>1, <1>2, <1>3, <1>5, <2>1, <2>2, <2>3, QuietPipeline DEF C, TablesTyped
<1>6. CASE /\ awards[a] <= 0 /\ awards' = [awards EXCEPT ![a] = C.share[a]]
           /\ Send("challenge", [C EXCEPT !.todo = @ \ {a}], a, Dest[a], C.share[a])
  <2> DEFINE rest == [C EXCEPT !.todo = @ \ {a}]
  <2>1. IsJob(rest) /\ rest.todo = C.todo \ {a} /\ rest.share = C.share
    BY <1>2 DEF IsJob, Fields
  <2> HIDE DEF rest
  <2>2. PICK amt \in Nat : amt = C.share[a]
    BY <1>2, <1>4
  <2>3. Send("challenge", rest, a, Dest[a], amt)
    BY <1>6, <2>2 DEF rest
  <2>4. /\ DOMAIN job' = Pipelines /\ \A l \in Pipelines \ {"challenge"} : job'[l] = job[l]
        /\ IsJob(C') /\ C'.stage = "send" /\ C'.acct = a /\ C'.to = Dest[a] /\ C'.amt = amt
        /\ C'.todo = C.todo \ {a} /\ C'.share = C.share
    BY <1>1, <2>1, <2>3, SendFields DEF C
  <2>5. Dest[a] \in Accounts
    BY RewardsAssumption
  <2>6. OwnStep("challenge")
    BY <1>2, <1>3, <2>4, <2>5 DEF OwnStep, C
  <2>7. /\ awards' \in [Accounts -> Nat] /\ awards'[a] = amt /\ awards[a] = 0
        /\ \A b \in Accounts \ {a} : awards'[b] = awards[b]
    BY <1>1, <1>6, <2>2 DEF TablesTyped
  <2>8. TablesTyped'
    BY <1>1, <1>3, <2>7 DEF TablesTyped
  <2>9. ChallengeShares' /\ AwardHeld' /\ Destined("challenge")'
    BY <1>4, <2>4, <2>7 DEF ChallengeShares, AwardHeld, Destined, C
  <2>10. /\ \A b \in Accounts \ {a} : Column(b)' = Column(b)
         /\ Column(a)' = Column(a) + amt /\ Column(a) \in Int
    <3>1. paid[a] \in Int /\ points[a].morm \in Int
      BY <1>1 DEF TablesTyped, PointsType
    <3> QED BY <1>3, <2>7, <3>1 DEF Column
  <2>11. ASSUME NEW w \in Accounts
         PROVE  Booked(w)' >= Booked(w) + Sends("challenge", w) - PutsBack("challenge", w)
    <3>1. Booked(w)' = Booked(w) + IF Dest[a] = w THEN Column(a)' - Column(a) ELSE 0
      BY <1>1, <1>3, <2>8, <2>10, BookedColumn
    <3>2. Booked(w) \in Int
      BY <1>1, BookedParts
    <3>3. PutsBack("challenge", w) = 0 /\ Sends("challenge", w) = IF Dest[a] = w THEN amt ELSE 0
      BY <1>2, <2>4 DEF PutsBack, Sends, C
    <3> QED BY <2>10, <3>1, <3>2, <3>3
  <2>12. job["challenge"].stage # "send" /\ job'["challenge"].stage # "unsent"
    BY <1>2, <2>4 DEF C
  <2>13. \A b \in Accounts : paid'[b] <= peak'[b]
    BY <1>1, <1>3
  <2> QED BY <1>3, <2>6, <2>8, <2>9, <2>11, <2>12, <2>13, OtherPipeline
<1>7. \/ job' = [job EXCEPT !["challenge"].todo = @ \ {a}] /\ UNCHANGED awards
      \/ /\ ~ (awards[a] > 0) /\ awards' = [awards EXCEPT ![a] = C.share[a]]
         /\ Send("challenge", [C EXCEPT !.todo = @ \ {a}], a, Dest[a], C.share[a])
  BY DEF ChallengeAward, C
<1>8. awards[a] \in Nat
  BY <1>1 DEF TablesTyped
<1> QED BY <1>5, <1>6, <1>7, <1>8

LEMMA ChallengeUndoPays == ASSUME PayInv, ChallengeUndo PROVE PayInv'
<1>1. /\ JobsTyped /\ TablesTyped /\ ChallengeShares /\ ClaimsHeld /\ "challenge" \in Pipelines
      /\ \A b \in Accounts : paid[b] <= peak[b]
  BY DEF PayInv, PayTypes, MoneyInv, Pipelines
<1>2. /\ C.stage = "unsent" /\ Continue("challenge") /\ awards' = [awards EXCEPT ![C.acct] = 0]
      /\ UNCHANGED <<unsettled, points, wallet, landed, queued, mode, earned, peak, paid, refs, xfer, runs>>
  BY DEF ChallengeUndo, users, chain, C
<1>3. PICK a \in Accounts : a = C.acct /\ C.amt \in Nat /\ C.to = Dest[a] /\ awards[a] = C.amt
  BY <1>1, <1>2 DEF JobsTyped, ClaimsHeld, Destined, AwardHeld, Engaged, Underway, C
<1>4. /\ DOMAIN job' = Pipelines /\ \A l \in Pipelines \ {"challenge"} : job'[l] = job[l]
      /\ IsJob(C') /\ C'.stage = "next" /\ C'.todo = C.todo /\ C'.share = C.share
  BY <1>1, <1>2, ContinueFields DEF C
<1>5. OwnStep("challenge")
  BY <1>2, <1>4 DEF OwnStep, Engaged, C
<1>6. /\ awards' \in [Accounts -> Nat] /\ awards'[a] = 0
      /\ \A b \in Accounts \ {a} : awards'[b] = awards[b]
  BY <1>1, <1>2, <1>3 DEF TablesTyped
<1>7. TablesTyped'
  BY <1>1, <1>2, <1>6 DEF TablesTyped
<1>8. ChallengeShares' /\ AwardHeld' /\ Destined("challenge")'
  BY <1>1, <1>2, <1>4 DEF ChallengeShares, AwardHeld, Destined, Underway, C
<1>9. /\ \A b \in Accounts \ {a} : Column(b)' = Column(b)
      /\ Column(a)' = Column(a) - C.amt /\ Column(a) \in Int
  <2>1. paid[a] \in Int /\ points[a].morm \in Int
    BY <1>1 DEF TablesTyped, PointsType
  <2> QED BY <1>2, <1>3, <1>6, <2>1 DEF Column
<1>10. ASSUME NEW w \in Accounts
       PROVE  Booked(w)' >= Booked(w) + Sends("challenge", w) - PutsBack("challenge", w)
  <2>1. Booked(w)' = Booked(w) + IF Dest[a] = w THEN Column(a)' - Column(a) ELSE 0
    BY <1>1, <1>2, <1>7, <1>9, BookedColumn
  <2>2. Booked(w) \in Int
    BY <1>1, BookedParts
  <2>3. Sends("challenge", w) = 0 /\ PutsBack("challenge", w) = IF Dest[a] = w THEN C.amt ELSE 0
    BY <1>2, <1>3, <1>4 DEF PutsBack, Sends, C
  <2> QED BY <1>3, <1>9, <2>1, <2>2, <2>3
<1>11. job["challenge"].stage # "send" /\ job'["challenge"].stage # "unsent"
  BY <1>2, <1>4 DEF C
<1>12. \A b \in Accounts : paid'[b] <= peak'[b]
  BY <1>1, <1>2
<1> QED BY <1>2, <1>5, <1>7, <1>8, <1>10, <1>11, <1>12, OtherPipeline

LEMMA ChallengeEndPays == ASSUME PayInv, ChallengeEnd PROVE PayInv'
<1>1. JobsTyped /\ TablesTyped /\ "challenge" \in Pipelines
  BY DEF PayInv, PayTypes, Pipelines
<1>2. /\ C.stage \in {"next", "sent"} /\ Stop("challenge")
      /\ UNCHANGED <<unsettled, points, wallet, landed, queued, mode, earned, peak, paid, awards, refs, xfer, runs>>
  BY DEF ChallengeEnd, AtNext, users, books, chain, C
<1>3. /\ DOMAIN job' = Pipelines /\ \A l \in Pipelines \ {"challenge"} : job'[l] = job[l]
      /\ IsJob(C') /\ C'.stage = "idle"
  BY <1>1, <1>2, StopFields DEF C
<1>4. OwnStep("challenge")
  BY <1>2, <1>3 DEF OwnStep, Engaged, C
<1>5. ChallengeShares'
  BY <1>3 DEF ChallengeShares
<1> QED BY <1>1, <1>2, <1>3, <1>4, <1>5, QuietPipeline DEF C, TablesTyped

-----------------------------------------------------------------------------
(* What users and the administrator do                                      *)

LEMMA StillThreads ==
    ASSUME PayInv, UNCHANGED <<job, xfer, mode, paid, points, awards, peak, runs, wallet, landed, queued>>,
           TablesTyped', \A a \in Accounts : unsettled'[a] >= unsettled[a],
           ReferralHeld', RefsHeld', \A w \in Accounts : Booked(w)' = Booked(w)
    PROVE  PayInv'
<1>1. /\ JobsTyped /\ XferTyped /\ TablesTyped /\ PointsShares /\ ChallengeShares /\ BudgetInv
      /\ ClaimsHeld /\ \A a \in Accounts : paid[a] <= peak[a]
  BY DEF PayInv, PayTypes, MoneyInv
<1>2. JobsTyped' /\ XferTyped' /\ ChallengeShares'
  BY <1>1 DEF JobsTyped, XferTyped, ChallengeShares, C
<1>3. PointsShares'
  <2>1. \A a \in Accounts : unsettled[a] \in Int /\ unsettled'[a] \in Int
    BY <1>1 DEF TablesTyped
  <2>2. J' = J
    BY DEF J
  <2>3. J.stage # "idle" => \A a \in J.todo : a \in Accounts /\ J.share[a] \in Int
    BY <1>1 DEF PointsShares
  <2>4. J.stage # "idle" /\ mode = "proportional" =>
          \A a \in J.todo : 0 < J.share[a] /\ J.share[a] <= unsettled'[a]
    BY <1>1, <2>1, <2>3 DEF PointsShares
  <2> QED BY <1>1, <2>2, <2>4 DEF PointsShares
<1>4. BudgetInv'
  BY <1>1 DEF BudgetInv, Settled, SnapTotal, J
<1>5. ClaimsHeld' /\ \A a \in Accounts : paid'[a] <= peak'[a]
  BY <1>1 DEF ClaimsHeld, Destined, AwardHeld, C
<1>6. ASSUME Calm PROVE (xfer'.by # "nobody" => wallet'[xfer'.to] >= xfer'.b0) /\ Covered' /\ Orphans'
  <2>1. (xfer.by # "nobody" => wallet[xfer.to] >= xfer.b0) /\ Covered /\ Orphans
    BY <1>6 DEF PayInv, MoneyInv
  <2>2. \A w \in Accounts : Open(w)' = Open(w)
    BY DEF Open, OpenFor, Arrived, Tx
  <2>3. Covered'
    BY <2>1, <2>2 DEF Covered
  <2>4. Orphans'
    <3>1. \A t \in queued : t.to \in Accounts
      BY <1>1 DEF TablesTyped
    <3> QED BY <2>1, <2>2, <3>1 DEF Orphans, Mine, Tx
  <2> QED BY <2>1, <2>3, <2>4
<1> QED BY <1>2, <1>3, <1>4, <1>5, <1>6 DEF PayInv, PayTypes, MoneyInv

LEMMA AttachPays ==
    ASSUME PayInv, NEW e \in Accounts, NEW r \in Accounts, AttachReferral(e, r)
    PROVE  PayInv'
<1>1. TablesTyped /\ ReferralHeld /\ RefsHeld /\ JobsTyped
  BY DEF PayInv, PayTypes, MoneyInv, ClaimsHeld
<1>2. /\ refs[e].by = NoAccount /\ refs' = [refs EXCEPT ![e] = [NoRef EXCEPT !.by = r]]
      /\ UNCHANGED <<job, xfer, mode, paid, points, awards, peak, runs, wallet, landed, queued, earned, unsettled>>
  BY DEF AttachReferral, users, chain
<1>3. ~ refs[e].rewarded /\ ~ refs[e].sent /\ refs[e] \in RefType
  BY <1>1, <1>2 DEF RefsHeld, TablesTyped
<1>4. /\ refs'[e] = [NoRef EXCEPT !.by = r] /\ \A d \in Accounts \ {e} : refs'[d] = refs[d]
      /\ refs \in [Accounts -> RefType]
  BY <1>1, <1>2 DEF TablesTyped
<1>5. /\ refs'[e].by = r /\ refs'[e].rewarded = FALSE /\ refs'[e].sent = FALSE
      /\ refs'[e] \in RefType
  BY <1>4 DEF NoRef, RefType
<1>6. refs[e].rewarded = FALSE /\ refs[e].sent = FALSE
  BY <1>3 DEF RefType
<1>7. refs' \in [Accounts -> RefType]
  BY <1>2, <1>4, <1>5
<1>8. TablesTyped'
  BY <1>1, <1>2, <1>7 DEF TablesTyped
<1>9. \A w \in Accounts : Booked(w)' = Booked(w)
  <2>1. \A d \in Accounts : /\ refs'[d].rewarded = refs[d].rewarded /\ refs'[d].sent = refs[d].sent
                            /\ refs'[d].sent => refs'[d].by = refs[d].by
    BY <1>4, <1>5, <1>6
  <2> QED BY <1>2, <2>1, BookedByRefs
<1>10. r # NoAccount
  BY RewardsAssumption
<1>11. ReferralHeld'
  <2>1. R.stage \in Engaged => refs[R.acct].by # NoAccount /\ R.acct \in Accounts
    BY <1>1 DEF ReferralHeld, JobsTyped, R, Pipelines
  <2>2. R.stage \in Engaged => refs'[R.acct] = refs[R.acct]
    BY <1>2, <1>4, <2>1
  <2>3. R.stage # "idle" => \A d \in R.todo : refs'[d] = refs[d]
    BY <1>1, <1>2, <1>4 DEF ReferralHeld
  <2>4. R' = R
    BY <1>2 DEF R
  <2> QED BY <1>1, <2>2, <2>3, <2>4 DEF ReferralHeld
<1>12. RefsHeld'
  BY <1>1, <1>4, <1>5, <1>10 DEF RefsHeld
<1>13. \A a \in Accounts : unsettled'[a] >= unsettled[a]
  BY <1>1, <1>2 DEF TablesTyped
<1> QED BY <1>2, <1>8, <1>9, <1>11, <1>12, <1>13, StillThreads

LEMMA UserPays == ASSUME PayInv, User PROVE PayInv'
<1>1. TablesTyped /\ ReferralHeld /\ RefsHeld
  BY DEF PayInv, PayTypes, MoneyInv, ClaimsHeld
<1>2. ASSUME UNCHANGED <<job, xfer, mode, books, peak, runs, chain>>,
             earned' \in [Accounts -> Int], unsettled' \in [Accounts -> Nat],
             \A a \in Accounts : unsettled'[a] >= unsettled[a]
      PROVE  PayInv'
  <2>1. TablesTyped' /\ ReferralHeld' /\ RefsHeld'
    BY <1>1, <1>2 DEF TablesTyped, ReferralHeld, RefsHeld, R, books, chain
  <2>2. \A w \in Accounts : Booked(w)' = Booked(w)
    BY <1>2, BookedSame
  <2> QED BY <1>2, <2>1, <2>2, StillThreads DEF books, chain
<1>3. earned \in [Accounts -> Int] /\ unsettled \in [Accounts -> Nat]
  BY <1>1 DEF TablesTyped
<1>4. ASSUME NEW a \in Accounts, GrantPoints(a) PROVE PayInv'
  <2>1. unsettled' = [unsettled EXCEPT ![a] = @ + 1] /\ UNCHANGED <<earned, books, job, xfer, chain, peak, runs, mode>>
    BY <1>4 DEF GrantPoints
  <2>2. unsettled' \in [Accounts -> Nat] /\ \A b \in Accounts : unsettled'[b] >= unsettled[b]
    BY <1>3, <2>1
  <2> QED BY <1>2, <1>3, <2>1, <2>2
<1>5. ASSUME UNCHANGED <<unsettled, books, job, xfer, chain, peak, runs, mode>>, earned' \in [Accounts -> Int]
      PROVE  PayInv'
  <2>1. \A a \in Accounts : unsettled'[a] >= unsettled[a]
    BY <1>3, <1>5
  <2> QED BY <1>2, <1>3, <1>5, <2>1
<1>6. ASSUME NEW a \in Accounts, NEW e \in 0..MaxEarned, Earn(a, e) PROVE PayInv'
  <2>1. earned' = [earned EXCEPT ![a] = e] /\ e \in Int
        /\ UNCHANGED <<unsettled, books, job, xfer, chain, peak, runs, mode>>
    BY <1>6 DEF Earn
  <2> QED BY <1>3, <1>5, <2>1
<1>7. CASE IntervalPasses \/ \E a \in Accounts : ApprovePost(a) \/ \E on \in BOOLEAN : SetHold(a, on)
  <2>1. UNCHANGED <<earned, unsettled, books, job, xfer, chain, peak, runs, mode>>
    BY <1>7 DEF IntervalPasses, ApprovePost, SetHold
  <2> QED BY <1>3, <1>5, <2>1
<1> QED BY <1>4, <1>6, <1>7, AttachPays DEF User

-----------------------------------------------------------------------------
(* l1_transfer                                                              *)

\* A thread whose transfer begins or ends: only its stage changes.
LEMMA StageMoved ==
    ASSUME PayInv, NEW k \in Pipelines, NEW s, Goto(k, s), job[k].stage \in {"send", "sending"},
           s \in {"sending", "sent", "unsent"}, UNCHANGED <<users, books, chain, peak, runs, mode>>
    PROVE  /\ JobsTyped' /\ TablesTyped' /\ PointsShares' /\ ChallengeShares' /\ BudgetInv' /\ ClaimsHeld'
           /\ \A a \in Accounts : paid'[a] <= peak'[a]
<1>1. /\ JobsTyped /\ TablesTyped /\ PointsShares /\ ChallengeShares /\ BudgetInv
      /\ ClaimsHeld /\ \A a \in Accounts : paid[a] <= peak[a]
  BY DEF PayInv, PayTypes, MoneyInv
<1>2. /\ DOMAIN job' = Pipelines /\ \A l \in Pipelines \ {k} : job'[l] = job[l]
      /\ IsJob(job'[k]) /\ job'[k].stage = s
      /\ job'[k].acct = job[k].acct /\ job'[k].to = job[k].to /\ job'[k].amt = job[k].amt
      /\ job'[k].todo = job[k].todo /\ job'[k].share = job[k].share
      /\ job'[k].undo = job[k].undo /\ job'[k].leg = job[k].leg
  BY <1>1, GotoFields
<1>3. \A l \in Pipelines :
        /\ job'[l].acct = job[l].acct /\ job'[l].to = job[l].to /\ job'[l].amt = job[l].amt
        /\ job'[l].todo = job[l].todo /\ job'[l].share = job[l].share
        /\ job'[l].undo = job[l].undo /\ job'[l].leg = job[l].leg
        /\ (job'[l].stage \in Engaged <=> job[l].stage \in Engaged)
        /\ (job'[l].stage = "idle" <=> job[l].stage = "idle")
        /\ (job'[l].stage \in Underway => job[l].stage \in Underway)
  BY <1>2 DEF Engaged, Underway
<1>4. JobsTyped'
  BY <1>1, <1>2, <1>3 DEF JobsTyped
<1>5. TablesTyped'
  BY <1>1 DEF TablesTyped, users, books, chain
<1>6. /\ J'.todo = J.todo /\ J'.share = J.share /\ J'.undo = J.undo
      /\ (J'.stage \in Engaged <=> J.stage \in Engaged) /\ (J'.stage = "idle" <=> J.stage = "idle")
  BY <1>3 DEF J, Pipelines
<1>7. PointsShares'
  BY <1>1, <1>6 DEF PointsShares, users
<1>8. ChallengeShares'
  BY <1>1, <1>3 DEF ChallengeShares, C, Pipelines
<1>9. BudgetInv'
  <2>1. Settled' = Settled /\ SnapTotal' = SnapTotal
    BY <1>6 DEF Settled, SnapTotal, books
  <2> QED BY <1>1, <1>6, <2>1 DEF BudgetInv
<1>10. \A l \in Pipelines : Destined(l) => Destined(l)'
  BY <1>3 DEF Destined
<1>11. AwardHeld'
  BY <1>1, <1>3 DEF ClaimsHeld, AwardHeld, C, Pipelines, books
<1>12. ReferralHeld' /\ RefsHeld'
  <2>1. /\ R'.todo = R.todo /\ R'.acct = R.acct /\ R'.amt = R.amt /\ R'.leg = R.leg /\ R'.to = R.to
        /\ (R'.stage \in Engaged <=> R.stage \in Engaged) /\ (R'.stage = "idle" <=> R.stage = "idle")
    BY <1>3 DEF R, Pipelines
  <2>2. refs' = refs
    BY DEF books
  <2> QED BY <1>1, <2>1, <2>2 DEF ClaimsHeld, ReferralHeld, RefsHeld
<1>13. ClaimsHeld'
  BY <1>1, <1>10, <1>11, <1>12 DEF ClaimsHeld, Pipelines
<1>14. \A a \in Accounts : paid'[a] <= peak'[a]
  BY <1>1 DEF books
<1> QED BY <1>4, <1>5, <1>7, <1>8, <1>9, <1>13, <1>14

\* A transfer in the mempool is covered by its thread.
LEMMA MineOpen ==
    ASSUME JobsTyped, XferTyped, TablesTyped, NEW t \in queued, Mine(t)
    PROVE  t.to \in Accounts /\ t.amt \in Nat /\ xfer.by \in Pipelines
           /\ t.to = xfer.to /\ t.amt = xfer.amt /\ OpenFor(xfer.by, t.to) = t.amt
           /\ Open(t.to) >= t.amt
<1>1. xfer.step = "poll" /\ t = Tx(xfer) /\ ~ Arrived
  BY DEF Mine, Arrived
<1>2. /\ xfer.by \in Pipelines /\ job[xfer.by].stage = "sending"
      /\ xfer.to = job[xfer.by].to /\ xfer.amt = job[xfer.by].amt
  BY <1>1 DEF XferTyped
<1>3. t.to = xfer.to /\ t.amt = xfer.amt
  BY <1>1 DEF Tx
<1>4. t.to \in Accounts /\ t.amt \in Nat
  BY DEF TablesTyped
<1>5. OpenFor(xfer.by, t.to) = t.amt
  BY <1>1, <1>2, <1>3 DEF OpenFor
<1>6. \A k \in Pipelines : OpenFor(k, t.to) \in Nat
  BY <1>4, OpenTyped
<1>7. Open(t.to) >= t.amt
  BY <1>2, <1>5, <1>6 DEF Open, Pipelines
<1> QED BY <1>2, <1>3, <1>4, <1>5, <1>7

\* Nothing lands, nothing is booked, and no less stands open than before but for
\* transfers that are on their own from now on.
LEMMA NothingLands ==
    ASSUME JobsTyped, TablesTyped, Covered, Orphans, UNCHANGED <<books, landed>>,
           \A w \in Accounts : Open(w)' \in Int /\ Open(w)' <= Open(w),
           \A t \in queued' : t.to \in Accounts /\ t.amt \in Nat
                              /\ (Mine(t)' \/ (t \in queued /\ (~ Mine(t) \/ Open(t.to)' + t.amt <= Open(t.to))))
    PROVE  Covered' /\ Orphans'
<1>1. \A w \in Accounts : /\ landed[w] \in Int /\ Open(w) \in Int /\ Booked(w) \in Int
                          /\ Booked(w)' = Booked(w)
  <2>1. \A w \in Accounts : landed[w] \in Int /\ Open(w) \in Int
    BY OpenTyped DEF TablesTyped
  <2>2. \A w \in Accounts : Booked(w) \in Int
    BY BookedParts
  <2>3. \A w \in Accounts : Booked(w)' = Booked(w)
    BY BookedSame
  <2> QED BY <2>1, <2>2, <2>3
<1>2. Covered'
  BY <1>1 DEF Covered
<1>3. ASSUME NEW t \in queued' PROVE Mine(t)' \/ landed'[t.to] + Open(t.to)' + t.amt <= Booked(t.to)'
  <2>1. CASE Mine(t)'
    BY <2>1
  <2>2. CASE t \in queued /\ ~ Mine(t)
    <3>1. landed[t.to] + Open(t.to) + t.amt <= Booked(t.to)
      BY <2>2 DEF Orphans
    <3> QED BY <1>1, <3>1
  <2>3. CASE Open(t.to)' + t.amt <= Open(t.to)
    <3>1. landed[t.to] + Open(t.to) <= Booked(t.to)
      BY DEF Covered
    <3> QED BY <1>1, <2>3, <3>1
  <2> QED BY <2>1, <2>2, <2>3
<1> QED BY <1>2, <1>3 DEF Orphans

LEMMA BeginPays == ASSUME PayInv, NEW k \in Pipelines, TransferBegin(k) PROVE PayInv'
<1>1. JobsTyped /\ XferTyped /\ TablesTyped
  BY DEF PayInv, PayTypes
<1>2. /\ job[k].stage = "send" /\ xfer.by = "nobody" /\ Goto(k, "sending")
      /\ UNCHANGED <<users, books, chain, peak, runs, mode>>
      /\ xfer' = [NoXfer EXCEPT !.by = k, !.step = "nonce", !.to = job[k].to,
                                !.amt = job[k].amt, !.b0 = wallet[job[k].to]]
  BY DEF TransferBegin
<1>3. job[k].to \in Accounts /\ job[k].amt \in Nat /\ wallet[job[k].to] \in Nat
  BY <1>1, <1>2 DEF JobsTyped, TablesTyped, Engaged
<1>4. /\ DOMAIN xfer' = XferFields /\ xfer'.by = k /\ xfer'.step = "nonce" /\ xfer'.to = job[k].to
      /\ xfer'.amt = job[k].amt /\ xfer'.b0 = wallet[job[k].to]
  BY <1>2 DEF NoXfer, XferFields
<1>5. /\ job'[k].stage = "sending" /\ job'[k].to = job[k].to /\ job'[k].amt = job[k].amt
      /\ \A l \in Pipelines \ {k} : job'[l] = job[l] /\ job[l].stage # "sending"
  BY <1>1, <1>2, GotoFields DEF XferTyped, Pipelines
<1>6. XferTyped'
  BY <1>3, <1>4, <1>5 DEF XferTyped, Pipelines
<1>7. /\ JobsTyped' /\ TablesTyped' /\ PointsShares' /\ ChallengeShares' /\ BudgetInv' /\ ClaimsHeld'
      /\ \A a \in Accounts : paid'[a] <= peak'[a]
  BY <1>2, StageMoved
<1>8. ASSUME Calm PROVE (xfer'.by # "nobody" => wallet'[xfer'.to] >= xfer'.b0) /\ Covered' /\ Orphans'
  <2>1. Covered /\ Orphans
    BY <1>8 DEF PayInv, MoneyInv
  <2>2. xfer.step = "none" /\ ~ Arrived' /\ wallet' = wallet
    BY <1>1, <1>2, <1>4 DEF XferTyped, Arrived, chain
  <2>3. \A w \in Accounts : \A l \in Pipelines : OpenFor(l, w)' = OpenFor(l, w)
    BY <1>2, <1>5, <2>2 DEF OpenFor
  <2>4. \A w \in Accounts : Open(w)' = Open(w) /\ Open(w) \in Nat
    BY <1>1, <2>3, OpenTyped DEF Open, Pipelines
  <2>5. \A t \in queued' : t \in queued /\ ~ Mine(t) /\ t.to \in Accounts /\ t.amt \in Nat
    BY <1>1, <1>2, <2>2 DEF Mine, TablesTyped, chain
  <2>6. Covered' /\ Orphans'
    BY <1>1, <1>2, <2>1, <2>4, <2>5, NothingLands DEF chain
  <2> QED BY <1>3, <1>4, <2>2, <2>6
<1> QED BY <1>6, <1>7, <1>8 DEF PayInv, PayTypes, MoneyInv

\* The transfer goes on: threads and tables stand still.
LEMMA TransferGoesOn ==
    ASSUME PayInv, UNCHANGED <<users, books, job, wallet, landed, peak, runs, mode>>,
           DOMAIN xfer' = XferFields, xfer'.by = xfer.by, xfer'.to = xfer.to, xfer'.amt = xfer.amt,
           xfer'.b0 = xfer.b0, xfer.by = "nobody" => xfer'.step = "none",
           \A t \in queued' : t.to \in Accounts /\ t.amt \in Nat /\ (Mine(t)' \/ (t \in queued /\ ~ Mine(t))),
           ~ Arrived
    PROVE  PayInv'
<1>1. /\ JobsTyped /\ XferTyped /\ TablesTyped /\ PointsShares /\ ChallengeShares /\ BudgetInv
      /\ ClaimsHeld /\ \A a \in Accounts : paid[a] <= peak[a]
  BY DEF PayInv, PayTypes, MoneyInv
<1>2. JobsTyped' /\ XferTyped' /\ ChallengeShares'
  BY <1>1 DEF JobsTyped, XferTyped, ChallengeShares, C
<1>3. TablesTyped'
  BY <1>1 DEF TablesTyped, users, books
<1>4. PointsShares' /\ BudgetInv'
  BY <1>1, PointsApart DEF J, users, books
<1>5. ClaimsHeld' /\ \A a \in Accounts : paid'[a] <= peak'[a]
  BY <1>1 DEF ClaimsHeld, Destined, AwardHeld, ReferralHeld, RefsHeld, R, C, books
<1>6. ASSUME Calm PROVE (xfer'.by # "nobody" => wallet'[xfer'.to] >= xfer'.b0) /\ Covered' /\ Orphans'
  <2>1. (xfer.by # "nobody" => wallet[xfer.to] >= xfer.b0) /\ Covered /\ Orphans
    BY <1>6 DEF PayInv, MoneyInv
  <2>2. \A w \in Accounts : \A l \in Pipelines :
          /\ OpenFor(l, w) \in Nat /\ OpenFor(l, w)' \in Nat /\ OpenFor(l, w)' <= OpenFor(l, w)
    BY <1>1 DEF OpenFor, JobsTyped, Engaged
  <2>3. \A w \in Accounts : Open(w)' \in Int /\ Open(w)' <= Open(w)
    BY <2>2 DEF Open, Pipelines
  <2>4. Covered' /\ Orphans'
    BY <1>1, <2>1, <2>3, NothingLands
  <2> QED BY <2>1, <2>4
<1> QED BY <1>2, <1>3, <1>4, <1>5, <1>6 DEF PayInv, PayTypes, MoneyInv

LEMMA NoncePays == ASSUME PayInv, TransferNonce PROVE PayInv'
<1>1. XferTyped /\ TablesTyped
  BY DEF PayInv, PayTypes
<1>2. /\ xfer.step = "nonce" /\ xfer' = [xfer EXCEPT !.step = "post", !.nonce = nonce]
      /\ UNCHANGED <<users, books, job, wallet, landed, queued, peak, runs, mode>>
  BY DEF TransferNonce, chain
<1>3. /\ DOMAIN xfer' = XferFields /\ xfer'.by = xfer.by /\ xfer'.to = xfer.to
      /\ xfer'.amt = xfer.amt /\ xfer'.b0 = xfer.b0 /\ xfer.by # "nobody"
  BY <1>1, <1>2 DEF XferTyped, XferFields
<1>4. ~ Arrived /\ \A t \in queued : ~ Mine(t) /\ t.to \in Accounts /\ t.amt \in Nat
  BY <1>1, <1>2 DEF Arrived, Mine, TablesTyped
<1> QED BY <1>2, <1>3, <1>4, TransferGoesOn

LEMMA PostPays == ASSUME PayInv, TransferPost PROVE PayInv'
<1>1. JobsTyped /\ XferTyped /\ TablesTyped
  BY DEF PayInv, PayTypes
<1>2. /\ xfer.step = "post" /\ xfer' = [xfer EXCEPT !.step = "poll"]
      /\ queued' = queued \/ queued' = queued \cup {Tx(xfer)}
      /\ UNCHANGED <<users, books, job, wallet, landed, peak, runs, mode>>
  BY DEF TransferPost
<1>3. /\ DOMAIN xfer' = XferFields /\ xfer'.by = xfer.by /\ xfer'.to = xfer.to /\ xfer'.step = "poll"
      /\ xfer'.amt = xfer.amt /\ xfer'.b0 = xfer.b0 /\ xfer'.nonce = xfer.nonce /\ xfer.by # "nobody"
  BY <1>1, <1>2 DEF XferTyped, XferFields
<1>4. xfer.to \in Accounts /\ xfer.amt \in Nat
  BY <1>1, <1>3 DEF XferTyped, JobsTyped, Engaged
<1>5. ~ Arrived /\ \A t \in queued : ~ Mine(t) /\ t.to \in Accounts /\ t.amt \in Nat
  BY <1>1, <1>2 DEF Arrived, Mine, TablesTyped
<1>6. Mine(Tx(xfer))'
  BY <1>3 DEF Mine, Tx
<1>7. Tx(xfer).to \in Accounts /\ Tx(xfer).amt \in Nat
  BY <1>4 DEF Tx
<1>8. \A t \in queued' : t.to \in Accounts /\ t.amt \in Nat /\ (Mine(t)' \/ (t \in queued /\ ~ Mine(t)))
  <2> SUFFICES ASSUME NEW t \in queued'
               PROVE  t.to \in Accounts /\ t.amt \in Nat /\ (Mine(t)' \/ (t \in queued /\ ~ Mine(t)))
    OBVIOUS
  <2>1. CASE t \in queued
    BY <1>5, <2>1
  <2>2. CASE t = Tx(xfer)
    <3>1. Mine(t)'
      BY <1>3, <2>2 DEF Mine, Tx
    <3> QED BY <1>7, <2>2, <3>1
  <2> QED BY <1>2, <2>1, <2>2
<1> QED BY <1>2, <1>3, <1>5, <1>8, TransferGoesOn

\* The transfer ends: its thread goes on.
LEMMA ReleasePays ==
    ASSUME PayInv, NEW s \in {"sent", "unsent"}, Release(s), xfer.by # "nobody",
           UNCHANGED <<users, books, chain, peak, runs, mode>>,
           Calm /\ s = "unsent" => ~ Arrived /\ \A t \in queued : ~ Mine(t)
    PROVE  PayInv'
<1>1. JobsTyped /\ XferTyped /\ TablesTyped
  BY DEF PayInv, PayTypes
<1>2. PICK k \in Pipelines : k = xfer.by
  BY <1>1 DEF XferTyped
<1>3. job[k].stage = "sending" /\ Goto(k, s) /\ xfer' = NoXfer /\ UNCHANGED <<wallet, landed, queued, unsettled>>
  BY <1>1, <1>2 DEF Release, XferTyped, chain, users
<1>4. /\ DOMAIN job' = Pipelines /\ job'[k].stage = s /\ job'[k].to = job[k].to /\ job'[k].amt = job[k].amt
      /\ \A l \in Pipelines \ {k} : job'[l] = job[l] /\ job[l].stage # "sending"
  BY <1>1, <1>2, <1>3, GotoFields DEF XferTyped
<1>5. DOMAIN NoXfer = XferFields /\ NoXfer.by = "nobody" /\ NoXfer.step = "none"
  BY DEF NoXfer, XferFields
<1>6. XferTyped'
  BY <1>3, <1>4, <1>5 DEF XferTyped, Pipelines
<1>7. /\ JobsTyped' /\ TablesTyped' /\ PointsShares' /\ ChallengeShares' /\ BudgetInv' /\ ClaimsHeld'
      /\ \A a \in Accounts : paid'[a] <= peak'[a]
  BY <1>3, StageMoved
<1>8. ASSUME Calm PROVE (xfer'.by # "nobody" => wallet'[xfer'.to] >= xfer'.b0) /\ Covered' /\ Orphans'
  <2>1. Covered /\ Orphans
    BY <1>8 DEF PayInv, MoneyInv
  <2>2. \A w \in Accounts : \A l \in Pipelines \ {k} : OpenFor(l, w)' = OpenFor(l, w)
    BY <1>4 DEF OpenFor
  <2>3. \A w \in Accounts : OpenFor(k, w)' = IF s = "unsent" /\ job[k].to = w THEN job[k].amt ELSE 0
    BY <1>4 DEF OpenFor
  <2>4. s = "unsent" => \A w \in Accounts : OpenFor(k, w) = IF job[k].to = w THEN job[k].amt ELSE 0
    BY <1>3, <1>8 DEF OpenFor
  <2>5. \A w \in Accounts : \A l \in Pipelines : OpenFor(l, w) \in Nat
    BY <1>1, OpenTyped
  <2>6. \A w \in Accounts : OpenFor(k, w)' \in Nat /\ OpenFor(k, w)' <= OpenFor(k, w)
    <3>1. CASE s = "sent"
      BY <2>3, <2>5, <3>1
    <3>2. CASE s = "unsent"
      BY <2>3, <2>4, <2>5, <3>2
    <3> QED BY <3>1, <3>2
  <2>7. \A w \in Accounts : /\ Open(w)' \in Int /\ Open(w)' <= Open(w)
                            /\ Open(w)' = Open(w) - OpenFor(k, w) + OpenFor(k, w)'
    BY <2>2, <2>5, <2>6 DEF Open, Pipelines
  <2>8. ASSUME NEW t \in queued'
        PROVE  /\ t.to \in Accounts /\ t.amt \in Nat
               /\ t \in queued /\ (~ Mine(t) \/ Open(t.to)' + t.amt <= Open(t.to))
    <3>1. t \in queued /\ t.to \in Accounts /\ t.amt \in Nat
      BY <1>1, <1>3 DEF TablesTyped
    <3>2. CASE Mine(t)
      <4>1. OpenFor(k, t.to) = t.amt /\ s = "sent"
        BY <1>1, <1>2, <1>8, <3>1, <3>2, MineOpen
      <4>2. OpenFor(k, t.to)' = 0
        BY <2>3, <3>1, <4>1
      <4>3. Open(t.to)' = Open(t.to) - t.amt /\ Open(t.to) \in Int
        BY <1>1, <2>7, <3>1, <4>1, <4>2, OpenTyped
      <4> QED BY <3>1, <4>3
    <3> QED BY <3>1, <3>2
  <2>9. UNCHANGED <<books, landed>>
    BY <1>3
  <2>10. Covered' /\ Orphans'
    BY <1>1, <2>1, <2>7, <2>8, <2>9, NothingLands
  <2> QED BY <1>3, <1>5, <2>10
<1> QED BY <1>6, <1>7, <1>8 DEF PayInv, PayTypes, MoneyInv

LEMMA TransferPays == ASSUME PayInv, Transfer PROVE PayInv'
<1>1. XferTyped /\ TablesTyped /\ JobsTyped
  BY DEF PayInv, PayTypes
<1>2. CASE TransferConfirm
  <2>1. xfer.by # "nobody"
    BY <1>1, <1>2 DEF TransferConfirm, XferTyped
  <2> QED BY <1>2, <2>1, ReleasePays DEF TransferConfirm
<1>3. CASE TransferGiveUp
  <2>1. ASSUME Calm PROVE ~ Arrived /\ \A t \in queued : ~ Mine(t)
    <3>1. CASE xfer.step = "poll"
      <4>1. Tx(xfer) \notin queued /\ wallet[xfer.to] < xfer.b0 + xfer.amt
        BY <1>3, <2>1, <3>1 DEF TransferGiveUp
      <4>2. \A t \in queued : ~ Mine(t)
        BY <4>1 DEF Mine
      <4>3. ~ Arrived
        <5>1. xfer.by \in Pipelines
          BY <1>1, <1>3 DEF TransferGiveUp, XferTyped
        <5>2. job[xfer.by].stage = "sending" /\ xfer.to = job[xfer.by].to /\ xfer.amt = job[xfer.by].amt
              /\ xfer.b0 \in Nat
          BY <1>1, <1>3, <5>1 DEF TransferGiveUp, XferTyped
        <5>3. xfer.to \in Accounts /\ xfer.amt \in Nat
          BY <1>1, <5>1, <5>2 DEF JobsTyped, Engaged
        <5>4. wallet[xfer.to] \in Nat
          BY <1>1, <5>3 DEF TablesTyped
        <5> QED BY <4>1, <5>2, <5>3, <5>4 DEF Arrived
      <4> QED BY <4>2, <4>3
    <3>2. CASE xfer.step # "poll"
      BY <3>2 DEF Arrived, Mine
    <3> QED BY <3>1, <3>2
  <2> QED BY <1>3, <2>1, ReleasePays DEF TransferGiveUp
<1> QED BY <1>2, <1>3, NoncePays, PostPays, BeginPays DEF Transfer

-----------------------------------------------------------------------------
(* The L1 node, and the end of the process                                  *)

\* The threads stand still, and a transfer that has arrived stays so.
LEMMA NodeTables ==
    ASSUME PayInv, UNCHANGED <<users, books, job, xfer, peak, runs, mode>>,
           wallet' \in [Accounts -> Nat], landed' \in [Accounts -> Nat], queued' \subseteq queued
    PROVE  /\ JobsTyped' /\ XferTyped' /\ TablesTyped' /\ PointsShares' /\ ChallengeShares'
           /\ BudgetInv' /\ ClaimsHeld' /\ \A a \in Accounts : paid'[a] <= peak'[a]
<1>1. /\ JobsTyped /\ XferTyped /\ TablesTyped /\ PointsShares /\ ChallengeShares /\ BudgetInv
      /\ ClaimsHeld /\ \A a \in Accounts : paid[a] <= peak[a]
  BY DEF PayInv, PayTypes, MoneyInv
<1>2. JobsTyped' /\ XferTyped' /\ ChallengeShares'
  BY <1>1 DEF JobsTyped, XferTyped, ChallengeShares, C
<1>3. TablesTyped'
  BY <1>1 DEF TablesTyped, users, books
<1>4. PointsShares' /\ BudgetInv'
  BY <1>1, PointsApart DEF J, users, books
<1>5. ClaimsHeld' /\ \A a \in Accounts : paid'[a] <= peak'[a]
  BY <1>1 DEF ClaimsHeld, Destined, AwardHeld, ReferralHeld, RefsHeld, R, C, books
<1> QED BY <1>1, <1>2, <1>3, <1>4, <1>5

LEMMA OpenStays ==
    ASSUME JobsTyped, UNCHANGED job, Arrived => Arrived', NEW w \in Accounts
    PROVE  /\ Open(w)' \in Int /\ Open(w)' <= Open(w)
           /\ \A k \in Pipelines : ~ (job[k].stage = "sending" /\ ~ Arrived /\ Arrived') =>
                OpenFor(k, w)' = OpenFor(k, w)
           /\ \A k \in Pipelines : OpenFor(k, w)' \in Nat /\ OpenFor(k, w)' <= OpenFor(k, w)
<1>1. \A k \in Pipelines : OpenFor(k, w) \in Nat /\ OpenFor(k, w)' \in Nat /\ OpenFor(k, w)' <= OpenFor(k, w)
  BY DEF OpenFor, JobsTyped, Engaged
<1>2. \A k \in Pipelines : ~ (job[k].stage = "sending" /\ ~ Arrived /\ Arrived') => OpenFor(k, w)' = OpenFor(k, w)
  BY DEF OpenFor
<1>3. Open(w)' \in Int /\ Open(w)' <= Open(w)
  BY <1>1 DEF Open, Pipelines
<1> QED BY <1>1, <1>2, <1>3

LEMMA SealPays == ASSUME PayInv, NEW t \in queued, Seal(t) PROVE PayInv'
<1>1. JobsTyped /\ XferTyped /\ TablesTyped
  BY DEF PayInv, PayTypes
<1>2. /\ wallet' = [wallet EXCEPT ![t.to] = @ + t.amt] /\ landed' = [landed EXCEPT ![t.to] = @ + t.amt]
      /\ queued' = {} /\ UNCHANGED <<users, books, job, xfer, peak, runs, mode>>
  BY DEF Seal
<1>3. t.to \in Accounts /\ t.amt \in Nat
  BY <1>1 DEF TablesTyped
<1>4. /\ wallet' \in [Accounts -> Nat] /\ landed' \in [Accounts -> Nat]
      /\ wallet'[t.to] = wallet[t.to] + t.amt /\ landed'[t.to] = landed[t.to] + t.amt
      /\ \A w \in Accounts \ {t.to} : wallet'[w] = wallet[w] /\ landed'[w] = landed[w]
      /\ \A w \in Accounts : wallet[w] \in Nat /\ landed[w] \in Nat
  BY <1>1, <1>2, <1>3 DEF TablesTyped
<1>5. \A w \in Accounts : wallet'[w] >= wallet[w]
  BY <1>3, <1>4
<1>6. /\ JobsTyped' /\ XferTyped' /\ TablesTyped' /\ PointsShares' /\ ChallengeShares'
      /\ BudgetInv' /\ ClaimsHeld' /\ \A a \in Accounts : paid'[a] <= peak'[a]
  BY <1>2, <1>4, NodeTables
<1>7. xfer.by # "nobody" => /\ xfer.by \in Pipelines /\ xfer.to \in Accounts /\ xfer.amt \in Nat /\ xfer.b0 \in Nat
                            /\ job[xfer.by].stage = "sending"
  BY <1>1 DEF XferTyped, JobsTyped, Engaged
<1>8. xfer.step = "poll" => xfer.by # "nobody"
  BY <1>1 DEF XferTyped
<1>9. ASSUME Calm PROVE (xfer'.by # "nobody" => wallet'[xfer'.to] >= xfer'.b0) /\ Covered' /\ Orphans'
  <2>1. (xfer.by # "nobody" => wallet[xfer.to] >= xfer.b0) /\ Covered /\ Orphans
    BY <1>9 DEF PayInv, MoneyInv
  <2>2. xfer.by # "nobody" => wallet'[xfer.to] >= xfer.b0
    BY <1>4, <1>5, <1>7, <2>1
  <2>3. Arrived => Arrived'
    <3>1. xfer.step = "poll" /\ wallet[xfer.to] >= xfer.b0 + xfer.amt => wallet'[xfer.to] >= xfer.b0 + xfer.amt
      BY <1>4, <1>5, <1>7, <1>8
    <3>2. xfer' = xfer /\ queued' = {}
      BY <1>2
    <3> QED BY <3>1, <3>2 DEF Arrived, Tx
  <2>4. \A w \in Accounts : Open(w)' \in Int /\ Open(w)' <= Open(w) /\ Open(w) \in Int
    BY <1>1, <1>2, <2>3, OpenStays, OpenTyped
  <2>5. \A w \in Accounts : Booked(w) \in Int /\ Booked(w)' = Booked(w)
    <3>1. \A w \in Accounts : Booked(w) \in Int
      BY <1>1, BookedParts
    <3>2. \A w \in Accounts : Booked(w)' = Booked(w)
      BY <1>2, BookedSame
    <3> QED BY <3>1, <3>2
  <2>6. landed'[t.to] + Open(t.to)' <= Booked(t.to)'
    <3>1. CASE Mine(t)
      <4>1. /\ xfer.by \in Pipelines /\ t.to = xfer.to /\ t.amt = xfer.amt /\ OpenFor(xfer.by, t.to) = t.amt
        BY <1>1, <3>1, MineOpen
      <4>2. xfer.step = "poll" /\ xfer' = xfer /\ queued' = {} /\ job' = job
        BY <1>2, <3>1 DEF Mine
      <4>3. wallet'[xfer.to] >= xfer.b0 + xfer.amt
        BY <1>3, <1>4, <1>7, <1>8, <2>1, <4>1, <4>2
      <4>4. Arrived'
        BY <4>2, <4>3 DEF Arrived, Tx
      <4>5. PICK k \in Pipelines : k = xfer.by
        BY <4>1
      <4>6. OpenFor(k, t.to)' = 0
        BY <1>7, <1>8, <4>2, <4>4, <4>5 DEF OpenFor
      <4>7. /\ \A l \in Pipelines : OpenFor(l, t.to) \in Nat
            /\ \A l \in Pipelines : OpenFor(l, t.to)' \in Nat /\ OpenFor(l, t.to)' <= OpenFor(l, t.to)
        BY <1>1, <1>2, <1>3, <2>3, OpenTyped, OpenStays
      <4>8. Open(t.to)' + t.amt <= Open(t.to)
        BY <1>3, <4>1, <4>5, <4>6, <4>7 DEF Open, Pipelines
      <4>9. landed[t.to] + Open(t.to) <= Booked(t.to)
        BY <1>3, <2>1 DEF Covered
      <4> QED BY <1>3, <1>4, <2>4, <2>5, <4>8, <4>9
    <3>2. CASE ~ Mine(t)
      <4>1. landed[t.to] + Open(t.to) + t.amt <= Booked(t.to)
        BY <2>1, <3>2 DEF Orphans
      <4> QED BY <1>3, <1>4, <2>4, <2>5, <4>1
    <3> QED BY <3>1, <3>2
  <2>7. Covered'
    <3>1. \A w \in Accounts \ {t.to} : landed'[w] + Open(w)' <= Booked(w)'
      BY <1>4, <2>1, <2>4, <2>5 DEF Covered
    <3> QED BY <2>6, <3>1 DEF Covered
  <2>8. Orphans'
    BY <1>2 DEF Orphans
  <2> QED BY <1>2, <2>2, <2>7, <2>8
<1> QED BY <1>6, <1>9 DEF PayInv, PayTypes, MoneyInv

LEMMA DropPays == ASSUME PayInv, DropQueued PROVE PayInv'
<1>1. JobsTyped /\ XferTyped /\ TablesTyped
  BY DEF PayInv, PayTypes
<1>2. queued' = {} /\ UNCHANGED <<users, books, job, xfer, wallet, landed, peak, runs, mode>>
  BY DEF DropQueued
<1>3. /\ JobsTyped' /\ XferTyped' /\ TablesTyped' /\ PointsShares' /\ ChallengeShares'
      /\ BudgetInv' /\ ClaimsHeld' /\ \A a \in Accounts : paid'[a] <= peak'[a]
  <2>1. wallet' \in [Accounts -> Nat] /\ landed' \in [Accounts -> Nat] /\ queued' \subseteq queued
    BY <1>1, <1>2 DEF TablesTyped
  <2> QED BY <1>2, <2>1, NodeTables
<1>4. ASSUME Calm PROVE (xfer'.by # "nobody" => wallet'[xfer'.to] >= xfer'.b0) /\ Covered' /\ Orphans'
  <2>1. (xfer.by # "nobody" => wallet[xfer.to] >= xfer.b0) /\ Covered /\ Orphans
    BY <1>4 DEF PayInv, MoneyInv
  <2>2. Arrived => Arrived'
    BY <1>2 DEF Arrived, Tx
  <2>3. \A w \in Accounts : Open(w)' \in Int /\ Open(w)' <= Open(w)
    BY <1>1, <1>2, <2>2, OpenStays
  <2>4. Covered' /\ Orphans'
    BY <1>1, <1>2, <2>1, <2>3, NothingLands
  <2> QED BY <1>2, <2>1, <2>4
<1> QED BY <1>3, <1>4 DEF PayInv, PayTypes, MoneyInv

LEMMA SpendPays == ASSUME PayInv, NEW a \in Accounts, Spend(a) PROVE PayInv'
<1>1. JobsTyped /\ XferTyped /\ TablesTyped
  BY DEF PayInv, PayTypes
<1>2. /\ wallet' = [wallet EXCEPT ![a] = 0] /\ (Calm => xfer.to # a)
      /\ UNCHANGED <<users, books, job, xfer, queued, landed, peak, runs, mode>>
  BY DEF Spend
<1>3. /\ JobsTyped' /\ XferTyped' /\ TablesTyped' /\ PointsShares' /\ ChallengeShares'
      /\ BudgetInv' /\ ClaimsHeld' /\ \A b \in Accounts : paid'[b] <= peak'[b]
  <2>1. wallet' \in [Accounts -> Nat] /\ landed' \in [Accounts -> Nat] /\ queued' \subseteq queued
    BY <1>1, <1>2 DEF TablesTyped
  <2> QED BY <1>2, <2>1, NodeTables
<1>4. ASSUME Calm PROVE (xfer'.by # "nobody" => wallet'[xfer'.to] >= xfer'.b0) /\ Covered' /\ Orphans'
  <2>1. (xfer.by # "nobody" => wallet[xfer.to] >= xfer.b0) /\ Covered /\ Orphans
    BY <1>4 DEF PayInv, MoneyInv
  <2>2. xfer.by # "nobody" => wallet'[xfer.to] = wallet[xfer.to]
    <3>1. xfer.by # "nobody" => xfer.to \in Accounts
      BY <1>1 DEF XferTyped, JobsTyped, Engaged
    <3> QED BY <1>1, <1>2, <1>4, <3>1 DEF TablesTyped
  <2>3. Arrived => Arrived'
    <3>1. xfer.step = "poll" => xfer.by # "nobody"
      BY <1>1 DEF XferTyped
    <3> QED BY <1>2, <2>2, <3>1 DEF Arrived, Tx
  <2>4. \A w \in Accounts : Open(w)' \in Int /\ Open(w)' <= Open(w)
    BY <1>1, <1>2, <2>3, OpenStays
  <2>5. \A t \in queued' : /\ t.to \in Accounts /\ t.amt \in Nat /\ t \in queued
                           /\ (Mine(t)' \/ ~ Mine(t))
    BY <1>1, <1>2 DEF TablesTyped, Mine, Tx
  <2>6. Covered' /\ Orphans'
    BY <1>1, <1>2, <2>1, <2>4, <2>5, NothingLands
  <2> QED BY <1>2, <2>1, <2>2, <2>6
<1> QED BY <1>3, <1>4 DEF PayInv, PayTypes, MoneyInv

LEMMA CrashPays == ASSUME PayInv, Crash PROVE PayInv'
<1>1. /\ JobsTyped /\ XferTyped /\ TablesTyped /\ BudgetInv /\ ClaimsHeld
      /\ \A b \in Accounts : paid[b] <= peak[b]
  BY DEF PayInv, PayTypes, MoneyInv
<1>2. /\ job' = [k \in Pipelines |-> Idle] /\ xfer' = NoXfer
      /\ UNCHANGED <<users, books, chain, peak, runs, mode>>
  BY DEF Crash
<1>3. DOMAIN job' = Pipelines /\ \A k \in Pipelines : IsJob(job'[k]) /\ job'[k].stage = "idle"
  BY <1>2, IdleIs
<1>4. JobsTyped'
  BY <1>3 DEF JobsTyped, Engaged
<1>5. xfer'.by = "nobody" /\ XferTyped'
  BY <1>2, <1>3 DEF XferTyped, XferFields, NoXfer, Pipelines
<1>6. TablesTyped'
  BY <1>1, <1>2 DEF TablesTyped, users, books, chain
<1>7. J'.stage = "idle" /\ C'.stage = "idle" /\ R'.stage = "idle"
  BY <1>3 DEF J, C, R, Pipelines
<1>8. PointsShares' /\ ChallengeShares'
  BY <1>7 DEF PointsShares, ChallengeShares, Engaged
<1>9. BudgetInv'
  <2>1. Settled' = Settled
    BY <1>2 DEF Settled, books
  <2> QED BY <1>1, <1>2, <1>7, <2>1 DEF BudgetInv
<1>10. ClaimsHeld'
  <2>1. Destined("payout")' /\ Destined("points")' /\ Destined("challenge")'
    BY <1>3 DEF Destined, Underway, Pipelines
  <2>2. AwardHeld' /\ ReferralHeld'
    BY <1>7 DEF AwardHeld, ReferralHeld, Underway, Engaged
  <2>3. RefsHeld'
    BY <1>1, <1>2 DEF ClaimsHeld, RefsHeld, books
  <2> QED BY <2>1, <2>2, <2>3 DEF ClaimsHeld
<1>11. \A b \in Accounts : paid'[b] <= peak'[b]
  BY <1>1, <1>2 DEF books
<1>12. ASSUME Calm PROVE (xfer'.by # "nobody" => wallet'[xfer'.to] >= xfer'.b0) /\ Covered' /\ Orphans'
  <2>1. Covered /\ Orphans
    BY <1>12 DEF PayInv, MoneyInv
  <2>2. \A w \in Accounts : Open(w)' = 0
    BY <1>3 DEF Open, OpenFor, Pipelines
  <2>3. \A w \in Accounts : Open(w)' \in Int /\ Open(w)' <= Open(w)
    BY <1>1, <2>2, OpenTyped
  <2>4. ASSUME NEW t \in queued'
        PROVE  /\ t.to \in Accounts /\ t.amt \in Nat
               /\ t \in queued /\ (~ Mine(t) \/ Open(t.to)' + t.amt <= Open(t.to))
    <3>1. t \in queued /\ t.to \in Accounts /\ t.amt \in Nat
      BY <1>1, <1>2 DEF TablesTyped, chain
    <3>2. Mine(t) => Open(t.to) >= t.amt
      BY <1>1, <3>1, MineOpen
    <3>3. Open(t.to) \in Nat
      BY <1>1, <3>1, OpenTyped
    <3> QED BY <2>2, <3>1, <3>2, <3>3
  <2>5. Covered' /\ Orphans'
    BY <1>1, <1>2, <2>1, <2>3, <2>4, NothingLands DEF chain
  <2> QED BY <1>5, <2>5
<1> QED BY <1>4, <1>5, <1>6, <1>8, <1>9, <1>10, <1>11, <1>12 DEF PayInv, PayTypes, MoneyInv

-----------------------------------------------------------------------------
(* settle_points                                                            *)

\* A step of the settlement: what it has to show.
LEMMA PointsPays ==
    ASSUME PayInv, OwnStep("points"), J.stage # "send", J'.stage # "unsent",
           UNCHANGED <<paid, awards, refs, peak, wallet, landed, queued, mode>>,
           TablesTyped', PointsShares', BudgetInv', Destined("points")',
           \A w \in Accounts : Booked(w)' >= Booked(w) + Sends("points", w) - PutsBack("points", w)
    PROVE  PayInv'
<1>1. /\ JobsTyped /\ XferTyped /\ TablesTyped /\ ChallengeShares /\ ClaimsHeld
      /\ \A a \in Accounts : paid[a] <= peak[a]
  BY DEF PayInv, PayTypes, MoneyInv
<1>0. "points" \in Pipelines /\ UNCHANGED xfer
  BY DEF Pipelines, OwnStep
<1>2. JobsTyped' /\ XferTyped'
  BY <1>0, <1>1, OwnJobs
<1>3. C' = C /\ R' = R /\ job'["payout"] = job["payout"]
  BY DEF C, R, Pipelines, OwnStep
<1>4. ChallengeShares' /\ AwardHeld' /\ ReferralHeld' /\ RefsHeld'
  BY <1>1, <1>3 DEF ChallengeShares, AwardHeld, ReferralHeld, RefsHeld, ClaimsHeld
<1>5. Destined("payout")' /\ Destined("challenge")'
  BY <1>1, <1>3 DEF Destined, ClaimsHeld, C
<1>6. ASSUME Calm PROVE (xfer'.by # "nobody" => wallet'[xfer'.to] >= xfer'.b0) /\ Covered' /\ Orphans'
  <2>1. (xfer.by # "nobody" => wallet[xfer.to] >= xfer.b0) /\ Covered /\ Orphans
    BY <1>6 DEF PayInv, MoneyInv
  <2>2. \A w \in Accounts : Booked(w) \in Int /\ Booked(w)' \in Int
    <3> SUFFICES ASSUME NEW w \in Accounts PROVE Booked(w) \in Int /\ Booked(w)' \in Int
      OBVIOUS
    <3>1. Booked(w) \in Int
      BY <1>1, BookedParts
    <3>2. Booked(w)' \in Int
      BY BookedThen DEF AllBooked
    <3> QED BY <3>1, <3>2
  <2>3. job["points"].stage # "send" /\ job'["points"].stage # "unsent"
    BY DEF J
  <2>4. \A w \in Accounts : /\ Booked(w) \in Int /\ Booked(w)' \in Int
                             /\ Booked(w)' >= Booked(w) + Sends("points", w) - PutsBack("points", w)
    BY <2>2
  <2> DEFINE pts == "points"
  <2>5. pts \in Pipelines /\ OwnStep(pts) /\ UNCHANGED <<wallet, landed, queued>>
    BY <1>0
  <2> HIDE DEF pts
  <2>6. Covered' /\ Orphans'
    BY <1>1, <2>1, <2>3, <2>4, <2>5, OwnMoney DEF pts
  <2> QED BY <1>0, <2>1, <2>6
<1>7. \A a \in Accounts : paid'[a] <= peak'[a]
  BY <1>1
<1> QED BY <1>2, <1>4, <1>5, <1>6, <1>7 DEF PayInv, PayTypes, MoneyInv, ClaimsHeld

\* A step of the settlement that books nothing and puts nothing back.
LEMMA PointsQuiet ==
    ASSUME PayInv, OwnStep("points"), J.stage \notin {"send", "unsent"}, J'.stage \notin {"send", "unsent"},
           UNCHANGED <<unsettled, points, wallet, landed, queued, mode, earned, peak, paid, awards, refs>>,
           runs' \in [Pipelines -> Nat], PointsShares', BudgetInv'
    PROVE  PayInv'
<1>1. TablesTyped
  BY DEF PayInv, PayTypes
<1>2. TablesTyped'
  BY <1>1 DEF TablesTyped
<1>3. Destined("points")'
  BY DEF Destined, OwnStep, Underway, J
<1>4. \A w \in Accounts : Booked(w)' = Booked(w)
  BY BookedSame DEF books
<1>5. \A w \in Accounts : Sends("points", w) = 0 /\ PutsBack("points", w) = 0 /\ Booked(w) \in Int
  BY <1>1, BookedParts DEF Sends, PutsBack, J
<1>6. \A w \in Accounts : Booked(w)' >= Booked(w) + Sends("points", w) - PutsBack("points", w)
  BY <1>4, <1>5
<1> QED BY <1>2, <1>3, <1>6, PointsPays

\* An account is settled: rows, books and thread.
LEMMA ReserveFields ==
    ASSUME JobsTyped, TablesTyped, PointsShares, J.stage \in {"next", "sent"}, NEW a \in Accounts,
           NEW pts \in Nat, pts <= unsettled[a], NEW morm \in Nat, NEW carry \in Int,
           PointsReserve(a, pts, morm, carry, J),
           UNCHANGED <<earned, paid, refs, awards, xfer, wallet, landed, queued, peak, runs, mode>>
    PROVE  /\ OwnStep("points") /\ J'.stage = "send" /\ J'.acct = a /\ J'.to = Dest[a] /\ J'.amt = morm
           /\ J'.todo = J.todo \ {a} /\ J'.share = [J.share EXCEPT ![a] = pts]
           /\ J'.undo = points[a].carry /\ J'.undo \in Int
           /\ unsettled'[a] = unsettled[a] - pts
           /\ \A b \in Accounts \ {a} : unsettled'[b] = unsettled[b] /\ points'[b] = points[b]
           /\ points'[a].morm = points[a].morm + morm
           /\ TablesTyped' /\ Destined("points")'
           /\ \A w \in Accounts : Booked(w)' >= Booked(w) + Sends("points", w) - PutsBack("points", w)
<1> DEFINE booked == [J EXCEPT !.todo = @ \ {a}, !.share[a] = pts, !.undo = points[a].carry]
<1>1. IsJob(J) /\ "points" \in Pipelines
  BY DEF JobsTyped, J, Pipelines
<1>2. /\ unsettled' = [unsettled EXCEPT ![a] = @ - pts]
      /\ points' = [points EXCEPT ![a] =
             [pts |-> @.pts + pts, morm |-> @.morm + morm, carry |-> carry]]
      /\ Send("points", booked, a, Dest[a], morm)
  BY DEF PointsReserve
<1>3. /\ IsJob(booked) /\ booked.todo = J.todo \ {a}
      /\ booked.share = [J.share EXCEPT ![a] = pts] /\ booked.undo = points[a].carry
  BY <1>1 DEF IsJob, Fields
<1> HIDE DEF booked
<1>4. /\ DOMAIN job' = Pipelines /\ \A l \in Pipelines \ {"points"} : job'[l] = job[l]
      /\ IsJob(J') /\ J'.stage = "send" /\ J'.acct = a /\ J'.to = Dest[a] /\ J'.amt = morm
      /\ J'.todo = J.todo \ {a} /\ J'.share = [J.share EXCEPT ![a] = pts] /\ J'.undo = points[a].carry
  BY <1>1, <1>2, <1>3, SendFields DEF J
<1>5. Dest[a] \in Accounts
  BY RewardsAssumption
<1>6. OwnStep("points")
  BY <1>4, <1>5 DEF OwnStep, J
<1>7. unsettled[a] \in Nat /\ points[a] \in PointsType
  BY DEF TablesTyped
<1>8. /\ unsettled' \in [Accounts -> Nat] /\ unsettled'[a] = unsettled[a] - pts
      /\ \A b \in Accounts \ {a} : unsettled'[b] = unsettled[b]
  BY <1>2, <1>7 DEF TablesTyped
<1>9. /\ points'[a] = [pts |-> points[a].pts + pts, morm |-> points[a].morm + morm, carry |-> carry]
      /\ \A b \in Accounts \ {a} : points'[b] = points[b]
  BY <1>2 DEF TablesTyped
<1>10. points'[a] \in PointsType /\ points'[a].morm = points[a].morm + morm
  BY <1>7, <1>9 DEF PointsType
<1>11. points' \in [Accounts -> PointsType]
  BY <1>2, <1>9, <1>10 DEF TablesTyped
<1>12. TablesTyped'
  BY <1>8, <1>11 DEF TablesTyped
<1>13. Destined("points")'
  BY <1>4 DEF Destined, J
<1>14. /\ \A b \in Accounts \ {a} : Column(b)' = Column(b)
       /\ Column(a)' = Column(a) + morm /\ Column(a) \in Int
  <2>1. paid[a] \in Int /\ points[a].morm \in Int /\ awards[a] \in Int
    BY <1>7 DEF TablesTyped, PointsType
  <2> QED BY <1>9, <1>10, <2>1 DEF Column
<1>15. ASSUME NEW w \in Accounts
       PROVE  Booked(w)' >= Booked(w) + Sends("points", w) - PutsBack("points", w)
  <2>1. Booked(w)' = Booked(w) + IF Dest[a] = w THEN Column(a)' - Column(a) ELSE 0
    BY <1>12, <1>14, BookedColumn
  <2>2. Booked(w) \in Int
    BY BookedParts
  <2>3. PutsBack("points", w) = 0 /\ Sends("points", w) = IF Dest[a] = w THEN morm ELSE 0
    BY <1>4 DEF PutsBack, Sends, J
  <2> QED BY <1>14, <2>1, <2>2, <2>3
<1>16. points[a].carry \in Int
  BY <1>7 DEF PointsType
<1> QED BY <1>4, <1>6, <1>8, <1>9, <1>10, <1>12, <1>13, <1>15, <1>16

LEMMA FixedBeginPays == ASSUME PayInv, FixedBegin PROVE PayInv'
<1> DEFINE none == [a \in Accounts |-> 0]
           todo == {a \in Accounts : unsettled[a] > 0}
           begun == [Idle EXCEPT !.stage = "next", !.share = none, !.todo = todo]
<1>1. JobsTyped /\ TablesTyped /\ "points" \in Pipelines
  BY DEF PayInv, PayTypes, Pipelines
<1>2. /\ mode = "fixed" /\ MayStart("points") /\ job' = [job EXCEPT !["points"] = begun]
      /\ UNCHANGED <<unsettled, points, wallet, landed, queued, mode, earned, peak, paid, awards, refs, xfer>>
  BY DEF FixedBegin, users, books, chain
<1>3. none \in [Accounts -> Nat] /\ todo \subseteq Accounts
  OBVIOUS
<1> HIDE DEF none, todo
<1>4. IsJob(begun) /\ begun.stage = "next" /\ begun.todo = todo /\ begun.share = none
  BY IdleIs DEF IsJob, Fields
<1> HIDE DEF begun
<1>5. /\ DOMAIN job' = Pipelines /\ J' = begun /\ \A l \in Pipelines \ {"points"} : job'[l] = job[l]
  BY <1>1, <1>2 DEF JobsTyped, J
<1>6. runs' \in [Pipelines -> Nat] /\ J.stage = "idle"
  BY <1>1, <1>2, StartCounts DEF J
<1>7. OwnStep("points")
  BY <1>2, <1>4, <1>5, <1>6 DEF OwnStep, Engaged, J
<1>8. PointsShares'
  BY <1>2, <1>3, <1>4, <1>5 DEF PointsShares, Engaged
<1>9. BudgetInv'
  BY <1>2 DEF BudgetInv
<1> QED BY <1>2, <1>4, <1>5, <1>6, <1>7, <1>8, <1>9, PointsQuiet

LEMMA FixedSettlePays == ASSUME PayInv, NEW a \in Accounts, FixedSettle(a) PROVE PayInv'
<1> DEFINE pool == unsettled[a] + points[a].carry
           morm == pool \div PointsPerMorm
           left == pool - morm * PointsPerMorm
<1>1. JobsTyped /\ TablesTyped /\ PointsShares /\ "points" \in Pipelines
  BY DEF PayInv, PayTypes, Pipelines
<1>2. /\ mode = "fixed" /\ J.stage \in {"next", "sent"} /\ IsJob(J)
      /\ J.stage \in Engaged => J.acct \in Accounts /\ J.to \in Accounts /\ J.amt \in Nat
      /\ UNCHANGED <<earned, paid, refs, awards, xfer, wallet, landed, queued, peak, runs, mode>>
  BY <1>1 DEF FixedSettle, AtNext, J, JobsTyped, chain
<1>3. /\ J.share \in [Accounts -> Nat] /\ J.todo \subseteq Accounts
      /\ (J.stage \in Engaged => J.undo \in Int)
  BY <1>1, <1>2 DEF PointsShares
<1>4. unsettled[a] \in Nat /\ points[a].carry \in Int /\ PointsPerMorm \in Nat \ {0}
  BY <1>1, RewardsAssumption DEF TablesTyped, PointsType
<1>5. pool \in Int
  BY <1>4
<1> HIDE DEF pool
<1>6. morm \in Int
  BY <1>4, <1>5
<1> HIDE DEF morm
<1>7. left \in Int
  BY <1>4, <1>5, <1>6
<1> HIDE DEF left
<1>8. \/ job' = [job EXCEPT !["points"].todo = @ \ {a}] /\ UNCHANGED <<unsettled, points>>
      \/ ~ (morm < 1) /\ PointsReserve(a, unsettled[a], morm, left, J)
  BY DEF FixedSettle, J, pool, morm, left
<1>9. BudgetInv'
  BY <1>2 DEF BudgetInv
<1>10. CASE job' = [job EXCEPT !["points"].todo = @ \ {a}] /\ UNCHANGED <<unsettled, points>>
  <2>1. /\ DOMAIN job' = Pipelines /\ \A l \in Pipelines \ {"points"} : job'[l] = job[l]
        /\ IsJob(J') /\ J'.stage = J.stage /\ J'.acct = J.acct /\ J'.to = J.to /\ J'.amt = J.amt
        /\ J'.todo = J.todo \ {a} /\ J'.share = J.share /\ J'.undo = J.undo
    BY <1>1, <1>10, SkipFields DEF J
  <2>2. OwnStep("points")
    BY <1>2, <2>1 DEF OwnStep, J
  <2>3. PointsShares'
    BY <1>2, <1>3, <2>1 DEF PointsShares
  <2> QED BY <1>1, <1>2, <1>9, <1>10, <2>1, <2>2, <2>3, PointsQuiet DEF TablesTyped
<1>11. CASE ~ (morm < 1) /\ PointsReserve(a, unsettled[a], morm, left, J)
  <2>1. morm \in Nat
    BY <1>6, <1>11
  <2>2. PICK m \in Nat : m = morm
    BY <2>1
  <2>3. PICK p \in Nat : p = unsettled[a]
    BY <1>4
  <2>4. PICK c \in Int : c = left
    BY <1>7
  <2>5. PointsReserve(a, p, m, c, J) /\ p <= unsettled[a]
    BY <1>11, <2>2, <2>3, <2>4
  <2>6. /\ OwnStep("points") /\ J'.stage = "send" /\ J'.todo = J.todo \ {a}
        /\ J'.share = [J.share EXCEPT ![a] = p] /\ J'.undo \in Int /\ TablesTyped' /\ Destined("points")'
        /\ \A w \in Accounts : Booked(w)' >= Booked(w) + Sends("points", w) - PutsBack("points", w)
    BY <1>1, <1>2, <2>5, ReserveFields
  <2>7. J'.share \in [Accounts -> Nat]
    BY <1>3, <2>6
  <2>8. PointsShares'
    BY <1>2, <1>3, <2>6, <2>7 DEF PointsShares
  <2> QED BY <1>2, <1>9, <2>6, <2>8, PointsPays
<1> QED BY <1>8, <1>10, <1>11

\* What the bounds need of products: the snapshot's total t, what is left of it
\* l, the budget b, the runs r, and the settled s.
LEMMA TimesLeq ==
    ASSUME NEW x \in Int, NEW y \in Int, NEW t \in Nat, x <= y
    PROVE  x * t <= y * t /\ t * x <= t * y
OBVIOUS

LEMMA DivLeq ==
    ASSUME NEW x \in Nat, NEW t \in Nat \ {0}
    PROVE  x \div t \in Nat /\ (x \div t) * t <= x
OBVIOUS

LEMMA BeginArith ==
    ASSUME NEW s \in Int, NEW b \in Nat, NEW r \in Nat, NEW t \in Nat, NEW l \in Nat,
           s <= b * r, l <= t
    PROVE  s <= b * (r + 1) /\ s * t + b * l <= (b * (r + 1)) * t
<1>1. s * t <= (b * r) * t /\ b * l <= b * t
  BY TimesLeq
<1>2. b * (r + 1) = b * r + b
  OBVIOUS
<1>3. (b * r + b) * t = (b * r) * t + b * t
  OBVIOUS
<1> QED BY <1>1, <1>2, <1>3

LEMMA SettleArith ==
    ASSUME NEW s \in Int, NEW b \in Nat, NEW m \in Nat, NEW t \in Nat, NEW l \in Nat,
           NEW p \in Nat, NEW c \in Int, m * t <= b * p, s * t + b * (p + l) <= c
    PROVE  (s + m) * t + b * l <= c
<1>1. (s + m) * t = s * t + m * t /\ b * (p + l) = b * p + b * l
  OBVIOUS
<1>2. s * t \in Int /\ m * t \in Int /\ b * p \in Int /\ b * l \in Int
  OBVIOUS
<1> QED BY <1>1, <1>2

LEMMA EndArith ==
    ASSUME NEW s \in Int, NEW b \in Nat, NEW t \in Nat \ {0}, NEW l \in Nat, NEW c \in Int,
           s * t + b * l <= c * t
    PROVE  s <= c
<1>1. b * l \in Nat
  OBVIOUS
<1>2. s * t <= c * t
  BY <1>1
<1> SUFFICES ASSUME s > c PROVE FALSE
  OBVIOUS
<1>3. (c + 1) * t <= s * t
  BY TimesLeq
<1>4. (c + 1) * t = c * t + t
  OBVIOUS
<1> QED BY <1>2, <1>3, <1>4

\* A step of the settlement that leaves a bound: from what changes to BudgetInv.
LEMMA SettledInt == TablesTyped => Settled \in Int
<1> SUFFICES ASSUME TablesTyped PROVE Settled \in Int
  OBVIOUS
<1> DEFINE f == [a \in Accounts |-> points[a].morm]
<1>1. \A a \in Accounts : f[a] \in Int
  BY DEF TablesTyped, PointsType
<1>2. SumFunctionOnSet(f, Accounts) \in Int
  <2> HIDE DEF f
  <2> QED BY <1>1, SumInt, RewardsAssumption
<1>3. SumFunction(f) = SumFunctionOnSet(f, Accounts)
  BY DEF SumFunction
<1> QED BY <1>2, <1>3 DEF Settled

LEMMA SettledChanges ==
    ASSUME TablesTyped, TablesTyped', NEW a \in Accounts,
           \A b \in Accounts \ {a} : points'[b] = points[b]
    PROVE  Settled' = Settled - points[a].morm + points'[a].morm
<1> DEFINE f == [b \in Accounts |-> points[b].morm]
           g == [b \in Accounts |-> points'[b].morm]
<1>1. \A b \in Accounts : f[b] \in Int /\ g[b] \in Int
  BY DEF TablesTyped, PointsType
<1>2. \A b \in Accounts \ {a} : g[b] = f[b]
  OBVIOUS
<1>3. f[a] = points[a].morm /\ g[a] = points'[a].morm
  OBVIOUS
<1>4. Settled = SumFunctionOnSet(f, Accounts) /\ Settled' = SumFunctionOnSet(g, Accounts)
  BY DEF Settled, SumFunction
<1> HIDE DEF f, g
<1>5. SumFunctionOnSet(g, Accounts) = SumFunctionOnSet(f, Accounts) - f[a] + g[a]
  BY <1>1, <1>2, SumChange, RewardsAssumption
<1> QED BY <1>3, <1>4, <1>5

\* The parts of a snapshot.
LEMMA SnapshotParts ==
    ASSUME NEW share \in [Accounts -> Nat], NEW todo \in SUBSET Accounts
    PROVE  /\ SumFunctionOnSet(share, todo) \in Nat /\ SumFunctionOnSet(share, Accounts) \in Nat
           /\ SumFunctionOnSet(share, todo) <= SumFunctionOnSet(share, Accounts)
           /\ \A a \in todo :
                /\ share[a] <= SumFunctionOnSet(share, Accounts)
                /\ SumFunctionOnSet(share, todo) = share[a] + SumFunctionOnSet(share, todo \ {a})
                /\ SumFunctionOnSet(share, todo \ {a}) \in Nat
<1>1. IsFiniteSet(Accounts) /\ IsFiniteSet(todo) /\ \A a \in Accounts : share[a] \in Nat
  BY RewardsAssumption, FS_Subset
<1>2. SumFunctionOnSet(share, todo) \in Nat /\ SumFunctionOnSet(share, Accounts) \in Nat
  BY <1>1, SumNat
<1>3. SumFunctionOnSet(share, todo) <= SumFunctionOnSet(share, Accounts)
  BY <1>1, SumPart
<1>4. ASSUME NEW a \in todo
      PROVE  /\ share[a] <= SumFunctionOnSet(share, Accounts)
             /\ SumFunctionOnSet(share, todo) = share[a] + SumFunctionOnSet(share, todo \ {a})
             /\ SumFunctionOnSet(share, todo \ {a}) \in Nat
  <2>1. share[a] <= SumFunctionOnSet(share, Accounts)
    BY <1>1, SumAtLeast
  <2>2. SumFunctionOnSet(share, todo) = share[a] + SumFunctionOnSet(share, todo \ {a})
    BY <1>1, SumRemove
  <2>3. IsFiniteSet(todo \ {a}) /\ \A b \in todo \ {a} : share[b] \in Nat
    BY <1>1, FS_Subset
  <2>4. SumFunctionOnSet(share, todo \ {a}) \in Nat
    BY <2>3, SumNat
  <2> QED BY <2>1, <2>2, <2>4
<1> QED BY <1>2, <1>3, <1>4

LEMMA ProportionalBeginPays == ASSUME PayInv, ProportionalBegin PROVE PayInv'
<1> DEFINE total == SumFunction(unsettled)
           todo == {a \in Accounts : unsettled[a] > 0}
           begun == [Idle EXCEPT !.stage = "next", !.share = unsettled, !.amt = total, !.todo = todo]
<1>1. JobsTyped /\ TablesTyped /\ BudgetInv /\ "points" \in Pipelines
  BY DEF PayInv, PayTypes, Pipelines
<1>2. /\ mode = "proportional" /\ MayStart("points")
      /\ job' = IF total = 0 THEN job ELSE [job EXCEPT !["points"] = begun]
      /\ UNCHANGED <<unsettled, points, wallet, landed, queued, mode, earned, peak, paid, awards, refs, xfer>>
  BY DEF ProportionalBegin, users, books, chain
<1>3. unsettled \in [Accounts -> Nat] /\ todo \subseteq Accounts
  BY <1>1 DEF TablesTyped
<1> HIDE DEF total, todo
<1>4. IsJob(begun) /\ begun.stage = "next" /\ begun.todo = todo /\ begun.share = unsettled
  BY IdleIs DEF IsJob, Fields
<1> HIDE DEF begun
<1>5. /\ runs' \in [Pipelines -> Nat] /\ J.stage = "idle"
      /\ runs["points"] \in Nat /\ runs'["points"] = runs["points"] + 1
  BY <1>1, <1>2, StartCounts DEF J, TablesTyped
<1>6. /\ DOMAIN job' = Pipelines /\ \A l \in Pipelines \ {"points"} : job'[l] = job[l]
      /\ J' = begun \/ J' = J
  BY <1>1, <1>2 DEF JobsTyped, J
<1>7. IsJob(J) /\ J.stage \notin Engaged
  BY <1>1, <1>5 DEF JobsTyped, J, Engaged
<1>8. /\ IsJob(J') /\ J'.stage \in {"next", "idle"}
      /\ J'.stage = "next" => J'.share = unsettled /\ J'.todo = todo
  BY <1>4, <1>5, <1>6, <1>7
<1>9. OwnStep("points")
  BY <1>2, <1>5, <1>6, <1>8 DEF OwnStep, Engaged, J
<1>10. PointsShares'
  <2>1. \A a \in todo : 0 < unsettled[a] /\ unsettled[a] <= unsettled[a]
    BY <1>3 DEF todo
  <2> QED BY <1>2, <1>3, <1>8, <2>1 DEF PointsShares, Engaged
<1>11. BudgetInv'
  <2>1. Settled' = Settled /\ Settled \in Int
    BY <1>1, <1>2, SettledInt DEF Settled
  <2>2. Settled <= Budget * runs["points"] /\ Budget \in Nat
    BY <1>1, <1>2, RewardsAssumption DEF BudgetInv
  <2> DEFINE t == SumFunctionOnSet(unsettled, Accounts)
             l == SumFunctionOnSet(unsettled, todo)
  <2>3. t \in Nat /\ l \in Nat /\ l <= t
    BY <1>3, SnapshotParts
  <2>4. J'.stage # "idle" => SumFunctionOnSet(J'.share, Accounts) = t /\ SumFunctionOnSet(J'.share, J'.todo) = l
    BY <1>8
  <2> HIDE DEF t, l
  <2>5. /\ Settled <= Budget * (runs["points"] + 1)
        /\ Settled * t + Budget * l <= (Budget * (runs["points"] + 1)) * t
    BY <1>5, <2>1, <2>2, <2>3, BeginArith
  <2> QED BY <1>5, <2>1, <2>4, <2>5 DEF BudgetInv, SnapTotal
<1>12. J'.stage \notin {"send", "unsent"}
  BY <1>8
<1> QED BY <1>2, <1>5, <1>9, <1>10, <1>11, <1>12, PointsQuiet

LEMMA PointsEndPays == ASSUME PayInv, PointsEnd PROVE PayInv'
<1>1. JobsTyped /\ TablesTyped /\ BudgetInv /\ "points" \in Pipelines
  BY DEF PayInv, PayTypes, Pipelines
<1>2. /\ J.stage \in {"next", "sent"} /\ Stop("points")
      /\ UNCHANGED <<unsettled, points, wallet, landed, queued, mode, earned, peak, paid, awards, refs,
                     xfer, runs>>
  BY DEF PointsEnd, AtNext, J, users, books, chain
<1>3. /\ DOMAIN job' = Pipelines /\ \A l \in Pipelines \ {"points"} : job'[l] = job[l]
      /\ IsJob(J') /\ J'.stage = "idle"
  BY <1>1, <1>2, StopFields DEF J
<1>4. OwnStep("points")
  BY <1>2, <1>3 DEF OwnStep, Engaged, J
<1>5. PointsShares'
  BY <1>3 DEF PointsShares, Engaged
<1>6. Settled' = Settled
  BY <1>2 DEF Settled
<1>7. BudgetInv'
  BY <1>1, <1>2, <1>3, <1>6 DEF BudgetInv
<1>8. runs' \in [Pipelines -> Nat]
  BY <1>1, <1>2 DEF TablesTyped
<1> QED BY <1>2, <1>3, <1>4, <1>5, <1>7, <1>8, PointsQuiet

LEMMA ProportionalSettlePays ==
    ASSUME PayInv, NEW a \in Accounts, ProportionalSettle(a)
    PROVE  PayInv'
<1> DEFINE total == SumFunction(J.share)
           morm == Share(J.share[a], total)
<1>1. JobsTyped /\ TablesTyped /\ PointsShares /\ BudgetInv /\ "points" \in Pipelines
  BY DEF PayInv, PayTypes, Pipelines
<1>2. /\ mode = "proportional" /\ J.stage \in {"next", "sent"} /\ IsJob(J) /\ a \in J.todo
      /\ J.stage \in Engaged => J.acct \in Accounts /\ J.to \in Accounts /\ J.amt \in Nat
      /\ UNCHANGED <<earned, paid, refs, awards, xfer, wallet, landed, queued, peak, runs, mode>>
  BY <1>1 DEF ProportionalSettle, AtNext, J, JobsTyped, chain
<1>3. /\ J.share \in [Accounts -> Nat] /\ J.todo \subseteq Accounts
      /\ \A b \in J.todo : 0 < J.share[b] /\ J.share[b] <= unsettled[b]
      /\ (J.stage \in Engaged => J.undo \in Int)
  BY <1>1, <1>2 DEF PointsShares
<1>4. \/ job' = [job EXCEPT !["points"].todo = @ \ {a}] /\ UNCHANGED <<unsettled, points>>
      \/ ~ (morm < 1) /\ PointsReserve(a, J.share[a], morm, points[a].carry, J)
  BY DEF ProportionalSettle, J
<1> DEFINE left == SumFunctionOnSet(J.share, J.todo \ {a})
<1>5. /\ total = SnapTotal /\ total \in Nat \ {0} /\ left \in Nat
      /\ SumFunctionOnSet(J.share, J.todo) = J.share[a] + left
  <2>1. total = SumFunctionOnSet(J.share, Accounts)
    BY <1>3 DEF SumFunction
  <2> HIDE DEF total
  <2>2. /\ SumFunctionOnSet(J.share, Accounts) \in Nat /\ left \in Nat
        /\ J.share[a] <= SumFunctionOnSet(J.share, Accounts)
        /\ SumFunctionOnSet(J.share, J.todo) = J.share[a] + left
    <3> DEFINE share == J.share
               todo == J.todo
    <3>1. share \in [Accounts -> Nat] /\ todo \in SUBSET Accounts /\ a \in todo
      BY <1>2, <1>3
    <3> HIDE DEF share, todo
    <3>2. /\ SumFunctionOnSet(share, Accounts) \in Nat /\ share[a] <= SumFunctionOnSet(share, Accounts)
          /\ SumFunctionOnSet(share, todo) = share[a] + SumFunctionOnSet(share, todo \ {a})
          /\ SumFunctionOnSet(share, todo \ {a}) \in Nat
      BY <3>1, SnapshotParts
    <3> QED BY <3>2 DEF share, todo
  <2>3. 0 < J.share[a] /\ J.share[a] \in Nat
    BY <1>2, <1>3
  <2> QED BY <2>1, <2>2, <2>3 DEF SnapTotal
<1> HIDE DEF total, left
<1>6. morm \in Nat /\ morm * total <= Budget * J.share[a] /\ J.share[a] \in Nat
  <2> DEFINE whole == Budget * J.share[a]
             share == whole \div total
  <2>1. whole \in Nat /\ J.share[a] \in Nat /\ AccountCap \in Nat
    BY <1>3, RewardsAssumption
  <2> HIDE DEF whole
  <2>2. share \in Nat /\ share * total <= whole
    BY <1>5, <2>1, DivLeq
  <2>3. morm = share \/ (morm = AccountCap /\ AccountCap <= share)
    <3>1. morm = IF AccountCap > 0 THEN Minimum(share, AccountCap) ELSE share
      BY DEF Share, whole
    <3> HIDE DEF share, morm
    <3> QED BY <2>1, <2>2, <3>1 DEF Minimum
  <2> HIDE DEF share, morm
  <2>4. morm \in Nat /\ morm <= share
    BY <2>1, <2>2, <2>3
  <2>5. morm * total <= share * total
    BY <1>5, <2>2, <2>4, TimesLeq
  <2>6. morm * total \in Int /\ share * total \in Int
    BY <1>5, <2>2, <2>4
  <2> QED BY <2>1, <2>2, <2>4, <2>5, <2>6 DEF whole
<1> HIDE DEF morm
<1>7. /\ Settled \in Int /\ Budget \in Nat /\ runs["points"] \in Nat /\ Settled <= Budget * runs["points"]
      /\ Settled * total + Budget * (J.share[a] + left) <= (Budget * runs["points"]) * total
  BY <1>1, <1>2, <1>5, SettledInt, RewardsAssumption DEF BudgetInv, TablesTyped
<1>8. CASE job' = [job EXCEPT !["points"].todo = @ \ {a}] /\ UNCHANGED <<unsettled, points>>
  <2>1. /\ DOMAIN job' = Pipelines /\ \A l \in Pipelines \ {"points"} : job'[l] = job[l]
        /\ IsJob(J') /\ J'.stage = J.stage /\ J'.acct = J.acct /\ J'.to = J.to /\ J'.amt = J.amt
        /\ J'.todo = J.todo \ {a} /\ J'.share = J.share /\ J'.undo = J.undo
    BY <1>1, <1>8, SkipFields DEF J
  <2>2. OwnStep("points")
    BY <1>2, <2>1 DEF OwnStep, J
  <2>3. PointsShares'
    BY <1>2, <1>3, <1>8, <2>1 DEF PointsShares
  <2>4. Settled' = Settled /\ SnapTotal' = SnapTotal
    BY <1>8, <2>1 DEF Settled, SnapTotal
  <2>5. SumFunctionOnSet(J'.share, J'.todo) = left
    BY <2>1 DEF left
  <2>6. Settled * total + Budget * left <= (Budget * runs["points"]) * total
    <3>1. Budget * left <= Budget * (J.share[a] + left)
      BY <1>5, <1>6, <1>7, TimesLeq
    <3>2. /\ Settled * total \in Int /\ (Budget * runs["points"]) * total \in Int /\ Budget * left \in Int
          /\ Budget * (J.share[a] + left) \in Int
      BY <1>5, <1>6, <1>7
    <3> QED BY <1>7, <3>1, <3>2
  <2>7. BudgetInv'
    BY <1>2, <1>5, <1>7, <2>4, <2>5, <2>6 DEF BudgetInv
  <2>8. runs' \in [Pipelines -> Nat]
    BY <1>1, <1>2 DEF TablesTyped
  <2> QED BY <1>2, <1>8, <2>1, <2>2, <2>3, <2>7, <2>8, PointsQuiet
<1>9. CASE ~ (morm < 1) /\ PointsReserve(a, J.share[a], morm, points[a].carry, J)
  <2>1. PICK m \in Nat : m = morm
    BY <1>6
  <2>2. PICK p \in Nat : p = J.share[a]
    BY <1>6
  <2>3. PICK c \in Int : c = points[a].carry
    BY <1>1 DEF TablesTyped, PointsType
  <2>4. PointsReserve(a, p, m, c, J) /\ p <= unsettled[a]
    BY <1>2, <1>3, <1>9, <2>1, <2>2, <2>3
  <2>5. /\ OwnStep("points") /\ J'.stage = "send" /\ J'.todo = J.todo \ {a}
        /\ J'.share = [J.share EXCEPT ![a] = p] /\ J'.undo \in Int /\ TablesTyped' /\ Destined("points")'
        /\ points'[a].morm = points[a].morm + m
        /\ \A b \in Accounts \ {a} : unsettled'[b] = unsettled[b] /\ points'[b] = points[b]
        /\ \A w \in Accounts : Booked(w)' >= Booked(w) + Sends("points", w) - PutsBack("points", w)
    BY <1>1, <1>2, <2>4, ReserveFields
  <2>6. J'.share = J.share
    BY <1>3, <2>2, <2>5
  <2>7. PointsShares'
    BY <1>2, <1>3, <2>5, <2>6 DEF PointsShares
  <2>8. Settled' = Settled + m
    <3>1. Settled' = Settled - points[a].morm + points'[a].morm
      BY <1>1, <2>5, SettledChanges
    <3>2. points[a].morm \in Int
      BY <1>1 DEF TablesTyped, PointsType
    <3> QED BY <1>7, <2>5, <3>1, <3>2
  <2>9. SnapTotal' = total /\ SumFunctionOnSet(J'.share, J'.todo) = left
    BY <1>5, <2>5, <2>6 DEF SnapTotal, left
  <2> DEFINE cap == Budget * runs["points"]
  <2>10. cap \in Nat
    BY <1>7
  <2>11. Settled * total + Budget * (p + left) <= cap * total
    BY <1>7, <2>2
  <2> HIDE DEF cap
  <2>12. cap * total \in Int
    BY <1>5, <2>10
  <2>13. (Settled + m) * total + Budget * left <= cap * total
    BY <1>5, <1>6, <1>7, <2>1, <2>2, <2>11, <2>12, SettleArith
  <2>14. Settled + m \in Int
    BY <1>7
  <2>15. Settled + m <= cap
    BY <1>5, <1>7, <2>10, <2>13, <2>14, EndArith
  <2>16. BudgetInv'
    BY <1>2, <2>8, <2>9, <2>13, <2>15 DEF BudgetInv, cap
  <2> QED BY <1>2, <2>5, <2>7, <2>16, PointsPays
<1> QED BY <1>4, <1>8, <1>9

LEMMA PointsUndoPays == ASSUME PayInv, PointsUndo PROVE PayInv'
<1>1. JobsTyped /\ TablesTyped /\ PointsShares /\ BudgetInv /\ ClaimsHeld /\ "points" \in Pipelines
  BY DEF PayInv, PayTypes, MoneyInv, Pipelines
<1>2. /\ J.stage = "unsent" /\ Continue("points")
      /\ UNCHANGED <<earned, paid, refs, awards, xfer, wallet, landed, queued, peak, runs, mode>>
  BY DEF PointsUndo, J, chain
<1>3. J.acct \in Accounts /\ J.to \in Accounts /\ J.amt \in Nat /\ J.undo \in Int
  BY <1>1, <1>2 DEF JobsTyped, PointsShares, Engaged, J
<1>4. J.share \in [Accounts -> Nat] /\ J.todo \subseteq Accounts
  BY <1>1, <1>2 DEF PointsShares
<1>5. PICK a \in Accounts : a = J.acct
  BY <1>3
<1>6. PICK amt \in Nat : amt = J.amt
  BY <1>3
<1>7. PICK pts \in Nat : pts = J.share[a]
  BY <1>4
<1>8. /\ unsettled' = [unsettled EXCEPT ![a] = @ + pts]
      /\ points' = [points EXCEPT ![a] =
             [pts |-> @.pts - pts, morm |-> @.morm - amt, carry |-> J.undo]]
  BY <1>5, <1>6, <1>7 DEF PointsUndo, J
<1>9. /\ DOMAIN job' = Pipelines /\ \A l \in Pipelines \ {"points"} : job'[l] = job[l]
      /\ IsJob(J') /\ J'.stage = "next" /\ J'.todo = J.todo /\ J'.share = J.share
  BY <1>1, <1>2, ContinueFields DEF J
<1>10. OwnStep("points")
  BY <1>2, <1>9 DEF OwnStep, Engaged, J
<1>11. unsettled[a] \in Nat /\ points[a] \in PointsType /\ points[a].morm \in Int
  BY <1>1 DEF TablesTyped, PointsType
<1>12. /\ unsettled' \in [Accounts -> Nat] /\ unsettled'[a] = unsettled[a] + pts
       /\ \A b \in Accounts \ {a} : unsettled'[b] = unsettled[b]
  BY <1>1, <1>8, <1>11 DEF TablesTyped
<1>13. /\ points'[a] = [pts |-> points[a].pts - pts, morm |-> points[a].morm - amt, carry |-> J.undo]
       /\ \A b \in Accounts \ {a} : points'[b] = points[b]
  BY <1>1, <1>8 DEF TablesTyped
<1>14. points'[a] \in PointsType /\ points'[a].morm = points[a].morm - amt
  BY <1>3, <1>11, <1>13 DEF PointsType
<1>15. points' \in [Accounts -> PointsType]
  BY <1>1, <1>8, <1>13, <1>14 DEF TablesTyped
<1>16. TablesTyped'
  BY <1>1, <1>2, <1>12, <1>15 DEF TablesTyped
<1>17. PointsShares'
  <2>1. \A b \in Accounts : unsettled[b] <= unsettled'[b] /\ unsettled[b] \in Nat /\ unsettled'[b] \in Nat
    BY <1>1, <1>11, <1>12 DEF TablesTyped
  <2>2. mode = "proportional" => \A b \in J.todo : 0 < J.share[b] /\ J.share[b] <= unsettled[b]
    BY <1>1, <1>2 DEF PointsShares
  <2>3. mode' = "proportional" => \A b \in J'.todo : 0 < J'.share[b] /\ J'.share[b] <= unsettled'[b]
    BY <1>2, <1>4, <1>9, <2>1, <2>2
  <2> QED BY <1>4, <1>9, <2>3 DEF PointsShares, Engaged
<1>18. Settled' = Settled - amt /\ Settled \in Int
  <2>1. Settled' = Settled - points[a].morm + points'[a].morm
    BY <1>1, <1>13, <1>16, SettledChanges
  <2>2. Settled \in Int
    BY <1>1, SettledInt
  <2> QED BY <1>11, <1>14, <2>1, <2>2
<1>19. BudgetInv'
  <2>1. SnapTotal' = SnapTotal /\ SumFunctionOnSet(J'.share, J'.todo) = SumFunctionOnSet(J.share, J.todo)
    BY <1>9 DEF SnapTotal
  <2>2. SnapTotal \in Nat /\ SumFunctionOnSet(J.share, J.todo) \in Nat
    <3> DEFINE share == J.share
               todo == J.todo
    <3>1. share \in [Accounts -> Nat] /\ todo \in SUBSET Accounts
      BY <1>4
    <3> HIDE DEF share, todo
    <3>2. SumFunctionOnSet(share, Accounts) \in Nat /\ SumFunctionOnSet(share, todo) \in Nat
      BY <3>1, SnapshotParts
    <3> QED BY <3>2 DEF share, todo, SnapTotal
  <2>3. Budget \in Nat /\ runs["points"] \in Nat /\ Settled - amt <= Settled /\ Settled - amt \in Int
    BY <1>1, <1>18, RewardsAssumption DEF TablesTyped
  <2>4. (Settled - amt) * SnapTotal <= Settled * SnapTotal
    BY <1>18, <2>2, <2>3, TimesLeq
  <2>5. mode = "proportional" =>
          /\ Settled <= Budget * runs["points"]
          /\ Settled * SnapTotal + Budget * SumFunctionOnSet(J.share, J.todo)
               <= (Budget * runs["points"]) * SnapTotal
    BY <1>1, <1>2 DEF BudgetInv
  <2>6. /\ Settled * SnapTotal \in Int /\ (Settled - amt) * SnapTotal \in Int
        /\ Budget * SumFunctionOnSet(J.share, J.todo) \in Int /\ Budget * runs["points"] \in Int
        /\ (Budget * runs["points"]) * SnapTotal \in Int
    BY <1>18, <2>2, <2>3
  <2>7. mode = "proportional" =>
          /\ Settled - amt <= Budget * runs["points"]
          /\ (Settled - amt) * SnapTotal + Budget * SumFunctionOnSet(J.share, J.todo)
               <= (Budget * runs["points"]) * SnapTotal
    BY <1>18, <2>3, <2>4, <2>5, <2>6
  <2> QED BY <1>2, <1>18, <2>1, <2>7 DEF BudgetInv
<1>20. Destined("points")'
  BY <1>9 DEF Destined, Underway, J
<1>21. /\ \A b \in Accounts \ {a} : Column(b)' = Column(b)
       /\ Column(a)' = Column(a) - amt /\ Column(a) \in Int
  <2>1. paid[a] \in Int /\ awards[a] \in Int
    BY <1>1 DEF TablesTyped
  <2> QED BY <1>2, <1>11, <1>13, <1>14, <2>1 DEF Column
<1>22. ASSUME NEW w \in Accounts
       PROVE  Booked(w)' >= Booked(w) + Sends("points", w) - PutsBack("points", w)
  <2>1. Booked(w)' = Booked(w) + IF Dest[a] = w THEN Column(a)' - Column(a) ELSE 0
    BY <1>1, <1>2, <1>16, <1>21, BookedColumn
  <2>2. Booked(w) \in Int
    BY <1>1, BookedParts
  <2>3. Dest[a] = J.to
    BY <1>1, <1>2, <1>5 DEF ClaimsHeld, Destined, Underway, J
  <2>4. Sends("points", w) = 0 /\ PutsBack("points", w) = IF Dest[a] = w THEN amt ELSE 0
    BY <1>2, <1>6, <1>9, <2>3 DEF PutsBack, Sends, J
  <2> QED BY <1>21, <2>1, <2>2, <2>4
<1>23. J'.stage # "unsent" /\ J.stage # "send"
  BY <1>2, <1>9
<1> QED BY <1>2, <1>10, <1>16, <1>17, <1>19, <1>20, <1>22, <1>23, PointsPays

-----------------------------------------------------------------------------
(* The invariant, and what it gives                                         *)

LEMMA PayInit == Init => PayInv
<1> SUFFICES ASSUME Init PROVE PayInv
  OBVIOUS
<1>1. /\ earned \in [Accounts -> Nat] /\ unsettled \in [Accounts -> Nat]
      /\ points = [a \in Accounts |-> NoPoints] /\ peak = [a \in Accounts |-> 0]
      /\ refs = [e \in Accounts |-> [NoRef EXCEPT !.by = ReferrerOf[e]]]
      /\ paid = [a \in Accounts |-> 0] /\ awards = [a \in Accounts |-> 0]
      /\ job = [k \in Pipelines |-> Idle] /\ xfer = NoXfer /\ queued = {}
      /\ wallet = [a \in Accounts |-> 0] /\ landed = [a \in Accounts |-> 0]
      /\ runs = [k \in Pipelines |-> 0]
  BY RewardsAssumption DEF Init
<1>2. \A k \in Pipelines : job[k] = Idle
  BY <1>1
<1>3. JobsTyped
  BY <1>1, <1>2, IdleIs DEF JobsTyped, Engaged
<1>4. xfer.by = "nobody" /\ XferTyped
  BY <1>1, <1>2, IdleIs DEF XferTyped, XferFields, NoXfer, Pipelines
<1>5. \A e \in Accounts : refs[e].by = ReferrerOf[e] /\ ~ refs[e].rewarded /\ ~ refs[e].sent
  BY <1>1 DEF NoRef
<1>6. TablesTyped
  <2>1. NoPoints \in PointsType
    BY DEF NoPoints, PointsType
  <2>2. points \in [Accounts -> PointsType]
    BY <1>1, <2>1
  <2>3. refs \in [Accounts -> RefType]
    <3>1. \A e \in Accounts : ReferrerOf[e] \in Accounts \cup {NoAccount}
      BY RewardsAssumption
    <3> QED BY <1>1, <3>1 DEF RefType, NoRef
  <2> QED BY <1>1, <2>2, <2>3 DEF TablesTyped
<1>7. J.stage = "idle" /\ C.stage = "idle" /\ R.stage = "idle"
  BY <1>2, IdleIs DEF J, C, R, Pipelines
<1>8. PointsShares /\ ChallengeShares
  BY <1>7 DEF PointsShares, ChallengeShares, Engaged
<1>9. BudgetInv
  <2> DEFINE f == [a \in Accounts |-> points[a].morm]
  <2>1. \A a \in Accounts : f[a] = 0
    BY <1>1 DEF NoPoints
  <2>2. Settled = SumFunctionOnSet(f, Accounts)
    BY DEF Settled, SumFunction
  <2> HIDE DEF f
  <2>3. Settled = 0
    BY <2>1, <2>2, SumZero, RewardsAssumption
  <2>4. Budget \in Nat /\ runs["points"] = 0
    BY <1>1, RewardsAssumption DEF Pipelines
  <2> QED BY <1>7, <2>3, <2>4 DEF BudgetInv
<1>10. ClaimsHeld
  <2>1. Destined("payout") /\ Destined("points") /\ Destined("challenge")
    BY <1>2, IdleIs DEF Destined, Underway, Pipelines
  <2>2. AwardHeld /\ ReferralHeld
    BY <1>7 DEF AwardHeld, ReferralHeld, Underway, Engaged
  <2>3. RefsHeld
    BY <1>5 DEF RefsHeld
  <2> QED BY <2>1, <2>2, <2>3 DEF ClaimsHeld
<1>11. \A a \in Accounts : paid[a] <= peak[a]
  BY <1>1
<1>12. Covered
  <2> SUFFICES ASSUME NEW w \in Accounts PROVE landed[w] + Open(w) <= Booked(w)
    BY DEF Covered
  <2>1. landed[w] = 0 /\ Open(w) = 0
    BY <1>1, <1>2, IdleIs DEF Open, OpenFor, Pipelines
  <2> DEFINE f == [a \in Feeders(w) |-> Column(a)]
  <2>2. \A a \in Feeders(w) : f[a] = 0
    BY <1>1 DEF Feeders, Column, NoPoints
  <2> HIDE DEF f
  <2>3. IsFiniteSet(Feeders(w))
    BY <1>6, BookedParts
  <2>4. SumFunctionOnSet(f, Feeders(w)) = 0
    BY <2>2, <2>3, SumZero
  <2>5. Welcomed(w) = {} /\ Brought(w) = {}
    BY <1>5 DEF Welcomed, Brought
  <2>6. Cardinality(Welcomed(w)) = 0 /\ Cardinality(Brought(w)) = 0 /\ Bonus * 0 = 0
    BY <2>5, FS_EmptySet, RewardsAssumption
  <2>7. Booked(w) = SumFunctionOnSet(f, Feeders(w))
                      + Bonus * Cardinality(Welcomed(w)) + Bonus * Cardinality(Brought(w))
    BY BookedIs DEF f
  <2>8. Booked(w) = 0
    BY <2>4, <2>6, <2>7
  <2> QED BY <2>1, <2>8
<1>13. Orphans
  BY <1>1 DEF Orphans
<1> QED
  BY <1>3, <1>4, <1>6, <1>8, <1>9, <1>10, <1>11, <1>12, <1>13 DEF PayInv, PayTypes, MoneyInv

LEMMA PayStutter == ASSUME PayInv, UNCHANGED vars PROVE PayInv'
<1>1. UNCHANGED <<job, xfer, earned, unsettled, books, chain, peak, runs, mode>>
  BY DEF vars, users
<1>2. PayTypes' /\ BudgetInv'
  BY <1>1 DEF PayInv, PayTypes, BudgetInv, JobsTyped, XferTyped, TablesTyped, PointsShares,
              ChallengeShares, Settled, SnapTotal, J, C, books, chain
<1>3. ClaimsHeld' /\ \A a \in Accounts : paid'[a] <= peak'[a]
  BY <1>1 DEF PayInv, MoneyInv, ClaimsHeld, Destined, AwardHeld, ReferralHeld, RefsHeld, R, C, books
<1>4. Arrived' <=> Arrived
  BY <1>1 DEF Arrived, Tx, chain
<1>5. \A w \in Accounts : Open(w)' = Open(w) /\ Booked(w)' = Booked(w) /\ landed'[w] = landed[w]
  BY <1>1, <1>4 DEF Open, OpenFor, Booked, books, chain
<1>6. Calm => (xfer'.by # "nobody" => wallet'[xfer'.to] >= xfer'.b0) /\ Covered'
  BY <1>1, <1>5 DEF PayInv, MoneyInv, Covered, chain
<1>7. Calm => Orphans'
  <2>1. \A t \in queued : t.to \in Accounts
    BY DEF PayInv, PayTypes, TablesTyped
  <2> QED BY <1>1, <1>5, <2>1 DEF PayInv, MoneyInv, Orphans, Mine, Tx, chain
<1> QED BY <1>2, <1>3, <1>6, <1>7 DEF PayInv, MoneyInv

LEMMA PayStep == PayInv /\ [Next]_vars => PayInv'
<1> SUFFICES ASSUME PayInv, [Next]_vars PROVE PayInv'
  OBVIOUS
<1>1. CASE Transfer
  BY <1>1, TransferPays
<1>2. CASE PayoutStep
  BY <1>2, PayoutDonePays, PayoutUndoPays DEF PayoutStep
<1>3. CASE ReferralStep
  BY <1>3, ReferralPaidPays, ReferralUndoPays, ReferrerDonePays, ReferralEndPays,
     ReferralClaimPays DEF ReferralStep
<1>4. CASE PointsStep
  BY <1>4, PointsUndoPays, PointsEndPays, FixedSettlePays, ProportionalSettlePays DEF PointsStep
<1>5. CASE ChallengeStep
  BY <1>5, ChallengeUndoPays, ChallengeEndPays, ChallengeAwardPays DEF ChallengeStep
<1>6. CASE Start
  BY <1>6, ReferralBeginPays, FixedBeginPays, ProportionalBeginPays, PayoutReservePays,
     ChallengeBeginPays DEF Start
<1>7. CASE Node
  BY <1>7, DropPays, SealPays, SpendPays DEF Node
<1>8. CASE User
  BY <1>8, UserPays
<1>9. CASE Crash
  BY <1>9, CrashPays
<1>10. CASE UNCHANGED vars
  BY <1>10, PayStutter
<1> QED
  BY <1>1, <1>2, <1>3, <1>4, <1>5, <1>6, <1>7, <1>8, <1>9, <1>10 DEF Next

LEMMA PayBounds == PayInv => PayoutsBounded
<1> SUFFICES ASSUME PayInv PROVE PayoutsBounded
  OBVIOUS
<1>1. JobsTyped /\ TablesTyped
  BY DEF PayInv, PayTypes
<1>2. ASSUME NEW a \in Accounts PROVE Open(a) \in Nat /\ Booked(a) \in Int /\ landed[a] \in Int
  <2>1. Open(a) \in Nat
    BY <1>1, OpenTyped
  <2>2. Booked(a) \in Int
    BY <1>1, BookedParts
  <2> QED BY <1>1, <2>1, <2>2 DEF TablesTyped
<1>3. Calm => ~ Overpaid
  BY <1>2 DEF PayInv, MoneyInv, Covered, Overpaid
<1>4. BudgetRespected
  BY DEF PayInv, BudgetInv, BudgetRespected, Settled
<1>5. NeverOverpaid
  BY <1>3 DEF PayInv, MoneyInv, NeverOverpaid
<1> QED BY <1>4, <1>5 DEF PayoutsBounded

\* Whatever crash, drop, repeat, rollback or late answer lies between a booking
\* and its block, no wallet receives more than the tables book for it while the
\* chain answers in time, nothing is booked beyond what was earned, and the
\* proportional runs together keep to their budgets (payout, pay_referrals,
\* settle_points, settle_challenge, l1_transfer of play_server.py).
THEOREM PayoutsAlwaysBounded == PointsSpec => []PayoutsBounded
<1>1. PointsInit => PayInv
  BY PayInit DEF PointsInit
<1>2. PayInv /\ [PointsNext]_<<part, vars, engaged>> => PayInv'
  <2> SUFFICES ASSUME PayInv, [PointsNext]_<<part, vars, engaged>> PROVE [Next]_vars
    BY PayStep
  <2> QED BY DEF PointsNext
<1>3. QED
  BY <1>1, <1>2, PayBounds, PTL DEF PointsSpec

=============================================================================
