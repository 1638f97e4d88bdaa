---------------------------- MODULE PlayRewards ----------------------------
(***************************************************************************)
(* How morm-play pays out of the treasury (play_server.py): creator        *)
(* payouts, referral bonuses, the settlement of engagement points (fixed   *)
(* rate or proportional) and challenge awards.  Each of the four pipelines *)
(* runs in one thread at a time (its own lock); each books the payment in  *)
(* SQLite first, sends it with l1_transfer, and undoes the booking when    *)
(* the transfer raises.  All four share l1_transfer, its lock, and the     *)
(* nonce of the one treasury account.                                      *)
(*                                                                         *)
(* A step is one commit, or one call to the L1 node.  Any of them may be   *)
(* the last one of the process (Crash).  The L1 node is what a submitted   *)
(* transaction meets there: a mempool, the hashes seen, a sealed nonce.    *)
(***************************************************************************)
EXTENDS Integers, FiniteSets, Sequences, Functions

CONSTANTS
    Accounts,
    Dest,           \* _payout_dest: an agent's earnings go to its owner
    NoAccount,
    PayoutMin,      \* PAYOUT_MIN
    PointsPerMorm,  \* POINT_PER_MORM
    MinSettle,      \* POINT_MIN_SETTLE
    Budget,         \* B_units of a proportional run
    AccountCap,     \* cap_units, 0 for none
    Bonus,          \* REF_BONUS_REFERRER, REF_BONUS_REFEREE
    RefCap,         \* REF_CAP
    Pool, Rankings, \* of the one challenge: reward_pool, who may lead it, in order
    Earnings, Grants,   \* what has been earned and granted before the first run
    Posters,            \* who has an approved post by then
    ReferrerOf,         \* who has attached whose code by then
    Calm,           \* no transfer seals after its deadline, no recipient spends meanwhile
    MaxEarned, MaxPoints,   \* bounds of what users earn
    MaxRuns, MaxChanges     \* bounds: pipelines started, other changes

ASSUME RewardsAssumption ==
    /\ IsFiniteSet(Accounts) /\ NoAccount \notin Accounts
    /\ Dest \in [Accounts -> Accounts]
    /\ Calm \in BOOLEAN
    /\ PayoutMin \in Nat \ {0} /\ PointsPerMorm \in Nat \ {0}
    /\ MinSettle \in Nat /\ Budget \in Nat /\ AccountCap \in Nat
    /\ Bonus \in Nat \ {0} /\ RefCap \in Nat /\ Pool \in Nat
    /\ Rankings \subseteq Seq(Accounts)
    /\ Earnings \subseteq [Accounts -> Nat] /\ Grants \subseteq [Accounts -> Nat]
    /\ Posters \subseteq Accounts
    /\ ReferrerOf \in [Accounts -> Accounts \cup {NoAccount}]

Pipelines == {"payout", "referral", "points", "challenge"}

VARIABLES
    earned,     \* earnings(m0r).earned_morm: views and likes, up and down
    posted,     \* accounts with an approved post
    held,       \* accounts with payout_hold
    paid,       \* payouts.paid_morm
    unsettled,  \* points of point_ledger rows with settled = 0
    points,     \* point_payouts: [pts, morm, carry]
    due,        \* POINT_SETTLE_INTERVAL has passed since the last run
    refs,       \* referrals: referee |-> [by, qualified, rewarded, sent]
    awards,     \* challenge_awards of the challenge: the amount, 0 without a row
    job,        \* what each pipeline's thread is doing
    xfer,       \* the l1_transfer that holds _l1_lock
    wallet,     \* sealed balances of the accounts, as /account shows them
    nonce,      \* sealed nonce of the treasury
    queued,     \* the treasury's transactions in the L1 mempool
    seen,       \* hashes the L1 node has seen
    landed,     \* ghost: what the treasury's sealed transfers have paid to whom
    peak,       \* ghost: the highest `earned` a payout ever read
    runs,       \* pipelines started, by pipeline
    changes,    \* other changes so far
    mode        \* EMISSION_MODE

users == <<earned, posted, held, unsettled, due>>
books == <<paid, points, refs, awards>>
chain == <<wallet, nonce, queued, seen, landed>>
vars == <<users, books, job, xfer, chain, peak, runs, changes, mode>>

Minimum(i, j) == IF i < j THEN i ELSE j
NoXfer == [by |-> "nobody", step |-> "none", to |-> NoAccount, amt |-> 0, b0 |-> 0, nonce |-> 0]
Idle == [stage |-> "idle", acct |-> NoAccount, to |-> NoAccount, amt |-> 0,
         todo |-> {}, share |-> <<>>, undo |-> 0, leg |-> "none"]
NoPoints == [pts |-> 0, morm |-> 0, carry |-> 0]
NoRef == [by |-> NoAccount, qualified |-> FALSE, rewarded |-> FALSE, sent |-> FALSE]

Init ==
    /\ earned \in Earnings /\ peak = [a \in Accounts |-> 0]
    /\ unsettled \in Grants /\ points = [a \in Accounts |-> NoPoints]
    /\ posted = Posters /\ held = {}
    /\ refs = [e \in Accounts |-> [NoRef EXCEPT !.by = ReferrerOf[e]]]
    /\ paid = [a \in Accounts |-> 0] /\ due = TRUE
    /\ awards = [a \in Accounts |-> 0]
    /\ job = [k \in Pipelines |-> Idle] /\ xfer = NoXfer
    /\ wallet = [a \in Accounts |-> 0] /\ landed = [a \in Accounts |-> 0]
    /\ nonce = 0 /\ queued = {} /\ seen = {}
    /\ runs = [k \in Pipelines |-> 0] /\ changes = 0
    /\ mode \in {"fixed", "proportional"}

MayStart(k) ==
    /\ job[k].stage = "idle"
    /\ SumFunction(runs) < MaxRuns
    /\ runs' = [runs EXCEPT ![k] = @ + 1]

\* The pipeline has booked amt for a and now calls l1_transfer(to, amt)
Send(k, j, a, to, amt) ==
    job' = [job EXCEPT ![k] = [j EXCEPT !.stage = "send", !.acct = a, !.to = to, !.amt = amt]]
Goto(k, stage) == job' = [job EXCEPT ![k].stage = stage]
Continue(k) == job' = [job EXCEPT ![k] =
    [Idle EXCEPT !.stage = "next", !.todo = job[k].todo, !.share = job[k].share]]
Stop(k) == job' = [job EXCEPT ![k] = Idle]

\* A loop over accounts is at its next one: after a transfer that was confirmed
\* it only writes the hash into last_tx, or counts
AtNext(j) == j.stage \in {"next", "sent"}

Blocked(a) == a \in held \/ Dest[a] \in held

-----------------------------------------------------------------------------
(* l1_transfer, under _l1_lock, and the L1 node                             *)

Tx(x) == [nonce |-> x.nonce, to |-> x.to, amt |-> x.amt]

TransferBegin(k) ==
    /\ job[k].stage = "send" /\ xfer.by = "nobody"
    /\ xfer' = [NoXfer EXCEPT !.by = k, !.step = "nonce", !.to = job[k].to,
                              !.amt = job[k].amt, !.b0 = wallet[job[k].to]]
    /\ Goto(k, "sending")
    /\ UNCHANGED <<users, books, chain, peak, runs, changes, mode>>

TransferNonce ==
    /\ xfer.step = "nonce"
    /\ xfer' = [xfer EXCEPT !.step = "post", !.nonce = nonce]
    /\ UNCHANGED <<users, books, job, chain, peak, runs, changes, mode>>

\* POST /tx: submit_tx answers "ok" to a hash it has seen, whatever became of
\* it.  Transactions and hashes with a used nonce are left out: they never apply.
TransferPost ==
    /\ xfer.step = "post"
    /\ xfer' = [xfer EXCEPT !.step = "poll"]
    /\ IF Tx(xfer) \in seen \/ xfer.nonce < nonce THEN UNCHANGED <<queued, seen>>
       ELSE queued' = queued \cup {Tx(xfer)} /\ seen' = seen \cup {Tx(xfer)}
    /\ UNCHANGED <<users, books, job, wallet, nonce, landed, peak, runs, changes, mode>>

Release(stage) == xfer' = NoXfer /\ Goto(xfer.by, stage)

TransferConfirm ==
    /\ xfer.step = "poll"
    /\ wallet[xfer.to] >= xfer.b0 + xfer.amt
    /\ Release("sent")
    /\ UNCHANGED <<users, books, chain, peak, runs, changes, mode>>

\* An L1 call failed, the node refused, or the deadline passed
TransferGiveUp ==
    /\ xfer.by # "nobody"
    /\ Calm /\ xfer.step = "poll" =>
         /\ Tx(xfer) \notin queued
         /\ wallet[xfer.to] < xfer.b0 + xfer.amt
    /\ Release("unsent")
    /\ UNCHANGED <<users, books, chain, peak, runs, changes, mode>>

\* A block seals a queued transaction: all others have the same nonce
Seal(t) ==
    /\ t \in queued
    /\ nonce' = nonce + 1
    /\ wallet' = [wallet EXCEPT ![t.to] = @ + t.amt]
    /\ landed' = [landed EXCEPT ![t.to] = @ + t.amt]
    /\ queued' = {} /\ seen' = {}
    /\ UNCHANGED <<users, books, job, xfer, peak, runs, changes, mode>>

\* A round of a single-chain node drops what does not apply (an empty
\* treasury), and the hash stays seen; a restart forgets both
DropQueued ==
    /\ queued # {} /\ changes < MaxChanges
    /\ queued' = {} /\ seen' \in {seen, {}}
    /\ changes' = changes + 1
    /\ UNCHANGED <<users, books, job, xfer, wallet, nonce, landed, peak, runs, mode>>

Spend(a) ==
    /\ Calm => xfer.to # a
    /\ wallet[a] > 0 /\ changes < MaxChanges
    /\ wallet' = [wallet EXCEPT ![a] = 0]
    /\ changes' = changes + 1
    /\ UNCHANGED <<users, books, job, xfer, nonce, queued, seen, landed, peak, runs, mode>>

-----------------------------------------------------------------------------
(* payout(m0r), under _payout_lock                                          *)

\* What is earned and not yet paid is booked as paid before it is sent.  The
\* compare-and-set of paid_morm cannot lose inside one process.
PayoutReserve(a) ==
    LET amt == earned[a] - paid[a]
    IN  /\ MayStart("payout")
        /\ amt >= PayoutMin
        /\ ~ Blocked(a)
        /\ paid' = [paid EXCEPT ![a] = @ + amt]
        /\ peak' = [peak EXCEPT ![a] = IF @ < earned[a] THEN earned[a] ELSE @]
        /\ Send("payout", Idle, a, Dest[a], amt)
        /\ UNCHANGED <<users, points, refs, awards, xfer, chain, changes, mode>>

PayoutDone ==
    /\ job["payout"].stage = "sent"
    /\ Stop("payout")
    /\ UNCHANGED <<users, books, xfer, chain, peak, runs, changes, mode>>

PayoutUndo ==
    LET j == job["payout"]
    IN  /\ j.stage = "unsent"
        /\ paid' = [paid EXCEPT ![j.acct] = @ - j.amt]
        /\ Stop("payout")
        /\ UNCHANGED <<users, points, refs, awards, xfer, chain, peak, runs, changes, mode>>

-----------------------------------------------------------------------------
(* settle_referrals, one at a time (_ref_lock)                              *)

AttachReferral(e, r) ==
    /\ changes < MaxChanges /\ changes' = changes + 1
    /\ e # r /\ refs[e].by = NoAccount /\ e \notin posted
    /\ refs' = [refs EXCEPT ![e] = [NoRef EXCEPT !.by = r]]
    /\ UNCHANGED <<users, paid, points, awards, job, xfer, chain, peak, runs, mode>>

Referees == {a \in Accounts : refs[a].by # NoAccount}
Rewarded(r) == {e \in Referees : refs[e].by = r /\ refs[e].rewarded}

ReferralBegin ==
    LET now == {e \in Referees : refs[e].qualified \/ e \in posted}
    IN  /\ MayStart("referral")
        /\ refs' = [e \in Accounts |-> [refs[e] EXCEPT !.qualified = e \in now]]
        /\ job' = [job EXCEPT !["referral"] =
             [Idle EXCEPT !.stage = "next", !.todo = {e \in now : ~ refs[e].rewarded}]]
        /\ UNCHANGED <<users, paid, points, awards, xfer, chain, peak, changes, mode>>

\* Claims the row before anything is sent; rc is counted before the claim, and
\* decides whether the referrer's leg is due
ReferralClaim(e) ==
    LET j == job["referral"]
    IN  /\ j.stage = "next" /\ e \in j.todo
        /\ refs' = [refs EXCEPT ![e].rewarded = TRUE]
        /\ Send("referral", [j EXCEPT !.todo = @ \ {e}, !.leg = "referee",
                                      !.undo = Cardinality(Rewarded(refs[e].by))],
                e, e, Bonus)
        /\ UNCHANGED <<users, paid, points, awards, xfer, chain, peak, runs, changes, mode>>

ReferralLeg(to) == job["referral"].leg = to

ReferralRefereePaid ==
    LET j == job["referral"]
        r == refs[j.acct].by
    IN  /\ j.stage = "sent" /\ ReferralLeg("referee")
        /\ IF j.undo < RefCap
           THEN /\ Send("referral", [j EXCEPT !.leg = "referrer"], j.acct, r, Bonus)
                /\ refs' = [refs EXCEPT ![j.acct].sent = TRUE]
           ELSE Continue("referral") /\ UNCHANGED refs
        /\ UNCHANGED <<users, paid, points, awards, xfer, chain, peak, runs, changes, mode>>

ReferralRefereeUndo ==
    LET j == job["referral"]
    IN  /\ j.stage = "unsent" /\ ReferralLeg("referee")
        /\ refs' = [refs EXCEPT ![j.acct].rewarded = FALSE]
        /\ Continue("referral")
        /\ UNCHANGED <<users, paid, points, awards, xfer, chain, peak, runs, changes, mode>>

\* Deviation: a referrer's leg that fails undoes the claim too
ReferralReferrerUndo ==
    LET j == job["referral"]
    IN  /\ j.stage \in {"sent", "unsent"} /\ ReferralLeg("referrer")
        /\ refs' = [refs EXCEPT ![j.acct].rewarded = j.stage = "sent",
                                ![j.acct].sent = j.stage = "sent"]
        /\ Continue("referral")
        /\ UNCHANGED <<users, paid, points, awards, xfer, chain, peak, runs, changes, mode>>

\* Sent or not, the row stays claimed: the referee has been paid
ReferralReferrerDone ==
    /\ job["referral"].stage \in {"sent", "unsent"} /\ ReferralLeg("referrer")
    /\ Continue("referral")
    /\ UNCHANGED <<users, books, xfer, chain, peak, runs, changes, mode>>

ReferralEnd ==
    /\ job["referral"].stage = "next" /\ job["referral"].todo = {}
    /\ Stop("referral")
    /\ UNCHANGED <<users, books, xfer, chain, peak, runs, changes, mode>>

-----------------------------------------------------------------------------
(* settle_points, one at a time (_points_lock): _settle_fixed               *)

\* Both modes: the rows of a are settled and morm is added to its payouts
PointsReserve(a, pts, morm, carry, j) ==
    /\ unsettled' = [unsettled EXCEPT ![a] = @ - pts]
    /\ points' = [points EXCEPT ![a] =
         [pts |-> @.pts + pts, morm |-> @.morm + morm, carry |-> carry]]
    /\ Send("points", [j EXCEPT !.todo = @ \ {a}, !.share[a] = pts, !.undo = points[a].carry],
            a, Dest[a], morm)

FixedBegin ==
    /\ mode = "fixed" /\ MayStart("points")
    /\ job' = [job EXCEPT !["points"] =
         [Idle EXCEPT !.stage = "next", !.share = [a \in Accounts |-> 0],
                      !.todo = {a \in Accounts : unsettled[a] > 0}]]
    /\ UNCHANGED <<users, books, xfer, chain, peak, changes, mode>>

FixedSettle(a) ==
    LET j == job["points"]
        pool == unsettled[a] + points[a].carry
        morm == pool \div PointsPerMorm
    IN  /\ mode = "fixed" /\ AtNext(j) /\ a \in j.todo
        /\ IF Blocked(a) \/ pool < MinSettle \/ morm < 1
           THEN /\ job' = [job EXCEPT !["points"].todo = @ \ {a}]
                /\ UNCHANGED <<unsettled, points>>
           ELSE PointsReserve(a, unsettled[a], morm, pool - morm * PointsPerMorm, j)
        /\ UNCHANGED <<earned, posted, held, due, paid, refs, awards, xfer, chain, peak,
                       runs, changes, mode>>

-----------------------------------------------------------------------------
(* _settle_proportional: the run row is written first, so that a second run *)
(* waits for the interval even after a crash                                *)

Share(pts, total) ==
    LET share == (Budget * pts) \div total
    IN  IF AccountCap > 0 THEN Minimum(share, AccountCap) ELSE share

ProportionalBegin ==
    LET total == SumFunction(unsettled)
    IN  /\ mode = "proportional" /\ due /\ MayStart("points")
        /\ due' = FALSE
        /\ job' = IF total = 0 THEN job
                  ELSE [job EXCEPT !["points"] =
                    [Idle EXCEPT !.stage = "next", !.share = unsettled, !.amt = total,
                                 !.todo = {a \in Accounts : unsettled[a] > 0}]]
        /\ UNCHANGED <<earned, posted, held, unsettled, books, xfer, chain, peak, changes, mode>>

\* The snapshot of the run decides, not what was granted since; a hold is not
\* looked at in this mode
ProportionalSettle(a) ==
    LET j == job["points"]
        total == SumFunction(j.share)
        morm == Share(j.share[a], total)
    IN  /\ mode = "proportional" /\ AtNext(j) /\ a \in j.todo
        /\ IF morm < 1
           THEN /\ job' = [job EXCEPT !["points"].todo = @ \ {a}]
                /\ UNCHANGED <<unsettled, points>>
           ELSE PointsReserve(a, j.share[a], morm, points[a].carry, j)
        /\ UNCHANGED <<earned, posted, held, due, paid, refs, awards, xfer, chain, peak,
                       runs, changes, mode>>

\* Deviation: the carry of before the booking is not put back
PointsUndoPart ==
    LET j == job["points"]
        a == j.acct
    IN  /\ j.stage = "unsent"
        /\ unsettled' = [unsettled EXCEPT ![a] = @ + j.share[a]]
        /\ points' = [points EXCEPT ![a] =
             [pts |-> @.pts - j.share[a], morm |-> @.morm - j.amt, carry |-> @.carry]]
        /\ Continue("points")
        /\ UNCHANGED <<earned, posted, held, due, paid, refs, awards, xfer, chain, peak,
                       runs, changes, mode>>

PointsUndo ==
    LET j == job["points"]
        a == j.acct
    IN  /\ j.stage = "unsent"
        /\ unsettled' = [unsettled EXCEPT ![a] = @ + j.share[a]]
        /\ points' = [points EXCEPT ![a] =
             [pts |-> @.pts - j.share[a], morm |-> @.morm - j.amt, carry |-> j.undo]]
        /\ Continue("points")
        /\ UNCHANGED <<earned, posted, held, due, paid, refs, awards, xfer, chain, peak,
                       runs, changes, mode>>

PointsEnd ==
    /\ AtNext(job["points"]) /\ job["points"].todo = {}
    /\ Stop("points")
    /\ UNCHANGED <<users, books, xfer, chain, peak, runs, changes, mode>>

-----------------------------------------------------------------------------
(* settle_challenge, under _chal_lock                                       *)

\* The part of the i-th of n: 50/30/20 for three, equal parts otherwise
Part(n, i) == IF n = 3 THEN (Pool * <<5, 3, 2>>[i]) \div 10 ELSE Pool \div n

\* The best creators at this moment; `settled` of an earlier run is not looked at
ChallengeBegin(ranked) ==
    /\ ranked # <<>> /\ Pool > 0
    /\ MayStart("challenge")
    /\ job' = [job EXCEPT !["challenge"] =
         [Idle EXCEPT !.stage = "next", !.todo = {ranked[i] : i \in DOMAIN ranked},
                      !.share = [a \in {ranked[i] : i \in DOMAIN ranked} |->
                          Part(Len(ranked), CHOOSE i \in DOMAIN ranked : ranked[i] = a)]]]
    /\ UNCHANGED <<users, books, xfer, chain, peak, changes, mode>>

\* The award row (slug, m0r) is the claim: who has one is skipped
ChallengeAward(a) ==
    LET j == job["challenge"]
    IN  /\ AtNext(j) /\ a \in j.todo
        /\ IF j.share[a] = 0 \/ awards[a] > 0
           THEN /\ job' = [job EXCEPT !["challenge"].todo = @ \ {a}]
                /\ UNCHANGED awards
           ELSE /\ awards' = [awards EXCEPT ![a] = j.share[a]]
                /\ Send("challenge", [j EXCEPT !.todo = @ \ {a}], a, Dest[a], j.share[a])
        /\ UNCHANGED <<users, paid, points, refs, xfer, chain, peak, runs, changes, mode>>

ChallengeUndo ==
    /\ job["challenge"].stage = "unsent"
    /\ awards' = [awards EXCEPT ![job["challenge"].acct] = 0]
    /\ Continue("challenge")
    /\ UNCHANGED <<users, paid, points, refs, xfer, chain, peak, runs, changes, mode>>

ChallengeEnd ==
    /\ AtNext(job["challenge"]) /\ job["challenge"].todo = {}
    /\ Stop("challenge")
    /\ UNCHANGED <<users, books, xfer, chain, peak, runs, changes, mode>>

-----------------------------------------------------------------------------
(* What users and the administrator do meanwhile, and the process' end      *)

Changed == changes < MaxChanges /\ changes' = changes + 1

\* Views, likes, un-likes and removals, as earnings() counts them
Earn(a, e) ==
    /\ Changed /\ earned[a] # e
    /\ earned' = [earned EXCEPT ![a] = e]
    /\ UNCHANGED <<posted, held, unsettled, due, books, job, xfer, chain, peak, runs, mode>>

ApprovePost(a) ==
    /\ Changed /\ a \notin posted
    /\ posted' = posted \cup {a}
    /\ UNCHANGED <<earned, held, unsettled, due, books, job, xfer, chain, peak, runs, mode>>

\* /api/admin/hold
SetHold(a, on) ==
    /\ Changed /\ (a \in held) # on
    /\ held' = IF on THEN held \cup {a} ELSE held \ {a}
    /\ UNCHANGED <<earned, posted, unsettled, due, books, job, xfer, chain, peak, runs, mode>>

GrantPoints(a) ==
    /\ Changed /\ unsettled[a] + points[a].pts < MaxPoints
    /\ unsettled' = [unsettled EXCEPT ![a] = @ + 1]
    /\ UNCHANGED <<earned, posted, held, due, books, job, xfer, chain, peak, runs, mode>>

IntervalPasses ==
    /\ ~due /\ Changed
    /\ due' = TRUE
    /\ UNCHANGED <<earned, posted, held, unsettled, books, job, xfer, chain, peak, runs, mode>>

\* The process dies and starts again: the threads are gone, the tables stay
Crash ==
    /\ Changed
    /\ job' = [k \in Pipelines |-> Idle] /\ xfer' = NoXfer
    /\ UNCHANGED <<users, books, chain, peak, runs, mode>>

-----------------------------------------------------------------------------
Transfer == TransferNonce \/ TransferPost \/ TransferConfirm \/ TransferGiveUp
              \/ \E k \in Pipelines : TransferBegin(k)
PayoutStep == PayoutDone \/ PayoutUndo
ReferralStep == ReferralRefereePaid \/ ReferralRefereeUndo \/ ReferralReferrerDone
                  \/ ReferralEnd \/ \E e \in Accounts : ReferralClaim(e)
PointsStep == PointsUndo \/ PointsEnd
                \/ \E a \in Accounts : FixedSettle(a) \/ ProportionalSettle(a)
ChallengeStep == ChallengeUndo \/ ChallengeEnd
                   \/ \E a \in Accounts : ChallengeAward(a)
Start == ReferralBegin \/ FixedBegin \/ ProportionalBegin
           \/ (\E a \in Accounts : PayoutReserve(a))
           \/ \E ranked \in Rankings : ChallengeBegin(ranked)
Node == DropQueued \/ (\E t \in queued : Seal(t)) \/ \E a \in Accounts : Spend(a)
User ==
    \/ IntervalPasses
    \/ \E a \in Accounts :
         \/ ApprovePost(a) \/ GrantPoints(a)
         \/ \E e \in 0 .. MaxEarned : Earn(a, e)
         \/ \E on \in BOOLEAN : SetHold(a, on)
         \/ \E r \in Accounts : AttachReferral(a, r)

Next == Transfer \/ PayoutStep \/ ReferralStep \/ PointsStep \/ ChallengeStep
          \/ Start \/ Node \/ User \/ Crash

Spec == Init /\ [][Next]_vars

-----------------------------------------------------------------------------
\* What the tables say has been paid to the wallet of w
Booked(w) ==
    LET from == {a \in Accounts : Dest[a] = w}
    IN  SumFunction([a \in from |-> paid[a] + points[a].morm + awards[a]])
          + Bonus * Cardinality({e \in {w} : refs[e].rewarded})
          + Bonus * Cardinality({e \in Accounts : refs[e].by = w /\ refs[e].sent})

Overpaid == \E a \in Accounts : landed[a] > Booked(a)

\* While the chain answers in time, no wallet ever receives more than the tables
\* book for it, and nothing is booked beyond what was earned: whatever crash,
\* rollback, dropped or repeated transaction lies between the booking and the
\* seal, a payment is at worst missing and never made twice (play_server.py:1099).
NeverOverpaid == Calm => ~Overpaid /\ \A a \in Accounts : paid[a] <= peak[a]

\* play_server.py:1099 says so without a condition: "二重支払い" is prevented,
\* a crash "at worst" underpays, and ③ rolls back to avoid both.
NeverPaidTwice == ~Overpaid

\* Fixed rate: what was paid and what is carried over are together worth exactly
\* the points settled, through every rollback and crash.
SettledBalance ==
    mode = "fixed" => \A a \in Accounts :
        points[a].morm * PointsPerMorm + points[a].carry = points[a].pts

\* Proportional: all accounts together never get more than the budget per run,
\* whatever is granted, held back or rolled back while the run goes on.
BudgetRespected ==
    mode = "proportional" =>
        SumFunction([a \in Accounts |-> points[a].morm]) <= Budget * runs["points"]

=============================================================================
