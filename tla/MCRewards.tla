----------------------------- MODULE MCRewards -----------------------------
(***************************************************************************)
(* How points and MORM are earned, and how they are paid.  A behaviour is  *)
(* one of PlayEngage or one of PlayRewards, with the other standing still. *)
(***************************************************************************)
EXTENDS PlayRewards, PlayEngage, TLC

VARIABLE part

\* PlayRewards: a1 owns the posting agent a2
CONSTANTS a1, a2, a3

MCAccounts == {a1, a2, a3}
MCDest == [a \in MCAccounts |-> IF a = a2 THEN a1 ELSE a]
MCEarnings == {[a \in MCAccounts |-> IF a = a1 THEN 0 ELSE 1]}
MCGrants == {[a \in MCAccounts |-> IF a = a1 THEN 3 ELSE IF a = a2 THEN 2 ELSE 0]}
MCPosters == {a2, a3}
MCReferrerOf == [a \in MCAccounts |-> IF a = a1 THEN NoAccount ELSE a1]
MCRankings == {<<a1, a3>>}

\* PlayEngage: the video of a posting agent, two people
CONSTANTS agent, ann, bob

MCPeople == {agent, ann, bob}
MCUploader == [c \in Contents |-> agent]
MCPoints == [k \in Kinds |-> 1]
MCFirstEligible == {{}, {ann, bob}}
Same == Permutations({ann, bob}) \cup Permutations(Threads)

PointsInit ==
    /\ Init /\ EngageInit /\ part \in {"earn", "pay"}
    /\ part = "earn" => mode = "fixed"
    /\ part = "pay" => eligible = {}
PointsNext ==
    /\ UNCHANGED part
    /\ \/ part = "earn" /\ EngageNext /\ UNCHANGED vars
       \/ part = "pay" /\ Next /\ UNCHANGED engaged

PointsSpec == PointsInit /\ [][PointsNext]_<<part, vars, engaged>>
\* Neither an account nor the budget is overdrawn: a payment that may still land
\* holds back what it pays, and the payments of a day and the bonuses keep to
\* their limits
PayoutsBounded == NeverOverpaid /\ BudgetRespected

\* The counters the ranking and the points are computed from are those of the
\* likes and the viewers there were
EngagementExact == LikesExact /\ ViewsOncePerViewer

PaySpec == PointsSpec /\ part = "pay"

=============================================================================
