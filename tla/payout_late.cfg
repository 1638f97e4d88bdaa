SPECIFICATION PaySpec
CONSTANTS
    a1 = a1
    a2 = a2
    a3 = a3
    Accounts <- MCAccounts
    Dest <- MCDest
    Rankings <- MCRankings
    Earnings <- MCEarnings
    Grants <- MCGrants
    Posters <- MCPosters
    ReferrerOf <- MCReferrerOf
    NoAccount = NoAccount
    Calm = FALSE
    PayoutMin = 1
    PointsPerMorm = 2
    MinSettle = 2
    Budget = 3
    AccountCap = 2
    Bonus = 1
    RefCap = 1
    Pool = 3
    MaxEarned = 1
    MaxPoints = 4
    MaxRuns = 2
    MaxChanges = 0
    agent = agent
    ann = ann
    bob = bob
    People <- MCPeople
    Agents = {agent}
    Uids = {u1, u2}
    Contents = {clip}
    Uploader <- MCUploader
    Nobody = Nobody
    Points <- MCPoints
    Cap = 1
    FirstEligible <- MCFirstEligible
    Threads = {h1, h2}
    MaxRequests = 3
    MaxTime = 1
SYMMETRY Same
INVARIANT
    NeverPaidTwice
CHECK_DEADLOCK FALSE
