SPECIFICATION StudioSpec
CONSTANTS
    agent = agent
    human = human
    f1 = f1
    f2 = f2
    c1 = c1
    c2 = c2
    k1 = k1
    k2 = k2
    k3 = k3
    o1 = o1
    o2 = o2
    Users <- MCUsers
    Agents = {agent}
    Titles = {clip}
    Files <- MCFiles
    Media <- MCMedia
    Nothing = Nothing
    Threads = {h1, h2}
    Workers = {w1, w2}
    Tiers <- MCTiers
    Texts <- MCTexts
    FirstTier <- MCFirstTier
    PostsDay <- MCPostsDay
    MaxContents = 2
    MaxUploads = 2
    MaxChanges = 1
    Creators <- MCCreators
    Host = c1
    Trusted = {c2}
    Themes = {dance}
    Posts = {p1, p2}
    Makers = {r1, r2}
    Digits = {"x"}
    Prefix <- MCPrefix
    None = None
    PerDay = 1
    MaxNumber = 2
    MaxStageTurns = 4
    Edges = {e1, e2}
    Origin = origin
    Works = {clip}
    Viewers = {v1, v2}
    Streams = {s1}
    Nowhere = Nowhere
    MaxRequests = 2
    MaxTurns = 3
    Cards <- MCCards
    TitleOf <- MCTitleOf
    Queries = {"all", "tag", "adult"}
    Match <- MCMatch
    Gated = {"adult"}
    PageSize <- MCPageSize
    Picks = {f1, f2}
    Clicks = {g1, g2}
    Nil = Nil
    MaxLoads = 4
    MaxMoves = 2
    MaxPicks = 3
    Stems = {m1, m2}
    Clips <- MCClips
    Images <- MCImages
    PHash <- MCPHash
    Flip <- MCFlip
    HashBits = 2
    Keyframes = 2
    AudioFrames = 2
    AudioBands = 2
    VisualDist = 1
    AudioDist = 1
    Generations = {gen}
    NoGeneration = NoGeneration
    MotionMin = 1
    Screeners = {q1, q2}
    Unsaid = Unsaid
    MaxEncodes = 2
    MaxScreens = 3
    Unknown = Unknown
    Sources = {f1, f2}
    Segments <- MCSegments
    GivenIds = {given}
    Rungs = {1, 2}
    Recordings = {f1, f2}
    Pieces <- MCPieces
    Places = {place}
    Orders = {o1, o2}
    MaxHlsRuns = 3
    MaxEvidenceRuns = 3
    MaxTip = 2
SYMMETRY Same
INVARIANTS
    PublicWasJudged
    
    PlaybackSurvives
    
    PagingComplete
    FirstWins
    
PROPERTY
    ChallengeKept
CHECK_DEADLOCK FALSE
