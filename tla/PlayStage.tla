------------------------------ MODULE PlayStage ------------------------------
(***************************************************************************)
(* What creators do with the catalogue in morm-play: challenges, remixes,  *)
(* branching stories, follows, invitation codes (play_server.py).          *)
(*                                                                         *)
(* Each request has a thread and its own SQLite connection in autocommit   *)
(* reading: between a SELECT that decides something and the INSERT or      *)
(* UPDATE that rests on it, other requests run.                            *)
(***************************************************************************)
EXTENDS Integers, FiniteSets, FiniteSetsExt

CONSTANTS
    Creators,       \* accounts
    Host,           \* the account an administrator names as creator
    Trusted,        \* accounts of effective_tier >= CHALLENGE_MIN_TIER
    Themes,         \* what _slugify makes of the titles
    Posts,          \* ids of content rows
    Makers,         \* request threads
    Digits, Prefix, \* the first seven digits of each account's code
    None,
    PerDay,         \* CHALLENGE_PER_DAY
    MaxNumber,      \* bound on the challenges of one title
    MaxStageTurns   \* bound on requests and verdicts

ASSUME StageAssumption ==
    /\ Host \in Creators /\ Trusted \subseteq Creators /\ PerDay \in Nat
    /\ Prefix \in [Creators -> Digits]
    /\ None \notin Creators \cup Posts

VARIABLES
    challenge,      \* the challenges table, by slug
    attempts,       \* _rl_allow("chc:" + m0r): requests of the day
    post,           \* the content rows: status, rating, remix_of, challenge
    follows,        \* <<follower, followee>>
    edges,          \* story_edges: <<from_cid, to_cid>>
    code,           \* accounts.ref_code
    maker,          \* what each request thread is doing
    stageTurns      \* counted against MaxStageTurns

stage == <<challenge, attempts, post, follows, edges, code, maker, stageTurns>>
graph == <<follows, edges>>

\* The slug is the title's, then "-2", "-3", ...
Slugs == Themes \X (1 .. MaxNumber)
NoSlug == <<None, 0>>
NoChallenge == [status |-> "none", by |-> None, pool |-> FALSE]
NoPost == [status |-> "none", r18 |-> FALSE, remixOf |-> None, entry |-> NoSlug]
NoMaker == [step |-> "idle", who |-> None, slug |-> NoSlug, row |-> NoChallenge,
            from |-> None, code |-> NoSlug]

StageInit ==
    /\ challenge = [s \in Slugs |-> NoChallenge]
    /\ attempts = [a \in Creators |-> 0]
    /\ post = [p \in Posts |-> NoPost]
    /\ follows = {} /\ edges = {}
    /\ code = [a \in Creators |-> NoSlug]
    /\ maker = [t \in Makers |-> NoMaker]
    /\ stageTurns = 0

MakerGoes(t, r) == maker' = [maker EXCEPT ![t] = r]
StageTurn == stageTurns < MaxStageTurns /\ stageTurns' = stageTurns + 1

-----------------------------------------------------------------------------
(* Challenges                                                               *)

FreeNumbers(theme) == {n \in 1 .. MaxNumber : challenge[<<theme, n>>].status = "none"}

\* /api/challenge/create: an administrator may fund the pool; a user needs the
\* tier and one of the day's attempts.  _unique_slug takes the first free slug.
AskChallenge(t, a, theme, admin) ==
    /\ maker[t] = NoMaker /\ StageTurn /\ FreeNumbers(theme) # {}
    /\ IF admin THEN a = Host /\ UNCHANGED attempts
       ELSE /\ a \in Trusted /\ attempts[a] < PerDay
            /\ attempts' = [attempts EXCEPT ![a] = @ + 1]
    /\ MakerGoes(t, [NoMaker EXCEPT !.step = "create", !.who = a,
                       !.slug = <<theme, Min(FreeNumbers(theme))>>,
                       !.row = [NoChallenge EXCEPT !.status = "active", !.by = a,
                                                       !.pool = admin]])
    /\ UNCHANGED <<challenge, post, graph, code>>

\* Deviation: INSERT OR REPLACE
CreateChallengeReplacing(t) ==
    LET r == maker[t]
    IN  /\ r.step = "create"
        /\ challenge' = [challenge EXCEPT ![r.slug] = r.row]
        /\ MakerGoes(t, NoMaker)
        /\ UNCHANGED <<attempts, post, graph, code, stageTurns>>

\* The INSERT: the slug is the primary key, and the second of two requests with
\* one title dies of it, with its attempt spent and no answer
CreateChallenge(t) ==
    LET r == maker[t]
    IN  /\ r.step = "create"
        /\ challenge' = IF challenge[r.slug].status = "none"
                        THEN [challenge EXCEPT ![r.slug] = r.row] ELSE challenge
        /\ MakerGoes(t, NoMaker)
        /\ UNCHANGED <<attempts, post, graph, code, stageTurns>>

\* ends_at passes, if it has one: "over" is "active" with ends_at behind it
ChallengePasses(s) ==
    /\ challenge[s].status = "active"
    /\ challenge' = [challenge EXCEPT ![s].status = "over"]
    /\ UNCHANGED <<attempts, post, graph, code, maker, stageTurns>>
\* /api/admin/challenge/close
CloseChallenge(s) ==
    /\ challenge[s].status \in {"active", "over"}
    /\ challenge' = [challenge EXCEPT ![s].status = "closed"]
    /\ UNCHANGED <<attempts, post, graph, code, maker, stageTurns>>

ChallengeActive(s) == s \in Slugs /\ challenge[s].status = "active"

-----------------------------------------------------------------------------
(* create_reservation: three statements                                     *)

\* A remix keeps its original only if that is public
Reserve(t, a, from, s) ==
    /\ maker[t] = NoMaker /\ StageTurn
    /\ MakerGoes(t, [NoMaker EXCEPT !.step = "entry", !.who = a, !.slug = s,
         !.from = IF from # None /\ post[from].status = "approved" THEN from ELSE None])
    /\ UNCHANGED <<challenge, attempts, post, graph, code>>

\* challenge_active
ReserveEntry(t) ==
    LET r == maker[t]
    IN  /\ r.step = "entry"
        /\ MakerGoes(t, [r EXCEPT !.step = "row",
                           !.slug = IF ChallengeActive(r.slug) THEN r.slug ELSE NoSlug])
        /\ UNCHANGED <<challenge, attempts, post, graph, code, stageTurns>>

ReserveRow(t, p) ==
    LET r == maker[t]
    IN  /\ r.step = "row" /\ post[p] = NoPost
        /\ post' = [post EXCEPT ![p] = [status |-> "reserved", r18 |-> FALSE,
                                       remixOf |-> r.from, entry |-> r.slug]]
        /\ MakerGoes(t, NoMaker)
        /\ UNCHANGED <<challenge, attempts, graph, code, stageTurns>>

\* The verdicts, which PlayCatalog has in full
PostModerated(p, status, r18) ==
    /\ StageTurn /\ post[p] # NoPost
    /\ post' = [post EXCEPT ![p].status = status, ![p].r18 = r18]
    /\ UNCHANGED <<challenge, attempts, graph, code, maker>>

Public(p) == post[p].status = "approved"

\* challenge_detail: the items leave R18 out, the board and the count do not;
\* list_remixes and remix_counts count both
Entries(s) == {p \in Posts : Public(p) /\ post[p].entry = s}
Items(s) == {p \in Entries(s) : ~ post[p].r18}
Remixes(p) == {x \in Posts : Public(x) /\ post[x].remixOf = p}
ActiveChallenges == {s \in Slugs : ChallengeActive(s)}

-----------------------------------------------------------------------------
(* Follows and stories                                                      *)

\* toggle_follow
ToggleFollow(a, b, on) ==
    /\ StageTurn /\ a # b
    /\ follows' = IF on THEN follows \cup {<<a, b>>} ELSE follows \ {<<a, b>>}
    /\ UNCHANGED <<challenge, attempts, post, edges, code, maker>>
FollowCounts(a) == <<Cardinality({f \in follows : f[2] = a}), Cardinality({f \in follows : f[1] = a})>>

\* /api/admin/story/edge: both rows must exist, public or not
StoryEdge(from, to, on) ==
    /\ StageTurn /\ from # to
    /\ on => NoPost \notin {post[from], post[to]}
    /\ edges' = IF on THEN edges \cup {<<from, to>>} ELSE edges \ {<<from, to>>}
    /\ UNCHANGED <<challenge, attempts, post, follows, code, maker>>

\* story_node shows the public ends of the branches, four of them at most
Branches(p) == {x \in Posts : <<p, x>> \in edges /\ Public(x)}
StoryEnds(p) == Branches(p) = {}

-----------------------------------------------------------------------------
(* Invitation codes                                                         *)

\* ref_code_for (and account_public), where no code is stored yet ...
AskCode(t, a) ==
    /\ maker[t] = NoMaker /\ StageTurn
    /\ code[a] = NoSlug
    /\ MakerGoes(t, [NoMaker EXCEPT !.step = "code", !.who = a])
    /\ UNCHANGED <<challenge, attempts, post, graph, code>>

\* ... the first seven digits of the account's hash, or eight: the counter
\* is appended behind the digits that are kept, so there is no third candidate
\* and with both taken the loop never ends (no two accounts share eight digits)
Candidates(a) == {<<Prefix[a], 7>>, <<a, 8>>} \ {code[b] : b \in Creators}
ChooseCode(t) ==
    LET a == maker[t].who
        seven == <<Prefix[a], 7>>
    IN  /\ maker[t].step = "code" /\ Candidates(a) # {}
        /\ MakerGoes(t, [maker[t] EXCEPT !.step = "write",
                           !.code = IF seven \in Candidates(a) THEN seven ELSE <<a, 8>>])
        /\ UNCHANGED <<challenge, attempts, post, graph, code, stageTurns>>

\* ... and the UPDATE: of two first requests of one account, the later replaces
\* the code that the earlier was told
WriteCode(t) ==
    LET r == maker[t]
    IN  /\ r.step = "write"
        /\ code' = [code EXCEPT ![r.who] = r.code]
        /\ MakerGoes(t, NoMaker)
        /\ UNCHANGED <<challenge, attempts, post, graph, stageTurns>>

\* m0r_by_code: whose row the SELECT may return
ByCode(c) == {a \in Creators : code[a] = c}

-----------------------------------------------------------------------------
Making(t) ==
    \/ CreateChallenge(t) \/ ReserveEntry(t) \/ ChooseCode(t) \/ WriteCode(t)
    \/ \E a \in Creators :
         \/ AskCode(t, a)
         \/ \E theme \in Themes, admin \in BOOLEAN : AskChallenge(t, a, theme, admin)
         \/ \E from \in Posts \cup {None}, s \in Slugs \cup {NoSlug} : Reserve(t, a, from, s)
    \/ \E p \in Posts : ReserveRow(t, p)

StageNext ==
    \/ \E t \in Makers : Making(t)
    \/ \E s \in Slugs : ChallengePasses(s) \/ CloseChallenge(s)
    \/ \E p \in Posts, r18 \in BOOLEAN, s \in {"approved", "removed"} : PostModerated(p, s, r18)
    \/ \E a, b \in Creators, on \in BOOLEAN : ToggleFollow(a, b, on)
    \/ \E p, x \in Posts, on \in BOOLEAN : StoryEdge(p, x, on)

StageSpec == StageInit /\ [][StageNext]_stage

-----------------------------------------------------------------------------
\* A challenge stays its creator's, with its terms and its pool: no request of
\* the same title that picked the slug at the same time (_unique_slug, then the
\* INSERT, play_server.py:1656-1683) puts another one in its place, and one
\* that was closed or is over never opens again.
ChallengeKept ==
    [][\A s \in Slugs :
         LET c == challenge[s] IN
         c.status # "none" =>
             /\ challenge'[s].by = c.by /\ challenge'[s].pool = c.pool
             /\ ~ ChallengeActive(s) => ~ ChallengeActive(s)']_stage

=============================================================================
