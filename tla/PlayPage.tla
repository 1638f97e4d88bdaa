------------------------------- MODULE PlayPage -------------------------------
(***************************************************************************)
(* The two pages of morm-play that keep state of their own: the front page *)
(* (index.html: the grid and the player load the ranked feed page by page) *)
(* and the upload page (UPLOAD_HTML of play_server.py).                    *)
(*                                                                         *)
(* A page runs one event at a time; a fetch lets others run until its      *)
(* answer is there.  Meanwhile the ranking moves: views, likes and age     *)
(* change the scores between one page of the feed and the next.            *)
(***************************************************************************)
EXTENDS Integers, Sequences, FiniteSets, SequencesExt

CONSTANTS
    Cards,          \* approved rows
    TitleOf,        \* their titles, normalised
    Queries,        \* zone, search, tag, following
    Match,          \* the cards each query selects
    Gated,          \* queries of the R18 zone, for a viewer who is not verified
    PageSize,       \* limit, of the grid (20) and of the player (8)
    Picks,          \* video files the user may choose
    Clicks,         \* submissions of the upload page
    Nil,
    MaxLoads, MaxMoves, MaxPicks    \* bounds: fetches, what the user and the ranking do, files chosen

Views == {"home", "player"}
ASSUME PageAssumption ==
    /\ IsFiniteSet(Cards) /\ Match \in [Queries -> SUBSET Cards] /\ Gated \subseteq Queries
    /\ PageSize \in [Views -> Nat \ {0}] /\ Nil \notin Cards \cup Picks

VARIABLES
    ranking,    \* all rows, best first
    query,      \* sort, zone, q, tag
    pager,      \* per view: offset, loading, done, what is shown (seen is its range)
    fetches,    \* fetches of the feed under way
    tangled,    \* ghost: views reset while they loaded, or ranked anew since
    picked, button, preview,    \* selFile; whether "go" is enabled; whose metadata are awaited
    click,      \* what each submission is doing
    loads, moves, picks     \* counted against the bounds

pages == <<ranking, query, pager, fetches, tangled>>
form == <<picked, button, preview, click>>
page == <<pages, form, loads, moves, picks>>

FreshPager == [off |-> 0, loading |-> FALSE, done |-> FALSE, shown |-> <<>>]

PageInit ==
    /\ ranking \in {r \in [1 .. Cardinality(Cards) -> Cards] : IsInjective(r)}
    /\ query \in Queries
    /\ pager = [v \in Views |-> FreshPager]
    /\ fetches = {} /\ tangled = {"player"}
    /\ picked = Nil /\ button = FALSE /\ preview = Nil
    /\ click = [c \in Clicks |-> "idle"]
    /\ loads = 0 /\ moves = 0 /\ picks = 0

-----------------------------------------------------------------------------
(* feed: filter, rank, fold equal titles onto the best, cut the page        *)

\* The elements of s that are in S, in their order
Select(s, S) ==
    LET kept[i \in 0 .. Len(s)] ==
          IF i = 0 THEN <<>> ELSE IF s[i] \in S THEN Append(kept[i - 1], s[i]) ELSE kept[i - 1]
    IN  kept[Len(s)]

Fold(s) ==
    LET folded[i \in 0 .. Len(s)] ==
          IF i = 0 THEN <<>>
          ELSE IF \E x \in Range(folded[i - 1]) : TitleOf[x] = TitleOf[s[i]] THEN folded[i - 1]
          ELSE Append(folded[i - 1], s[i])
    IN  folded[Len(s)]
Slice(s, off, limit) == SubSeq(s, off + 1, IF off + limit < Len(s) THEN off + limit ELSE Len(s))
Ranked(qu) == Select(ranking, Match[qu])

\* Deviation: the page is cut before the titles are folded
FeedCutFirst(qu, off, limit) ==
    LET all == Ranked(qu)
    IN  [items |-> Fold(Slice(all, off, limit)),
         next |-> IF off + limit < Len(all) THEN off + limit ELSE 0]

\* "next" is None (here 0) on the last page
Feed(qu, off, limit) ==
    LET all == Fold(Ranked(qu))
    IN  [items |-> Slice(all, off, limit),
         next |-> IF off + limit < Len(all) THEN off + limit ELSE 0]

-----------------------------------------------------------------------------
(* The front page                                                           *)

\* loadHome, loadPlayer: nothing while one loads, nor at the end
Fetch(v, pg) == [view |-> v, query |-> query', off |-> pg.off, id |-> loads', answer |-> Nil]
Load(v) ==
    /\ loads < MaxLoads /\ loads' = loads + 1
    /\ ~ pager[v].loading /\ ~ pager[v].done
    /\ v = "player" => pager[v].shown # <<>>
    /\ UNCHANGED query
    /\ pager' = [pager EXCEPT ![v].loading = TRUE]
    /\ fetches' = fetches \cup {Fetch(v, pager[v])}
    /\ UNCHANGED <<ranking, tangled, form, moves, picks>>

\* The server answers; the R18 zone with 403
Serve(f) ==
    /\ f.answer = Nil
    /\ fetches' = (fetches \ {f}) \cup
         {[f EXCEPT !.answer = IF f.query \in Gated THEN [items |-> <<>>, next |-> 0]
                               ELSE Feed(f.query, f.off, PageSize[f.view])]}
    /\ UNCHANGED <<ranking, query, pager, tangled, form, loads, moves, picks>>

\* What is not in `seen` is appended; the offset is the answer's
Land(f) ==
    LET p == pager[f.view]
        new == Select(f.answer.items, Cards \ Range(p.shown))
    IN  /\ f.answer # Nil
        /\ pager' = [pager EXCEPT ![f.view] =
             [shown |-> p.shown \o new, loading |-> FALSE,
              done |-> p.done \/ f.answer.next = 0,
              off |-> IF f.answer.next = 0 THEN p.off ELSE f.answer.next]]
        /\ fetches' = fetches \ {f}
        /\ UNCHANGED <<ranking, query, tangled, form, loads, moves, picks>>

\* A rejected fetch throws: the view says that it loads for ever
LoadFails(f) ==
    /\ fetches' = fetches \ {f}
    /\ UNCHANGED <<ranking, query, pager, tangled, form, loads, moves, picks>>

Move == moves < MaxMoves /\ moves' = moves + 1

\* A tab, a search or a tag, then resetHome, whose loadHome does nothing while
\* the old query loads; that answer lands in the new grid.  The player keeps
\* what it has and goes on with the new query.
ChangeQuery(qu) ==
    LET busy == pager["home"].loading
    IN  /\ Move /\ query' = qu
        /\ IF busy THEN UNCHANGED <<fetches, loads>>
           ELSE loads < MaxLoads /\ loads' = loads + 1
                /\ fetches' = fetches \cup {Fetch("home", FreshPager)}
        /\ pager' = [pager EXCEPT !["home"] = [FreshPager EXCEPT !.loading = TRUE]]
        /\ tangled' = (tangled \ {"home"}) \cup {"player"} \cup
                      (IF busy \/ \E f \in fetches : f.view = "home" THEN {"home"} ELSE {})
        /\ UNCHANGED <<ranking, form, picks>>

\* openPlayer: pLoading is reset whether a load is under way or not
OpenPlayer(c) ==
    /\ Move /\ loads < MaxLoads /\ loads' = loads + 1
    /\ c \in Range(pager["home"].shown) /\ UNCHANGED query
    /\ pager' = [pager EXCEPT !["player"] = [FreshPager EXCEPT !.shown = <<c>>, !.loading = TRUE]]
    /\ fetches' = fetches \cup {Fetch("player", FreshPager)}
    /\ tangled' = (tangled \ {"player"}) \cup
                  (IF \E f \in fetches : f.view = "player" THEN {"player"} ELSE {})
    /\ UNCHANGED <<ranking, form, picks>>

\* Likes, views and time
Rerank(c) ==
    /\ Move /\ ranking[1] # c
    /\ ranking' = <<c>> \o Select(ranking, Cards \ {c})
    /\ tangled' = tangled \cup {v \in Views : pager[v].loading \/ pager[v].shown # <<>>}
    /\ UNCHANGED <<query, pager, fetches, form, loads, picks>>

-----------------------------------------------------------------------------
(* The upload page                                                          *)

ClickGoes(c, step) == click' = [click EXCEPT ![c] = step]

\* file.onchange enables the button, whether a submission runs or not; the
\* metadata disable it if the video is longer than the tier allows
Pick(f) ==
    /\ picks < MaxPicks /\ picks' = picks + 1
    /\ picked' = f /\ button' = TRUE /\ preview' = f
    /\ UNCHANGED <<pages, click, loads, moves>>
Metadata(long) ==
    /\ preview # Nil /\ preview' = Nil /\ button' = ~ long
    /\ UNCHANGED <<pages, picked, click, loads, moves, picks>>

Submit(c) ==
    /\ button /\ click[c] = "idle"
    /\ button' = FALSE /\ ClickGoes(c, "init")
    /\ UNCHANGED <<pages, picked, preview, loads, moves, picks>>

\* /api/upload/init has answered: the body is the file chosen by now
SendMedia(c) ==
    /\ click[c] = "init" /\ ClickGoes(c, "media")
    /\ UNCHANGED <<pages, picked, button, preview, loads, moves, picks>>

\* The upload is received: the form is emptied, then /api/me is asked
Received(c) ==
    /\ click[c] = "media" /\ picked' = Nil /\ ClickGoes(c, "me")
    /\ UNCHANGED <<pages, button, preview, loads, moves, picks>>

\* renderAcct
Rendered(c) ==
    /\ click[c] = "me" /\ button' = (picked # Nil) /\ ClickGoes(c, "idle")
    /\ UNCHANGED <<pages, picked, preview, loads, moves, picks>>

\* A refusal of either request, or a failed fetch (of /api/me too)
SubmitFails(c) ==
    /\ click[c] # "idle" /\ button' = TRUE /\ ClickGoes(c, "idle")
    /\ UNCHANGED <<pages, picked, preview, loads, moves, picks>>

-----------------------------------------------------------------------------
FrontNext ==
    \/ \E v \in Views : Load(v)
    \/ \E f \in fetches : Serve(f) \/ Land(f) \/ LoadFails(f)
    \/ \E qu \in Queries : ChangeQuery(qu)
    \/ \E c \in Cards : OpenPlayer(c) \/ Rerank(c)

UploadNext ==
    \/ \E f \in Picks : Pick(f)
    \/ \E long \in BOOLEAN : Metadata(long)
    \/ \E c \in Clicks : Submit(c) \/ SendMedia(c) \/ Received(c) \/ Rendered(c) \/ SubmitFails(c)

PageNext == FrontNext \/ UploadNext

PageSpec == PageInit /\ [][PageNext]_page

-----------------------------------------------------------------------------
\* A view that has come to the end shows every title of its query once, in the
\* order of the ranking, the player behind the video it was opened with - unless
\* the ranking moved meanwhile, or the view was reset while it loaded (the old
\* answer then lands in the new grid: index.html:414-423 and 540-559).
PagingComplete ==
    \A v \in Views \ tangled :
        LET p == pager[v]
            all == IF query \in Gated THEN <<>> ELSE Fold(Ranked(query))
        IN  p.done =>
              IF v = "home" THEN p.shown = all
              ELSE Tail(p.shown) = Select(all, Cards \ {Head(p.shown)})

=============================================================================
