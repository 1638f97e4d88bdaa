----------------------------- MODULE PlayEngage -----------------------------
(***************************************************************************)
(* What viewers do to a public video of morm-play, and what it earns:      *)
(* likes, comments, shares and watch beacons change the row's counters and *)
(* write point_ledger, from which settle_points pays (PlayRewards).        *)
(*                                                                         *)
(* A request has a thread and connections of its own.  A Python sqlite3    *)
(* SELECT opens no transaction, so every handler here reads first and      *)
(* writes later, and others may commit in between; a write and its commit  *)
(* are one step.  What a request may refuse without a trace (a bad         *)
(* signature, a rate limit at its entry, a comment too soon) is a step not *)
(* taken.  Watched seconds, a comment and its counter, and fraud_signals   *)
(* are only shown, and are left out.                                       *)
(***************************************************************************)
EXTENDS Integers, FiniteSets, FiniteSetsExt

CONSTANTS
    People,       \* m0r addresses
    Agents,         \* those with is_agent = 1
    Uids,           \* what unsigned viewers call themselves, from one address
    Contents, Uploader,
    Nobody,
    Points,         \* POINT_VALUES and SPREAD_*_PTS, by kind
    Cap,            \* POINT_72H_CAP
    FirstEligible,  \* which accounts may be eligible at first
    Threads,
    MaxRequests, MaxTime    \* bounds: requests served, hours and restarts

Kinds == {"like", "comment", "share", "view", "spread_owner", "spread_share"}
ByIp == "ip"
Keys == People \cup {ByIp}
Viewer(v) == IF v \in People THEN v ELSE ByIp

ASSUME EngageAssumption ==
    /\ Agents \subseteq People /\ Uploader \in [Contents -> People]
    /\ Points \in [Kinds -> Nat] /\ Cap \in Nat \ {0}
    /\ Nobody \notin People \cup Uids /\ ByIp \notin People \cup Uids
    /\ People \cap Uids = {} /\ FirstEligible \subseteq SUBSET People

VARIABLES
    public,     \* rows with status approved
    likes,      \* content.likes
    likers,     \* the likes table: <<content, account>>
    views,      \* content.views
    viewed,       \* _seen_view: <<content, key>>, in memory
    ledger,     \* point_ledger
    eligible,   \* accounts for which reward_eligible holds
    req,        \* what each thread is doing
    crossed,    \* ghost: contents on which two toggles of one account crossed
    recent,     \* ghost: views counted since _seen_view was last empty, by viewer
    requests, time  \* counted against MaxRequests, MaxTime

counters == <<likes, likers, views, viewed>>
engaged == <<public, counters, ledger, eligible, req, crossed, recent, requests, time>>

NoRequest == [step |-> "idle", op |-> "none", who |-> Nobody, on |-> Nobody,
              via |-> Nobody, had |-> FALSE]

EngageInit ==
    /\ public = Contents
    /\ likes = [c \in Contents |-> 0] /\ likers = {}
    /\ views = [c \in Contents |-> 0] /\ viewed = {}
    /\ ledger = {} /\ eligible \in FirstEligible
    /\ req = [t \in Threads |-> NoRequest]
    /\ crossed = {} /\ recent = [key \in Contents \X Keys |-> 0]
    /\ requests = 0 /\ time = 0

Proceed(t, r) == req' = [req EXCEPT ![t] = r]
End(t) == Proceed(t, NoRequest)
Serve(t) == req[t].step = "idle" /\ requests < MaxRequests /\ requests' = requests + 1
Begin(t, op, a, c, step) ==
    Serve(t) /\ Proceed(t, [NoRequest EXCEPT !.step = step, !.op = op, !.who = a, !.on = c])

-----------------------------------------------------------------------------
(* /api/like                                                                *)

\* toggle_like: whether the row is there ...
Like(t, a, c) ==
    LET rivals == {s \in Threads : req[s].step = "like" /\ req[s].who = a /\ req[s].on = c}
    IN  /\ a \notin Agents /\ Serve(t)
        /\ Proceed(t, [NoRequest EXCEPT !.step = "like", !.op = "like", !.who = a, !.on = c,
                                !.had = <<c, a>> \in likers])
        /\ crossed' = IF rivals = {} THEN crossed ELSE crossed \cup {c}
        /\ UNCHANGED <<public, counters, ledger, eligible, recent, time>>

\* Deviation: taking a like back forgets the counter
LikeWriteKeeps(t) ==
    LET r == req[t]
    IN  /\ r.step = "like"
        /\ IF r.had
           THEN likers' = likers \ {<<r.on, r.who>>} /\ UNCHANGED likes /\ End(t)
           ELSE /\ likers' = likers \cup {<<r.on, r.who>>}
                /\ likes' = [likes EXCEPT ![r.on] = @ + 1]
                /\ Proceed(t, [r EXCEPT !.step = "grant"])
        /\ UNCHANGED <<public, views, viewed, ledger, eligible, crossed, recent, requests, time>>

\* ... and the write that goes by it, whatever the table says by now
LikeWrite(t) ==
    LET r == req[t]
    IN  /\ r.step = "like"
        /\ IF r.had
           THEN /\ likers' = likers \ {<<r.on, r.who>>}
                /\ likes' = [likes EXCEPT ![r.on] = Max({0, @ - 1})]
                /\ End(t)
           ELSE /\ likers' = likers \cup {<<r.on, r.who>>}
                /\ likes' = [likes EXCEPT ![r.on] = @ + 1]
                /\ Proceed(t, [r EXCEPT !.step = "grant"])
        /\ UNCHANGED <<public, views, viewed, ledger, eligible, crossed, recent, requests, time>>

-----------------------------------------------------------------------------
(* /api/comment, /api/share                                                 *)

\* add_comment; a comment of less than three letters earns nothing
Comment(t, a, c) ==
    /\ a \notin Agents /\ c \in public
    /\ Begin(t, "comment", a, c, "grant")
    /\ UNCHANGED <<public, counters, ledger, eligible, crossed, recent, time>>

ShareVideo(t, a, c) ==
    /\ a \notin Agents
    /\ Begin(t, "share", a, c, "grant")
    /\ UNCHANGED <<public, counters, ledger, eligible, crossed, recent, time>>

-----------------------------------------------------------------------------
(* /api/watch: record_watch                                                 *)

Watchers == People \cup Uids

\* view_key
ViewKey(v) == Viewer(v)

\* A playback long enough to count.  _dedup_first takes the key, then the rate
\* limit of views may still refuse it.
Watch(t, v, c, via) ==
    LET key == <<c, ViewKey(v)>>
        counted == [NoRequest EXCEPT !.step = "view", !.op = "view", !.who = v, !.on = c,
                                     !.via = via]
    IN  /\ c \in public /\ Serve(t) /\ via # v
        /\ key \notin viewed /\ viewed' = viewed \cup {key}
        /\ \/ Proceed(t, counted)
           \/ UNCHANGED req
        /\ UNCHANGED <<public, likes, likers, views, ledger, eligible, crossed, recent, time>>

WatchCounted(t) ==
    LET r == req[t]
    IN  /\ r.step = "view"
        /\ views' = [views EXCEPT ![r.on] = @ + 1]
        /\ recent' = [recent EXCEPT ![<<r.on, Viewer(r.who)>>] = @ + 1]
        /\ IF r.who \in People THEN Proceed(t, [r EXCEPT !.step = "grant"]) ELSE End(t)
        /\ UNCHANGED <<public, likes, likers, viewed, ledger, eligible, crossed, requests, time>>

-----------------------------------------------------------------------------
(* grant_point, grant_view_point, grant_spread                              *)

Row(kind, a, ref) == [acct |-> a, kind |-> kind, ref |-> ref]
Rows == {e.row : e \in ledger}
\* INSERT under UNIQUE(account, kind, content_id): for good, once
Inserted(led, row) == IF row \in {e.row : e \in led} THEN led
                      ELSE led \cup {[row |-> row, old |-> FALSE]}
Earned(led, a) ==
    MapThenSumSet(LAMBDA e : Points[e.row.kind], {x \in led : x.row.acct = a /\ ~ x.old})

Payee(r) == IF r.op = "view" THEN Uploader[r.on] ELSE r.who
Ref(r) == IF r.op = "view" THEN <<r.on, r.who>> ELSE <<r.on>>
AfterGrant(t, r) ==
    IF r.via = Nobody THEN End(t) ELSE Proceed(t, [r EXCEPT !.step = "spread"])

\* Public, another's work, an account that counts, and room below the cap ...
GrantCheck(t) ==
    LET r == req[t]
    IN  /\ r.step = "grant"
        /\ IF /\ r.on \in public /\ Uploader[r.on] # r.who
              /\ r.who \in eligible /\ Earned(ledger, Payee(r)) < Cap
           THEN Proceed(t, [r EXCEPT !.step = "insert"])
           ELSE AfterGrant(t, r)
        /\ UNCHANGED <<public, counters, ledger, eligible, crossed, recent, requests, time>>

\* ... then the row, whatever the sum is by now
GrantInsert(t) ==
    LET r == req[t]
    IN  /\ r.step = "insert"
        /\ ledger' = Inserted(ledger, Row(r.op, Payee(r), Ref(r)))
        /\ AfterGrant(t, r)
        /\ UNCHANGED <<public, counters, eligible, crossed, recent, requests, time>>

\* A watch that came by a shared link; had: the owner has room
SpreadCheck(t) ==
    LET r == req[t]
        owner == Uploader[r.on]
        counts == /\ r.on \in public /\ owner \notin {r.who, r.via}
                  /\ {r.who, r.via} \subseteq eligible
        room == Earned(ledger, owner) < Cap
    IN  /\ r.step = "spread"
        /\ IF counts /\ (room \/ Earned(ledger, r.via) < Cap)
           THEN Proceed(t, [r EXCEPT !.step = "pay", !.had = room])
           ELSE End(t)
        /\ UNCHANGED <<public, counters, ledger, eligible, crossed, recent, requests, time>>

\* One transaction; after the owner's row the sharer's sum is read inside it
SpreadPay(t) ==
    LET r == req[t]
        ref == <<r.on, r.via, r.who>>
        sharer == Row("spread_share", r.via, ref)
        first == Inserted(ledger, Row("spread_owner", Uploader[r.on], ref))
    IN  /\ r.step = "pay"
        /\ ledger' = IF ~ r.had THEN Inserted(ledger, sharer)
                     ELSE IF Earned(first, r.via) < Cap THEN Inserted(first, sharer) ELSE first
        /\ End(t)
        /\ UNCHANGED <<public, counters, eligible, crossed, recent, requests, time>>

-----------------------------------------------------------------------------
(* Time, restarts, and the administrator                                    *)

Passes == time < MaxTime /\ time' = time + 1

\* Views of the window that ends whose commit is still to come
Counting(c, k) ==
    {t \in Threads : req[t].step = "view" /\ req[t].on = c /\ Viewer(req[t].who) = k}

\* Six hours: what _seen_view holds no longer counts.  Three days: the points
\* of the window are old.
HoursPass(days) ==
    /\ Passes
    /\ viewed' = {}
    /\ recent' = [key \in Contents \X Keys |-> - Cardinality(Counting(key[1], key[2]))]
    /\ ledger' = IF days THEN {[e EXCEPT !.old = TRUE] : e \in ledger} ELSE ledger
    /\ UNCHANGED <<public, likes, likers, views, eligible, req, crossed, requests>>

\* The threads and what is in memory are gone
Restart ==
    /\ Passes
    /\ viewed' = {} /\ recent' = [key \in Contents \X Keys |-> 0]
    /\ req' = [t \in Threads |-> NoRequest]
    /\ UNCHANGED <<public, likes, likers, views, ledger, eligible, crossed, requests>>

\* Moderation, de-duplication and re-ingest change who sees it; _ingest keeps
\* views and likes
Publish(c) ==
    /\ Passes
    /\ public' = IF c \in public THEN public \ {c} ELSE public \cup {c}
    /\ UNCHANGED <<counters, ledger, eligible, req, crossed, recent, requests>>

\* Age verification, a stake, trust, or three days' age
BecomeEligible(a) ==
    /\ Passes /\ a \notin eligible
    /\ eligible' = eligible \cup {a}
    /\ UNCHANGED <<public, counters, ledger, req, crossed, recent, requests>>

Request(t) ==
    \/ \E a \in People, c \in Contents : Like(t, a, c) \/ Comment(t, a, c) \/ ShareVideo(t, a, c)
    \/ \E v \in Watchers, c \in Contents, via \in People \cup {Nobody} : Watch(t, v, c, via)
Handling(t) ==
    \/ LikeWrite(t) \/ WatchCounted(t)
    \/ GrantCheck(t) \/ GrantInsert(t) \/ SpreadCheck(t) \/ SpreadPay(t)
Outside ==
    \/ Restart
    \/ \E days \in BOOLEAN : HoursPass(days)
    \/ \E c \in Contents : Publish(c)
    \/ \E a \in People : BecomeEligible(a)

EngageNext == Outside \/ \E t \in Threads : Request(t) \/ Handling(t)

EngageSpec == EngageInit /\ [][EngageNext]_engaged

-----------------------------------------------------------------------------
\* The counter of likes is the number of rows, through every order of toggles,
\* except where two toggles of one account crossed between the SELECT and the
\* write: both then count the one row.  (For a video whose counter starts at
\* zero, as uploads do; _init_db, play_server.py:372-389, seeds the demo
\* catalogue with counters that no row backs.)
LikesExact ==
    \A c \in Contents \ crossed : likes[c] = Cardinality({a \in People : <<c, a>> \in likers})

\* record_watch: "同一視聴者×作品は窓内1回のみ計上": until the window ends or the
\* server restarts, a video counts one view for each signed viewer and one for
\* the address, whatever its viewers call themselves.
ViewsOncePerViewer == \A key \in Contents \X Keys : recent[key] <= 1

=============================================================================
