---------------------------- MODULE PlayCatalog ----------------------------
(***************************************************************************)
(* The life of a video in morm-play: an upload is gated and reserved, its  *)
(* media arrive in another request that checks, encodes and binds them,    *)
(* a worker on another machine pulls what is pending and posts a verdict,  *)
(* the administrator decides the rest, and the public sees what is left    *)
(* (play_server.py, mod_worker.py, moderation.py).                         *)
(*                                                                         *)
(* Every request has a thread of its own and its own SQLite connections,   *)
(* and holds no lock: a step is one statement or one commit, and the       *)
(* encoder, which may take two minutes, lies between two of them.  Ids are *)
(* numbered in the order of created_at.  A file stands for the uploaded    *)
(* bytes, their sha256 and the play_cid the encoder names after them; the  *)
(* upload_token is present exactly while a row is "reserved".              *)
(***************************************************************************)
EXTENDS Integers, FiniteSets, FiniteSetsExt

Text == [cat : {"plain", "news", "adult"}, rating : {"sfw", "r18"}, harm : BOOLEAN, spam : BOOLEAN]

CONSTANTS
    Users, Agents,  \* Agents: accounts with is_agent = 1
    Titles, Files,
    Media,          \* what a file shows and how long: [adult, harm, length]
    Texts,          \* what the text model may answer
    Nothing,
    Threads,        \* request threads that upload
    Workers,        \* moderation workers
    Tiers, FirstTier,   \* the effective_tier values that occur, and at first
    PostsDay,       \* GATE[tier]["posts_day"]
    MaxContents,    \* bound on ids
    MaxUploads,     \* bound on media requests
    MaxChanges      \* bound on what the administrator and crashes change

Unseen == [adult |-> FALSE, harm |-> FALSE]   \* no frames: as frames that show nothing

ASSUME CatalogAssumption ==
    /\ Texts \subseteq Text
    /\ Agents \subseteq Users
    /\ Nothing \notin Users \cup Files \cup Titles
    /\ Media \in [Files -> [adult : BOOLEAN, harm : BOOLEAN, length : {"short", "fine", "long"}]]
    /\ Tiers \subseteq 0 .. 3 /\ PostsDay \in [Tiers -> Nat]
    /\ FirstTier \in [Users -> Tiers]

VARIABLES
    content,    \* the content table
    tier, strikes,  \* accounts: effective_tier, strikes
    upload,     \* what each request thread is doing
    worker,     \* what each worker has pulled
    judged,     \* ghost: <<id, file>> a worker let pass, or an administrator ingested
    contested,  \* ghost: ids that two requests have uploaded to, or judged, at once
    loose,      \* ghost: files whose uploads overlapped, or whose hash was never stored
    uploads, changes    \* counted against MaxUploads, MaxChanges

ghosts == <<judged, contested, loose>>
accounts == <<tier, strikes>>
counts == <<uploads, changes>>
vars == <<content, accounts, upload, worker, ghosts, counts>>

Ids == 1 .. MaxContents
NoRow == [status |-> "none", by |-> Nothing, title |-> Nothing, file |-> Nothing,
          sha |-> Nothing, rating |-> "sfw", remixOf |-> 0, cover |-> FALSE]
NoUpload == [step |-> "idle", by |-> Nothing, id |-> 0, file |-> Nothing]
NoPull == [id |-> 0, file |-> Nothing, tier |-> 0, seen |-> FALSE]

Init ==
    /\ content = [i \in Ids |-> NoRow]
    /\ tier = FirstTier /\ strikes = [u \in Users |-> 0]
    /\ upload = [t \in Threads |-> NoUpload]
    /\ worker = [w \in Workers |-> NoPull]
    /\ judged = {} /\ contested = {} /\ loose = {}
    /\ uploads = 0 /\ changes = 0

Rows(S) == {i \in Ids : content[i].status \in S}
Put(i, row) == content' = [content EXCEPT ![i] = row]
Goto(t, step) == upload' = [upload EXCEPT ![t].step = step]
End(t) == upload' = [upload EXCEPT ![t] = NoUpload]

-----------------------------------------------------------------------------
(* moderation.py.  The text model may answer anything, the frames may not   *)
(* be had; `tier` is the one the worker was told when it pulled.            *)

JudgeText(x, tr) ==
    [status |-> IF x.harm THEN "rejected"
                ELSE IF ~ x.spam /\ tr >= 2 THEN "approved" ELSE "pending_review",
     rating |-> CASE x.cat = "adult" -> "r18" [] x.cat = "news" -> "sfw" [] OTHER -> x.rating]

Moderate(x, f, tr) ==
    LET v == JudgeText(x, tr)
    IN  [status |-> IF f.harm THEN "rejected" ELSE v.status,
         rating |-> IF f.adult THEN "r18" ELSE v.rating]

Seen(f) == [adult |-> Media[f].adult, harm |-> Media[f].harm]
Verdicts(f, tr) == {Moderate(x, fr, tr) : x \in Texts, fr \in {Unseen, Seen(f)}}
AllVerdicts == [status : {"approved", "pending_review", "rejected"}, rating : {"sfw", "r18"}]

-----------------------------------------------------------------------------
(* /api/upload/init: the gate, then create_reservation                      *)

Visible == {"approved", "pending", "pending_review"}

PostsToday(u) == Cardinality({j \in Ids : content[j].by = u /\ content[j].status # "rejected"})

\* gate_check_upload, without its checks of the links and of the duration, which
\* is the client's word and may be anything; no account is ever banned
GateOpen(u) == PostsToday(u) < PostsDay[tier[u]]

\* account_is_agent: base videos are for agents, remixes for humans
RoleAllows(u, from) == (from = 0) <=> u \in Agents

\* A title is taken while it is public or under review; reserved rows do not
\* count.  The lineage is kept only when the original is public.
UploadInit(u, title, from) ==
    LET i == Min(Rows({"none"}))
    IN  /\ Rows({"none"}) # {}
        /\ RoleAllows(u, from) /\ GateOpen(u)
        /\ ~ \E j \in Rows(Visible) : content[j].by = u /\ content[j].title = title
        /\ Put(i, [NoRow EXCEPT !.status = "reserved", !.by = u, !.title = title,
                     !.remixOf = IF from \in Rows({"approved"}) THEN from ELSE 0])
        /\ UNCHANGED <<accounts, upload, worker, ghosts, counts>>

-----------------------------------------------------------------------------
(* /api/upload/<id>/media                                                   *)

Busy == {t \in Threads : upload[t].step # "idle"}

\* The reservation is looked at, then the body is read
UploadMedia(t, i, f) ==
    LET rivals == {s \in Busy : upload[s].id = i}
        others == {s \in Busy : upload[s].file = f}
    IN  /\ upload[t].step = "idle"
        /\ content[i].status = "reserved"
        /\ uploads < MaxUploads /\ uploads' = uploads + 1
        /\ upload' = [upload EXCEPT ![t] =
             [NoUpload EXCEPT !.step = "check", !.id = i, !.file = f, !.by = content[i].by]]
        /\ contested' = IF rivals = {} THEN contested ELSE contested \cup {i}
        /\ loose' = loose \cup (IF others = {} THEN {} ELSE {f})
                          \cup (IF rivals = {} THEN {} ELSE {f} \cup {upload[s].file : s \in rivals})
        /\ UNCHANGED <<content, accounts, worker, judged, changes>>

\* _reject_reserved looks at no status
Reject(t) ==
    LET i == upload[t].id
    IN  Put(i, [content[i] EXCEPT !.status = "rejected"]) /\ End(t)

\* Deviation: the hash is not looked up
UploadUnchecked(t) ==
    /\ upload[t].step = "check"
    /\ Goto(t, "encode")
    /\ UNCHANGED <<content, accounts, worker, ghosts, counts>>

UploadCheck(t) ==
    LET r == upload[t]
        same == {i \in Ids \ {r.id} : /\ content[i].sha = r.file
                                      /\ content[i].status \notin {"rejected", "removed", "reserved"}}
    IN  /\ r.step = "check"
        /\ IF same # {} THEN Reject(t) ELSE Goto(t, "encode") /\ UNCHANGED content
        /\ UNCHANGED <<accounts, worker, ghosts, counts>>

\* What the playlists of the encoded video say it lasts, or nothing: a probe that
\* fails lets any length pass
ProbeEncoded(f) == {Media[f].length, "unknown"}

\* gateway_encode, whose error ends the request and leaves the reservation, and
\* the length against the tier, which is read afresh
UploadEncode(t) ==
    LET r == upload[t]
    IN  /\ r.step = "encode"
        /\ \/ End(t) /\ UNCHANGED content
           \/ \E duration \in ProbeEncoded(r.file) :
                IF duration = "short" \/ (duration = "long" /\ tier[r.by] < 2) THEN Reject(t)
                ELSE Goto(t, "bind") /\ UNCHANGED content
        /\ UNCHANGED <<accounts, worker, ghosts, counts>>

\* finalize_reservation: the SELECT ...
UploadBind(t) ==
    /\ upload[t].step = "bind"
    /\ IF content[upload[t].id].status = "reserved" THEN Goto(t, "write") ELSE End(t)
    /\ UNCHANGED <<content, accounts, worker, ghosts, counts>>

\* Deviation: trusted uploaders skip the queue
UploadWriteTrusted(t) ==
    LET r == upload[t]
        u == r.by
    IN  /\ r.step = "write"
        /\ Put(r.id, [content[r.id] EXCEPT !.file = r.file,
                        !.status = IF tier[u] >= 2 THEN "approved" ELSE "pending"])
        /\ Goto(t, "hash")
        /\ UNCHANGED <<accounts, worker, judged, contested, loose, counts>>

\* ... and its UPDATE, whatever the status is by now
UploadWrite(t) ==
    LET r == upload[t]
        u == r.by
    IN  /\ r.step = "write"
        /\ Put(r.id, [content[r.id] EXCEPT !.file = r.file, !.status = "pending"])
        /\ Goto(t, "hash")
        /\ UNCHANGED <<accounts, worker, judged, contested, loose, counts>>

UploadHash(t) ==
    LET r == upload[t]
    IN  /\ r.step = "hash"
        /\ Put(r.id, [content[r.id] EXCEPT !.sha = r.file])
        /\ End(t)
        /\ UNCHANGED <<accounts, worker, ghosts, counts>>

-----------------------------------------------------------------------------
(* The worker: /api/mod/pull, moderate, /api/mod/verdict                    *)

TierOf(u) == IF u \in Users THEN tier[u] ELSE 0

\* pull_pending(1): the oldest
WorkerPull(w) ==
    LET i == Min(Rows({"pending"}))
    IN  /\ worker[w].id = 0 /\ Rows({"pending"}) # {}
        /\ worker' = [worker EXCEPT ![w] =
             [NoPull EXCEPT !.id = i, !.file = content[i].file, !.tier = TierOf(content[i].by)]]
        /\ UNCHANGED <<content, accounts, upload, ghosts, counts>>

\* apply_verdict: the SELECT; a row that is no longer pending is left alone ...
Verdict(w) ==
    LET i == worker[w].id
        rivals == {x \in Workers \ {w} : worker[x].seen /\ worker[x].id = i}
    IN  /\ i # 0 /\ ~ worker[w].seen
        /\ worker' = [worker EXCEPT ![w] =
             IF content[i].status = "pending" THEN [@ EXCEPT !.seen = TRUE] ELSE NoPull]
        /\ contested' = IF rivals = {} \/ content[i].status # "pending" THEN contested
                        ELSE contested \cup {i}
        /\ UNCHANGED <<content, accounts, upload, judged, loose, counts>>

\* ... and its UPDATE
VerdictWrite(w, v) ==
    LET p == worker[w]
    IN  /\ p.seen /\ v \in Verdicts(p.file, p.tier)
        /\ Put(p.id, [content[p.id] EXCEPT !.status = v.status, !.rating = v.rating])
        /\ strikes' = [u \in Users |-> strikes[u] +
             IF u = content[p.id].by /\ v.status = "rejected" THEN 1 ELSE 0]
        /\ judged' = IF v.status = "rejected" THEN judged ELSE judged \cup {<<p.id, p.file>>}
        /\ worker' = [worker EXCEPT ![w] = NoPull]
        /\ UNCHANGED <<tier, upload, contested, loose, counts>>

\* The POST failed, or the worker was restarted: the row is pulled again
WorkerLoses(w) ==
    /\ worker[w].id # 0 /\ ~ worker[w].seen
    /\ worker' = [worker EXCEPT ![w] = NoPull]
    /\ UNCHANGED <<content, accounts, upload, ghosts, counts>>

-----------------------------------------------------------------------------
(* The administrator                                                        *)

\* /api/admin/moderation/queue lists what the worker has not judged, too
ModerationQueue == Rows({"pending_review", "pending"})

\* /api/admin/moderation/decide, for which only the worker's doubts count
Decide(i, status) ==
    /\ i \in ModerationQueue /\ content[i].status = "pending_review"
    /\ Put(i, [content[i] EXCEPT !.status = status])
    /\ UNCHANGED <<accounts, upload, worker, ghosts, counts>>

Changed == changes < MaxChanges /\ changes' = changes + 1

\* _ingest: INSERT OR REPLACE, so every column it does not name is as new
Ingest(i, f) ==
    /\ Changed
    /\ i \in Rows({"none"}) => i = Min(Rows({"none"}))
    /\ Put(i, [NoRow EXCEPT !.status = "approved", !.file = f])
    /\ judged' = judged \cup {<<i, f>>} /\ loose' = loose \cup ({f, content[i].file} \ {Nothing})
    /\ UNCHANGED <<accounts, upload, worker, contested, uploads>>

\* /api/admin/dedup keeps one row per play_cid, one with a cover first
Best(f) ==
    LET same == {i \in Rows({"approved"}) : content[i].file = f}
        covered == {i \in same : content[i].cover}
    IN  IF covered = {} THEN same ELSE covered
Dedup(keep) ==
    LET public == {content[i].file : i \in Rows({"approved"})}
    IN  /\ Changed
        /\ \A f \in public : keep[f] \in Best(f)
        /\ content' = [i \in Ids |->
             IF content[i].status = "approved" /\ keep[content[i].file] # i
             THEN [content[i] EXCEPT !.status = "removed"] ELSE content[i]]
        /\ UNCHANGED <<accounts, upload, worker, ghosts, uploads>>

\* /api/admin/recaption
Recaption(i, title, rating) ==
    /\ Changed /\ content[i].status # "none"
    /\ Put(i, [content[i] EXCEPT !.title = title, !.rating = rating])
    /\ UNCHANGED <<accounts, upload, worker, ghosts, uploads>>

\* /api/cover, by the administrator or the uploader: set_cover, clear_cover
SetCover(i, on) ==
    /\ Changed /\ content[i].status # "none" /\ content[i].cover # on
    /\ Put(i, [content[i] EXCEPT !.cover = on])
    /\ UNCHANGED <<accounts, upload, worker, ghosts, uploads>>

\* /api/admin/set-stake
SetStake(u, tr) ==
    /\ Changed /\ tier[u] # tr
    /\ tier' = [tier EXCEPT ![u] = tr]
    /\ UNCHANGED <<content, strikes, upload, worker, ghosts, uploads>>

\* The server dies: its threads are gone, reservations stay
Crash ==
    /\ Changed
    /\ upload' = [t \in Threads |-> NoUpload]
    /\ loose' = loose \cup {upload[t].file : t \in {s \in Threads : upload[s].step = "hash"}}
    /\ UNCHANGED <<content, accounts, worker, judged, contested, uploads>>

-----------------------------------------------------------------------------
Uploading(t) ==
    \/ UploadCheck(t) \/ UploadEncode(t)
    \/ UploadBind(t) \/ UploadWrite(t) \/ UploadHash(t)
    \/ \E i \in Ids, f \in Files : UploadMedia(t, i, f)
Judging(w) ==
    WorkerPull(w) \/ WorkerLoses(w) \/ Verdict(w) \/ \E v \in AllVerdicts : VerdictWrite(w, v)
Admin ==
    \/ \E i \in Ids, s \in {"approved", "rejected"} : Decide(i, s)
    \/ \E i \in Ids, f \in Files : Ingest(i, f)
    \/ \E keep \in [Files -> Ids] : Dedup(keep)
    \/ \E i \in Ids, title \in Titles, r \in {"sfw", "r18"} : Recaption(i, title, r)
    \/ \E i \in Ids, on \in BOOLEAN : SetCover(i, on)
    \/ \E u \in Users, tr \in Tiers : SetStake(u, tr)

Next == Crash \/ Admin
          \/ (\E u \in Users, title \in Titles, from \in {0} \cup Ids : UploadInit(u, title, from))
          \/ (\E t \in Threads : Uploading(t)) \/ \E w \in Workers : Judging(w)

Spec == Init /\ [][Next]_vars

-----------------------------------------------------------------------------
(* What the public gets                                                     *)

\* feed: R18 in its own zone (of equal titles it shows the first)
Eligible(zone) == {i \in Rows({"approved"}) : (content[i].rating = "r18") = (zone = "adult")}

\* "shadow" is never set
ResolvePlayCid(i) == IF content[i].status = "approved" THEN content[i].file ELSE Nothing
PlayCidAny(i) == content[i].file

\* _proxy: the administrator's preview comes second
Streamed(i, admin) ==
    IF ResolvePlayCid(i) = Nothing /\ admin THEN PlayCidAny(i) ELSE ResolvePlayCid(i)

\* GET /api/content/<id>
Described(i) == content[i].status = "approved"

\* Nothing reaches the public that was not let through for these very bytes: no
\* late verdict, re-upload or ingest puts other media behind an approval.  (Two
\* requests that upload to one reservation at once can: finalize_reservation
\* reads the status and writes it in two statements.)
PublicWasJudged ==
    \A i \in Ids \ contested :
        Streamed(i, FALSE) # Nothing \/ Described(i) \/ (\E zone \in {"sfw", "adult"} : i \in Eligible(zone))
            => <<i, content[i].file>> \in judged

\* "二本目を公開しない" (play_server.py:3314): the same bytes are not published
\* twice, unless their uploads overlapped or the server died before it stored
\* the hash (it is looked up minutes before it is written), or a second verdict
\* on the row revived it after a copy had been let in.
NoSecondCopy ==
    \A i, j \in Rows({"approved"}) \ contested :
        i # j /\ content[i].file = content[j].file => content[i].file \in loose

=============================================================================
