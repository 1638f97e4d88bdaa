----------------------------- MODULE PlayStream -----------------------------
(***************************************************************************)
(* How morm-play streams a video: the proxy looks the row up, checks the   *)
(* viewer's age for R18, and fetches from the home edges that the last     *)
(* round of health probes found alive, one after the other, and then from  *)
(* the public origin (play_server.py).                                     *)
(*                                                                         *)
(* A request has a thread; between its two reads of the row, and between   *)
(* two fetches (each may take twelve seconds), moderation, the probes and  *)
(* the edges go on.  Hosts come up and go down whenever they like.         *)
(***************************************************************************)
EXTENDS Integers, FiniteSets

CONSTANTS
    Edges,          \* EDGES
    Origin,         \* ORIGIN_FALLBACK
    Works,          \* rows of the catalogue
    Viewers,        \* browsers, each with the account of its device
    Streams,        \* request threads
    Nowhere,
    MaxRequests, MaxTurns   \* bounds: requests; what hosts, rows and cookies do

Hosts == Edges \cup {Origin}
ASSUME StreamAssumption == Origin \notin Edges /\ Nowhere \notin Hosts \cup Works \cup Viewers

VARIABLES
    up,         \* hosts that answer
    healthy,    \* _state["healthy"]
    probing,    \* the round of probes: [left, alive]
    work,       \* status and rating of each row
    ofAge,      \* accounts with age_verified = 1
    cookie,     \* viewers whose morm_age cookie checks out
    stream,     \* what each request is doing
    adult,      \* ghost: viewers who have proven their age at some time
    shown,      \* ghost: <<viewer, work>> streamed while rated R18 throughout
    lost,       \* ghost: requests answered 502 although the origin was up
    served, turns   \* counted against MaxRequests, MaxTurns

streaming == <<up, healthy, probing, work, ofAge, cookie, stream, adult, shown, lost, served, turns>>
people == <<ofAge, cookie, adult>>

NoStream == [step |-> "idle", viewer |-> Nowhere, work |-> Nowhere, order |-> {}, r18 |-> FALSE]

StreamInit ==
    /\ up = Hosts /\ healthy = Edges /\ probing = [left |-> Edges, alive |-> {}]
    /\ work = [w \in Works |-> [status |-> "pending", r18 |-> FALSE]]
    /\ ofAge = {} /\ cookie = {} /\ adult = {}
    /\ stream = [t \in Streams |-> NoStream]
    /\ shown = {} /\ lost = 0 /\ served = 0 /\ turns = 0

-----------------------------------------------------------------------------
(* _health_loop                                                             *)

\* _probe_one, the edges in turn
Probe(h) ==
    /\ h \in probing.left
    /\ probing' = [left |-> probing.left \ {h},
                   alive |-> probing.alive \cup ({h} \cap up)]
    /\ UNCHANGED <<up, healthy, work, people, stream, shown, lost, served, turns>>

\* The round as it was measured, the empty one too
Publish ==
    /\ probing.left = {} /\ healthy' = probing.alive
    /\ probing' = [left |-> Edges, alive |-> {}]
    /\ UNCHANGED <<up, work, people, stream, shown, lost, served, turns>>

-----------------------------------------------------------------------------
(* _proxy                                                                   *)

Step(t, r) == stream' = [stream EXCEPT ![t] = r]
Finish(t) == Step(t, NoStream)

\* Deviation: any cookie of ours will do, whoever's age it is about
RateAnyCookie(t, v, w, admin) ==
    /\ stream[t] = NoStream /\ served < MaxRequests /\ served' = served + 1
    /\ IF work[w].r18 /\ ~ admin /\ v \notin cookie /\ cookie = {} THEN UNCHANGED stream
       ELSE Step(t, [NoStream EXCEPT !.step = IF admin THEN "preview" ELSE "resolve",
                                     !.viewer = v, !.work = w, !.r18 = work[w].r18])
    /\ UNCHANGED <<up, healthy, probing, work, people, shown, lost, turns>>

\* content_rating, and the gate: R18 needs the cookie, or the admin's token
Rate(t, v, w, admin) ==
    /\ stream[t] = NoStream /\ served < MaxRequests /\ served' = served + 1
    /\ IF work[w].r18 /\ ~ admin /\ v \notin cookie THEN UNCHANGED stream
       ELSE Step(t, [NoStream EXCEPT !.step = IF admin THEN "preview" ELSE "resolve",
                                     !.viewer = v, !.work = w, !.r18 = work[w].r18])
    /\ UNCHANGED <<up, healthy, probing, work, people, shown, lost, turns>>

\* resolve_play_cid, a second read of the row; play_cid_any for the admin's
\* preview.  _edge_fetch copies the healthy edges as they are now.
Resolve(t) ==
    LET r == stream[t]
    IN  /\ r.step \in {"resolve", "preview"}
        /\ IF work[r.work].status = "approved" \/ r.step = "preview"
           THEN Step(t, [r EXCEPT !.step = IF r.step = "preview" THEN "audit" ELSE "fetch",
                                  !.order = healthy])
           ELSE Finish(t)
        /\ UNCHANGED <<up, healthy, probing, work, people, shown, lost, served, turns>>

\* The edges of the copy in any order, the origin after the last
NextHosts(r) == IF r.order = {} THEN {Origin} ELSE r.order
Fetching(t) == stream[t].step \in {"fetch", "audit"}

Answered(t, h) ==
    LET r == stream[t]
    IN  /\ Fetching(t) /\ h \in NextHosts(r) /\ h \in up
        /\ Finish(t)
        /\ shown' = IF r.step = "fetch" /\ r.r18 THEN shown \cup {<<r.viewer, r.work>>} ELSE shown
        /\ UNCHANGED <<up, healthy, probing, work, people, lost, served, turns>>

\* Deviation: the answer of the first edge stands, whatever it is
FetchFailsAtOnce(t, h) ==
    LET r == stream[t]
    IN  /\ Fetching(t) /\ h \in NextHosts(r) /\ h \notin up
        /\ Finish(t) /\ lost' = lost + IF Origin \in up THEN 1 ELSE 0
        /\ UNCHANGED <<up, healthy, probing, work, people, shown, served, turns>>

\* An error, a refusal or a timeout: the next host; after the origin a 502
FetchFails(t, h) ==
    LET r == stream[t]
    IN  /\ Fetching(t) /\ h \in NextHosts(r) /\ h \notin up
        /\ IF r.order = {} THEN Finish(t) ELSE Step(t, [r EXCEPT !.order = @ \ {h}])
        /\ lost' = lost + IF r.order = {} /\ Origin \in up THEN 1 ELSE 0
        /\ UNCHANGED <<up, healthy, probing, work, people, shown, served, turns>>

-----------------------------------------------------------------------------
(* What happens meanwhile                                                   *)

Turn == turns < MaxTurns /\ turns' = turns + 1

HostTurns(h) ==
    /\ Turn /\ up' = IF h \in up THEN up \ {h} ELSE up \cup {h}
    /\ UNCHANGED <<healthy, probing, work, people, stream, shown, lost, served>>

\* A verdict, a decision or a recaption
Moderated(w, status, r18) ==
    /\ Turn /\ work[w] # [status |-> status, r18 |-> r18]
    /\ work' = [work EXCEPT ![w] = [status |-> status, r18 |-> r18]]
    /\ stream' = [t \in Streams |-> IF stream[t].work = w
                    THEN [stream[t] EXCEPT !.r18 = @ /\ r18] ELSE stream[t]]
    /\ UNCHANGED <<up, healthy, probing, people, shown, lost, served>>

\* /api/age/verify: set_age_verified, make_age_token
VerifyAge(v) ==
    /\ Turn /\ v \notin cookie
    /\ ofAge' = ofAge \cup {v} /\ cookie' = cookie \cup {v} /\ adult' = adult \cup {v}
    /\ UNCHANGED <<up, healthy, probing, work, stream, shown, lost, served>>

\* check_age_token: AGE_TTL is over, or AGE_SECRET was drawn anew by a restart
\* and no cookie of before checks out (the threads die with the server)
CookieExpires(v) ==
    /\ Turn /\ v \in cookie /\ cookie' = cookie \ {v}
    /\ UNCHANGED <<up, healthy, probing, work, ofAge, adult, stream, shown, lost, served>>
StreamRestart(newSecret) ==
    /\ Turn /\ cookie' = IF newSecret THEN {} ELSE cookie
    /\ healthy' = Edges /\ probing' = [left |-> Edges, alive |-> {}]
    /\ stream' = [t \in Streams |-> NoStream]
    /\ UNCHANGED <<up, work, ofAge, adult, shown, lost, served>>

\* /api/feed?zone=adult opens with the cookie or with the account's flag
AdultZone(v) == v \in cookie \/ v \in ofAge

StreamNext ==
    \/ \E h \in Edges : Probe(h)
    \/ Publish
    \/ \E t \in Streams :
         \/ \E v \in Viewers, w \in Works, admin \in BOOLEAN : Rate(t, v, w, admin)
         \/ Resolve(t)
         \/ \E h \in Hosts : Answered(t, h) \/ FetchFails(t, h)
    \/ \E h \in Hosts : HostTurns(h)
    \/ \E w \in Works, s \in {"approved", "removed"}, r18 \in BOOLEAN : Moderated(w, s, r18)
    \/ \E v \in Viewers : VerifyAge(v) \/ CookieExpires(v)
    \/ \E new \in BOOLEAN : StreamRestart(new)

StreamSpec == StreamInit /\ [][StreamNext]_streaming

-----------------------------------------------------------------------------
\* "edge全滅でも再生は止めない" (play_server.py:135): whatever the probes last
\* measured and however the edges fail during the request, playback fails only
\* when the origin has failed too.
PlaybackSurvives == lost = 0

\* A work that is rated R18 all through a request reaches only viewers who have
\* proven their age, and only they see the R18 zone, across expiry, restarts with
\* a new secret and moderation.  (A work rated R18 between the two reads of the
\* row is streamed once more to the request that read the old rating.)
AdultGated ==
    /\ \A s \in shown : s[1] \in adult
    /\ \A v \in Viewers : AdultZone(v) => v \in adult

=============================================================================
