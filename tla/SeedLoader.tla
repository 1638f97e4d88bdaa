----------------------------- MODULE SeedLoader -----------------------------
(***************************************************************************)
(* How a starting node finds its peers (morm_l1/seed_loader.py, cli.py     *)
(* cmd_node): from --peers, or else from the seeds.json in its data        *)
(* directory, the one that is shipped, and what the discovery hooks of     *)
(* both answer; and what it tells others then (/bootstrap in rpc.py).      *)
(*                                                                         *)
(* A URL is a host and whether a slash trails.  The loader's steps are     *)
(* apart because each hook is a request that may fail.                     *)
(***************************************************************************)
EXTENDS Integers, Sequences, FiniteSets, SequencesExt

CONSTANTS
    Hosts, Own,     \* Own is what PUBLIC_URL names
    SeedLists,      \* what a document, a hook or --peers may list: sequences of URLs
    Absent          \* no such file, no such hook

ASSUME SeedAssumption ==
    Own \in Hosts /\ \A l \in SeedLists : l \in Seq([host : Hosts, slash : BOOLEAN])

VARIABLES
    start,      \* the arguments, the two documents, and what their hooks serve
    loader,     \* where the loader is
    found,      \* SeedSet.seeds
    node        \* what has become of the process, and its peers

seeding == <<start, loader, found, node>>

Documents == {Absent} \cup [seeds : SeedLists, http : SeedLists \cup {Absent}]

SeedInit ==
    /\ start \in [explicit : {<<>>}, data : Documents, baked : Documents,
                  public : BOOLEAN, discovery : BOOLEAN, quic : BOOLEAN]
              \cup [explicit : SeedLists, data : {Absent}, baked : {Absent},
                    public : BOOLEAN, discovery : {FALSE}, quic : BOOLEAN]
    /\ loader = "explicit" /\ found = <<>> /\ node = [state |-> "starting", peers |-> <<>>]

-----------------------------------------------------------------------------
\* Seed.normalize, and the two rstrip calls
Normalize(url) == [url EXCEPT !.slash = FALSE]

\* Deviation: the normalised URL is stored, and compared with what was given
AddAsGiven(seeds, url, source) ==
    IF \E i \in DOMAIN seeds : seeds[i].url = url THEN seeds
    ELSE Append(seeds, [url |-> Normalize(url), source |-> source])

\* SeedSet.add: the first source that names a peer keeps it
Add(seeds, url, source) ==
    IF \E i \in DOMAIN seeds : seeds[i].url = Normalize(url) THEN seeds
    ELSE Append(seeds, [url |-> Normalize(url), source |-> source])

AddAll(seeds, urls, source) ==
    LET added[i \in 0..Len(urls)] ==
          IF i = 0 THEN seeds ELSE Add(added[i - 1], urls[i], source)
    IN  added[Len(urls)]

\* _seeds_from_doc, _discovery_from_doc
SeedsFromDoc(doc) == IF doc = Absent THEN <<>> ELSE doc.seeds
HookOf(doc) == IF doc = Absent THEN Absent ELSE doc.http

FilterOurselves(seeds) ==
    LET kept[i \in 0..Len(seeds)] ==
          IF i = 0 THEN <<>>
          ELSE IF seeds[i].url.host = Own THEN kept[i - 1] ELSE Append(kept[i - 1], seeds[i])
    IN  kept[Len(seeds)]

-----------------------------------------------------------------------------
(* load_peer_urls, one source after the other                               *)

Loading(from, to, seeds) ==
    /\ loader = from /\ loader' = to
    /\ found' = seeds
    /\ UNCHANGED <<start, node>>

\* An explicit list is the entire result, this node's own URL included
TakeExplicit ==
    IF start.explicit # <<>> THEN Loading("explicit", "done", AddAll(found, start.explicit, "explicit"))
    ELSE Loading("explicit", "local", found)

TakeLocal == Loading("local", "baked", AddAll(found, SeedsFromDoc(start.data), "local"))

TakeBaked ==
    Loading("baked", IF start.discovery THEN "local hook" ELSE "filter",
            AddAll(found, SeedsFromDoc(start.baked), "baked"))

\* _http_fetch_seeds: whatever goes wrong is an empty list
AskHook(from, to, doc) ==
    \/ HookOf(doc) # Absent /\ Loading(from, to, AddAll(found, HookOf(doc), "discovery"))
    \/ Loading(from, to, found)
AskLocalHook == AskHook("local hook", "baked hook", start.data)
AskBakedHook == AskHook("baked hook", "filter", start.baked)

Filter == Loading("filter", "done", IF start.public THEN FilterOurselves(found) ELSE found)

\* cmd_node: peers without --quic are fatal
StartNode ==
    LET peers == [i \in DOMAIN found |-> found[i].url]
    IN  /\ loader = "done" /\ node.state = "starting"
        /\ node' = IF peers # <<>> /\ ~ start.quic THEN [node EXCEPT !.state = "exited"]
                   ELSE [state |-> "running", peers |-> peers]
        /\ UNCHANGED <<start, loader, found>>

SeedNext ==
    \/ TakeExplicit \/ TakeLocal \/ TakeBaked \/ AskLocalHook \/ AskBakedHook \/ Filter
    \/ StartNode

\* GET /bootstrap: the peers, and this node as it was asked for
Bootstrap == Append(node.peers, [host |-> Own, slash |-> FALSE])

SeedSpec == SeedInit /\ [][SeedNext]_seeding

-----------------------------------------------------------------------------
Rank == [explicit |-> 1, local |-> 2, baked |-> 3, discovery |-> 4]
ListedBy(source) ==
    CASE source = "explicit" -> ToSet(start.explicit)
      [] source = "local" -> ToSet(SeedsFromDoc(start.data))
      [] source = "baked" -> ToSet(SeedsFromDoc(start.baked))
      [] source = "discovery" ->
           UNION {ToSet(HookOf(d)) : d \in {doc \in {start.data, start.baked} : HookOf(doc) # Absent}}
HostsOf(urls) == {u.host : u \in urls}

\* "explicit > local > baked > discovery" (seed_loader.py:141), deduplicated and
\* without the node itself (seed_loader.py:18-20): a running node has each peer
\* once, from the first source that lists it, in the order of the sources; no peer
\* of the files is missing; with PUBLIC_URL set and no explicit list it has not
\* itself, and so /bootstrap names every host once.
PeersOrdered ==
    node.state = "running" =>
        /\ \A i, j \in DOMAIN found : i < j =>
             /\ found[i].url.host # found[j].url.host
             /\ Rank[found[i].source] <= Rank[found[j].source]
        /\ \A i \in DOMAIN found :
             /\ found[i].url.host \in HostsOf(ListedBy(found[i].source))
             /\ \A s \in DOMAIN Rank : Rank[s] < Rank[found[i].source] =>
                  found[i].url.host \notin HostsOf(ListedBy(s))
        /\ \A h \in HostsOf(ListedBy("explicit") \cup ListedBy("local") \cup ListedBy("baked")) :
             h = Own \/ \E i \in DOMAIN found : found[i].url.host = h
        /\ start.public /\ start.explicit = <<>> =>
             /\ Own \notin HostsOf(ToSet(node.peers))
             /\ Cardinality(HostsOf(ToSet(Bootstrap))) = Len(Bootstrap)

=============================================================================
