----------------------------- MODULE MediaFiles -----------------------------
(***************************************************************************)
(* The two commands of morm-core that leave a directory of files behind    *)
(* for others to trust: `hls-encode` (hls_encoder.py), whose manifest and  *)
(* playlists name each segment with its hash, and `evidence` (evidence.py, *)
(* cli.py cmd_evidence), whose proof hash goes to the chain.  Both run     *)
(* ffmpeg into a directory that may hold what an earlier run left, and may *)
(* be cut short at every step.  One command of each is run at a time.      *)
(***************************************************************************)
EXTENDS Integers, Sequences, FiniteSets, SequencesExt

CONSTANTS
    Sources,        \* video files
    Segments,       \* how many segments each has
    GivenIds,       \* what --content-id may say
    Rungs,          \* the ladder: 1, 2, ...
    Recordings,     \* raw evidence videos
    Pieces,         \* how many cells each has
    Places,         \* <out>/<role>-<stem>, which the orders share
    Orders,
    Unknown,
    MaxHlsRuns, MaxEvidenceRuns, MaxTip     \* bounds

ASSUME MediaAssumption ==
    /\ Segments \in [Sources -> Nat \ {0}] /\ Pieces \in [Recordings -> Nat \ {0}]
    /\ Sources \cap GivenIds = {} /\ \E top \in Rungs : top \in Nat /\ Rungs = 1..top
    /\ {MaxHlsRuns, MaxEvidenceRuns, MaxTip} \subseteq Nat
    \* A name with a hash is not one without
    /\ \A s \in Sources, r \in Rungs : \A n \in 1..Segments[s] : <<Unknown, <<s, r, n>>>> # Unknown

VARIABLES
    files,      \* files[id][r]: segments as [n, tag, data]; the tag is the hash in the name
    playlist,   \* playlist[id][r]: index.m3u8
    listing,    \* listing[id]: manifest.json
    packing,    \* the running hls-encode
    cut,        \* ghost: whether a run in the directory of an id was cut short:
                \* "never", "before" the last one, or the "last" one was
    cells,      \* cells[p]: the cell files in order, each of a recording and a watermark
    meta,       \* meta[p]: evidence.json
    wrapping,   \* the running `evidence`
    stale,      \* ghost: the places whose last run was cut short
    tip, hlsRuns, evidenceRuns      \* the chain's head; counted against bounds

hls == <<files, playlist, listing, packing, cut, hlsRuns>>
evidence == <<cells, meta, wrapping, stale, tip, evidenceRuns>>

MediaIds == Sources \cup GivenIds
Idle == [step |-> "idle"]

MediaInit ==
    /\ files = [i \in MediaIds |-> [r \in Rungs |-> {}]]
    /\ playlist = [i \in MediaIds |-> [r \in Rungs |-> <<>>]]
    /\ listing = [i \in MediaIds |-> Unknown] /\ packing = Idle
    /\ cut = [i \in MediaIds |-> "never"] /\ hlsRuns = 0
    /\ cells = [p \in Places |-> <<>>] /\ meta = [p \in Places |-> Unknown]
    /\ wrapping = Idle /\ stale = {} /\ tip = 0 /\ evidenceRuns = 0

-----------------------------------------------------------------------------
(* encode_hls                                                               *)

\* The directory is named after the hash of the source, or as the caller says
EncodeHls(src, id) ==
    /\ packing = Idle /\ id \in {src} \cup GivenIds
    /\ hlsRuns < MaxHlsRuns /\ hlsRuns' = hlsRuns + 1
    /\ packing' = [step |-> "ffmpeg", id |-> id, src |-> src]
    /\ UNCHANGED <<files, playlist, listing, cut, evidence>>

\* The first k segments of a rung, overwriting what has the same name
Written(i, src, r, k) ==
    {f \in files[i][r] : f.tag # Unknown \/ f.n > k}
        \cup {[n |-> n, tag |-> Unknown, data |-> <<src, r, n>>] : n \in 1..k}
Plain(n) == [n |-> n, tag |-> Unknown]

\* _build_ffmpeg_cmd: all rungs in one pass, the vod playlists at its end
Ffmpeg ==
    LET i == packing.id
        n == Segments[packing.src]
    IN  /\ packing.step = "ffmpeg"
        /\ files' = [files EXCEPT ![i] = [r \in Rungs |-> Written(i, packing.src, r, n)]]
        /\ playlist' = [playlist EXCEPT ![i] = [r \in Rungs |-> [k \in 1..n |-> Plain(k)]]]
        /\ packing' = [step |-> "glob", id |-> i, rung |-> 1, listed |-> [r \in Rungs |-> <<>>]]
        /\ UNCHANGED <<listing, cut, hlsRuns, evidence>>

\* Deviation: the segments that have their hash already are renamed again
AnySegment(f) == f.data # Unknown

\* "skip already-renamed segments"
Unrenamed(f) == f.tag = Unknown

\* _rewrite_segments_with_vhash: the glob and the text are read first
Glob ==
    LET i == packing.id
        r == packing.rung
    IN  /\ packing.step = "glob"
        /\ packing' = [step |-> "rename", id |-> i, rung |-> r, listed |-> packing.listed,
                       todo |-> {f \in files[i][r] : Unrenamed(f)}, text |-> playlist[i][r]]
        /\ UNCHANGED <<files, playlist, listing, cut, hlsRuns, evidence>>

Tagged(f) == [f EXCEPT !.tag = <<f.tag, f.data>>]
NameOf(f) == [n |-> f.n, tag |-> f.tag]

\* In the order of the names, which is that of the numbers
Rename(f) ==
    LET i == packing.id
        r == packing.rung
        t == Tagged(f)
    IN  /\ \A g \in packing.todo : f.n <= g.n
        /\ files' = [files EXCEPT ![i][r] = {g \in @ : g # f /\ NameOf(g) # NameOf(t)} \cup {t}]
        /\ packing' = [packing EXCEPT
             !.todo = @ \ {f}, !.listed[r] = Append(@, t),
             !.text = [k \in DOMAIN @ |-> IF @[k] = NameOf(f) THEN NameOf(t) ELSE @[k]]]
        /\ UNCHANGED <<playlist, listing, cut, hlsRuns, evidence>>

PatchPlaylist ==
    LET i == packing.id
        r == packing.rung
    IN  /\ packing.step = "rename" /\ packing.todo = {}
        /\ playlist' = [playlist EXCEPT ![i][r] = packing.text]
        /\ packing' = IF r + 1 \in Rungs
                      THEN [step |-> "glob", id |-> i, rung |-> r + 1, listed |-> packing.listed]
                      ELSE [step |-> "manifest", id |-> i, listed |-> packing.listed]
        /\ UNCHANGED <<files, listing, cut, hlsRuns, evidence>>

WriteListing ==
    /\ packing.step = "manifest"
    /\ listing' = [listing EXCEPT ![packing.id] = packing.listed]
    /\ packing' = Idle
    /\ cut' = [cut EXCEPT ![packing.id] = IF @ = "last" THEN "before" ELSE @]
    /\ UNCHANGED <<files, playlist, hlsRuns, evidence>>

\* The process or its ffmpeg is killed, in the middle of a file or between two
HlsCut ==
    /\ packing # Idle /\ packing' = Idle
    /\ cut' = [cut EXCEPT ![packing.id] = "last"]
    /\ \/ UNCHANGED files
       \/ /\ packing.step = "ffmpeg"
          /\ \E k \in 1..Segments[packing.src] :
               files' = [files EXCEPT ![packing.id] =
                           [r \in Rungs |-> Written(packing.id, packing.src, r, k)]]
    /\ UNCHANGED <<playlist, listing, hlsRuns, evidence>>

-----------------------------------------------------------------------------
(* cmd_evidence                                                             *)

NewBlock == tip < MaxTip /\ tip' = tip + 1
            /\ UNCHANGED <<cells, meta, wrapping, stale, evidenceRuns, hls>>

\* latest_block_hash, unless the caller says which
BindEvidence(p, order, rec) ==
    /\ wrapping = Idle
    /\ evidenceRuns < MaxEvidenceRuns /\ evidenceRuns' = evidenceRuns + 1
    /\ wrapping' = [step |-> "encode", place |-> p, rec |-> rec,
                    mark |-> [order |-> order, block |-> tip]]
    /\ UNCHANGED <<cells, meta, stale, tip, hls>>

\* The first k cells with the watermark burned in; those of a longer recording stay
Burned(k) ==
    LET old == cells[wrapping.place]
    IN  [j \in 1..k |-> [rec |-> wrapping.rec, n |-> j, mark |-> wrapping.mark]]
            \o SubSeq(old, k + 1, Len(old))

\* encode_evidence
EncodeEvidence ==
    /\ wrapping.step = "encode"
    /\ cells' = [cells EXCEPT ![wrapping.place] = Burned(Pieces[wrapping.rec])]
    /\ wrapping' = [wrapping EXCEPT !.step = "hash"]
    /\ UNCHANGED <<meta, stale, tip, evidenceRuns, hls>>

\* evidence_root_hash: the binding and the cells, whichever the glob has found
RootHash(mark, found) == [mark |-> mark, cells |-> found]

\* write_evidence_meta
WriteMeta ==
    LET p == wrapping.place
        mark == wrapping.mark
    IN  /\ wrapping.step = "hash" /\ wrapping' = Idle /\ stale' = stale \ {p}
        /\ meta' = [meta EXCEPT ![p] = [rec |-> wrapping.rec, mark |-> mark,
                                        proof |-> RootHash(mark, cells[p])]]
        /\ UNCHANGED <<cells, tip, evidenceRuns, hls>>

EvidenceCut ==
    /\ wrapping # Idle /\ wrapping' = Idle /\ stale' = stale \cup {wrapping.place}
    /\ \/ UNCHANGED cells
       \/ /\ wrapping.step = "encode"
          /\ \E k \in 1..Pieces[wrapping.rec] :
               cells' = [cells EXCEPT ![wrapping.place] = Burned(k)]
    /\ UNCHANGED <<meta, tip, evidenceRuns, hls>>

HlsNext ==
    \/ \E src \in Sources, id \in MediaIds : EncodeHls(src, id)
    \/ Ffmpeg \/ Glob \/ PatchPlaylist \/ WriteListing \/ HlsCut
    \/ packing.step = "rename" /\ \E f \in packing.todo : Rename(f)
EvidenceNext ==
    \/ NewBlock
    \/ \E p \in Places, o \in Orders, rec \in Recordings : BindEvidence(p, o, rec)
    \/ EncodeEvidence \/ WriteMeta \/ EvidenceCut
MediaNext == HlsNext \/ EvidenceNext

MediaSpec == MediaInit /\ [][MediaNext]_<<hls, evidence>>

-----------------------------------------------------------------------------
\* No run is under way in the directory, and the last one came to its end; where
\* --content-id sends several sources, so did all before
Ended(i) ==
    /\ packing = Idle \/ packing.id # i
    /\ cut[i] = "never" \/ (cut[i] = "before" /\ i \in Sources)

\* "skip already-renamed segments (idempotence)" (hls_encoder.py:161): whatever
\* runs were cut short before, every segment a manifest lists is in its place; and
\* when a run has ended, its playlists are what its manifest lists, in order,
\* unless --content-id sent it where another run was cut short.
HlsWhole ==
    \A i \in MediaIds : listing[i] # Unknown =>
        /\ \A r \in Rungs : ToSet(listing[i][r]) \subseteq files[i][r]
        /\ Ended(i) =>
             \A r \in Rungs :
                 playlist[i][r] = [k \in DOMAIN listing[i][r] |-> NameOf(listing[i][r][k])]

\* "binds the recording to (a) a specific order, (b) a real chain moment"
\* (evidence.py:10-12): where the last run was not cut short, the cells that were
\* hashed begin with the whole recording, watermarked with the order and the block
\* that evidence.json names, and hash to its proof still.
EvidenceBound ==
    \A p \in Places :
        meta[p] # Unknown /\ p \notin stale /\ (wrapping = Idle \/ wrapping.place # p) =>
            LET m == meta[p]
            IN  /\ m.proof = RootHash(m.mark, cells[p])
                /\ Len(cells[p]) >= Pieces[m.rec]
                /\ \A j \in 1..Pieces[m.rec] :
                     cells[p][j] = [rec |-> m.rec, n |-> j, mark |-> m.mark]

OutputsWhole == HlsWhole /\ EvidenceBound

=============================================================================
