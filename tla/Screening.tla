------------------------------ MODULE Screening ------------------------------
(***************************************************************************)
(* morm-core: a video file is cut into cells, its manifest is submitted to *)
(* the registry, where the first of two alike submissions wins, and the    *)
(* cells of the rejected ones are swept (cli.py, encoder.py, manifest.py,  *)
(* evidence.py, screening.py).                                             *)
(*                                                                         *)
(* Each command is a process of its own.  `encode` writes the cells of a   *)
(* file into the directory of its stem, then the manifest beside it;       *)
(* `screen` reads the manifest, then decides in one transaction; `db-gc`   *)
(* selects, then deletes one directory after the other.  A cell stands for *)
(* a file and its sha256; a content_id is the cells it hashes.             *)
(***************************************************************************)
EXTENDS Integers, Sequences, FiniteSets, SequencesExt, Functions, VHash

CONSTANTS
    Stems,          \* file names without their suffix
    Clips,          \* what a file may hold when it is encoded: sequences of cells
    VisualDist, AudioDist,  \* VISUAL_DIST_THRESHOLD, AUDIO_DIST_THRESHOLD
    Generations, NoGeneration,
    MotionMin,      \* MOTION_FAKE_THRESHOLD
    Screeners,      \* processes that run `screen`
    Unsaid,
    MaxEncodes, MaxScreens  \* bounds on commands

ASSUME ScreeningAssumption ==
    /\ VisualDist \in Nat /\ AudioDist \in Nat
    /\ Clips \subseteq Seq([frames : Seq(Images), windows : Seq(Seq(Nat)),
                           changes : Seq(Nat), diffs : Seq(Nat)])

VARIABLES
    cellsDir,   \* output/<stem>/cells: the cell files in order
    manifest,   \* output/<stem>/manifest.json
    encoding,   \* stems whose cells are cut and whose manifest is to come
    held,       \* the manifest a screener has read, with its stem
    contents,   \* the contents table, with the rows of cells, in order
    sweep,      \* directories that db-gc has selected and not come to yet
    reused,     \* ghost: stems encoded more than once
    encodes, screens    \* counted against MaxEncodes, MaxScreens

screening == <<cellsDir, manifest, encoding, held, contents, sweep, reused, encodes, screens>>

NoManifest == [cells |-> <<>>, drawn |-> 0, generation |-> Unsaid]
NoHold == [stem |-> Unsaid, manifest |-> NoManifest]

ScreenInit ==
    /\ cellsDir = [s \in Stems |-> <<>>] /\ manifest = [s \in Stems |-> NoManifest]
    /\ encoding = {} /\ held = [p \in Screeners |-> NoHold]
    /\ contents = <<>> /\ sweep = {} /\ reused = {} /\ encodes = 0 /\ screens = 0

-----------------------------------------------------------------------------
(* encode                                                                   *)

\* encode_cells: ffmpeg -y overwrites cell after cell and removes none, so the
\* tail of a longer earlier encode stays
EncodeCells(s, clip) ==
    LET old == cellsDir[s]
    IN  /\ encodes < MaxEncodes /\ encodes' = encodes + 1
        /\ s \notin encoding /\ encoding' = encoding \cup {s}
        /\ cellsDir' = [cellsDir EXCEPT ![s] = clip \o SubSeq(old, Len(clip) + 1, Len(old))]
        /\ reused' = IF manifest[s] = NoManifest THEN reused ELSE reused \cup {s}
        /\ UNCHANGED <<manifest, held, contents, sweep, screens>>

\* build_manifest: whatever cells the directory holds by now; without any the
\* content_id is drawn at random
WriteManifest(s, gen) ==
    /\ s \in encoding /\ encoding' = encoding \ {s}
    /\ manifest' = [manifest EXCEPT ![s] =
         [cells |-> cellsDir[s], drawn |-> IF cellsDir[s] = <<>> THEN encodes ELSE 0,
          generation |-> gen]]
    /\ UNCHANGED <<cellsDir, held, contents, sweep, reused, encodes, screens>>

-----------------------------------------------------------------------------
(* screen                                                                   *)

ReadManifest(p, s) ==
    /\ screens < MaxScreens /\ screens' = screens + 1
    /\ held[p] = NoHold /\ manifest[s] # NoManifest
    /\ held' = [held EXCEPT ![p] = [stem |-> s, manifest |-> manifest[s]]]
    /\ UNCHANGED <<cellsDir, manifest, encoding, contents, sweep, reused, encodes>>

VisualMatch(a, b) ==
    \/ Hamming(a.visual, b.visual) <= VisualDist
    \/ Hamming(a.flipped, b.visual) <= VisualDist
    \/ Hamming(a.visual, b.flipped) <= VisualDist
Silent(audio) == \A i \in DOMAIN audio : audio[i] = 0
CellMatches(a, b) ==
    /\ VisualMatch(a, b)
    /\ Silent(a.audio) \/ Silent(b.audio) \/ Hamming(a.audio, b.audio) <= AudioDist

\* int(n * MATCH_RATIO + 0.5), and one at least
Needed(n) == IF n <= 1 THEN 1 ELSE (n + 1) \div 2
Matched(new, old) ==
    Cardinality({i \in DOMAIN new : \E j \in DOMAIN old : CellMatches(Vhash(new[i]), Vhash(old[j]))})

Accepted == {i \in DOMAIN contents : contents[i].status = "accepted"}
ContentId(m) == [cells |-> m.cells, drawn |-> m.drawn]

\* _find_duplicate: any accepted content that shares enough cells
Duplicates(m) ==
    {i \in Accepted : m.cells # <<>> /\ Matched(m.cells, contents[i].cells) >= Needed(Len(m.cells))}
SameGeneration(m) ==
    {i \in Accepted : m.generation # NoGeneration /\ contents[i].generation = m.generation}

\* _check_motion_fake: the mean over the cells
Motion(cells) == FoldSeq(LAMBDA c, sum : MotionScore(c.changes) + sum, 0, cells)
MotionFake(m) == m.cells # <<>> /\ Motion(m.cells) < MotionMin * Len(m.cells)

\* cut_score: differences between frames, in hundredths; a cell of under three
\* frames has none to judge.  A spike exceeds five times the median and 0.05
DoubleMedian(d) ==
    LET sorted == SetToSortSeq(DOMAIN d, LAMBDA i, j : d[i] < d[j] \/ (d[i] = d[j] /\ i < j))
    IN  d[sorted[(Len(d) + 1) \div 2]] + d[sorted[Len(d) \div 2 + 1]]
Spikes(d) == {i \in DOMAIN d : 2 * d[i] > 5 * DoubleMedian(d) + 10}

\* verify_evidence_video: CUT_SCORE_THRESHOLD, MAX_DIFF_THRESHOLD
Spliced(cell) ==
    LET d == cell.diffs
    IN  /\ Len(d) >= 2
        /\ 100 * Cardinality(Spikes(d)) > Len(d) \/ \E i \in DOMAIN d : d[i] > 10

\* The files that are there by now, as many as the manifest names
Tampered(h) ==
    \E i \in DOMAIN h.manifest.cells :
        i <= Len(cellsDir[h.stem]) /\ Spliced(cellsDir[h.stem][i])

Row(h, status, winner) ==
    [id |-> ContentId(h.manifest), generation |-> h.manifest.generation, status |-> status,
     winner |-> winner, dir |-> h.stem, cells |-> h.manifest.cells]
NoWinner == [cells |-> <<>>, drawn |-> 0]

\* The first ground that holds decides; a winner is named for two of them
Ruling(h) ==
    LET m == h.manifest
        losers(S) == {Row(h, "rejected", contents[i].id) : i \in S}
    IN  IF SameGeneration(m) # {} THEN losers(SameGeneration(m))
        ELSE IF MotionFake(m) \/ Tampered(h) THEN {Row(h, "rejected", NoWinner)}
        ELSE IF Duplicates(m) # {} THEN losers(Duplicates(m))
        ELSE {Row(h, "accepted", NoWinner)}

\* Deviation: a manifest that was submitted before is judged again
ScreenAgain(p) ==
    /\ held[p] # NoHold /\ held' = [held EXCEPT ![p] = NoHold]
    /\ \E r \in Ruling(held[p]) : contents' = Append(contents, r)
    /\ UNCHANGED <<cellsDir, manifest, encoding, sweep, reused, encodes, screens>>

\* The transaction (BEGIN IMMEDIATE).  A content_id that is known gets no row.
Screen(p) ==
    LET h == held[p]
    IN  /\ h # NoHold /\ held' = [held EXCEPT ![p] = NoHold]
        /\ IF \E i \in DOMAIN contents : contents[i].id = ContentId(h.manifest)
           THEN UNCHANGED contents
           ELSE \E r \in Ruling(h) : contents' = Append(contents, r)
        /\ UNCHANGED <<cellsDir, manifest, encoding, sweep, reused, encodes, screens>>

-----------------------------------------------------------------------------
(* db-gc: gc_rejected                                                       *)

GcSelect ==
    LET losers == {contents[i].dir : i \in DOMAIN contents \ Accepted}
    IN  /\ sweep = {} /\ losers # {} /\ sweep' = losers
        /\ \E s \in losers : cellsDir[s] # <<>>
        /\ UNCHANGED <<cellsDir, manifest, encoding, held, contents, reused, encodes, screens>>

GcDelete(s) ==
    /\ s \in sweep /\ sweep' = sweep \ {s}
    /\ cellsDir' = [cellsDir EXCEPT ![s] = <<>>]
    /\ UNCHANGED <<manifest, encoding, held, contents, reused, encodes, screens>>

ScreenNext ==
    \/ \E s \in Stems :
         \/ \E clip \in Clips : EncodeCells(s, clip)
         \/ \E gen \in Generations \cup {NoGeneration} : WriteManifest(s, gen)
         \/ GcDelete(s)
         \/ \E p \in Screeners : ReadManifest(p, s)
    \/ \E p \in Screeners : Screen(p)
    \/ GcSelect

ScreenSpec == ScreenInit /\ [][ScreenNext]_screening

-----------------------------------------------------------------------------
\* "the first submission to be committed wins; later duplicates are rejected"
\* (screening.py:4), and "cells that lose the race are flagged for garbage
\* collection" (screening.py:5): among the accepted no later one repeats half of
\* an earlier one or its generation_id, and the sweep leaves the cells of every
\* accepted content where they are.  (It does not when two files of one stem are
\* encoded: they share a directory, see the hazards.)  In particular no accepted
\* cell by cell repetition of an earlier content shows the same or the mirrored
\* frames, with the same sound or without any.
Repeats(new, old, image) ==
    /\ Len(new) = Len(old) /\ new # <<>>
    /\ \A k \in DOMAIN new :
         /\ new[k].frames = [f \in DOMAIN old[k].frames |-> image[old[k].frames[f]]]
         /\ new[k].windows \in {old[k].windows, <<>>}
FirstWins ==
    \A j \in Accepted :
        /\ ~ \E i \in Accepted : i < j /\ \E image \in {Flip, [x \in Images |-> x]} :
               Repeats(contents[j].cells, contents[i].cells, image)
        /\ \A i \in Accepted : i < j =>
             /\ contents[j].cells # <<>> =>
                  Matched(contents[j].cells, contents[i].cells) < Needed(Len(contents[j].cells))
             /\ contents[j].generation \in {NoGeneration} \/
                  contents[j].generation # contents[i].generation
        /\ contents[j].dir \notin reused => cellsDir[contents[j].dir] = contents[j].cells

=============================================================================
