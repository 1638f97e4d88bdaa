-------------------------------- MODULE VHash --------------------------------
(***************************************************************************)
(* The V-Hash of a cell (morm-core vhash.py): perceptual hashes of its     *)
(* keyframes and of their mirror images, a fingerprint of its sound, and   *)
(* how much moves.  A hash is a sequence of bits.  A cell is what ffmpeg   *)
(* decodes: [frames, windows, changes, diffs], with the keyframes, the     *)
(* energy of every band in every window of the sound (none if there is no  *)
(* sound, or too little), and the mean differences of consecutive frames   *)
(* at two rates; the cosine transform behind PHash is left out.            *)
(***************************************************************************)
EXTENDS Integers, FiniteSets, SequencesExt, FiniteSetsExt

CONSTANTS
    Images, PHash,  \* _phash_64bit
    Flip,           \* FLIP_LEFT_RIGHT
    HashBits,       \* the square of PHASH_SIZE
    Keyframes,      \* KEYFRAMES_PER_CELL
    AudioFrames, AudioBands

ASSUME VHashAssumption ==
    /\ HashBits \in Nat \ {0} /\ Keyframes \in Nat \ {0}
    /\ AudioFrames \in Nat \ {0} /\ AudioBands \in Nat \ {0}
    /\ PHash \in [Images -> [1..HashBits -> {0, 1}]]
    /\ Flip \in [Images -> Images] /\ \A i \in Images : Flip[Flip[i]] = i

Zeros(n) == [i \in 1..n |-> 0]

\* The last frame stands for those that are missing
ExtractKeyframes(frames) ==
    IF frames = <<>> THEN <<>> ELSE [i \in 1..Keyframes |-> frames[Min({i, Len(frames)})]]

PhashConcat(images) ==
    IF images = <<>> THEN Zeros(Keyframes * HashBits)
    ELSE FlattenSeq([i \in DOMAIN images |-> PHash[images[i]]])

Transpose(images) == [i \in DOMAIN images |-> Flip[images[i]]]

\* A bit per band and window: louder than in the window before
AudioFingerprint(windows) ==
    IF Len(windows) < AudioFrames THEN Zeros(AudioFrames * AudioBands)
    ELSE FlattenSeq([f \in 1..AudioFrames |-> [b \in 1..AudioBands |->
             IF f > 1 /\ windows[f][b] > windows[f - 1][b] THEN 1 ELSE 0]])

\* The mean, in the unit of `changes`; a single frame does not move
MotionScore(changes) == IF changes = <<>> THEN 0 ELSE FoldSeq(+, 0, changes) \div Len(changes)

Vhash(cell) ==
    LET frames == ExtractKeyframes(cell.frames)
    IN  [visual |-> PhashConcat(frames), flipped |-> PhashConcat(Transpose(frames)),
         audio |-> AudioFingerprint(cell.windows), motion |-> MotionScore(cell.changes)]

Hamming(a, b) == Cardinality({i \in DOMAIN a : a[i] # b[i]})

=============================================================================
