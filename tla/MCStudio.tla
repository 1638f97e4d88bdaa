------------------------------ MODULE MCStudio ------------------------------
(***************************************************************************)
(* What brings a video from its file to a viewer: the morm-core registry,  *)
(* the directories that encoding leaves, the catalogue, what creators make *)
(* of it, the stream, and the pages.  They keep their state apart; a       *)
(* behaviour is one of one of them, chosen at the start, with the others   *)
(* standing still, since an interleaving of two reaches nothing that each  *)
(* does not reach alone.                                                   *)
(***************************************************************************)
EXTENDS PlayCatalog, PlayStage, PlayStream, PlayPage, Screening, MediaFiles, TLC

CONSTANTS agent, human, f1, f2, c1, c2, k1, k2, k3, o1, o2

VARIABLE part

\* PlayCatalog: one posting agent, one human, two files, the second one R18,
\* harmful and long
MCUsers == {agent, human}
MCFiles == {f1, f2}
MCMedia == [f \in MCFiles |-> [adult |-> f = f2, harm |-> f = f2, length |-> IF f = f2 THEN "long" ELSE "fine"]]
Fine == [cat |-> "plain", rating |-> "sfw", harm |-> FALSE, spam |-> FALSE]
MCTexts == {Fine, [Fine EXCEPT !.spam = TRUE]}
MCTiers == {0, 2}
MCFirstTier == [u \in MCUsers |-> IF u = agent THEN 2 ELSE 0]
MCPostsDay == [tr \in MCTiers |-> IF tr = 0 THEN 1 ELSE 10]

\* PlayStage: two creators whose codes begin alike
MCCreators == {c1, c2}
MCPrefix == [a \in MCCreators |-> "x"]

\* PlayPage: three videos, two of one title; pages of one card
MCCards == {k1, k2, k3}
MCTitleOf == [c \in MCCards |-> IF c = k3 THEN "b" ELSE "a"]
MCMatch == "all" :> MCCards @@ "tag" :> {k2} @@ "adult" :> {}
MCPageSize == [v \in {"home", "player"} |-> 1]

\* Screening: a picture, its mirror image without sound, another one, one with a
\* cut in it, one whose cut is in its only two frames, a still one
MCImages == {"a", "b", "m"}
MCPHash == "a" :> <<1, 0>> @@ "m" :> <<0, 1>> @@ "b" :> <<1, 1>>
MCFlip == "a" :> "m" @@ "m" :> "a" @@ "b" :> "b"
Rising == <<<<1, 2>>, <<2, 1>>>>
Falling == <<<<2, 1>>, <<1, 2>>>>
Cell(frames, windows) ==
    [frames |-> frames, windows |-> windows, changes |-> <<3, 1>>, diffs |-> <<1, 0, 2>>]
Original == Cell(<<"a", "a">>, Rising)
Mirrored == [Cell(<<"m">>, <<>>) EXCEPT !.diffs = <<8>>]
MirroredOriginal == Cell(<<"m", "m">>, Rising)
Other == Cell(<<"b">>, Falling)
Cut == [Cell(<<"b">>, Rising) EXCEPT !.diffs = <<0, 8, 0>>]
Still == [Cell(<<"b">>, Falling) EXCEPT !.changes = <<0, 1>>]
MCClips == {<<Original, Other>>, <<Mirrored>>, <<MirroredOriginal, Other>>, <<Other, Cut>>, <<Still, Other>>}

\* MediaFiles: a video of two segments and one of a single one, and so for evidence
MCSegments == f1 :> 2 @@ f2 :> 1
MCPieces == f1 :> 2 @@ f2 :> 1

\* Bound: either one moderation worker has a row at a time, or there are no
\* changes by the administrator and no crashes
OneWorker == Cardinality({w \in Workers : worker[w].id # 0}) <= 1
Unchanged == changes = 0

Same == Permutations(Threads) \cup Permutations(Workers) \cup Permutations(Makers)

media == <<hls, evidence>>

StudioInit ==
    /\ Init /\ StageInit /\ StreamInit /\ PageInit /\ ScreenInit /\ MediaInit
    /\ part \in {"catalog", "judging", "stage", "stream", "front", "upload", "screen",
                "hls", "evidence"}
    /\ part # "front" => ranking = <<k1, k2, k3>> /\ query = "all"

StudioNext ==
    /\ UNCHANGED part
    /\ \/ part = "catalog" /\ Next /\ OneWorker'
          /\ UNCHANGED <<stage, streaming, page, screening, media>>
       \/ part = "judging" /\ Next /\ Unchanged'
          /\ UNCHANGED <<stage, streaming, page, screening, media>>
       \/ part = "stage" /\ StageNext /\ UNCHANGED <<vars, streaming, page, screening, media>>
       \/ part = "stream" /\ StreamNext /\ UNCHANGED <<vars, stage, page, screening, media>>
       \/ part = "front" /\ FrontNext /\ UNCHANGED <<vars, stage, streaming, screening, media>>
       \/ part = "upload" /\ UploadNext /\ UNCHANGED <<vars, stage, streaming, screening, media>>
       \/ part = "screen" /\ ScreenNext /\ UNCHANGED <<vars, stage, streaming, page, media>>
       \/ part = "hls" /\ HlsNext /\ UNCHANGED <<vars, stage, streaming, page, screening>>
       \/ part = "evidence" /\ EvidenceNext /\ UNCHANGED <<vars, stage, streaming, page, screening>>

StudioSpec == StudioInit /\ [][StudioNext]_<<part, vars, stage, streaming, page, screening, media>>

=============================================================================
