---------------------------- MODULE StudioProofs ----------------------------
(***************************************************************************)
(* The catalogue, the challenges and the stream of the play server, and    *)
(* the media commands of morm-core, for every set of accounts, works,      *)
(* files and request threads: what is public was judged, and no file is    *)
(* public twice; a challenge keeps its maker and its pool; a video plays   *)
(* as long as the origin has it; the first submission of a video wins;     *)
(* what an encoding leaves behind is what its manifest says; and a page    *)
(* that has come to the end shows all of its query, once and in order.     *)
(***************************************************************************)
EXTENDS PlayCatalog, PlayStage, PlayStream, PlayPage, Screening, MediaFiles, SumTheorems,
        SequenceTheorems

(* The smallest free row is a row.                                          *)
LEMMA LeastFree ==
    ASSUME NEW S, S # {}, NEW n, S \subseteq 1 .. n
    PROVE  Min(S) \in S
<1>1. S \in SUBSET Nat
  OBVIOUS
<1>2. \E m \in S : \A k \in S : m <= k
  BY <1>1, LeastNat
<1> QED BY <1>2 DEF Min

RowType ==
    [status : Visible \cup {"none", "reserved", "rejected", "removed"}, by : Users \cup {Nothing},
     title : Titles \cup {Nothing}, file : Files \cup {Nothing}, sha : Files \cup {Nothing},
     rating : {"sfw", "r18"}, remixOf : Ids \cup {0}, cover : BOOLEAN]

UploadType ==
    [step : {"idle", "check", "encode", "bind", "write", "hash"}, by : Users \cup {Nothing},
     id : Ids \cup {0}, file : Files \cup {Nothing}]

PullType == [id : Ids \cup {0}, file : Files \cup {Nothing}, tier : 0 .. 3, seen : BOOLEAN]

CatalogTypes ==
    /\ content \in [Ids -> RowType]
    /\ upload \in [Threads -> UploadType]
    /\ worker \in [Workers -> PullType]
    /\ tier \in [Users -> Tiers]

(***************************************************************************)
(* The strengthening.  An id that two requests never shared has, until its *)
(* media are written, no verdict under way and nothing that a verdict can  *)
(* land on (Reserved); a verdict under way is for the file that is there,  *)
(* or an administrator put another one there, which judged has (Pulled);   *)
(* and what is public, or the administrator can make so, was let through   *)
(* (LetThrough).                                                           *)
(***************************************************************************)
Early == {"check", "encode", "bind", "write"}

Reserved ==
    \A t \in Threads, i \in Ids : i \notin contested /\ upload[t].step \in Early /\ upload[t].id = i =>
        /\ content[i].status \in {"reserved", "approved", "removed"}
        /\ \A w \in Workers : worker[w].id # i
        /\ \A s \in Threads \ {t} : upload[s].step # "idle" => upload[s].id # i

Pulled ==
    \A w \in Workers, i \in Ids : worker[w].id = i =>
        /\ content[i].status \notin {"none", "reserved"}
        /\ i \notin contested =>
             content[i].file = worker[w].file \/ <<i, content[i].file>> \in judged

LetThrough ==
    \A i \in Ids \ contested : content[i].status \in {"approved", "pending_review"} =>
        <<i, content[i].file>> \in judged

BusyIds == \A t \in Threads : upload[t].step # "idle" => upload[t].id \in Ids
SeenIds == \A w \in Workers : worker[w].seen => worker[w].id \in Ids

CatalogInv == CatalogTypes /\ BusyIds /\ SeenIds /\ Reserved /\ Pulled /\ LetThrough

LEMMA CatalogInitInv == Init => CatalogInv
<1> SUFFICES ASSUME Init PROVE CatalogInv
  OBVIOUS
<1>1. NoRow \in RowType /\ NoUpload \in UploadType /\ NoPull \in PullType
  BY DEF NoRow, NoUpload, NoPull, RowType, UploadType, PullType, Visible
<1>2. CatalogTypes
  BY <1>1, CatalogAssumption DEF Init, CatalogTypes
<1>3. /\ \A t \in Threads : upload[t].step = "idle"
      /\ \A w \in Workers : worker[w].id = 0 /\ ~ worker[w].seen
      /\ \A i \in Ids : content[i].status = "none"
  BY DEF Init, NoUpload, NoPull, NoRow
<1> QED BY <1>2, <1>3 DEF CatalogInv, BusyIds, SeenIds, Reserved, Pulled, LetThrough, Early, Ids

(* What may be written to a row while no verdict is given and no request    *)
(* for media comes in.                                                      *)
Allowed(i) ==
    /\ \A t \in Threads : i \notin contested /\ upload'[t].step \in Early /\ upload'[t].id = i =>
         content'[i].status \in {"reserved", "approved", "removed"}
    /\ (\E w \in Workers : worker[w].id = i) =>
         /\ content'[i].status \notin {"none", "reserved"}
         /\ i \notin contested =>
              content'[i].file = content[i].file \/ <<i, content'[i].file>> \in judged'
    /\ i \notin contested /\ content'[i].status \in {"approved", "pending_review"} =>
         <<i, content'[i].file>> \in judged'

OnlyForward ==
    \A t \in Threads :
        /\ upload'[t].step # "idle" => upload[t].step # "idle" /\ upload'[t].id = upload[t].id
        /\ upload'[t].step \in Early => upload[t].step \in Early

LEMMA RowsKept ==
    ASSUME CatalogInv, UNCHANGED <<worker, contested>>, tier' \in [Users -> Tiers],
           content' \in [Ids -> RowType], upload' \in [Threads -> UploadType],
           \A x \in judged : x \in judged', OnlyForward,
           \A i \in Ids : content'[i] = content[i] \/ Allowed(i)
    PROVE  CatalogInv'
<1>1. CatalogTypes'
  BY DEF CatalogInv, CatalogTypes
<1>2. BusyIds' /\ SeenIds'
  BY DEF CatalogInv, BusyIds, SeenIds, OnlyForward
<1>3. Reserved'
  <2> SUFFICES ASSUME NEW t \in Threads, NEW i \in Ids, i \notin contested',
                      upload'[t].step \in Early, upload'[t].id = i
               PROVE  /\ content'[i].status \in {"reserved", "approved", "removed"}
                      /\ \A w \in Workers : worker'[w].id # i
                      /\ \A s \in Threads \ {t} : upload'[s].step # "idle" => upload'[s].id # i
    BY DEF Reserved
  <2>1. upload[t].step \in Early /\ upload[t].id = i /\ i \notin contested
    BY DEF OnlyForward, Early
  <2>2. /\ content[i].status \in {"reserved", "approved", "removed"}
        /\ \A w \in Workers : worker[w].id # i
        /\ \A s \in Threads \ {t} : upload[s].step # "idle" => upload[s].id # i
    BY <2>1 DEF CatalogInv, Reserved
  <2>3. content'[i].status \in {"reserved", "approved", "removed"}
    BY <2>1, <2>2 DEF Allowed
  <2> QED BY <2>2, <2>3 DEF OnlyForward
<1>4. Pulled'
  <2> SUFFICES ASSUME NEW w \in Workers, NEW i \in Ids, worker[w].id = i
               PROVE  /\ content'[i].status \notin {"none", "reserved"}
                      /\ i \notin contested =>
                           content'[i].file = worker[w].file \/ <<i, content'[i].file>> \in judged'
    BY DEF Pulled
  <2>1. /\ content[i].status \notin {"none", "reserved"}
        /\ i \notin contested =>
             content[i].file = worker[w].file \/ <<i, content[i].file>> \in judged
    BY DEF CatalogInv, Pulled
  <2> QED BY <2>1 DEF Allowed
<1>5. LetThrough'
  BY DEF CatalogInv, LetThrough, Allowed
<1> QED BY <1>1, <1>2, <1>3, <1>4, <1>5 DEF CatalogInv

LEMMA StillForward == UNCHANGED upload => OnlyForward
BY DEF OnlyForward

(* One row is written and no request for media goes on.                     *)
LEMMA RowPut ==
    ASSUME CatalogInv, NEW i \in Ids, NEW row \in RowType, Put(i, row),
           UNCHANGED <<worker, contested, upload, tier>>, \A x \in judged : x \in judged',
           Allowed(i)
    PROVE  CatalogInv'
<1>1. content' \in [Ids -> RowType] /\ \A j \in Ids : j # i => content'[j] = content[j]
  BY DEF Put, CatalogInv, CatalogTypes
<1> QED BY <1>1, RowsKept, StillForward DEF CatalogInv, CatalogTypes

LEMMA UploadInitInv ==
    ASSUME NEW u \in Users, NEW title \in Titles, NEW from \in {0} \cup Ids, CatalogInv,
           UploadInit(u, title, from)
    PROVE  CatalogInv'
<1> DEFINE i == Min(Rows({"none"}))
           f == IF from \in Rows({"approved"}) THEN from ELSE 0
           row == [NoRow EXCEPT !.status = "reserved", !.by = u, !.title = title, !.remixOf = f]
<1>1. i \in Ids /\ content[i].status = "none"
  <2>1. Rows({"none"}) # {} /\ Rows({"none"}) \subseteq 1 .. MaxContents
    BY DEF UploadInit, Rows, Ids
  <2> QED BY <2>1, LeastFree DEF Rows
<1>2. Put(i, row) /\ UNCHANGED <<worker, contested, upload, tier, judged>>
  BY DEF UploadInit, ghosts, accounts
<1>3. f \in Ids \cup {0}
  OBVIOUS
<1> HIDE DEF f, i
<1>4. row \in RowType /\ row.status = "reserved"
  BY <1>3 DEF NoRow, RowType, Visible
<1> HIDE DEF row
<1>5. content'[i] = row
  BY <1>1, <1>2 DEF Put, CatalogInv, CatalogTypes
<1>6. \A w \in Workers : worker[w].id # i
  BY <1>1 DEF CatalogInv, Pulled
<1>7. Allowed(i)
  BY <1>4, <1>5, <1>6 DEF Allowed
<1> QED BY <1>1, <1>2, <1>4, <1>7, RowPut

LEMMA DecideInv ==
    ASSUME NEW i \in Ids, NEW s \in {"approved", "rejected"}, CatalogInv, Decide(i, s)
    PROVE  CatalogInv'
<1> DEFINE row == [content[i] EXCEPT !.status = s]
<1>1. Put(i, row) /\ UNCHANGED <<worker, contested, upload, tier, judged>>
        /\ content[i].status = "pending_review"
  BY DEF Decide, ghosts, accounts
<1>2. row \in RowType /\ row.status = s /\ row.file = content[i].file
  BY DEF CatalogInv, CatalogTypes, RowType, Visible
<1> HIDE DEF row
<1>3. content'[i] = row
  BY <1>1 DEF Put, CatalogInv, CatalogTypes
<1>4. \A t \in Threads : ~ (i \notin contested /\ upload'[t].step \in Early /\ upload'[t].id = i)
  BY <1>1 DEF CatalogInv, Reserved
<1>5. i \notin contested => <<i, row.file>> \in judged'
  BY <1>1, <1>2 DEF CatalogInv, LetThrough
<1>6. Allowed(i)
  BY <1>2, <1>3, <1>4, <1>5 DEF Allowed
<1> QED BY <1>1, <1>2, <1>6, RowPut

LEMMA IngestInv ==
    ASSUME NEW i \in Ids, NEW f \in Files, CatalogInv, Ingest(i, f)
    PROVE  CatalogInv'
<1> DEFINE row == [NoRow EXCEPT !.status = "approved", !.file = f]
<1>1. Put(i, row) /\ UNCHANGED <<worker, contested, upload, tier>>
        /\ judged' = judged \cup {<<i, f>>}
  BY DEF Ingest, accounts
<1>2. row \in RowType /\ row.status = "approved" /\ row.file = f
  BY DEF NoRow, RowType, Visible
<1> HIDE DEF row
<1>3. content'[i] = row
  BY <1>1 DEF Put, CatalogInv, CatalogTypes
<1>4. Allowed(i)
  BY <1>1, <1>2, <1>3 DEF Allowed
<1> QED BY <1>1, <1>2, <1>4, RowPut

(* Titles, ratings and covers are not what decides.                         *)
LEMMA SameFile ==
    ASSUME NEW i \in Ids, NEW row \in RowType, CatalogInv, Put(i, row),
           row.status = content[i].status, row.file = content[i].file,
           UNCHANGED <<worker, contested, upload, tier, judged>>
    PROVE  CatalogInv'
<1>1. content'[i] = row
  BY DEF Put, CatalogInv, CatalogTypes
<1>2. Allowed(i)
  BY <1>1 DEF Allowed, CatalogInv, Reserved, Pulled, LetThrough
<1> QED BY <1>2, RowPut

LEMMA TextsInv ==
    ASSUME NEW i \in Ids, CatalogInv,
           \/ \E title \in Titles, r \in {"sfw", "r18"} : Recaption(i, title, r)
           \/ \E on \in BOOLEAN : SetCover(i, on)
    PROVE  CatalogInv'
<1>1. content[i] \in RowType
  BY DEF CatalogInv, CatalogTypes
<1>2. ASSUME NEW title \in Titles, NEW r \in {"sfw", "r18"}, Recaption(i, title, r)
      PROVE  CatalogInv'
  <2> DEFINE row == [content[i] EXCEPT !.title = title, !.rating = r]
  <2>1. row \in RowType /\ row.status = content[i].status /\ row.file = content[i].file
    BY <1>1 DEF RowType, Visible
  <2>2. Put(i, row) /\ UNCHANGED <<worker, contested, upload, tier, judged>>
    BY <1>2 DEF Recaption, accounts, ghosts
  <2> HIDE DEF row
  <2> QED BY <2>1, <2>2, SameFile
<1>3. ASSUME NEW on \in BOOLEAN, SetCover(i, on)
      PROVE  CatalogInv'
  <2> DEFINE row == [content[i] EXCEPT !.cover = on]
  <2>1. row \in RowType /\ row.status = content[i].status /\ row.file = content[i].file
    BY <1>1 DEF RowType, Visible
  <2>2. Put(i, row) /\ UNCHANGED <<worker, contested, upload, tier, judged>>
    BY <1>3 DEF SetCover, accounts, ghosts
  <2> HIDE DEF row
  <2> QED BY <2>1, <2>2, SameFile
<1> QED BY <1>2, <1>3

LEMMA DedupInv ==
    ASSUME NEW keep \in [Files -> Ids], CatalogInv, Dedup(keep)
    PROVE  CatalogInv'
<1>1. UNCHANGED <<worker, contested, upload, tier, judged>>
  BY DEF Dedup, accounts, ghosts
<1>2. ASSUME NEW i \in Ids
      PROVE  /\ content'[i] \in RowType
             /\ \/ content'[i] = content[i]
                \/ /\ content[i].status = "approved" /\ content'[i].status = "removed"
                   /\ content'[i].file = content[i].file
  <2>1. content[i] \in RowType
    BY DEF CatalogInv, CatalogTypes
  <2> DEFINE row == [content[i] EXCEPT !.status = "removed"]
  <2>2. content'[i] = IF content[i].status = "approved" /\ keep[content[i].file] # i
                      THEN row ELSE content[i]
    BY DEF Dedup
  <2>3. row \in RowType /\ row.status = "removed" /\ row.file = content[i].file
    BY <2>1 DEF RowType, Visible
  <2> HIDE DEF row
  <2> QED BY <2>1, <2>2, <2>3
<1>3. content' = [i \in Ids |-> content'[i]]
  BY DEF Dedup
<1>4. content' \in [Ids -> RowType]
  BY <1>2, <1>3
<1>5. ASSUME NEW i \in Ids, content'[i] # content[i] PROVE Allowed(i)
  BY <1>1, <1>2, <1>5 DEF Allowed
<1> QED BY <1>1, <1>4, <1>5, RowsKept, StillForward DEF CatalogInv, CatalogTypes

LEMMA RestInv ==
    ASSUME CatalogInv, Crash \/ \E u \in Users, tr \in Tiers : SetStake(u, tr)
    PROVE  CatalogInv'
<1>1. UNCHANGED <<worker, contested, content, judged>>
  BY DEF Crash, SetStake, ghosts
<1>2. tier' \in [Users -> Tiers]
  BY DEF Crash, SetStake, accounts, CatalogInv, CatalogTypes
<1>3. upload' \in [Threads -> UploadType] /\ OnlyForward
  BY DEF Crash, SetStake, CatalogInv, CatalogTypes, OnlyForward, NoUpload, UploadType, Early
<1> QED BY <1>1, <1>2, <1>3, RowsKept DEF CatalogInv, CatalogTypes

-----------------------------------------------------------------------------
(* Uploads                                                                  *)

LEMMA Forwards ==
    ASSUME CatalogInv, NEW t \in Threads, NEW r \in UploadType,
           upload' = [upload EXCEPT ![t] = r],
           r.step # "idle" => upload[t].step # "idle" /\ r.id = upload[t].id,
           r.step \in Early => upload[t].step \in Early
    PROVE  upload' \in [Threads -> UploadType] /\ OnlyForward
BY DEF CatalogInv, CatalogTypes, OnlyForward

LEMMA ToStep ==
    ASSUME CatalogInv, NEW t \in Threads, NEW step \in {"check", "encode", "bind", "write", "hash"},
           upload[t].step # "idle", step \in Early => upload[t].step \in Early, Goto(t, step)
    PROVE  /\ upload' \in [Threads -> UploadType] /\ OnlyForward
           /\ upload'[t].step = step
<1> DEFINE r == [upload[t] EXCEPT !.step = step]
<1>1. upload[t] \in UploadType
  BY DEF CatalogInv, CatalogTypes
<1>2. r \in UploadType /\ r.step = step /\ r.id = upload[t].id
  BY <1>1 DEF UploadType
<1>3. upload' = [upload EXCEPT ![t] = r]
  BY DEF Goto
<1> HIDE DEF r
<1> QED BY <1>2, <1>3, Forwards DEF CatalogInv, CatalogTypes

LEMMA ToEnd ==
    ASSUME CatalogInv, NEW t \in Threads, End(t)
    PROVE  /\ upload' \in [Threads -> UploadType] /\ OnlyForward
           /\ upload'[t].step = "idle"
<1>1. NoUpload \in UploadType /\ NoUpload.step = "idle"
  BY DEF NoUpload, UploadType
<1> QED BY <1>1, Forwards DEF CatalogInv, CatalogTypes, End, Early

(* The request that has an uncontested id is alone with it.                 *)
LEMMA Alone ==
    ASSUME CatalogInv, NEW t \in Threads, upload[t].step \in Early, OnlyForward,
           upload[t].id \notin contested, upload'[t].step \notin Early
    PROVE  /\ upload[t].id \in Ids
           /\ \A s \in Threads : ~ (upload'[s].step \in Early /\ upload'[s].id = upload[t].id)
           /\ \A w \in Workers : worker[w].id # upload[t].id
<1>1. upload[t].id \in Ids
  BY DEF CatalogInv, BusyIds, Early
<1> QED BY <1>1 DEF CatalogInv, Reserved, OnlyForward, Early

LEMMA RejectInv ==
    ASSUME NEW t \in Threads, upload[t].step \in Early, CatalogInv, Reject(t),
           UNCHANGED <<worker, contested, tier, judged>>
    PROVE  CatalogInv'
<1> DEFINE i == upload[t].id
           row == [content[i] EXCEPT !.status = "rejected"]
<1>1. i \in Ids
  BY DEF CatalogInv, BusyIds, Early
<1>2. row \in RowType /\ row.status = "rejected" /\ row.file = content[i].file
  BY <1>1 DEF CatalogInv, CatalogTypes, RowType, Visible
<1>3. content' = [content EXCEPT ![i] = row] /\ End(t)
  BY DEF Reject, Put
<1> HIDE DEF row
<1>4. /\ content' \in [Ids -> RowType] /\ content'[i] = row
      /\ \A j \in Ids : j # i => content'[j] = content[j]
  BY <1>1, <1>2, <1>3 DEF CatalogInv, CatalogTypes
<1>5. upload' \in [Threads -> UploadType] /\ OnlyForward /\ upload'[t].step = "idle"
  BY <1>3, ToEnd
<1>6. i \notin contested => \A s \in Threads : ~ (upload'[s].step \in Early /\ upload'[s].id = i)
  BY <1>5, Alone DEF Early
<1>7. Allowed(i)
  BY <1>2, <1>4, <1>6 DEF Allowed
<1> QED BY <1>4, <1>5, <1>7, RowsKept DEF CatalogInv, CatalogTypes

LEMMA SameRows ==
    ASSUME CatalogInv, UNCHANGED <<content, worker, contested, tier, judged>>,
           upload' \in [Threads -> UploadType], OnlyForward
    PROVE  CatalogInv'
BY RowsKept DEF CatalogInv, CatalogTypes

LEMMA UploadCheckInv ==
    ASSUME NEW t \in Threads, CatalogInv, UploadCheck(t) \/ UploadEncode(t) \/ UploadBind(t)
    PROVE  CatalogInv'
<1>1. UNCHANGED <<worker, contested, tier, judged>> /\ upload[t].step \in Early
  BY DEF UploadCheck, UploadEncode, UploadBind, accounts, ghosts, Early
<1>2. CASE Reject(t)
  BY <1>1, <1>2, RejectInv
<1>3. CASE UNCHANGED content /\ End(t)
  BY <1>1, <1>3, ToEnd, SameRows
<1>4. CASE UNCHANGED content /\ (Goto(t, "encode") \/ Goto(t, "bind") \/ Goto(t, "write"))
  BY <1>1, <1>4, ToStep, SameRows DEF Early
<1> QED BY <1>2, <1>3, <1>4 DEF UploadCheck, UploadEncode, UploadBind

LEMMA UploadWriteInv ==
    ASSUME NEW t \in Threads, CatalogInv, UploadWrite(t)
    PROVE  CatalogInv'
<1> DEFINE i == upload[t].id
           row == [content[i] EXCEPT !.file = upload[t].file, !.status = "pending"]
<1>1. upload[t].step = "write" /\ Goto(t, "hash") /\ Put(i, row)
        /\ UNCHANGED <<worker, contested, tier, judged>>
  BY DEF UploadWrite, accounts
<1>2. i \in Ids /\ upload[t].file \in Files \cup {Nothing}
  BY <1>1 DEF CatalogInv, BusyIds, CatalogTypes, UploadType
<1>3. row \in RowType /\ row.status = "pending"
  <2> DEFINE q == [content[i] EXCEPT !.file = upload[t].file]
  <2>1. q \in RowType
    BY <1>2 DEF CatalogInv, CatalogTypes, RowType
  <2>2. row = [q EXCEPT !.status = "pending"]
    BY <1>2 DEF CatalogInv, CatalogTypes, RowType
  <2> HIDE DEF q, row
  <2> QED BY <2>1, <2>2 DEF RowType, Visible
<1>4. content' = [content EXCEPT ![i] = row]
  BY <1>1 DEF Put
<1> HIDE DEF row
<1>5. /\ content' \in [Ids -> RowType] /\ content'[i] = row
      /\ \A j \in Ids : j # i => content'[j] = content[j]
  BY <1>2, <1>3, <1>4 DEF CatalogInv, CatalogTypes
<1>6. upload' \in [Threads -> UploadType] /\ OnlyForward /\ upload'[t].step = "hash"
  BY <1>1, ToStep DEF Early
<1>7. i \notin contested =>
        /\ \A s \in Threads : ~ (upload'[s].step \in Early /\ upload'[s].id = i)
        /\ \A w \in Workers : worker[w].id # i
  BY <1>1, <1>6, Alone DEF Early
<1>8. Allowed(i)
  BY <1>3, <1>5, <1>7 DEF Allowed
<1> QED BY <1>1, <1>5, <1>6, <1>8, RowsKept DEF CatalogInv, CatalogTypes

LEMMA UploadHashInv ==
    ASSUME NEW t \in Threads, CatalogInv, UploadHash(t)
    PROVE  CatalogInv'
<1> DEFINE i == upload[t].id
           row == [content[i] EXCEPT !.sha = upload[t].file]
<1>1. upload[t].step = "hash" /\ End(t) /\ Put(i, row)
        /\ UNCHANGED <<worker, contested, tier, judged>>
  BY DEF UploadHash, accounts, ghosts
<1>2. i \in Ids /\ upload[t].file \in Files \cup {Nothing}
  BY <1>1 DEF CatalogInv, BusyIds, CatalogTypes, UploadType
<1>3. row \in RowType /\ row.status = content[i].status /\ row.file = content[i].file
  BY <1>2 DEF CatalogInv, CatalogTypes, RowType
<1>4. content' = [content EXCEPT ![i] = row]
  BY <1>1 DEF Put
<1> HIDE DEF row
<1>5. /\ content' \in [Ids -> RowType] /\ content'[i] = row
      /\ \A j \in Ids : j # i => content'[j] = content[j]
  BY <1>2, <1>3, <1>4 DEF CatalogInv, CatalogTypes
<1>6. upload' \in [Threads -> UploadType] /\ OnlyForward
  BY <1>1, ToEnd
<1>7. Allowed(i)
  <2>1. ASSUME NEW s \in Threads, i \notin contested, upload'[s].step \in Early,
               upload'[s].id = i
        PROVE  content'[i].status \in {"reserved", "approved", "removed"}
    <3>1. upload[s].step \in Early /\ upload[s].id = i
      BY <1>6, <2>1 DEF OnlyForward, Early
    <3> QED BY <1>2, <1>3, <1>5, <2>1, <3>1 DEF CatalogInv, Reserved
  <2>2. (\E w \in Workers : worker[w].id = i) => content'[i].status \notin {"none", "reserved"}
    BY <1>2, <1>3, <1>5 DEF CatalogInv, Pulled
  <2>3. i \notin contested /\ content'[i].status \in {"approved", "pending_review"} =>
          <<i, content'[i].file>> \in judged'
    BY <1>1, <1>2, <1>3, <1>5 DEF CatalogInv, LetThrough
  <2> QED BY <1>3, <1>5, <2>1, <2>2, <2>3 DEF Allowed
<1> QED BY <1>1, <1>5, <1>6, <1>7, RowsKept DEF CatalogInv, CatalogTypes

LEMMA UploadMediaInv ==
    ASSUME NEW t \in Threads, NEW i \in Ids, NEW f \in Files, CatalogInv, UploadMedia(t, i, f)
    PROVE  CatalogInv'
<1> DEFINE r == [NoUpload EXCEPT !.step = "check", !.id = i, !.file = f, !.by = content[i].by]
           rivals == {s \in Busy : upload[s].id = i}
<1>1. /\ upload' = [upload EXCEPT ![t] = r] /\ content[i].status = "reserved"
      /\ upload[t].step = "idle"
      /\ UNCHANGED <<content, worker, tier, judged>>
      /\ contested' = IF rivals = {} THEN contested ELSE contested \cup {i}
  BY DEF UploadMedia, accounts
<1>2. content[i].by \in Users \cup {Nothing}
  BY DEF CatalogInv, CatalogTypes, RowType
<1>3. r \in UploadType /\ r.step = "check" /\ r.id = i
  BY <1>2 DEF NoUpload, UploadType
<1> HIDE DEF r
<1>4. upload' \in [Threads -> UploadType]
        /\ \A s \in Threads : upload'[s] = IF s = t THEN r ELSE upload[s]
  BY <1>1, <1>3 DEF CatalogInv, CatalogTypes
<1>5. CatalogTypes' /\ BusyIds' /\ SeenIds'
  BY <1>1, <1>3, <1>4 DEF CatalogInv, CatalogTypes, BusyIds, SeenIds
<1>6. \A w \in Workers : worker[w].id # i
  BY <1>1 DEF CatalogInv, Pulled
<1>7. contested \subseteq contested' /\ (rivals # {} => i \in contested')
  BY <1>1
<1>8. Pulled' /\ LetThrough'
  BY <1>1, <1>7 DEF CatalogInv, Pulled, LetThrough
<1>9. Reserved'
  <2> SUFFICES ASSUME NEW u \in Threads, NEW j \in Ids, j \notin contested',
                      upload'[u].step \in Early, upload'[u].id = j
               PROVE  /\ content[j].status \in {"reserved", "approved", "removed"}
                      /\ \A w \in Workers : worker[w].id # j
                      /\ \A s \in Threads \ {u} : upload'[s].step # "idle" => upload'[s].id # j
    BY <1>1 DEF Reserved
  <2>1. CASE u = t
    <3>1. j = i /\ rivals = {}
      BY <1>3, <1>4, <1>7, <2>1
    <3>2. \A s \in Threads : upload[s].step # "idle" => upload[s].id # i
      BY <3>1 DEF Busy
    <3> QED BY <1>1, <1>4, <1>6, <2>1, <3>1, <3>2
  <2>2. CASE u # t
    <3>1. upload[u].step \in Early /\ upload[u].id = j /\ j \notin contested
      BY <1>4, <1>7, <2>2
    <3>2. /\ content[j].status \in {"reserved", "approved", "removed"}
          /\ \A w \in Workers : worker[w].id # j
          /\ \A s \in Threads \ {u} : upload[s].step # "idle" => upload[s].id # j
      BY <3>1 DEF CatalogInv, Reserved
    <3>3. j # i
      <4>1. j = i => u \in rivals
        BY <3>1 DEF Busy, Early
      <4> QED BY <1>7, <4>1
    <3> QED BY <1>3, <1>4, <3>2, <3>3
  <2> QED BY <2>1, <2>2
<1> QED BY <1>5, <1>8, <1>9 DEF CatalogInv

-----------------------------------------------------------------------------
(* The workers                                                              *)

(* A worker goes on, or gives up, and the catalogue stays.                  *)
LEMMA WorkerGoes ==
    ASSUME CatalogInv, NEW w \in Workers, NEW p \in PullType, worker' = [worker EXCEPT ![w] = p],
           UNCHANGED <<content, tier, upload, judged>>, contested \subseteq contested',
           p.seen => p.id # 0,
           \/ p.id = worker[w].id /\ p.file = worker[w].file
           \/ p.id = 0
           \/ p.id \in Ids /\ content[p.id].status = "pending" /\ p.file = content[p.id].file
    PROVE  CatalogInv'
<1>1. worker' \in [Workers -> PullType]
        /\ \A x \in Workers : worker'[x] = IF x = w THEN p ELSE worker[x]
  BY DEF CatalogInv, CatalogTypes
<1>2. CatalogTypes' /\ BusyIds'
  BY <1>1 DEF CatalogInv, CatalogTypes, BusyIds
<1>3. SeenIds'
  BY <1>1 DEF CatalogInv, SeenIds, PullType
<1>4. LetThrough'
  BY DEF CatalogInv, LetThrough
<1>5. \A i \in Ids : p.id = i =>
         /\ content[i].status \notin {"none", "reserved"}
         /\ i \notin contested => content[i].file = p.file \/ <<i, content[i].file>> \in judged
  BY DEF CatalogInv, Pulled, Ids
<1>6. Pulled'
  BY <1>1, <1>5 DEF CatalogInv, Pulled
<1>7. ASSUME NEW i \in Ids, NEW t \in Threads, i \notin contested, upload[t].step \in Early,
             upload[t].id = i
      PROVE  p.id # i
  <2>1. content[i].status # "pending" /\ worker[w].id # i
    BY <1>7 DEF CatalogInv, Reserved
  <2> QED BY <2>1 DEF Ids
<1>8. Reserved'
  BY <1>1, <1>7 DEF CatalogInv, Reserved
<1> QED BY <1>2, <1>3, <1>4, <1>6, <1>8 DEF CatalogInv

LEMMA PullInv ==
    ASSUME NEW w \in Workers, CatalogInv, WorkerPull(w)
    PROVE  CatalogInv'
<1> DEFINE i == Min(Rows({"pending"}))
           tr == TierOf(content[i].by)
           p == [NoPull EXCEPT !.id = i, !.file = content[i].file, !.tier = tr]
<1>1. i \in Ids /\ content[i].status = "pending"
  <2>1. Rows({"pending"}) # {} /\ Rows({"pending"}) \subseteq 1 .. MaxContents
    BY DEF WorkerPull, Rows, Ids
  <2> QED BY <2>1, LeastFree DEF Rows
<1>2. worker' = [worker EXCEPT ![w] = p] /\ UNCHANGED <<content, tier, upload, judged, contested>>
  BY DEF WorkerPull, accounts, ghosts
<1> HIDE DEF i
<1>3. tr \in 0 .. 3 /\ content[i].file \in Files \cup {Nothing}
  <2>1. content[i].by \in Users \cup {Nothing} /\ content[i].file \in Files \cup {Nothing}
    BY <1>1 DEF CatalogInv, CatalogTypes, RowType
  <2>2. \A u \in Users : tier[u] \in 0 .. 3
    BY CatalogAssumption DEF CatalogInv, CatalogTypes
  <2> QED BY <2>1, <2>2 DEF TierOf
<1> HIDE DEF tr
<1>4. p \in PullType /\ p.id = i /\ p.file = content[i].file /\ ~ p.seen
  BY <1>1, <1>3 DEF NoPull, PullType
<1> HIDE DEF p
<1> QED BY <1>1, <1>2, <1>4, WorkerGoes

LEMMA GivesUp == NoPull \in PullType /\ NoPull.id = 0 /\ ~ NoPull.seen
BY DEF NoPull, PullType

LEMMA VerdictInv ==
    ASSUME NEW w \in Workers, CatalogInv, Verdict(w) \/ WorkerLoses(w)
    PROVE  CatalogInv'
<1> DEFINE p == [worker[w] EXCEPT !.seen = TRUE]
<1>1. UNCHANGED <<content, tier, upload, judged>> /\ contested \subseteq contested'
        /\ worker[w].id # 0
  BY DEF Verdict, WorkerLoses, accounts, ghosts
<1>2. p \in PullType /\ p.id = worker[w].id /\ p.file = worker[w].file
  BY DEF CatalogInv, CatalogTypes, PullType
<1> HIDE DEF p
<1>3. CASE worker' = [worker EXCEPT ![w] = p]
  BY <1>1, <1>2, <1>3, WorkerGoes
<1>4. CASE worker' = [worker EXCEPT ![w] = NoPull]
  BY <1>1, <1>4, GivesUp, WorkerGoes
<1> QED BY <1>3, <1>4 DEF Verdict, WorkerLoses, p

LEMMA VerdictWriteInv ==
    ASSUME NEW w \in Workers, NEW v \in AllVerdicts, CatalogInv, VerdictWrite(w, v)
    PROVE  CatalogInv'
<1> DEFINE i == worker[w].id
           f == worker[w].file
           q == [content[i] EXCEPT !.status = v.status]
           row == [content[i] EXCEPT !.status = v.status, !.rating = v.rating]
<1>1. /\ content' = [content EXCEPT ![i] = row] /\ worker' = [worker EXCEPT ![w] = NoPull]
      /\ judged' = IF v.status = "rejected" THEN judged ELSE judged \cup {<<i, f>>}
      /\ UNCHANGED <<tier, upload, contested>> /\ worker[w].seen
  BY DEF VerdictWrite, Put
<1>2. i \in Ids
  BY <1>1 DEF CatalogInv, SeenIds
<1>3. v.status \in {"approved", "pending_review", "rejected"} /\ v.rating \in {"sfw", "r18"}
  BY DEF AllVerdicts
<1>4. q \in RowType /\ q.status = v.status /\ q.file = content[i].file
  BY <1>2, <1>3 DEF CatalogInv, CatalogTypes, RowType, Visible
<1>5. row = [q EXCEPT !.rating = v.rating]
  BY <1>2 DEF CatalogInv, CatalogTypes, RowType
<1> HIDE DEF q, row
<1>6. row \in RowType /\ row.status = v.status /\ row.file = content[i].file
  BY <1>3, <1>4, <1>5 DEF RowType
<1>7. /\ content' \in [Ids -> RowType] /\ content'[i] = row
      /\ \A j \in Ids : j # i => content'[j] = content[j]
  BY <1>1, <1>2, <1>6 DEF CatalogInv, CatalogTypes
<1>8. /\ worker' \in [Workers -> PullType] /\ worker'[w] = NoPull
      /\ \A x \in Workers : x # w => worker'[x] = worker[x]
  BY <1>1, GivesUp DEF CatalogInv, CatalogTypes
<1>9. \A x \in judged : x \in judged'
  BY <1>1
<1>10. CatalogTypes' /\ BusyIds' /\ SeenIds'
  BY <1>1, <1>7, <1>8, GivesUp DEF CatalogInv, CatalogTypes, BusyIds, SeenIds
<1>11. Pulled'
  <2> SUFFICES ASSUME NEW x \in Workers, NEW j \in Ids, worker'[x].id = j
               PROVE  /\ content'[j].status \notin {"none", "reserved"}
                      /\ j \notin contested =>
                           content'[j].file = worker'[x].file \/ <<j, content'[j].file>> \in judged'
    BY <1>1 DEF Pulled
  <2>1. x # w /\ worker'[x] = worker[x]
    BY <1>8, GivesUp DEF Ids
  <2>2. /\ content[j].status \notin {"none", "reserved"}
        /\ j \notin contested =>
             content[j].file = worker[x].file \/ <<j, content[j].file>> \in judged
    BY <2>1 DEF CatalogInv, Pulled
  <2>3. content'[j].file = content[j].file
    BY <1>6, <1>7
  <2>4. content'[j].status \notin {"none", "reserved"}
    BY <1>3, <1>6, <1>7, <2>2
  <2> QED BY <1>9, <2>1, <2>2, <2>3, <2>4
<1>12. Reserved'
  <2> SUFFICES ASSUME NEW t \in Threads, NEW j \in Ids, j \notin contested,
                      upload[t].step \in Early, upload[t].id = j
               PROVE  /\ content'[j].status \in {"reserved", "approved", "removed"}
                      /\ \A x \in Workers : worker'[x].id # j
                      /\ \A s \in Threads \ {t} : upload[s].step # "idle" => upload[s].id # j
    BY <1>1 DEF Reserved
  <2>1. /\ content[j].status \in {"reserved", "approved", "removed"}
        /\ \A x \in Workers : worker[x].id # j
        /\ \A s \in Threads \ {t} : upload[s].step # "idle" => upload[s].id # j
    BY DEF CatalogInv, Reserved
  <2>2. j # i
    BY <2>1
  <2> QED BY <1>7, <1>8, <2>1, <2>2, GivesUp DEF Ids
<1>13. LetThrough'
  <2> SUFFICES ASSUME NEW j \in Ids, j \notin contested,
                      content'[j].status \in {"approved", "pending_review"}
               PROVE  <<j, content'[j].file>> \in judged'
    BY <1>1 DEF LetThrough
  <2>1. CASE j # i
    BY <1>7, <1>9, <2>1 DEF CatalogInv, LetThrough
  <2>2. CASE j = i
    <3>1. content[i].file = f \/ <<i, content[i].file>> \in judged
      BY <1>2, <2>2 DEF CatalogInv, Pulled
    <3>2. <<i, f>> \in judged'
      BY <1>1, <1>6, <1>7, <2>2
    <3> QED BY <1>6, <1>7, <1>9, <2>2, <3>1, <3>2
  <2> QED BY <2>1, <2>2
<1> QED BY <1>10, <1>11, <1>12, <1>13 DEF CatalogInv

LEMMA CatalogStepInv == CatalogInv /\ [Next]_vars => CatalogInv'
<1>1. CatalogInv /\ UNCHANGED vars => CatalogInv'
  BY DEF vars, accounts, ghosts, CatalogInv, CatalogTypes, BusyIds, SeenIds, Reserved, Pulled,
         LetThrough
<1>2. CatalogInv /\ Admin => CatalogInv'
  BY DecideInv, IngestInv, DedupInv, TextsInv, RestInv DEF Admin
<1>3. ASSUME CatalogInv, NEW t \in Threads, Uploading(t) PROVE CatalogInv'
  BY <1>3, UploadCheckInv, UploadWriteInv, UploadHashInv, UploadMediaInv DEF Uploading
<1>4. ASSUME CatalogInv, NEW w \in Workers, Judging(w) PROVE CatalogInv'
  BY <1>4, PullInv, VerdictInv, VerdictWriteInv DEF Judging
<1> QED BY <1>1, <1>2, <1>3, <1>4, UploadInitInv, RestInv DEF Next

(* No late verdict, re-upload or ingest puts other media behind what was    *)
(* let through: whatever the order of uploads, verdicts, ingests and        *)
(* crashes, the file of every public row was judged under this very id.     *)
THEOREM OnlyJudgedPublic == Spec => []PublicWasJudged
<1>1. CatalogInv => PublicWasJudged
  BY DEF CatalogInv, LetThrough, PublicWasJudged, Streamed, ResolvePlayCid, PlayCidAny, Described,
         Eligible, Rows
<1> QED BY <1>1, CatalogInitInv, CatalogStepInv, PTL DEF Spec

-----------------------------------------------------------------------------
(***************************************************************************)
(* The strengthening: a file that is not loose is in the hands of one      *)
(* request at a time (Lone); a row that has it has its hash, or the        *)
(* request is about to store it (Hashed, InHand); from the look at the     *)
(* hashes to the write no other row that may become public has it          *)
(* (Checked), and so afterwards (Single); and a verdict that has seen its  *)
(* row pending finds it pending (SeenPending).                             *)
(***************************************************************************)
Busies(t) == upload[t].step # "idle"

Lone ==
    \A s, t \in Threads :
        s # t /\ Busies(s) /\ Busies(t)
            /\ (upload[s].file = upload[t].file \/ upload[s].id = upload[t].id)
          => upload[s].file \in loose

Hashed ==
    \A i \in Ids : content[i].file \notin loose \cup {Nothing} =>
        \/ content[i].sha = content[i].file
        \/ \E t \in Threads : /\ upload[t].step = "hash" /\ upload[t].id = i
                              /\ upload[t].file = content[i].file

InHand ==
    \A t \in Threads : upload[t].step = "hash" =>
        content[upload[t].id].file \in loose \cup {upload[t].file}

Bounded ==
    /\ loose \subseteq Files
    /\ \A i \in Ids \ contested : content[i].status \in Visible => content[i].file \in Files
    /\ \A t \in Threads : Busies(t) =>
         upload[t].file \in Files /\ content[upload[t].id].status # "none"

SeenPending ==
    \A w \in Workers : worker[w].seen /\ worker[w].id \notin contested =>
        /\ content[worker[w].id].status = "pending" \/ content[worker[w].id].file \in loose
        /\ \A x \in Workers \ {w} : worker[x].seen => worker[x].id # worker[w].id

Checked ==
    \A t \in Threads, j \in Ids \ contested :
        upload[t].step \in {"encode", "bind", "write"} /\ upload[t].file \notin loose
            /\ j # upload[t].id /\ content[j].status \in Visible
          => content[j].file # upload[t].file

Single ==
    \A i, j \in Ids \ contested :
        i # j /\ content[i].status \in Visible /\ content[j].status \in Visible
            /\ content[i].file = content[j].file
          => content[i].file \in loose

CopyInv == CatalogInv /\ Lone /\ Hashed /\ InHand /\ Bounded /\ SeenPending /\ Checked /\ Single

LEMMA CopyInitInv == Init => CopyInv
<1> SUFFICES ASSUME Init PROVE CopyInv
  OBVIOUS
<1>1. /\ \A t \in Threads : upload[t].step = "idle"
      /\ \A w \in Workers : ~ worker[w].seen
      /\ \A i \in Ids : content[i].status = "none" /\ content[i].file = Nothing
      /\ loose = {}
  BY DEF Init, NoUpload, NoPull, NoRow
<1>2. Lone /\ Hashed /\ InHand /\ Bounded /\ SeenPending /\ Checked /\ Single
  BY <1>1 DEF Lone, Busies, Hashed, InHand, Bounded, SeenPending, Checked, Single, Visible
<1> QED BY <1>2, CatalogInitInv DEF CopyInv

(* What a step that is no request's may write to a row.                     *)
Quiet(i) ==
    \/ /\ content'[i].file = content[i].file /\ content'[i].sha = content[i].sha
       /\ content[i].status # "none" => content'[i].status # "none"
       /\ content'[i].status \in Visible =>
            content[i].status \in Visible \/ i \in contested' \/ content[i].file \in loose
    \/ /\ content'[i].file \in loose' /\ content'[i].status # "none"
       /\ content[i].file \in loose' \cup {Nothing}
    \/ /\ content'[i].status = "reserved" /\ content'[i].file = Nothing
       /\ content[i].status = "none"

LEMMA QuietInv ==
    ASSUME CopyInv, CatalogInv', UNCHANGED upload, contested \subseteq contested',
           loose \subseteq loose', loose' \subseteq Files, SeenPending',
           \A i \in Ids : Quiet(i)
    PROVE  CopyInv'
<1>1. Lone'
  BY DEF CopyInv, Lone, Busies
<1>2. Hashed'
  <2> SUFFICES ASSUME NEW i \in Ids, content'[i].file \notin loose', content'[i].file # Nothing
               PROVE  \/ content'[i].sha = content'[i].file
                      \/ \E t \in Threads : /\ upload[t].step = "hash" /\ upload[t].id = i
                                            /\ upload[t].file = content'[i].file
    BY DEF Hashed
  <2>1. content'[i].file = content[i].file /\ content'[i].sha = content[i].sha
    BY DEF Quiet
  <2> QED BY <2>1 DEF CopyInv, Hashed
<1>3. InHand'
  <2> SUFFICES ASSUME NEW t \in Threads, upload[t].step = "hash"
               PROVE  content'[upload[t].id].file \in loose' \cup {upload[t].file}
    BY DEF InHand
  <2>1. upload[t].id \in Ids /\ content[upload[t].id].status # "none"
          /\ content[upload[t].id].file \in loose \cup {upload[t].file}
    BY DEF CopyInv, InHand, Bounded, Busies, CatalogInv, BusyIds
  <2> QED BY <2>1 DEF Quiet
<1>4. Bounded'
  <2>1. ASSUME NEW i \in Ids, i \notin contested', content'[i].status \in Visible
        PROVE  content'[i].file \in Files
    BY <2>1 DEF Quiet, CopyInv, Bounded, Visible
  <2>2. ASSUME NEW t \in Threads, upload[t].step # "idle"
        PROVE  upload[t].file \in Files /\ content'[upload[t].id].status # "none"
    <3>1. upload[t].id \in Ids /\ upload[t].file \in Files /\ content[upload[t].id].status # "none"
      BY <2>2 DEF CopyInv, Bounded, Busies, CatalogInv, BusyIds
    <3> QED BY <3>1 DEF Quiet
  <2> QED BY <2>1, <2>2 DEF Bounded, Busies
<1>5. Checked'
  <2> SUFFICES ASSUME NEW t \in Threads, NEW j \in Ids, j \notin contested',
                      upload[t].step \in {"encode", "bind", "write"}, upload[t].file \notin loose',
                      j # upload[t].id, content'[j].status \in Visible,
                      content'[j].file = upload[t].file
               PROVE  FALSE
    BY DEF Checked
  <2>1. content'[j].file = content[j].file /\ content[j].status \in Visible
    BY DEF Quiet, Visible
  <2> QED BY <2>1 DEF CopyInv, Checked
<1>6. Single'
  <2> SUFFICES ASSUME NEW i \in Ids, NEW j \in Ids, i \notin contested', j \notin contested', i # j,
                      content'[i].status \in Visible, content'[j].status \in Visible,
                      content'[i].file = content'[j].file, content'[i].file \notin loose'
               PROVE  FALSE
    BY DEF Single
  <2>1. content'[i].file = content[i].file /\ content[i].status \in Visible
    BY DEF Quiet, Visible
  <2>2. content'[j].file = content[j].file /\ content[j].status \in Visible
    BY DEF Quiet, Visible
  <2> QED BY <2>1, <2>2 DEF CopyInv, Single
<1> QED BY <1>1, <1>2, <1>3, <1>4, <1>5, <1>6 DEF CopyInv

(* Verdicts that have seen their row find it as they saw it.                *)
LEMMA SeenKept ==
    ASSUME CopyInv, contested \subseteq contested', loose \subseteq loose',
           \A w \in Workers : worker'[w].seen => worker[w].seen /\ worker'[w].id = worker[w].id,
           \A i \in Ids :
              (\E w \in Workers : worker'[w].seen /\ worker'[w].id = i) /\ i \notin contested' =>
                 \/ content'[i].file \in loose'
                 \/ content'[i].status = content[i].status /\ content'[i].file = content[i].file
    PROVE  SeenPending'
<1> SUFFICES ASSUME NEW w \in Workers, worker'[w].seen, worker'[w].id \notin contested'
             PROVE  /\ content'[worker'[w].id].status = "pending"
                         \/ content'[worker'[w].id].file \in loose'
                    /\ \A x \in Workers \ {w} : worker'[x].seen => worker'[x].id # worker'[w].id
  BY DEF SeenPending
<1>1. worker[w].seen /\ worker'[w].id = worker[w].id /\ worker[w].id \in Ids
        /\ worker[w].id \notin contested
  BY DEF CopyInv, CatalogInv, SeenIds
<1>2. /\ content[worker[w].id].status = "pending" \/ content[worker[w].id].file \in loose
      /\ \A x \in Workers \ {w} : worker[x].seen => worker[x].id # worker[w].id
  BY <1>1 DEF CopyInv, SeenPending
<1> QED BY <1>1, <1>2

LEMMA AdminCopies ==
    ASSUME CopyInv, CatalogInv', Admin
    PROVE  CopyInv'
<1>1. UNCHANGED <<upload, worker, contested>> /\ loose \subseteq loose'
  BY DEF Admin, Decide, Ingest, Dedup, Recaption, SetCover, SetStake, ghosts
<1>2. CASE \E i \in Ids, f \in Files : Ingest(i, f)
  <2> PICK i \in Ids, f \in Files : Ingest(i, f)
    BY <1>2
  <2> DEFINE row == [NoRow EXCEPT !.status = "approved", !.file = f]
  <2>1. Put(i, row) /\ loose' = loose \cup ({f, content[i].file} \ {Nothing})
    BY DEF Ingest
  <2>2. row.file = f /\ row.status = "approved"
    BY DEF NoRow
  <2> HIDE DEF row
  <2>3. content'[i] = row /\ \A j \in Ids : j # i => content'[j] = content[j]
    BY <2>1 DEF Put, CopyInv, CatalogInv, CatalogTypes
  <2>4. f \in Files /\ f # Nothing /\ content[i].file \in Files \cup {Nothing}
    BY CatalogAssumption DEF CopyInv, CatalogInv, CatalogTypes, RowType
  <2>5. loose' \subseteq Files
    BY <2>1, <2>4 DEF CopyInv, Bounded
  <2>6. Quiet(i) /\ \A j \in Ids : j # i => Quiet(j)
    BY <2>1, <2>2, <2>3, <2>4 DEF Quiet
  <2>7. SeenPending'
    BY <1>1, <2>1, <2>2, <2>3, <2>4, SeenKept
  <2> QED BY <1>1, <2>5, <2>6, <2>7, QuietInv
<1>3. CASE ~ \E i \in Ids, f \in Files : Ingest(i, f)
  <2>1. loose' = loose
    BY <1>3 DEF Admin, Decide, Dedup, Recaption, SetCover, SetStake, ghosts
  <2> DEFINE Modest(i) ==
        /\ content'[i].file = content[i].file /\ content'[i].sha = content[i].sha
        /\ \/ content'[i].status = content[i].status
           \/ content[i].status = "pending_review" /\ content'[i].status \in {"approved", "rejected"}
           \/ content[i].status = "approved" /\ content'[i].status = "removed"
  <2>2. \A i \in Ids : content[i] \in RowType
    BY DEF CopyInv, CatalogInv, CatalogTypes
  <2>3. ASSUME NEW k \in Ids, NEW v \in {"approved", "rejected"}, Decide(k, v), NEW i \in Ids
        PROVE  Modest(i)
    <3>1. content'[i] = IF i = k THEN [content[k] EXCEPT !.status = v] ELSE content[i]
      BY <2>3 DEF Decide, Put, CopyInv, CatalogInv, CatalogTypes
    <3>2. content[k].status = "pending_review"
      BY <2>3 DEF Decide
    <3> QED BY <2>2, <3>1, <3>2 DEF RowType
  <2>4. ASSUME NEW keep \in [Files -> Ids], Dedup(keep), NEW i \in Ids
        PROVE  Modest(i)
    <3> DEFINE row == [content[i] EXCEPT !.status = "removed"]
    <3>1. content'[i] = IF content[i].status = "approved" /\ keep[content[i].file] # i
                        THEN row ELSE content[i]
      BY <2>4 DEF Dedup
    <3> QED BY <2>2, <3>1 DEF RowType
  <2>5. ASSUME NEW k \in Ids, NEW title \in Titles, NEW r \in {"sfw", "r18"},
               Recaption(k, title, r), NEW i \in Ids
        PROVE  Modest(i)
    <3>1. content'[i] = IF i = k THEN [content[k] EXCEPT !.title = title, !.rating = r]
                        ELSE content[i]
      BY <2>5 DEF Recaption, Put, CopyInv, CatalogInv, CatalogTypes
    <3> QED BY <2>2, <3>1 DEF RowType
  <2>6. ASSUME NEW k \in Ids, NEW on \in BOOLEAN, SetCover(k, on), NEW i \in Ids
        PROVE  Modest(i)
    <3>1. content'[i] = IF i = k THEN [content[k] EXCEPT !.cover = on] ELSE content[i]
      BY <2>6 DEF SetCover, Put, CopyInv, CatalogInv, CatalogTypes
    <3> QED BY <2>2, <3>1 DEF RowType
  <2>7. ASSUME NEW i \in Ids PROVE Modest(i)
    BY <1>3, <2>3, <2>4, <2>5, <2>6 DEF Admin, SetStake
  <2>8. ASSUME NEW i \in Ids PROVE Quiet(i)
    BY <2>7 DEF Quiet, Visible
  <2>9. SeenPending'
    <3> SUFFICES ASSUME NEW w \in Workers, worker[w].seen, worker[w].id \notin contested
                 PROVE  /\ content'[worker[w].id].status = "pending"
                             \/ content'[worker[w].id].file \in loose
                        /\ \A x \in Workers \ {w} : worker[x].seen => worker[x].id # worker[w].id
      BY <1>1, <2>1 DEF SeenPending
    <3>1. worker[w].id \in Ids
      BY DEF CopyInv, CatalogInv, SeenIds
    <3>2. /\ content[worker[w].id].status = "pending" \/ content[worker[w].id].file \in loose
          /\ \A x \in Workers \ {w} : worker[x].seen => worker[x].id # worker[w].id
      BY DEF CopyInv, SeenPending
    <3> QED BY <2>7, <3>1, <3>2
  <2> QED BY <1>1, <2>1, <2>8, <2>9, QuietInv DEF CopyInv, Bounded
<1> QED BY <1>2, <1>3

LEMMA SameQuiet == UNCHANGED content => \A i \in Ids : Quiet(i)
BY DEF Quiet

LEMMA UploadInitCopies ==
    ASSUME NEW u \in Users, NEW title \in Titles, NEW from \in {0} \cup Ids, CopyInv, CatalogInv',
           UploadInit(u, title, from)
    PROVE  CopyInv'
<1> DEFINE i == Min(Rows({"none"}))
           f == IF from \in Rows({"approved"}) THEN from ELSE 0
           row == [NoRow EXCEPT !.status = "reserved", !.by = u, !.title = title, !.remixOf = f]
<1>1. i \in Ids /\ content[i].status = "none"
  <2>1. Rows({"none"}) # {} /\ Rows({"none"}) \subseteq 1 .. MaxContents
    BY DEF UploadInit, Rows, Ids
  <2> QED BY <2>1, LeastFree DEF Rows
<1>2. content' = [content EXCEPT ![i] = row] /\ UNCHANGED <<worker, contested, upload, loose>>
  BY DEF UploadInit, Put, ghosts
<1>3. row.status = "reserved" /\ row.file = Nothing
  BY DEF NoRow
<1> HIDE DEF row, i
<1>4. content'[i] = row /\ \A j \in Ids : j # i => content'[j] = content[j]
  BY <1>1, <1>2 DEF CopyInv, CatalogInv, CatalogTypes
<1>5. Quiet(i) /\ \A j \in Ids : j # i => Quiet(j)
  BY <1>1, <1>3, <1>4 DEF Quiet
<1>6. \A w \in Workers : worker[w].id # i
  BY <1>1 DEF CopyInv, CatalogInv, Pulled
<1>7. SeenPending'
  BY <1>2, <1>4, <1>6, SeenKept
<1> QED BY <1>2, <1>5, <1>7, QuietInv DEF CopyInv, Bounded

LEMMA WorkerCopies ==
    ASSUME NEW w \in Workers, CopyInv, CatalogInv', WorkerPull(w) \/ WorkerLoses(w)
    PROVE  CopyInv'
<1>1. UNCHANGED <<content, upload, contested, loose>>
  BY DEF WorkerPull, WorkerLoses, ghosts
<1>2. PICK p : worker' = [worker EXCEPT ![w] = p] /\ ~ p.seen
  <2>1. CASE WorkerLoses(w)
    BY <2>1, GivesUp DEF WorkerLoses
  <2>2. CASE WorkerPull(w)
    <3>1. PICK i, f, tr :
            worker' = [worker EXCEPT ![w] = [NoPull EXCEPT !.id = i, !.file = f, !.tier = tr]]
      BY <2>2 DEF WorkerPull
    <3>2. ~ [NoPull EXCEPT !.id = i, !.file = f, !.tier = tr].seen
      BY DEF NoPull
    <3> QED BY <3>1, <3>2
  <2> QED BY <2>1, <2>2
<1>3. \A x \in Workers : worker'[x].seen => worker'[x] = worker[x]
  BY <1>2 DEF CopyInv, CatalogInv, CatalogTypes
<1>4. SeenPending'
  BY <1>1, <1>3, SeenKept
<1> QED BY <1>1, <1>4, SameQuiet, QuietInv DEF CopyInv, Bounded

LEMMA VerdictCopies ==
    ASSUME NEW w \in Workers, CopyInv, CatalogInv', Verdict(w)
    PROVE  CopyInv'
<1> DEFINE i == worker[w].id
           p == IF content[i].status = "pending" THEN [worker[w] EXCEPT !.seen = TRUE] ELSE NoPull
           rivals == {x \in Workers \ {w} : worker[x].seen /\ worker[x].id = i}
<1>1. /\ UNCHANGED <<content, upload, loose>> /\ worker' = [worker EXCEPT ![w] = p]
      /\ contested' = IF rivals = {} \/ content[i].status # "pending" THEN contested
                      ELSE contested \cup {i}
  BY DEF Verdict
<1>2. worker[w] \in PullType
  BY DEF CopyInv, CatalogInv, CatalogTypes
<1>3. IF content[i].status = "pending" THEN p.id = i ELSE p.seen = FALSE
  BY <1>2 DEF NoPull, PullType
<1>4. \A x \in Workers : worker'[x] = IF x = w THEN p ELSE worker[x]
  BY <1>1 DEF CopyInv, CatalogInv, CatalogTypes
<1>5. contested \subseteq contested'
  BY <1>1
<1>6. ASSUME content[i].status = "pending", i \notin contested' PROVE rivals = {}
  BY <1>1, <1>6
<1> HIDE DEF p
<1>7. SeenPending'
  <2> SUFFICES ASSUME NEW x \in Workers, worker'[x].seen, worker'[x].id \notin contested'
               PROVE  /\ content[worker'[x].id].status = "pending"
                           \/ content[worker'[x].id].file \in loose
                      /\ \A y \in Workers \ {x} : worker'[y].seen => worker'[y].id # worker'[x].id
    BY <1>1 DEF SeenPending
  <2>1. CASE x = w
    <3>1. content[i].status = "pending" /\ worker'[x].id = i
      BY <1>3, <1>4, <2>1
    <3>2. rivals = {}
      BY <1>6, <3>1
    <3> QED BY <1>4, <2>1, <3>1, <3>2
  <2>2. CASE x # w
    <3>1. worker'[x] = worker[x]
      BY <1>4, <2>2
    <3>2. /\ content[worker[x].id].status = "pending" \/ content[worker[x].id].file \in loose
          /\ \A y \in Workers \ {x} : worker[y].seen => worker[y].id # worker[x].id
      BY <1>5, <3>1 DEF CopyInv, SeenPending
    <3>3. worker'[w].seen => worker'[w].id # worker[x].id
      <4> SUFFICES ASSUME p.seen, p.id = worker[x].id PROVE FALSE
        BY <1>4
      <4>1. content[i].status = "pending" /\ i = worker[x].id
        BY <1>3
      <4>2. x \in rivals /\ i \notin contested'
        BY <2>2, <3>1, <4>1
      <4> QED BY <1>6, <4>1, <4>2
    <3> QED BY <1>4, <3>1, <3>2, <3>3
  <2> QED BY <2>1, <2>2
<1> QED BY <1>1, <1>5, <1>7, SameQuiet, QuietInv DEF CopyInv, Bounded

LEMMA VerdictWriteCopies ==
    ASSUME NEW w \in Workers, NEW v \in AllVerdicts, CopyInv, CatalogInv', VerdictWrite(w, v)
    PROVE  CopyInv'
<1> DEFINE i == worker[w].id
           row == [content[i] EXCEPT !.status = v.status, !.rating = v.rating]
<1>1. /\ content' = [content EXCEPT ![i] = row] /\ worker' = [worker EXCEPT ![w] = NoPull]
      /\ UNCHANGED <<upload, contested, loose>> /\ worker[w].seen
  BY DEF VerdictWrite, Put
<1>2. i \in Ids
  BY <1>1 DEF CopyInv, CatalogInv, SeenIds
<1>3. content[i] \in RowType /\ v.status \in {"approved", "pending_review", "rejected"}
  BY <1>2 DEF AllVerdicts, CopyInv, CatalogInv, CatalogTypes
<1>4. row.status = v.status /\ row.file = content[i].file /\ row.sha = content[i].sha
  BY <1>3 DEF RowType
<1> HIDE DEF row
<1>5. content'[i] = row /\ \A j \in Ids : j # i => content'[j] = content[j]
  BY <1>1, <1>2 DEF CopyInv, CatalogInv, CatalogTypes
<1>6. i \in contested \/ content[i].status = "pending" \/ content[i].file \in loose
  BY <1>1 DEF CopyInv, SeenPending
<1>7. Quiet(i)
  BY <1>1, <1>3, <1>4, <1>5, <1>6 DEF Quiet, Visible
<1>8. \A j \in Ids : j # i => Quiet(j)
  BY <1>5 DEF Quiet
<1>9. \A x \in Workers : worker'[x] = IF x = w THEN NoPull ELSE worker[x]
  BY <1>1 DEF CopyInv, CatalogInv, CatalogTypes
<1>10. ASSUME NEW x \in Workers, worker'[x].seen, worker'[x].id = i PROVE i \in contested'
  BY <1>1, <1>9, <1>10, GivesUp DEF CopyInv, SeenPending
<1>11. SeenPending'
  <2>1. \A x \in Workers : worker'[x].seen => worker[x].seen /\ worker'[x].id = worker[x].id
    BY <1>9, GivesUp
  <2> QED BY <1>1, <1>5, <1>10, <2>1, SeenKept
<1> QED BY <1>1, <1>7, <1>8, <1>11, QuietInv DEF CopyInv, Bounded

(* A request goes on with its file, from one step to a later one, or ends   *)
(* without having written, and no row changes but for one it rejects.       *)
LEMMA UploadGoes ==
    ASSUME CopyInv, CatalogInv', NEW t \in Threads, upload[t].step \in Early,
           UNCHANGED <<worker, contested, loose>>,
           \A s \in Threads : s # t => upload'[s] = upload[s],
           \/ upload'[t].step = "idle"
           \/ /\ upload'[t].step \in {"encode", "bind", "write"}
              /\ upload'[t].id = upload[t].id /\ upload'[t].file = upload[t].file,
           upload'[t].step \in {"encode", "bind", "write"} =>
              \/ upload[t].step \in {"encode", "bind", "write"}
              \/ \A j \in Ids \ contested :
                   upload[t].file \notin loose /\ j # upload[t].id
                       /\ content[j].status \in Visible => content[j].file # upload[t].file,
           \A j \in Ids :
              \/ content'[j] = content[j]
              \/ /\ j = upload[t].id /\ content'[j].file = content[j].file
                 /\ content'[j].sha = content[j].sha /\ content'[j].status = "rejected"
    PROVE  CopyInv'
<1>1. \A s \in Threads : upload'[s].step # "idle" =>
         /\ upload[s].step # "idle" /\ upload'[s].id = upload[s].id
         /\ upload'[s].file = upload[s].file
  BY DEF Early
<1>2. \A s \in Threads : upload'[s].step = "hash" <=> upload[s].step = "hash"
  BY DEF Early
<1>3. \A j \in Ids :
         /\ content'[j].file = content[j].file /\ content'[j].sha = content[j].sha
         /\ content'[j].status \in Visible => content[j].status \in Visible
  BY DEF Visible
<1>4. Lone'
  BY <1>1 DEF CopyInv, Lone, Busies
<1>5. Hashed'
  <2> SUFFICES ASSUME NEW i \in Ids, content[i].file \notin loose, content[i].file # Nothing,
                      content[i].sha # content[i].file
               PROVE  \E s \in Threads : /\ upload'[s].step = "hash" /\ upload'[s].id = i
                                         /\ upload'[s].file = content[i].file
    BY <1>3 DEF Hashed
  <2>1. PICK s \in Threads : /\ upload[s].step = "hash" /\ upload[s].id = i
                             /\ upload[s].file = content[i].file
    BY DEF CopyInv, Hashed
  <2> QED BY <2>1 DEF Early
<1>6. InHand'
  <2> SUFFICES ASSUME NEW s \in Threads, upload'[s].step = "hash"
               PROVE  content'[upload'[s].id].file \in loose \cup {upload'[s].file}
    BY DEF InHand
  <2>1. upload[s].step = "hash" /\ upload'[s].id = upload[s].id /\ upload'[s].file = upload[s].file
    BY <1>1, <1>2
  <2>2. upload[s].id \in Ids
    BY <2>1 DEF CopyInv, CatalogInv, BusyIds
  <2> QED BY <1>3, <2>1, <2>2 DEF CopyInv, InHand
<1>7. Bounded'
  <2>1. ASSUME NEW i \in Ids, i \notin contested, content'[i].status \in Visible
        PROVE  content'[i].file \in Files
    BY <1>3, <2>1 DEF CopyInv, Bounded
  <2>2. ASSUME NEW s \in Threads, upload'[s].step # "idle"
        PROVE  upload'[s].file \in Files /\ content'[upload'[s].id].status # "none"
    <3>1. /\ upload[s].file \in Files /\ content[upload[s].id].status # "none"
          /\ upload[s].id \in Ids
      BY <1>1, <2>2 DEF CopyInv, Bounded, Busies, CatalogInv, BusyIds
    <3> QED BY <1>1, <2>2, <3>1
  <2>3. loose' \subseteq Files
    BY DEF CopyInv, Bounded
  <2> QED BY <2>1, <2>2, <2>3 DEF Bounded, Busies
<1>8. SeenPending'
  <2>1. upload[t].id \notin contested => \A w \in Workers : worker[w].id # upload[t].id
    BY DEF CopyInv, CatalogInv, Reserved, BusyIds, Early
  <2> QED BY <2>1, SeenKept
<1>9. Checked'
  <2> SUFFICES ASSUME NEW s \in Threads, NEW j \in Ids, j \notin contested,
                      upload'[s].step \in {"encode", "bind", "write"}, upload'[s].file \notin loose,
                      j # upload'[s].id, content'[j].status \in Visible,
                      content'[j].file = upload'[s].file
               PROVE  FALSE
    BY DEF Checked
  <2>1. content[j].status \in Visible /\ content[j].file = content'[j].file
          /\ upload[s].file = upload'[s].file /\ upload[s].id = upload'[s].id
    BY <1>1, <1>3
  <2> QED BY <2>1 DEF CopyInv, Checked
<1>10. Single'
  BY <1>3 DEF CopyInv, Single
<1> QED BY <1>4, <1>5, <1>6, <1>7, <1>8, <1>9, <1>10 DEF CopyInv

LEMMA GotoIs ==
    ASSUME CopyInv, NEW t \in Threads, NEW step, Goto(t, step)
    PROVE  /\ upload'[t].step = step /\ upload'[t].id = upload[t].id
           /\ upload'[t].file = upload[t].file /\ upload'[t].by = upload[t].by
           /\ \A s \in Threads : s # t => upload'[s] = upload[s]
BY DEF Goto, CopyInv, CatalogInv, CatalogTypes, UploadType

LEMMA EndIs ==
    ASSUME CopyInv, NEW t \in Threads, End(t)
    PROVE  /\ upload'[t].step = "idle"
           /\ \A s \in Threads : s # t => upload'[s] = upload[s]
BY DEF End, NoUpload, CopyInv, CatalogInv, CatalogTypes, UploadType

LEMMA RejectIs ==
    ASSUME CopyInv, NEW t \in Threads, upload[t].step \in Early, Reject(t)
    PROVE  /\ End(t)
           /\ \A j \in Ids :
                \/ content'[j] = content[j]
                \/ /\ j = upload[t].id /\ content'[j].file = content[j].file
                   /\ content'[j].sha = content[j].sha /\ content'[j].status = "rejected"
BY DEF Reject, Put, Early, CopyInv, CatalogInv, CatalogTypes, BusyIds, RowType

LEMMA UploadCheckCopies ==
    ASSUME NEW t \in Threads, CopyInv, CatalogInv', UploadCheck(t)
    PROVE  CopyInv'
<1> DEFINE r == upload[t]
           same == {i \in Ids \ {r.id} : /\ content[i].sha = r.file
                                         /\ content[i].status \notin {"rejected", "removed", "reserved"}}
<1>1. UNCHANGED <<worker, contested, loose>> /\ r.step = "check"
  BY DEF UploadCheck, ghosts
<1>2. CASE Reject(t)
  BY <1>1, <1>2, RejectIs, EndIs, UploadGoes DEF Early
<1>3. CASE same = {} /\ Goto(t, "encode") /\ UNCHANGED content
  <2>1. ASSUME NEW j \in Ids, r.file \notin loose, j # r.id,
               content[j].status \in Visible, content[j].file = r.file
        PROVE  FALSE
    <3>1. r.file \in Files /\ r.file # Nothing
      BY <1>1, CatalogAssumption DEF CopyInv, Bounded, Busies
    <3>2. CASE content[j].sha = r.file
      <4>1. j \in same
        BY <2>1, <3>2 DEF Visible
      <4> QED BY <1>3, <4>1
    <3>3. CASE \E s \in Threads : /\ upload[s].step = "hash" /\ upload[s].id = j
                                  /\ upload[s].file = r.file
      BY <1>1, <2>1, <3>3 DEF CopyInv, Lone, Busies
    <3> QED BY <2>1, <3>1, <3>2, <3>3 DEF CopyInv, Hashed
  <2> QED BY <1>1, <1>3, <2>1, GotoIs, UploadGoes DEF Early
<1> QED BY <1>2, <1>3 DEF UploadCheck

LEMMA UploadEncodeCopies ==
    ASSUME NEW t \in Threads, CopyInv, CatalogInv', UploadEncode(t) \/ UploadBind(t)
    PROVE  CopyInv'
<1>1. UNCHANGED <<worker, contested, loose>> /\ upload[t].step \in {"encode", "bind"}
  BY DEF UploadEncode, UploadBind, ghosts
<1>2. CASE Reject(t)
  BY <1>1, <1>2, RejectIs, EndIs, UploadGoes DEF Early
<1>3. CASE UNCHANGED content /\ End(t)
  BY <1>1, <1>3, EndIs, UploadGoes DEF Early
<1>4. CASE UNCHANGED content /\ (Goto(t, "bind") \/ Goto(t, "write"))
  BY <1>1, <1>4, GotoIs, UploadGoes DEF Early
<1> QED BY <1>2, <1>3, <1>4 DEF UploadEncode, UploadBind

LEMMA UploadMediaCopies ==
    ASSUME NEW t \in Threads, NEW i \in Ids, NEW f \in Files, CopyInv, CatalogInv',
           UploadMedia(t, i, f)
    PROVE  CopyInv'
<1> DEFINE r == [NoUpload EXCEPT !.step = "check", !.id = i, !.file = f, !.by = content[i].by]
           rivals == {s \in Busy : upload[s].id = i}
           others == {s \in Busy : upload[s].file = f}
           shared == {upload[s].file : s \in rivals}
<1>1. /\ upload' = [upload EXCEPT ![t] = r] /\ content[i].status = "reserved"
      /\ upload[t].step = "idle"
      /\ UNCHANGED <<content, worker>>
      /\ contested' = IF rivals = {} THEN contested ELSE contested \cup {i}
      /\ loose' = loose \cup (IF others = {} THEN {} ELSE {f})
                        \cup (IF rivals = {} THEN {} ELSE {f} \cup shared)
  BY DEF UploadMedia
<1>2. r.step = "check" /\ r.id = i /\ r.file = f
  BY DEF NoUpload
<1> HIDE DEF r
<1>3. upload'[t] = r /\ \A s \in Threads : s # t => upload'[s] = upload[s]
  BY <1>1 DEF CopyInv, CatalogInv, CatalogTypes
<1>4. contested \subseteq contested' /\ loose \subseteq loose'
  BY <1>1
<1>5. ASSUME NEW s \in Threads, s # t, upload[s].step # "idle",
             upload[s].file = f \/ upload[s].id = i
      PROVE  upload[s].file \in loose' /\ f \in loose'
  <2>1. s \in Busy
    BY <1>5 DEF Busy
  <2>2. CASE upload[s].file = f
    <3>1. others # {}
      BY <2>1, <2>2
    <3> QED BY <1>1, <2>2, <3>1
  <2>3. CASE upload[s].id = i
    <3>1. s \in rivals /\ upload[s].file \in shared
      BY <2>1, <2>3
    <3> QED BY <1>1, <3>1
  <2> QED BY <1>5, <2>2, <2>3
<1>6. Lone'
  <2> SUFFICES ASSUME NEW u \in Threads, NEW s \in Threads, u # s,
                      upload'[u].step # "idle", upload'[s].step # "idle",
                      upload'[u].file = upload'[s].file \/ upload'[u].id = upload'[s].id
               PROVE  upload'[u].file \in loose'
    BY DEF Lone, Busies
  <2>1. CASE u = t
    BY <1>2, <1>3, <1>5, <2>1
  <2>2. CASE s = t
    BY <1>2, <1>3, <1>5, <2>2
  <2>3. CASE u # t /\ s # t
    BY <1>3, <1>4, <2>3 DEF CopyInv, Lone, Busies
  <2> QED BY <2>1, <2>2, <2>3
<1>7. Hashed'
  <2> SUFFICES ASSUME NEW j \in Ids, content[j].file \notin loose, content[j].file # Nothing,
                      content[j].sha # content[j].file
               PROVE  \E s \in Threads : /\ upload'[s].step = "hash" /\ upload'[s].id = j
                                         /\ upload'[s].file = content[j].file
    BY <1>1, <1>4 DEF Hashed
  <2>1. PICK s \in Threads : /\ upload[s].step = "hash" /\ upload[s].id = j
                             /\ upload[s].file = content[j].file
    BY DEF CopyInv, Hashed
  <2> QED BY <1>1, <1>3, <2>1
<1>8. InHand'
  BY <1>1, <1>2, <1>3, <1>4 DEF CopyInv, InHand
<1>9. Bounded'
  <2>1. loose' \subseteq Files
    <3>1. shared \subseteq Files
      BY DEF Busy, CopyInv, Bounded, Busies
    <3> QED BY <1>1, <3>1 DEF CopyInv, Bounded
  <2>2. \A s \in Threads : upload'[s].step # "idle" =>
           upload'[s].file \in Files /\ content[upload'[s].id].status # "none"
    BY <1>1, <1>2, <1>3 DEF CopyInv, Bounded, Busies
  <2> QED BY <1>1, <1>4, <2>1, <2>2 DEF CopyInv, Bounded, Busies
<1>10. SeenPending'
  BY <1>1, <1>4, SeenKept
<1>11. Checked'
  BY <1>1, <1>2, <1>3, <1>4 DEF CopyInv, Checked
<1>12. Single'
  BY <1>1, <1>4 DEF CopyInv, Single
<1> QED BY <1>6, <1>7, <1>8, <1>9, <1>10, <1>11, <1>12 DEF CopyInv

LEMMA UploadWriteCopies ==
    ASSUME NEW t \in Threads, CopyInv, CatalogInv', UploadWrite(t)
    PROVE  CopyInv'
<1> DEFINE i == upload[t].id
           f == upload[t].file
           row == [content[i] EXCEPT !.file = f, !.status = "pending"]
<1>1. /\ upload[t].step = "write" /\ Goto(t, "hash")
      /\ UNCHANGED <<worker, contested, loose>> /\ content' = [content EXCEPT ![i] = row]
  BY DEF UploadWrite, Put
<1>2. i \in Ids /\ f \in Files /\ f # Nothing /\ content[i] \in RowType
  BY <1>1, CatalogAssumption
     DEF CopyInv, Bounded, Busies, CatalogInv, BusyIds, CatalogTypes
<1>3. row.file = f /\ row.status = "pending" /\ row.sha = content[i].sha
  BY <1>2 DEF RowType
<1> HIDE DEF row
<1>4. content'[i] = row /\ \A j \in Ids : j # i => content'[j] = content[j]
  BY <1>1, <1>2 DEF CopyInv, CatalogInv, CatalogTypes
<1>5. /\ upload'[t].step = "hash" /\ upload'[t].id = i /\ upload'[t].file = f
      /\ \A s \in Threads : s # t => upload'[s] = upload[s]
  BY <1>1, GotoIs
<1>6. \A s \in Threads : s # t /\ upload[s].step # "idle"
                           /\ (upload[s].file = f \/ upload[s].id = i)
                             => f \in loose /\ upload[s].file \in loose
  BY <1>1 DEF CopyInv, Lone, Busies
<1>7. Lone'
  BY <1>1, <1>5 DEF CopyInv, Lone, Busies
<1>8. Hashed'
  <2> SUFFICES ASSUME NEW j \in Ids, content'[j].file \notin loose, content'[j].file # Nothing,
                      content'[j].sha # content'[j].file
               PROVE  \E s \in Threads : /\ upload'[s].step = "hash" /\ upload'[s].id = j
                                         /\ upload'[s].file = content'[j].file
    BY <1>1 DEF Hashed
  <2>1. CASE j = i
    BY <1>3, <1>4, <1>5, <2>1
  <2>2. CASE j # i
    <3>1. PICK s \in Threads : /\ upload[s].step = "hash" /\ upload[s].id = j
                               /\ upload[s].file = content[j].file
      BY <1>4, <2>2 DEF CopyInv, Hashed
    <3> QED BY <1>1, <1>4, <1>5, <2>2, <3>1
  <2> QED BY <2>1, <2>2
<1>9. InHand'
  <2> SUFFICES ASSUME NEW s \in Threads, upload'[s].step = "hash"
               PROVE  content'[upload'[s].id].file \in loose \cup {upload'[s].file}
    BY <1>1 DEF InHand
  <2>1. CASE s = t
    BY <1>3, <1>4, <1>5, <2>1
  <2>2. CASE s # t /\ upload[s].id = i
    BY <1>3, <1>4, <1>5, <1>6, <2>2
  <2>3. CASE s # t /\ upload[s].id # i
    <3>1. upload'[s] = upload[s] /\ upload[s].id \in Ids
      BY <1>5, <2>3 DEF CopyInv, CatalogInv, BusyIds
    <3> QED BY <1>4, <2>3, <3>1 DEF CopyInv, InHand
  <2> QED BY <2>1, <2>2, <2>3
<1>10. Bounded'
  <2>1. ASSUME NEW j \in Ids, j \notin contested, content'[j].status \in Visible
        PROVE  content'[j].file \in Files
    BY <1>2, <1>3, <1>4, <2>1 DEF CopyInv, Bounded
  <2>2. ASSUME NEW s \in Threads, upload'[s].step # "idle"
        PROVE  upload'[s].file \in Files /\ content'[upload'[s].id].status # "none"
    <3>1. /\ upload[s].file \in Files /\ content[upload[s].id].status # "none"
          /\ upload[s].id \in Ids /\ upload'[s].id = upload[s].id /\ upload'[s].file = upload[s].file
      BY <1>1, <1>5, <2>2 DEF CopyInv, Bounded, Busies, CatalogInv, BusyIds
    <3> QED BY <1>3, <1>4, <3>1
  <2> QED BY <1>1, <2>1, <2>2 DEF CopyInv, Bounded, Busies
<1>11. SeenPending'
  <2>1. i \notin contested => \A w \in Workers : worker[w].id # i
    BY <1>1, <1>2 DEF CopyInv, CatalogInv, Reserved, Early
  <2> QED BY <1>1, <1>4, <2>1, SeenKept
<1>12. Checked'
  <2> SUFFICES ASSUME NEW s \in Threads, NEW j \in Ids, j \notin contested,
                      upload'[s].step \in {"encode", "bind", "write"}, upload'[s].file \notin loose,
                      j # upload'[s].id, content'[j].status \in Visible,
                      content'[j].file = upload'[s].file
               PROVE  FALSE
    BY <1>1 DEF Checked
  <2>1. s # t /\ upload'[s] = upload[s]
    BY <1>5
  <2>2. CASE j = i
    BY <1>3, <1>4, <1>6, <2>1, <2>2
  <2>3. CASE j # i
    BY <1>4, <2>1, <2>3 DEF CopyInv, Checked
  <2> QED BY <2>2, <2>3
<1>13. Single'
  <2>1. ASSUME NEW j \in Ids, j \notin contested, i # j, content[j].status \in Visible,
               content[j].file = f
        PROVE  f \in loose
    BY <1>1, <2>1 DEF CopyInv, Checked
  <2> QED BY <1>1, <1>3, <1>4, <2>1 DEF CopyInv, Single
<1> QED BY <1>7, <1>8, <1>9, <1>10, <1>11, <1>12, <1>13 DEF CopyInv

LEMMA UploadHashCopies ==
    ASSUME NEW t \in Threads, CopyInv, CatalogInv', UploadHash(t)
    PROVE  CopyInv'
<1> DEFINE i == upload[t].id
           f == upload[t].file
           row == [content[i] EXCEPT !.sha = f]
<1>1. /\ upload[t].step = "hash" /\ End(t)
      /\ UNCHANGED <<worker, contested, loose>> /\ content' = [content EXCEPT ![i] = row]
  BY DEF UploadHash, Put, ghosts
<1>2. i \in Ids /\ content[i] \in RowType
  BY <1>1 DEF CopyInv, CatalogInv, BusyIds, CatalogTypes
<1>3. row.file = content[i].file /\ row.status = content[i].status /\ row.sha = f
  BY <1>2 DEF RowType
<1> HIDE DEF row
<1>4. content'[i] = row /\ \A j \in Ids : j # i => content'[j] = content[j]
  BY <1>1, <1>2 DEF CopyInv, CatalogInv, CatalogTypes
<1>5. upload'[t].step = "idle" /\ \A s \in Threads : s # t => upload'[s] = upload[s]
  BY <1>1, EndIs
<1>6. \A j \in Ids : content'[j].file = content[j].file /\ content'[j].status = content[j].status
  BY <1>3, <1>4
<1>7. Lone'
  BY <1>1, <1>5 DEF CopyInv, Lone, Busies
<1>8. Hashed'
  <2> SUFFICES ASSUME NEW j \in Ids, content[j].file \notin loose, content[j].file # Nothing,
                      content'[j].sha # content[j].file
               PROVE  \E s \in Threads : /\ upload'[s].step = "hash" /\ upload'[s].id = j
                                         /\ upload'[s].file = content[j].file
    BY <1>1, <1>6 DEF Hashed
  <2>1. j # i
    BY <1>1, <1>3, <1>4 DEF CopyInv, InHand
  <2>2. PICK s \in Threads : /\ upload[s].step = "hash" /\ upload[s].id = j
                             /\ upload[s].file = content[j].file
    BY <1>4, <2>1 DEF CopyInv, Hashed
  <2>3. s # t
    BY <2>1, <2>2
  <2> QED BY <1>5, <2>2, <2>3
<1>9. InHand'
  <2> SUFFICES ASSUME NEW s \in Threads, upload'[s].step = "hash"
               PROVE  content'[upload'[s].id].file \in loose \cup {upload'[s].file}
    BY <1>1 DEF InHand
  <2>1. s # t /\ upload'[s] = upload[s]
    BY <1>5
  <2>2. upload[s].id \in Ids
    BY <2>1 DEF CopyInv, CatalogInv, BusyIds
  <2> QED BY <1>6, <2>1, <2>2 DEF CopyInv, InHand
<1>10. Bounded'
  <2>1. ASSUME NEW s \in Threads, upload'[s].step # "idle"
        PROVE  upload'[s].file \in Files /\ content'[upload'[s].id].status # "none"
    <3>1. s # t /\ upload'[s] = upload[s]
      BY <1>5, <2>1
    <3>2. upload[s].id \in Ids
      BY <2>1, <3>1 DEF CopyInv, CatalogInv, BusyIds
    <3> QED BY <1>6, <2>1, <3>1, <3>2 DEF CopyInv, Bounded, Busies
  <2> QED BY <1>1, <1>6, <2>1 DEF CopyInv, Bounded, Busies
<1>11. SeenPending'
  BY <1>1, <1>6, SeenKept
<1>12. Checked'
  <2> SUFFICES ASSUME NEW s \in Threads, NEW j \in Ids, j \notin contested,
                      upload'[s].step \in {"encode", "bind", "write"}, upload'[s].file \notin loose,
                      j # upload'[s].id, content'[j].status \in Visible,
                      content'[j].file = upload'[s].file
               PROVE  FALSE
    BY <1>1 DEF Checked
  <2>1. s # t /\ upload'[s] = upload[s]
    BY <1>5
  <2> QED BY <1>6, <2>1 DEF CopyInv, Checked
<1>13. Single'
  BY <1>1, <1>6 DEF CopyInv, Single
<1> QED BY <1>7, <1>8, <1>9, <1>10, <1>11, <1>12, <1>13 DEF CopyInv

LEMMA CrashCopies ==
    ASSUME CopyInv, CatalogInv', Crash
    PROVE  CopyInv'
<1> DEFINE unstored == {upload[t].file : t \in {s \in Threads : upload[s].step = "hash"}}
<1>1. /\ UNCHANGED <<content, worker, contested>> /\ loose' = loose \cup unstored
      /\ upload' = [t \in Threads |-> NoUpload]
  BY DEF Crash
<1>2. \A t \in Threads : upload'[t].step = "idle"
  BY <1>1 DEF NoUpload
<1>3. unstored \subseteq Files
  BY DEF CopyInv, Bounded, Busies
<1>4. Hashed'
  <2> SUFFICES ASSUME NEW j \in Ids, content[j].file \notin loose', content[j].file # Nothing,
                      content[j].sha # content[j].file
               PROVE  FALSE
    BY <1>1 DEF Hashed
  <2>1. PICK s \in Threads : /\ upload[s].step = "hash" /\ upload[s].id = j
                             /\ upload[s].file = content[j].file
    BY <1>1 DEF CopyInv, Hashed
  <2>2. content[j].file \in unstored
    BY <2>1
  <2> QED BY <1>1, <2>2
<1>5. Lone' /\ InHand' /\ Checked'
  BY <1>2 DEF Lone, InHand, Checked, Busies
<1>6. Bounded'
  BY <1>1, <1>2, <1>3 DEF CopyInv, Bounded, Busies
<1>7. SeenPending'
  BY <1>1, SeenKept
<1>8. Single'
  BY <1>1 DEF CopyInv, Single
<1> QED BY <1>4, <1>5, <1>6, <1>7, <1>8 DEF CopyInv

LEMMA CopyStepInv == CopyInv /\ [Next]_vars => CopyInv'
<1> SUFFICES ASSUME CopyInv, [Next]_vars PROVE CopyInv'
  OBVIOUS
<1>1. CatalogInv'
  BY CatalogStepInv DEF CopyInv
<1>2. CASE UNCHANGED vars
  BY <1>1, <1>2 DEF vars, accounts, ghosts, CopyInv, Lone, Busies, Hashed, InHand, Bounded,
                    SeenPending, Checked, Single
<1>3. ASSUME NEW t \in Threads, Uploading(t) PROVE CopyInv'
  BY <1>1, <1>3, UploadCheckCopies, UploadEncodeCopies, UploadWriteCopies, UploadHashCopies,
     UploadMediaCopies DEF Uploading
<1>4. ASSUME NEW w \in Workers, Judging(w) PROVE CopyInv'
  BY <1>1, <1>4, WorkerCopies, VerdictCopies, VerdictWriteCopies DEF Judging
<1> QED BY <1>1, <1>2, <1>3, <1>4, AdminCopies, CrashCopies, UploadInitCopies DEF Next

(* The same bytes are not published twice: the hash that is looked up       *)
(* minutes before it is written still decides, unless the uploads of one    *)
(* file overlapped, the server died in between, or two requests shared a    *)
(* row; no number of re-uploads, verdicts and ingests makes a second copy.  *)
THEOREM OnePublicCopy == Spec => []NoSecondCopy
<1>1. CopyInv => NoSecondCopy
  BY CatalogAssumption DEF CopyInv, Single, Bounded, NoSecondCopy, Rows, Visible
<1> QED BY <1>1, CopyInitInv, CopyStepInv, PTL DEF Spec

-----------------------------------------------------------------------------
(***************************************************************************)
(* What the maker of a challenge has in hand is a challenge that opens: it *)
(* is never the row of one that is there, and the only writes to a row     *)
(* that is there change its status.                                        *)
(***************************************************************************)
ChallengeType ==
    [status : {"none", "active", "over", "closed"}, by : Creators \cup {None}, pool : BOOLEAN]

ChallengeTypes ==
    /\ challenge \in [Slugs -> ChallengeType]
    /\ DOMAIN maker = Makers
    /\ \A t \in Makers :
         /\ DOMAIN maker[t] = {"step", "who", "slug", "row", "from", "code"}
         /\ maker[t].row \in ChallengeType
         /\ maker[t].step = "create" => maker[t].slug \in Slugs

LEMMA NoneMade ==
    /\ DOMAIN NoMaker = {"step", "who", "slug", "row", "from", "code"}
    /\ NoMaker.row \in ChallengeType /\ NoMaker.step = "idle" /\ NoMaker.slug = NoSlug
BY StageAssumption DEF NoMaker, NoChallenge, ChallengeType

LEMMA MakerTypes ==
    ASSUME ChallengeTypes, NEW t \in Makers, NEW r, MakerGoes(t, r),
           challenge' \in [Slugs -> ChallengeType],
           DOMAIN r = {"step", "who", "slug", "row", "from", "code"},
           r.row \in ChallengeType, r.step = "create" => r.slug \in Slugs
    PROVE  ChallengeTypes'
<1>1. DOMAIN maker' = Makers /\ \A u \in Makers : maker'[u] = IF u = t THEN r ELSE maker[u]
  BY DEF MakerGoes, ChallengeTypes
<1>2. QED
  BY <1>1 DEF ChallengeTypes

LEMMA AskTypes ==
    ASSUME NEW t \in Makers, NEW a \in Creators, NEW theme \in Themes, NEW admin \in BOOLEAN,
           ChallengeTypes, AskChallenge(t, a, theme, admin)
    PROVE  ChallengeTypes'
<1> DEFINE row == [NoChallenge EXCEPT !.status = "active", !.by = a, !.pool = admin]
           slug == <<theme, Min(FreeNumbers(theme))>>
           r == [NoMaker EXCEPT !.step = "create", !.who = a, !.slug = slug, !.row = row]
<1>1. row \in ChallengeType
  BY DEF NoChallenge, ChallengeType
<1>2. FreeNumbers(theme) # {} /\ FreeNumbers(theme) \subseteq 1 .. MaxNumber
  BY DEF AskChallenge, FreeNumbers
<1>3. slug \in Slugs
  BY <1>2, LeastFree DEF Slugs
<1>4. MakerGoes(t, r) /\ challenge' = challenge
  BY DEF AskChallenge
<1> HIDE DEF row, slug
<1>5. /\ DOMAIN r = {"step", "who", "slug", "row", "from", "code"}
      /\ r.row = row /\ r.step = "create" /\ r.slug = slug
  BY DEF NoMaker
<1> HIDE DEF r
<1> QED BY <1>1, <1>3, <1>4, <1>5, MakerTypes DEF ChallengeTypes

LEMMA CreateTypes ==
    ASSUME NEW t \in Makers, ChallengeTypes, CreateChallenge(t)
    PROVE  ChallengeTypes'
<1>1. maker[t].slug \in Slugs /\ maker[t].row \in ChallengeType
  BY DEF CreateChallenge, ChallengeTypes
<1>2. challenge' \in [Slugs -> ChallengeType]
  BY <1>1 DEF CreateChallenge, ChallengeTypes
<1>3. MakerGoes(t, NoMaker)
  BY DEF CreateChallenge
<1> QED BY <1>2, <1>3, MakerTypes, NoneMade

LEMMA StatusTypes ==
    ASSUME NEW s \in Slugs, ChallengeTypes, ChallengePasses(s) \/ CloseChallenge(s)
    PROVE  ChallengeTypes'
<1>1. PICK v \in {"over", "closed"} : challenge' = [challenge EXCEPT ![s].status = v]
  BY DEF ChallengePasses, CloseChallenge
<1>2. [challenge[s] EXCEPT !.status = v] \in ChallengeType
  BY DEF ChallengeTypes, ChallengeType
<1>3. challenge' \in [Slugs -> ChallengeType]
  BY <1>1, <1>2 DEF ChallengeTypes
<1>4. maker' = maker
  BY DEF ChallengePasses, CloseChallenge
<1> QED BY <1>3, <1>4 DEF ChallengeTypes

LEMMA RestOfMaking ==
    ASSUME NEW t \in Makers, ChallengeTypes,
           \/ ReserveEntry(t) \/ ChooseCode(t) \/ WriteCode(t)
           \/ \E a \in Creators : AskCode(t, a)
           \/ \E a \in Creators, from \in Posts \cup {None}, s \in Slugs \cup {NoSlug} :
                Reserve(t, a, from, s)
           \/ \E p \in Posts : ReserveRow(t, p)
    PROVE  ChallengeTypes' /\ challenge' = challenge
<1>1. challenge' = challenge
  BY DEF ReserveEntry, ChooseCode, WriteCode, AskCode, Reserve, ReserveRow
<1>2. CASE WriteCode(t) \/ \E p \in Posts : ReserveRow(t, p)
  <2>1. MakerGoes(t, NoMaker)
    BY <1>2 DEF WriteCode, ReserveRow
  <2> QED BY <1>1, <2>1, MakerTypes, NoneMade DEF ChallengeTypes
<1>3. CASE ReserveEntry(t)
  <2> DEFINE slug == IF ChallengeActive(maker[t].slug) THEN maker[t].slug ELSE NoSlug
             r == [maker[t] EXCEPT !.step = "row", !.slug = slug]
  <2>1. MakerGoes(t, r)
    BY <1>3 DEF ReserveEntry
  <2> HIDE DEF slug
  <2>2. DOMAIN r = {"step", "who", "slug", "row", "from", "code"}
          /\ r.row = maker[t].row /\ r.step = "row"
    BY DEF ChallengeTypes
  <2> HIDE DEF r
  <2> QED BY <1>1, <2>1, <2>2, MakerTypes DEF ChallengeTypes
<1>4. CASE ChooseCode(t)
  <2> PICK c : MakerGoes(t, [maker[t] EXCEPT !.step = "write", !.code = c])
    BY <1>4 DEF ChooseCode
  <2> DEFINE r == [maker[t] EXCEPT !.step = "write", !.code = c]
  <2>1. MakerGoes(t, r)
    OBVIOUS
  <2>2. DOMAIN r = {"step", "who", "slug", "row", "from", "code"}
          /\ r.row = maker[t].row /\ r.step = "write"
    BY DEF ChallengeTypes
  <2> HIDE DEF r
  <2> QED BY <1>1, <2>1, <2>2, MakerTypes DEF ChallengeTypes
<1>5. CASE \E a \in Creators : AskCode(t, a)
  <2> PICK a \in Creators : AskCode(t, a)
    BY <1>5
  <2> DEFINE r == [NoMaker EXCEPT !.step = "code", !.who = a]
  <2>1. MakerGoes(t, r)
    BY DEF AskCode
  <2>2. DOMAIN r = {"step", "who", "slug", "row", "from", "code"}
          /\ r.row = NoMaker.row /\ r.step = "code"
    BY DEF NoMaker
  <2> HIDE DEF r
  <2> QED BY <1>1, <2>1, <2>2, NoneMade, MakerTypes DEF ChallengeTypes
<1>6. CASE \E a \in Creators, from \in Posts \cup {None}, s \in Slugs \cup {NoSlug} :
             Reserve(t, a, from, s)
  <2> PICK a \in Creators, from \in Posts \cup {None}, s \in Slugs \cup {NoSlug} :
             Reserve(t, a, from, s)
    BY <1>6
  <2> PICK o : MakerGoes(t, [NoMaker EXCEPT !.step = "entry", !.who = a, !.slug = s, !.from = o])
    BY DEF Reserve
  <2> DEFINE r == [NoMaker EXCEPT !.step = "entry", !.who = a, !.slug = s, !.from = o]
  <2>1. MakerGoes(t, r)
    OBVIOUS
  <2>2. DOMAIN r = {"step", "who", "slug", "row", "from", "code"}
          /\ r.row = NoMaker.row /\ r.step = "entry"
    BY DEF NoMaker
  <2> HIDE DEF r
  <2> QED BY <1>1, <2>1, <2>2, NoneMade, MakerTypes DEF ChallengeTypes
<1> QED BY <1>1, <1>2, <1>3, <1>4, <1>5, <1>6

Elsewhere ==
    \/ \E p \in Posts, r18 \in BOOLEAN, s \in {"approved", "removed"} : PostModerated(p, s, r18)
    \/ \E a, b \in Creators, on \in BOOLEAN : ToggleFollow(a, b, on)
    \/ \E p, x \in Posts, on \in BOOLEAN : StoryEdge(p, x, on)
    \/ UNCHANGED stage

LEMMA StageCases ==
    ASSUME [StageNext]_stage
    PROVE  \/ Elsewhere
           \/ \E s \in Slugs : ChallengePasses(s) \/ CloseChallenge(s)
           \/ \E t \in Makers :
                \/ CreateChallenge(t)
                \/ \E a \in Creators, theme \in Themes, admin \in BOOLEAN :
                     AskChallenge(t, a, theme, admin)
                \/ ReserveEntry(t) \/ ChooseCode(t) \/ WriteCode(t)
                \/ \E a \in Creators : AskCode(t, a)
                \/ \E a \in Creators, from \in Posts \cup {None}, s \in Slugs \cup {NoSlug} :
                     Reserve(t, a, from, s)
                \/ \E p \in Posts : ReserveRow(t, p)
BY DEF StageNext, Making, Elsewhere

LEMMA ElsewhereKeeps == Elsewhere => UNCHANGED <<challenge, maker>>
BY DEF Elsewhere, PostModerated, ToggleFollow, StoryEdge, stage

LEMMA StageTyped == ChallengeTypes /\ [StageNext]_stage => ChallengeTypes'
<1> SUFFICES ASSUME ChallengeTypes, [StageNext]_stage PROVE ChallengeTypes'
  OBVIOUS
<1>1. CASE Elsewhere
  BY <1>1, ElsewhereKeeps DEF ChallengeTypes
<1> QED BY <1>1, StageCases, StatusTypes, CreateTypes, AskTypes, RestOfMaking

Kept ==
    \A s \in Slugs :
        challenge[s].status # "none" =>
            /\ challenge'[s].by = challenge[s].by /\ challenge'[s].pool = challenge[s].pool
            /\ ~ ChallengeActive(s) => ~ ChallengeActive(s)'

LEMMA StageKeeps == ChallengeTypes /\ [StageNext]_stage => Kept
<1> SUFFICES ASSUME ChallengeTypes, [StageNext]_stage, NEW s \in Slugs,
                    challenge[s].status # "none"
             PROVE  /\ challenge'[s].by = challenge[s].by
                    /\ challenge'[s].pool = challenge[s].pool
                    /\ ~ ChallengeActive(s) => ~ ChallengeActive(s)'
  BY DEF Kept
<1>1. CASE challenge' = challenge
  BY <1>1 DEF ChallengeActive
<1>2. ASSUME NEW o \in Slugs, ChallengePasses(o) \/ CloseChallenge(o)
      PROVE  /\ challenge'[s].by = challenge[s].by /\ challenge'[s].pool = challenge[s].pool
             /\ ~ ChallengeActive(s) => ~ ChallengeActive(s)'
  <2>1. PICK v \in {"over", "closed"} : challenge' = [challenge EXCEPT ![o].status = v]
    BY <1>2 DEF ChallengePasses, CloseChallenge
  <2>2. challenge'[s] = IF s = o THEN [challenge[s] EXCEPT !.status = v] ELSE challenge[s]
    BY <2>1 DEF ChallengeTypes
  <2> QED BY <2>2 DEF ChallengeTypes, ChallengeType, ChallengeActive
<1>3. ASSUME NEW t \in Makers, CreateChallenge(t)
      PROVE  challenge'[s] = challenge[s]
  BY <1>3 DEF CreateChallenge, ChallengeTypes
<1>4. CASE challenge'[s] = challenge[s]
  BY <1>4 DEF ChallengeActive
<1>5. ASSUME NEW t \in Makers, NEW a \in Creators, NEW theme \in Themes,
             NEW admin \in BOOLEAN, AskChallenge(t, a, theme, admin)
      PROVE  challenge' = challenge
  BY <1>5 DEF AskChallenge
<1> QED BY <1>1, <1>2, <1>3, <1>4, <1>5, StageCases, RestOfMaking, ElsewhereKeeps

(* "_unique_slug" picks a slug that is free, and the INSERT that follows    *)
(* finds it taken or still free: no request of any thread, and no verdict,  *)
(* changes whose challenge it is or its pool, nor opens it again.           *)
THEOREM ChallengesKept == StageSpec => ChallengeKept
<1>1. StageInit => ChallengeTypes
  <2> SUFFICES ASSUME StageInit PROVE ChallengeTypes
    OBVIOUS
  <2>1. NoChallenge \in ChallengeType
    BY StageAssumption DEF NoChallenge, ChallengeType
  <2> QED BY <2>1, NoneMade DEF StageInit, ChallengeTypes
<1>2. ChallengeTypes /\ [StageNext]_stage => Kept
  BY StageKeeps
<1>3. Kept => \A s \in Slugs :
         LET c == challenge[s] IN
         c.status # "none" =>
             /\ challenge'[s].by = c.by /\ challenge'[s].pool = c.pool
             /\ ~ ChallengeActive(s) => ~ ChallengeActive(s)'
  BY DEF Kept
<1> QED BY <1>1, <1>2, <1>3, StageTyped, PTL DEF StageSpec, ChallengeKept

-----------------------------------------------------------------------------
StreamType ==
    [step : {"idle", "resolve", "preview", "fetch", "audit"}, viewer : Viewers \cup {Nowhere},
     work : Works \cup {Nowhere}, order : SUBSET Edges, r18 : BOOLEAN]

StreamTypes ==
    /\ healthy \subseteq Edges /\ probing.alive \subseteq Edges
    /\ probing.left \subseteq Edges
    /\ work \in [Works -> [status : {"pending", "approved", "removed"}, r18 : BOOLEAN]]
    /\ stream \in [Streams -> StreamType]

(***************************************************************************)
(* The strengthening: a request for a work that was rated R18 when it was  *)
(* looked up, and that is still rated so, is an adult's or the admin's     *)
(* preview.  It carries the gate's answer over the second read of the row, *)
(* the fetches, and whatever expires in between.                           *)
(***************************************************************************)
GateInv ==
    /\ cookie \subseteq adult /\ ofAge \subseteq adult
    /\ \A s \in shown : s[1] \in adult
    /\ \A t \in Streams :
          stream[t].step \in {"resolve", "fetch"} /\ stream[t].r18 => stream[t].viewer \in adult

StreamInv == StreamTypes /\ GateInv

LEMMA StreamInitInv == StreamInit => StreamInv
BY DEF StreamInit, StreamInv, StreamTypes, GateInv, StreamType, NoStream

LEMMA Unwatched ==
    ASSUME StreamInv, UNCHANGED <<work, people, stream, shown>>,
           healthy' \subseteq Edges, probing'.alive \subseteq Edges, probing'.left \subseteq Edges
    PROVE  StreamInv'
BY DEF StreamInv, StreamTypes, GateInv, people

(* One request takes a step, with a record that keeps the gate.             *)
LEMMA OneStreams ==
    ASSUME StreamInv, NEW t \in Streams, NEW r \in StreamType, Step(t, r),
           UNCHANGED <<healthy, probing, work, people>>,
           r.step \in {"resolve", "fetch"} /\ r.r18 => r.viewer \in adult,
           \A s \in shown' : s[1] \in adult
    PROVE  StreamInv'
<1>1. stream' = [stream EXCEPT ![t] = r]
  BY DEF Step
<1>2. stream' \in [Streams -> StreamType]
  BY <1>1 DEF StreamInv, StreamTypes
<1>3. \A u \in Streams : stream'[u] = IF u = t THEN r ELSE stream[u]
  BY <1>1 DEF StreamInv, StreamTypes
<1>4. QED
  BY <1>2, <1>3 DEF StreamInv, StreamTypes, GateInv, people

LEMMA Finished == NoStream \in StreamType /\ NoStream.step = "idle"
BY DEF NoStream, StreamType

LEMMA ProbesInv ==
    StreamInv /\ (Publish \/ (\E h \in Edges : Probe(h)) \/ \E h \in Hosts : HostTurns(h))
        => StreamInv'
<1> SUFFICES ASSUME StreamInv,
                    Publish \/ (\E h \in Edges : Probe(h)) \/ \E h \in Hosts : HostTurns(h)
             PROVE  StreamInv'
  OBVIOUS
<1>1. CASE Publish
  BY <1>1, Unwatched DEF Publish, StreamInv, StreamTypes
<1>2. ASSUME NEW h \in Edges, Probe(h)
      PROVE  StreamInv'
  BY <1>2, Unwatched DEF Probe, StreamInv, StreamTypes
<1>3. ASSUME NEW h \in Hosts, HostTurns(h)
      PROVE  StreamInv'
  BY <1>3, Unwatched DEF HostTurns, StreamInv, StreamTypes
<1>4. QED
  BY <1>1, <1>2, <1>3

LEMMA RateInv ==
    ASSUME NEW t \in Streams, NEW v \in Viewers, NEW w \in Works, NEW admin \in BOOLEAN,
           StreamInv, Rate(t, v, w, admin)
    PROVE  StreamInv'
<1> DEFINE r == [NoStream EXCEPT !.step = IF admin THEN "preview" ELSE "resolve",
                                 !.viewer = v, !.work = w, !.r18 = work[w].r18]
<1>1. UNCHANGED <<healthy, probing, work, people, shown>>
  BY DEF Rate
<1>2. CASE UNCHANGED stream
  BY <1>1, <1>2, Unwatched DEF StreamInv, StreamTypes
<1>3. CASE Step(t, r) /\ ~ (work[w].r18 /\ ~ admin /\ v \notin cookie)
  <2>1. work[w].r18 \in BOOLEAN
    BY DEF StreamInv, StreamTypes
  <2>2. /\ r.step = IF admin THEN "preview" ELSE "resolve"
        /\ r.viewer = v /\ r.r18 = work[w].r18 /\ r \in StreamType
    BY <2>1 DEF NoStream, StreamType
  <2> HIDE DEF r
  <2>3. r.step \in {"resolve", "fetch"} /\ r.r18 => r.viewer \in adult
    BY <1>3, <2>2 DEF StreamInv, GateInv
  <2>4. \A s \in shown' : s[1] \in adult
    BY <1>1 DEF StreamInv, GateInv
  <2>5. QED
    BY <1>1, <1>3, <2>2, <2>3, <2>4, OneStreams
<1>4. QED
  BY <1>2, <1>3 DEF Rate

LEMMA ResolveInv ==
    ASSUME NEW t \in Streams, StreamInv, Resolve(t)
    PROVE  StreamInv'
<1> DEFINE q == stream[t]
           r == [q EXCEPT !.step = IF q.step = "preview" THEN "audit" ELSE "fetch",
                          !.order = healthy]
<1>1. /\ UNCHANGED <<healthy, probing, work, people, shown>>
      /\ q.step \in {"resolve", "preview"}
      /\ Step(t, r) \/ Step(t, NoStream)
  BY DEF Resolve, Finish
<1>2. \A s \in shown' : s[1] \in adult
  BY <1>1 DEF StreamInv, GateInv
<1>3. CASE Step(t, r)
  <2>1. q \in StreamType /\ healthy \in SUBSET Edges
    BY DEF StreamInv, StreamTypes
  <2>2. /\ r.step = IF q.step = "preview" THEN "audit" ELSE "fetch"
        /\ r.viewer = q.viewer /\ r.r18 = q.r18 /\ r \in StreamType
    BY <2>1 DEF StreamType
  <2>3. q.step = "resolve" /\ q.r18 => q.viewer \in adult
    BY DEF StreamInv, GateInv
  <2> HIDE DEF q, r
  <2>4. r.step \in {"resolve", "fetch"} /\ r.r18 => r.viewer \in adult
    BY <1>1, <2>2, <2>3
  <2>5. QED
    BY <1>1, <1>2, <1>3, <2>2, <2>4, OneStreams
<1>4. CASE Step(t, NoStream)
  BY <1>1, <1>2, <1>4, Finished, OneStreams
<1>5. QED
  BY <1>1, <1>3, <1>4

LEMMA FetchInv ==
    ASSUME NEW t \in Streams, NEW h \in Hosts, StreamInv, Answered(t, h) \/ FetchFails(t, h)
    PROVE  StreamInv'
<1> DEFINE q == stream[t]
           r == [q EXCEPT !.order = @ \ {h}]
<1>1. Step(t, r) \/ Step(t, NoStream)
  BY DEF Answered, FetchFails, Finish
<1>2. q \in StreamType /\ q.step \in {"fetch", "audit"}
        /\ (q.step = "fetch" /\ q.r18 => q.viewer \in adult)
  BY DEF StreamInv, StreamTypes, GateInv, Answered, FetchFails, Fetching
<1>3. UNCHANGED <<healthy, probing, work, people>>
  BY DEF Answered, FetchFails
<1>4. \A s \in shown' : s[1] \in adult
  BY <1>2 DEF Answered, FetchFails, StreamInv, GateInv
<1>5. CASE Step(t, r)
  <2>1. r.step = q.step /\ r.viewer = q.viewer /\ r.r18 = q.r18 /\ r \in StreamType
    BY <1>2 DEF StreamType
  <2> HIDE DEF q, r
  <2>2. QED
    BY <1>2, <1>3, <1>4, <1>5, <2>1, OneStreams
<1>6. CASE Step(t, NoStream)
  BY <1>3, <1>4, <1>6, Finished, OneStreams
<1>7. QED
  BY <1>1, <1>5, <1>6

LEMMA ModeratedInv ==
    ASSUME NEW w \in Works, NEW s \in {"approved", "removed"}, NEW r18 \in BOOLEAN,
           StreamInv, Moderated(w, s, r18)
    PROVE  StreamInv'
<1>1. /\ work' = [work EXCEPT ![w] = [status |-> s, r18 |-> r18]]
      /\ stream' = [t \in Streams |-> IF stream[t].work = w
                      THEN [stream[t] EXCEPT !.r18 = @ /\ r18] ELSE stream[t]]
      /\ UNCHANGED <<healthy, probing, people, shown>>
  BY DEF Moderated
<1>2. ASSUME NEW t \in Streams
      PROVE  /\ stream'[t] \in StreamType
             /\ stream'[t].step = stream[t].step /\ stream'[t].viewer = stream[t].viewer
             /\ stream'[t].r18 => stream[t].r18
  <2>1. stream[t] \in StreamType
    BY DEF StreamInv, StreamTypes
  <2> DEFINE r == [stream[t] EXCEPT !.r18 = @ /\ r18]
  <2>2. r \in StreamType /\ r.step = stream[t].step /\ r.viewer = stream[t].viewer
          /\ (r.r18 => stream[t].r18)
    BY <2>1 DEF StreamType
  <2> HIDE DEF r
  <2>3. stream'[t] = IF stream[t].work = w THEN r ELSE stream[t]
    BY <1>1 DEF r
  <2>4. QED
    BY <2>1, <2>2, <2>3
<1>3. stream' \in [Streams -> StreamType]
  <2>1. stream' = [t \in Streams |-> stream'[t]]
    BY <1>1
  <2>2. QED
    BY <1>2, <2>1
<1>4. work' \in [Works -> [status : {"pending", "approved", "removed"}, r18 : BOOLEAN]]
  BY <1>1 DEF StreamInv, StreamTypes
<1>5. StreamTypes'
  BY <1>1, <1>3, <1>4 DEF StreamInv, StreamTypes
<1>6. GateInv'
  BY <1>1, <1>2 DEF StreamInv, GateInv, people
<1>7. QED
  BY <1>5, <1>6 DEF StreamInv

LEMMA AgesInv ==
    ASSUME StreamInv,
           \/ \E v \in Viewers : VerifyAge(v) \/ CookieExpires(v)
           \/ \E new \in BOOLEAN : StreamRestart(new)
    PROVE  StreamInv'
<1>1. ASSUME NEW v \in Viewers, VerifyAge(v) \/ CookieExpires(v)
      PROVE  StreamInv'
  BY <1>1 DEF VerifyAge, CookieExpires, StreamInv, StreamTypes, GateInv
<1>2. ASSUME NEW new \in BOOLEAN, StreamRestart(new)
      PROVE  StreamInv'
  <2>1. stream' \in [Streams -> StreamType] /\ \A t \in Streams : stream'[t].step = "idle"
    BY <1>2, Finished DEF StreamRestart
  <2>2. StreamTypes'
    BY <1>2, <2>1 DEF StreamRestart, StreamInv, StreamTypes
  <2>3. GateInv'
    BY <1>2, <2>1 DEF StreamRestart, StreamInv, GateInv
  <2>4. QED
    BY <2>2, <2>3 DEF StreamInv
<1>3. QED
  BY <1>1, <1>2

LEMMA StreamStepInv == StreamInv /\ [StreamNext]_streaming => StreamInv'
<1>1. StreamInv /\ UNCHANGED streaming => StreamInv'
  BY DEF streaming, people, StreamInv, StreamTypes, GateInv
<1>2. QED
  BY <1>1, ProbesInv, RateInv, ResolveInv, FetchInv, ModeratedInv, AgesInv DEF StreamNext

(* play_server.py's _proxy and feed show what is rated R18 only to viewers  *)
(* who proved their age, whatever expires, restarts or is moderated while a *)
(* request is between its two reads of the row or between two edges.        *)
THEOREM AdultsOnly == StreamSpec => []AdultGated
<1>1. StreamInv => AdultGated
  BY DEF StreamInv, GateInv, AdultGated, AdultZone
<1>2. QED
  BY <1>1, StreamInitInv, StreamStepInv, PTL DEF StreamSpec

(* "Playback does not stop when all edges are dead" (play_server.py:135):   *)
(* an edge in the list is always tried before the origin is, and only the   *)
(* origin's failure ends a request, whatever the probes published.          *)
THEOREM OriginIsLast == StreamSpec => []PlaybackSurvives
<1>1. StreamInit => PlaybackSurvives
  BY DEF StreamInit, PlaybackSurvives
<1>2. ASSUME PlaybackSurvives, [StreamNext]_streaming PROVE PlaybackSurvives'
  <2>1. CASE UNCHANGED lost
    BY <1>2, <2>1 DEF PlaybackSurvives
  <2>2. CASE \E t \in Streams, h \in Hosts : FetchFails(t, h)
    <3>1. PICK t \in Streams, h \in Hosts : FetchFails(t, h)
      BY <2>2
    <3>2. stream[t].order = {} => h = Origin
      BY <3>1 DEF FetchFails, NextHosts
    <3>3. stream[t].order = {} => Origin \notin up
      BY <3>1, <3>2 DEF FetchFails
    <3>4. lost' = lost + 0
      BY <3>1, <3>3 DEF FetchFails
    <3> QED BY <1>2, <3>4 DEF PlaybackSurvives
  <2>3. UNCHANGED lost \/ \E t \in Streams, h \in Hosts : FetchFails(t, h)
    BY <1>2 DEF StreamNext, streaming, Probe, Publish, Rate, Resolve, Answered, HostTurns,
       Moderated, VerifyAge, CookieExpires, StreamRestart
  <2> QED BY <2>1, <2>2, <2>3
<1> QED BY <1>1, <1>2, PTL DEF StreamSpec

-----------------------------------------------------------------------------
(***************************************************************************)
(* morm-core: the first submission wins.  Types; then what ties a row, a   *)
(* directory and a manifest of a stem that was encoded once (Submitted);   *)
(* and what an acceptance left to show at the time (Firsts).               *)
(***************************************************************************)
CellType ==
    [frames : Seq(Images), windows : Seq(Seq(Nat)), changes : Seq(Nat), diffs : Seq(Nat)]
Named == [cells : Seq(CellType), drawn : Nat]
ManifestType ==
    [cells : Seq(CellType), drawn : Nat, generation : Generations \cup {NoGeneration, Unsaid}]
SubmissionType ==
    [id : Named, generation : Generations \cup {NoGeneration, Unsaid},
     status : {"accepted", "rejected"}, winner : Named, dir : Stems, cells : Seq(CellType)]

ScreenTypes ==
    /\ cellsDir \in [Stems -> Seq(CellType)] /\ manifest \in [Stems -> ManifestType]
    /\ encoding \subseteq Stems /\ encodes \in Nat /\ (encoding # {} => encodes # 0)
    /\ held \in [Screeners -> [stem : Stems \cup {Unsaid}, manifest : ManifestType]]
    /\ \A p \in Screeners : held[p] # NoHold => held[p].stem \in Stems
    /\ contents \in Seq(SubmissionType)

Rejections == {i \in DOMAIN contents : contents[i].status = "rejected"}

Submitted ==
    /\ \A p \in Screeners : held[p] # NoHold /\ held[p].stem \notin reused =>
         held[p].manifest = manifest[held[p].stem] /\ manifest[held[p].stem] # NoManifest
    /\ \A i \in DOMAIN contents : contents[i].dir \notin reused =>
         /\ manifest[contents[i].dir] # NoManifest
         /\ contents[i].id = ContentId(manifest[contents[i].dir])
         /\ contents[i].cells = manifest[contents[i].dir].cells
InPlace ==
    /\ \A s \in Stems \ reused : manifest[s] # NoManifest =>
         /\ s \notin encoding
         /\ cellsDir[s] = manifest[s].cells \/ \E i \in Rejections : contents[i].dir = s
    /\ \A s \in sweep : \E i \in Rejections : contents[i].dir = s
Once == \A i, j \in DOMAIN contents : contents[i].id = contents[j].id => i = j

Firsts ==
    \A i, j \in Accepted : i < j =>
        /\ contents[j].cells # <<>> =>
             Matched(contents[j].cells, contents[i].cells) < Needed(Len(contents[j].cells))
        /\ contents[j].generation = NoGeneration \/
             contents[j].generation # contents[i].generation

ScreenInv == ScreenTypes /\ Submitted /\ InPlace /\ Once /\ Firsts

(* A repetition matches in every cell                                       *)

LEMMA SameHash == ASSUME NEW a PROVE Hamming(a, a) = 0
<1>1. {i \in DOMAIN a : a[i] # a[i]} = {}
  OBVIOUS
<1> QED BY <1>1, FS_EmptySet DEF Hamming

\* The first or the last of the frames there are.
LEMMA FrameThere ==
    ASSUME NEW n \in Nat \ {0}, NEW i \in 1..Keyframes
    PROVE  Min({i, n}) \in 1..n
<1>1. i \in Nat /\ i >= 1 /\ n >= 1
  BY VHashAssumption
<1>2. \E x \in {i, n} : \A y \in {i, n} : x <= y
  BY <1>1
<1>3. Min({i, n}) \in {i, n} /\ \A y \in {i, n} : Min({i, n}) <= y
  BY <1>2 DEF Min
<1> QED BY <1>1, <1>3

LEMMA FramesSame ==
    ASSUME NEW old \in Seq(Images), NEW new,
           new = [f \in DOMAIN old |-> [x \in Images |-> x][old[f]]]
    PROVE  new = old
OBVIOUS

LEMMA FramesMirrored ==
    ASSUME NEW old \in Seq(Images), NEW new, new = [f \in DOMAIN old |-> Flip[old[f]]]
    PROVE  ExtractKeyframes(new) = Transpose(ExtractKeyframes(old))
<1>1. new \in Seq(Images) /\ Len(new) = Len(old) /\ DOMAIN new = DOMAIN old
  <2>1. Flip \in [Images -> Images]
    BY VHashAssumption
  <2>2. DOMAIN old = 1..Len(old) /\ Len(old) \in Nat /\ \A f \in 1..Len(old) : Flip[old[f]] \in Images
    BY <2>1
  <2>3. new \in [1..Len(old) -> Images] /\ Len(old) \in Nat
    BY <2>2
  <2> QED BY <2>2, <2>3
<1>2. CASE old = <<>>
  <2>1. new = <<>>
    BY <1>1, <1>2
  <2> QED BY <1>2, <2>1 DEF ExtractKeyframes, Transpose
<1>3. CASE old # <<>>
  <2>1. new # <<>> /\ Len(old) \in Nat \ {0}
    BY <1>1, <1>3
  <2> DEFINE at(i) == Min({i, Len(old)})
  <2>2. \A i \in 1..Keyframes : at(i) \in 1..Len(old)
    BY <2>1, FrameThere
  <2> HIDE DEF at
  <2>3. ExtractKeyframes(old) = [i \in 1..Keyframes |-> old[at(i)]]
    BY <1>3 DEF ExtractKeyframes, at
  <2>4. ExtractKeyframes(new) = [i \in 1..Keyframes |-> new[at(i)]]
    <3>1. ExtractKeyframes(new) = [i \in 1..Keyframes |-> new[Min({i, Len(new)})]]
      BY <2>1 DEF ExtractKeyframes
    <3>2. Len(new) = Len(old)
      BY <1>1
    <3> QED BY <3>1, <3>2 DEF at
  <2>5. \A i \in 1..Keyframes : new[at(i)] = Flip[old[at(i)]]
    BY <2>2
  <2>6. Transpose(ExtractKeyframes(old)) = [i \in 1..Keyframes |-> Flip[old[at(i)]]]
    BY <2>3 DEF Transpose
  <2> QED BY <2>4, <2>5, <2>6
<1> QED BY <1>2, <1>3

\* A hash of no windows is silent.
LEMMA NoSound == AudioFingerprint(<<>>) = Zeros(AudioFrames * AudioBands) /\ Silent(AudioFingerprint(<<>>))
<1>1. Len(<<>>) < AudioFrames
  BY VHashAssumption
<1>2. AudioFingerprint(<<>>) = Zeros(AudioFrames * AudioBands)
  BY <1>1 DEF AudioFingerprint
<1> QED BY <1>2 DEF Silent, Zeros

LEMMA CellRepeated ==
    ASSUME NEW old \in CellType, NEW new \in CellType,
           NEW image \in {Flip, [x \in Images |-> x]},
           new.frames = [f \in DOMAIN old.frames |-> image[old.frames[f]]],
           new.windows \in {old.windows, <<>>}
    PROVE  CellMatches(Vhash(new), Vhash(old))
<1> DEFINE a == Vhash(new)
           b == Vhash(old)
<1>1. /\ a.visual = PhashConcat(ExtractKeyframes(new.frames))
      /\ b.visual = PhashConcat(ExtractKeyframes(old.frames))
      /\ b.flipped = PhashConcat(Transpose(ExtractKeyframes(old.frames)))
      /\ a.audio = AudioFingerprint(new.windows) /\ b.audio = AudioFingerprint(old.windows)
  BY DEF Vhash
<1>2. old.frames \in Seq(Images)
  BY DEF CellType
<1>3. a.visual = b.visual \/ a.visual = b.flipped
  <2>1. CASE image = Flip
    BY <1>1, <1>2, <2>1, FramesMirrored
  <2>2. CASE image = [x \in Images |-> x]
    BY <1>1, <1>2, <2>2, FramesSame
  <2> QED BY <2>1, <2>2
<1>4. Silent(a.audio) \/ a.audio = b.audio
  BY <1>1, NoSound
<1> HIDE DEF a, b
<1>5. VisualMatch(a, b)
  BY <1>3, SameHash, ScreeningAssumption DEF VisualMatch
<1>6. CellMatches(a, b)
  BY <1>4, <1>5, SameHash, ScreeningAssumption DEF CellMatches
<1> QED BY <1>6 DEF a, b

LEMMA RepeatsMatch ==
    ASSUME NEW old \in Seq(CellType), NEW new \in Seq(CellType),
           NEW image \in {Flip, [x \in Images |-> x]}, Repeats(new, old, image)
    PROVE  Matched(new, old) >= Needed(Len(new))
<1>1. Len(new) = Len(old) /\ new # <<>> /\ DOMAIN new = 1..Len(new) /\ DOMAIN old = 1..Len(new)
      /\ Len(new) \in Nat \ {0}
  BY DEF Repeats
<1>2. \A k \in DOMAIN new : CellMatches(Vhash(new[k]), Vhash(old[k]))
  <2> SUFFICES ASSUME NEW k \in DOMAIN new PROVE CellMatches(Vhash(new[k]), Vhash(old[k]))
    OBVIOUS
  <2>1. new[k] \in CellType /\ old[k] \in CellType
    BY <1>1
  <2>2. /\ new[k].frames = [f \in DOMAIN old[k].frames |-> image[old[k].frames[f]]]
        /\ new[k].windows \in {old[k].windows, <<>>}
    BY DEF Repeats
  <2> QED BY <2>1, <2>2, CellRepeated
<1>3. {i \in DOMAIN new : \E j \in DOMAIN old : CellMatches(Vhash(new[i]), Vhash(old[j]))} = 1..Len(new)
  BY <1>1, <1>2
<1>4. Matched(new, old) = Len(new)
  <2>1. Cardinality(1..Len(new)) = Len(new)
    <3>1. 1 \in Int /\ Len(new) \in Int /\ ~ (1 > Len(new)) /\ Len(new) - 1 + 1 = Len(new)
      BY <1>1
    <3> QED BY <3>1, FS_Interval
  <2> QED BY <1>3, <2>1 DEF Matched
<1> QED BY <1>1, <1>4 DEF Needed

LEMMA MatchedNat ==
    ASSUME NEW new \in Seq(CellType), NEW old PROVE Matched(new, old) \in Nat
<1> DEFINE S == {i \in DOMAIN new : \E j \in DOMAIN old : CellMatches(Vhash(new[i]), Vhash(old[j]))}
<1>1. IsFiniteSet(1..Len(new)) /\ S \subseteq 1..Len(new)
  BY FS_Interval
<1> HIDE DEF S
<1>2. Cardinality(S) \in Nat
  BY <1>1, FS_Subset, FS_CardinalityType
<1> QED BY <1>2 DEF Matched, S

(* What a ruling says                                                       *)

LEMMA RulingSays ==
    ASSUME ScreenTypes, NEW h \in [stem : Stems, manifest : ManifestType], NEW r \in Ruling(h)
    PROVE  /\ r \in SubmissionType
           /\ r.dir = h.stem /\ r.cells = h.manifest.cells /\ r.id = ContentId(h.manifest)
           /\ r.generation = h.manifest.generation
           /\ r.status = "accepted" => SameGeneration(h.manifest) = {} /\ Duplicates(h.manifest) = {}
<1> DEFINE m == h.manifest
<1>1. ContentId(m) \in Named /\ NoWinner \in Named
  BY DEF ContentId, NoWinner, Named, ManifestType
<1>2. \A i \in Accepted : contents[i].id \in Named
  <2>1. \A i \in DOMAIN contents : contents[i] \in SubmissionType
    BY DEF ScreenTypes
  <2> QED BY <2>1 DEF SubmissionType, Accepted
<1>3. SameGeneration(m) \subseteq Accepted /\ Duplicates(m) \subseteq Accepted
  BY DEF SameGeneration, Duplicates
<1>4. \A w \in Named, st \in {"accepted", "rejected"} :
        /\ Row(h, st, w) \in SubmissionType /\ Row(h, st, w).status = st
        /\ Row(h, st, w).dir = h.stem /\ Row(h, st, w).cells = m.cells
        /\ Row(h, st, w).id = ContentId(m) /\ Row(h, st, w).generation = m.generation
  BY <1>1 DEF Row, SubmissionType, ManifestType
<1>5. \E w \in Named, st \in {"accepted", "rejected"} :
        /\ r = Row(h, st, w)
        /\ st = "accepted" => SameGeneration(m) = {} /\ Duplicates(m) = {}
  <2>1. CASE SameGeneration(m) # {}
    <3>1. r \in {Row(h, "rejected", contents[i].id) : i \in SameGeneration(m)}
      BY <2>1 DEF Ruling
    <3> QED BY <1>2, <1>3, <3>1
  <2>2. CASE SameGeneration(m) = {} /\ (MotionFake(m) \/ Tampered(h))
    <3>1. r = Row(h, "rejected", NoWinner)
      BY <2>2 DEF Ruling
    <3> QED BY <1>1, <3>1
  <2>3. CASE SameGeneration(m) = {} /\ ~ (MotionFake(m) \/ Tampered(h)) /\ Duplicates(m) # {}
    <3>1. r \in {Row(h, "rejected", contents[i].id) : i \in Duplicates(m)}
      BY <2>3 DEF Ruling
    <3> QED BY <1>2, <1>3, <3>1
  <2>4. CASE SameGeneration(m) = {} /\ ~ (MotionFake(m) \/ Tampered(h)) /\ Duplicates(m) = {}
    <3>1. r = Row(h, "accepted", NoWinner)
      BY <2>4 DEF Ruling
    <3> QED BY <1>1, <2>4, <3>1
  <2> QED BY <2>1, <2>2, <2>3, <2>4
<1> QED BY <1>4, <1>5

\* A row more: what was there stays, accepted or rejected as it was.
LEMMA OneMoreRow ==
    ASSUME contents \in Seq(SubmissionType), NEW r \in SubmissionType, contents' = Append(contents, r)
    PROVE  /\ contents' \in Seq(SubmissionType) /\ Len(contents') = Len(contents) + 1
           /\ DOMAIN contents' = DOMAIN contents \cup {Len(contents) + 1}
           /\ Len(contents) + 1 \notin DOMAIN contents /\ DOMAIN contents = 1 .. Len(contents)
           /\ \A i \in DOMAIN contents : contents'[i] = contents[i] /\ i < Len(contents) + 1
           /\ contents'[Len(contents) + 1] = r
           /\ Rejections \subseteq Rejections'
           /\ Accepted' = Accepted \cup (IF r.status = "accepted" THEN {Len(contents) + 1} ELSE {})
<1>1. /\ contents' \in Seq(SubmissionType) /\ Len(contents') = Len(contents) + 1
      /\ DOMAIN contents' = DOMAIN contents \cup {Len(contents) + 1}
      /\ Len(contents) + 1 \notin DOMAIN contents /\ DOMAIN contents = 1 .. Len(contents)
      /\ \A i \in DOMAIN contents : contents'[i] = contents[i] /\ i < Len(contents) + 1
      /\ contents'[Len(contents) + 1] = r
  OBVIOUS
<1>2. Rejections \subseteq Rejections'
  BY <1>1 DEF Rejections
<1>3. Accepted' = Accepted \cup (IF r.status = "accepted" THEN {Len(contents) + 1} ELSE {})
  BY <1>1 DEF Accepted
<1> QED BY <1>1, <1>2, <1>3

LEMMA ScreenKeeps ==
    ASSUME ScreenInv, NEW p \in Screeners, Screen(p)
    PROVE  ScreenInv'
<1>1. ScreenTypes /\ Submitted /\ InPlace /\ Once /\ Firsts
  BY DEF ScreenInv
<1>2. /\ held[p] # NoHold /\ held' = [held EXCEPT ![p] = NoHold]
      /\ UNCHANGED <<cellsDir, manifest, encoding, sweep, reused, encodes>>
  BY DEF Screen
<1>3. NoHold \in [stem : Stems \cup {Unsaid}, manifest : ManifestType]
  BY DEF NoHold, NoManifest, ManifestType
<1>4. /\ held' \in [Screeners -> [stem : Stems \cup {Unsaid}, manifest : ManifestType]]
      /\ held'[p] = NoHold /\ \A q \in Screeners \ {p} : held'[q] = held[q]
  BY <1>1, <1>2, <1>3 DEF ScreenTypes
<1>5. CASE UNCHANGED contents
  <2>1. ScreenTypes'
    BY <1>1, <1>2, <1>4, <1>5 DEF ScreenTypes
  <2>2. Submitted'
    BY <1>1, <1>2, <1>4, <1>5 DEF Submitted
  <2>3. InPlace' /\ Once' /\ Firsts'
    BY <1>1, <1>2, <1>5 DEF InPlace, Once, Firsts, Rejections, Accepted
  <2> QED BY <2>1, <2>2, <2>3 DEF ScreenInv
<1>6. CASE /\ \A i \in DOMAIN contents : contents[i].id # ContentId(held[p].manifest)
           /\ \E r \in Ruling(held[p]) : contents' = Append(contents, r)
  <2> DEFINE h == held[p]
             m == held[p].manifest
             new == Len(contents) + 1
  <2>1. PICK r \in Ruling(h) : contents' = Append(contents, r)
    BY <1>6
  <2>2. h \in [stem : Stems, manifest : ManifestType]
    BY <1>1, <1>2 DEF ScreenTypes
  <2>3. /\ r \in SubmissionType
        /\ r.dir = h.stem /\ r.cells = m.cells /\ r.id = ContentId(m)
        /\ r.generation = m.generation
        /\ r.status = "accepted" => SameGeneration(m) = {} /\ Duplicates(m) = {}
    BY <1>1, <2>1, <2>2, RulingSays
  <2>4. contents \in Seq(SubmissionType)
    BY <1>1 DEF ScreenTypes
  <2>5. /\ contents' \in Seq(SubmissionType)
        /\ DOMAIN contents' = DOMAIN contents \cup {new}
        /\ new \notin DOMAIN contents /\ DOMAIN contents = 1 .. Len(contents)
        /\ \A i \in DOMAIN contents : contents'[i] = contents[i] /\ i < new
        /\ contents'[new] = r
        /\ Rejections \subseteq Rejections'
        /\ Accepted' = Accepted \cup (IF r.status = "accepted" THEN {new} ELSE {})
    BY <2>1, <2>3, <2>4, OneMoreRow
  <2> HIDE DEF h, m, new
  <2>6. ScreenTypes'
    BY <1>1, <1>2, <1>4, <2>5 DEF ScreenTypes
  <2>7. Submitted'
    <3>1. r.dir \notin reused => /\ manifest[r.dir] # NoManifest
                                 /\ r.id = ContentId(manifest[r.dir]) /\ r.cells = manifest[r.dir].cells
      BY <1>1, <1>2, <2>3 DEF Submitted, h, m
    <3>2. \A i \in DOMAIN contents' : contents'[i].dir \notin reused =>
            /\ manifest[contents'[i].dir] # NoManifest
            /\ contents'[i].id = ContentId(manifest[contents'[i].dir])
            /\ contents'[i].cells = manifest[contents'[i].dir].cells
      BY <1>1, <2>5, <3>1 DEF Submitted
    <3> QED BY <1>1, <1>2, <1>4, <3>2 DEF Submitted, ContentId
  <2>8. InPlace'
    <3>1. \A i \in Rejections : i \in DOMAIN contents /\ contents'[i] = contents[i] /\ i \in Rejections'
      BY <2>5 DEF Rejections
    <3> QED BY <1>1, <1>2, <3>1 DEF InPlace
  <2>9. Once'
    BY <1>1, <1>6, <2>3, <2>5 DEF Once, m
  <2>10. Firsts'
    <3>1. \A i \in Accepted : i \in DOMAIN contents
      BY DEF Accepted
    <3>2. m.cells \in Seq(CellType)
      BY <2>2 DEF m, h, ManifestType
    <3>3. ASSUME r.status = "accepted", NEW i \in Accepted
          PROVE  /\ m.cells # <<>> => Matched(m.cells, contents[i].cells) < Needed(Len(m.cells))
                 /\ m.generation = NoGeneration \/ m.generation # contents[i].generation
      <4>1. i \notin Duplicates(m) /\ i \notin SameGeneration(m)
        BY <2>3, <3>3
      <4>2. m.cells # <<>> => ~ (Matched(m.cells, contents[i].cells) >= Needed(Len(m.cells)))
        BY <4>1 DEF Duplicates
      <4>3. m.generation = NoGeneration \/ m.generation # contents[i].generation
        BY <4>1 DEF SameGeneration
      <4>4. Matched(m.cells, contents[i].cells) \in Nat
        BY <3>2, MatchedNat
      <4>5. Needed(Len(m.cells)) \in Int
        BY <3>2 DEF Needed
      <4> QED BY <4>2, <4>3, <4>4, <4>5
    <3>4. ASSUME NEW i \in Accepted', NEW j \in Accepted', i < j
          PROVE  /\ contents'[j].cells # <<>> =>
                      Matched(contents'[j].cells, contents'[i].cells) < Needed(Len(contents'[j].cells))
                 /\ contents'[j].generation = NoGeneration \/ contents'[j].generation # contents'[i].generation
      <4>1. i \in DOMAIN contents' /\ j \in DOMAIN contents' /\ new \in Int /\ \A k \in DOMAIN contents : k \in Int
        BY <2>5 DEF Accepted, new
      <4>2. i \in Accepted
        BY <2>5, <3>1, <3>4, <4>1
      <4>3. contents'[i] = contents[i]
        BY <2>5, <3>1, <4>2
      <4>4. CASE j \in Accepted
        BY <1>1, <2>5, <3>1, <3>4, <4>2, <4>3, <4>4 DEF Firsts
      <4>5. CASE j = new /\ r.status = "accepted"
        BY <2>3, <2>5, <3>3, <4>2, <4>3, <4>5
      <4> QED BY <2>5, <3>4, <4>4, <4>5
    <3> QED BY <3>4 DEF Firsts, Accepted
  <2> QED BY <2>6, <2>7, <2>8, <2>9, <2>10 DEF ScreenInv
<1> QED BY <1>5, <1>6 DEF Screen

\* The rows stay: a step that only moves files, manifests and readers.
LEMMA RowsStay ==
    ASSUME ScreenInv, UNCHANGED contents, ScreenTypes', Submitted', InPlace'
    PROVE  ScreenInv'
<1>1. Once' /\ Firsts'
  BY DEF ScreenInv, Once, Firsts, Accepted
<1> QED BY <1>1 DEF ScreenInv

\* What follows the cells of a clip is the tail of an earlier one.
LEMMA Overwrites ==
    ASSUME NEW S, NEW clip \in Seq(S), NEW old \in Seq(S)
    PROVE  clip \o SubSeq(old, Len(clip) + 1, Len(old)) \in Seq(S)
<1>1. SubSeq(old, Len(clip) + 1, Len(old)) \in Seq(S)
  OBVIOUS
<1> QED BY <1>1

LEMMA EncodeKeeps == ASSUME ScreenInv, NEW s \in Stems, NEW clip \in Clips, EncodeCells(s, clip) PROVE ScreenInv'
<1>1. ScreenTypes /\ Submitted /\ InPlace
  BY DEF ScreenInv
<1>2. /\ encodes' = encodes + 1 /\ s \notin encoding /\ encoding' = encoding \cup {s}
      /\ reused' = IF manifest[s] = NoManifest THEN reused ELSE reused \cup {s}
      /\ UNCHANGED <<manifest, held, contents, sweep>>
  BY DEF EncodeCells
<1>3. cellsDir' \in [Stems -> Seq(CellType)] /\ \A u \in Stems \ {s} : cellsDir'[u] = cellsDir[u]
  <2>1. clip \in Seq(CellType) /\ cellsDir[s] \in Seq(CellType)
    BY <1>1, ScreeningAssumption DEF ScreenTypes, CellType
  <2>2. clip \o SubSeq(cellsDir[s], Len(clip) + 1, Len(cellsDir[s])) \in Seq(CellType)
    BY <2>1, Overwrites
  <2> QED BY <1>1, <2>2 DEF ScreenTypes, EncodeCells
<1>4. ScreenTypes'
  BY <1>1, <1>2, <1>3 DEF ScreenTypes
<1>5. reused \subseteq reused' /\ \A u \in Stems \ reused' : manifest[u] # NoManifest => u # s
  BY <1>2
<1>6. Submitted'
  BY <1>1, <1>2, <1>5 DEF Submitted
<1>7. InPlace'
  BY <1>1, <1>2, <1>3, <1>5 DEF InPlace, Rejections
<1> QED BY <1>2, <1>4, <1>6, <1>7, RowsStay

LEMMA WriteKeeps ==
    ASSUME ScreenInv, NEW s \in Stems, NEW gen \in Generations \cup {NoGeneration}, WriteManifest(s, gen)
    PROVE  ScreenInv'
<1> DEFINE new == [cells |-> cellsDir[s], drawn |-> IF cellsDir[s] = <<>> THEN encodes ELSE 0,
                   generation |-> gen]
<1>1. ScreenTypes /\ Submitted /\ InPlace
  BY DEF ScreenInv
<1>2. /\ s \in encoding /\ encoding' = encoding \ {s} /\ manifest' = [manifest EXCEPT ![s] = new]
      /\ UNCHANGED <<cellsDir, held, contents, sweep, reused, encodes>>
  BY DEF WriteManifest
<1>3. new \in ManifestType /\ new # NoManifest /\ new.cells = cellsDir[s]
  BY <1>1, <1>2 DEF ScreenTypes, ManifestType, NoManifest
<1> HIDE DEF new
<1>4. manifest' \in [Stems -> ManifestType] /\ manifest'[s] = new /\ \A u \in Stems \ {s} : manifest'[u] = manifest[u]
  BY <1>1, <1>2, <1>3 DEF ScreenTypes
<1>5. ScreenTypes'
  BY <1>1, <1>2, <1>4 DEF ScreenTypes
<1>6. s \notin reused => manifest[s] = NoManifest
  BY <1>1, <1>2 DEF InPlace
<1>7. Submitted'
  <2>1. \A p \in Screeners : held[p] # NoHold => held[p].stem \in Stems
    BY <1>1 DEF ScreenTypes
  <2>2. \A i \in DOMAIN contents : contents[i].dir \in Stems
    <3>1. \A i \in DOMAIN contents : contents[i] \in SubmissionType
      BY <1>1 DEF ScreenTypes
    <3> QED BY <3>1 DEF SubmissionType
  <2> QED BY <1>1, <1>2, <1>4, <1>6, <2>1, <2>2 DEF Submitted
<1>8. InPlace'
  BY <1>1, <1>2, <1>3, <1>4 DEF InPlace, Rejections
<1> QED BY <1>2, <1>5, <1>7, <1>8, RowsStay

LEMMA ReadKeeps == ASSUME ScreenInv, NEW p \in Screeners, NEW s \in Stems, ReadManifest(p, s) PROVE ScreenInv'
<1> DEFINE new == [stem |-> s, manifest |-> manifest[s]]
<1>1. ScreenTypes /\ Submitted /\ InPlace
  BY DEF ScreenInv
<1>2. /\ manifest[s] # NoManifest /\ held' = [held EXCEPT ![p] = new]
      /\ UNCHANGED <<cellsDir, manifest, encoding, contents, sweep, reused, encodes>>
  BY DEF ReadManifest
<1>3. new \in [stem : Stems \cup {Unsaid}, manifest : ManifestType] /\ new.stem = s /\ new.manifest = manifest[s]
  BY <1>1 DEF ScreenTypes
<1> HIDE DEF new
<1>4. /\ held' \in [Screeners -> [stem : Stems \cup {Unsaid}, manifest : ManifestType]]
      /\ held'[p] = new /\ \A q \in Screeners \ {p} : held'[q] = held[q]
  BY <1>1, <1>2, <1>3 DEF ScreenTypes
<1>5. ScreenTypes'
  BY <1>1, <1>2, <1>3, <1>4 DEF ScreenTypes
<1>6. Submitted'
  BY <1>1, <1>2, <1>3, <1>4 DEF Submitted
<1>7. InPlace'
  BY <1>1, <1>2 DEF InPlace, Rejections
<1> QED BY <1>2, <1>5, <1>6, <1>7, RowsStay

LEMMA SelectKeeps == ASSUME ScreenInv, GcSelect PROVE ScreenInv'
<1>1. ScreenTypes /\ Submitted /\ InPlace
  BY DEF ScreenInv
<1>2. /\ sweep' = {contents[i].dir : i \in DOMAIN contents \ Accepted}
      /\ UNCHANGED <<cellsDir, manifest, encoding, held, contents, reused, encodes, screens>>
  BY DEF GcSelect
<1>3. DOMAIN contents \ Accepted = Rejections
  <2>1. \A i \in DOMAIN contents : contents[i] \in SubmissionType
    BY <1>1 DEF ScreenTypes
  <2> QED BY <2>1 DEF Accepted, Rejections, SubmissionType
<1>4. ScreenTypes' /\ Submitted'
  BY <1>1, <1>2 DEF ScreenTypes, Submitted
<1>5. InPlace'
  BY <1>1, <1>2, <1>3 DEF InPlace, Rejections
<1> QED BY <1>2, <1>4, <1>5, RowsStay

LEMMA DeleteKeeps == ASSUME ScreenInv, NEW s \in Stems, GcDelete(s) PROVE ScreenInv'
<1>1. ScreenTypes /\ Submitted /\ InPlace
  BY DEF ScreenInv
<1>2. /\ s \in sweep /\ sweep' = sweep \ {s} /\ cellsDir' = [cellsDir EXCEPT ![s] = <<>>]
      /\ UNCHANGED <<manifest, encoding, held, contents, reused, encodes, screens>>
  BY DEF GcDelete
<1>3. cellsDir' \in [Stems -> Seq(CellType)] /\ \A u \in Stems \ {s} : cellsDir'[u] = cellsDir[u]
  BY <1>1, <1>2 DEF ScreenTypes
<1>4. ScreenTypes' /\ Submitted'
  BY <1>1, <1>2, <1>3 DEF ScreenTypes, Submitted
<1>5. InPlace'
  BY <1>1, <1>2, <1>3 DEF InPlace, Rejections
<1> QED BY <1>2, <1>4, <1>5, RowsStay

LEMMA ScreenBegins == ScreenInit => ScreenInv
<1> SUFFICES ASSUME ScreenInit PROVE ScreenInv
  OBVIOUS
<1>1. NoManifest \in ManifestType /\ NoHold \in [stem : Stems \cup {Unsaid}, manifest : ManifestType]
  BY DEF NoManifest, NoHold, ManifestType
<1>2. ScreenTypes
  BY <1>1 DEF ScreenInit, ScreenTypes
<1>3. Submitted /\ InPlace /\ Once /\ Firsts
  BY DEF ScreenInit, Submitted, InPlace, Once, Firsts, Accepted
<1> QED BY <1>2, <1>3 DEF ScreenInv

LEMMA ScreenStep == ScreenInv /\ [ScreenNext]_screening => ScreenInv'
<1> SUFFICES ASSUME ScreenInv, [ScreenNext]_screening PROVE ScreenInv'
  OBVIOUS
<1>1. CASE ScreenNext
  BY <1>1, EncodeKeeps, WriteKeeps, DeleteKeeps, ReadKeeps, ScreenKeeps, SelectKeeps DEF ScreenNext
<1>2. CASE UNCHANGED screening
  <2>1. ScreenTypes' /\ Submitted' /\ InPlace'
    BY <1>2 DEF screening, ScreenInv, ScreenTypes, Submitted, InPlace, Rejections
  <2> QED BY <1>2, <2>1, RowsStay DEF screening
<1> QED BY <1>1, <1>2

\* Among the accepted no later one repeats half of an earlier one, shows the same
\* or the mirrored frames with the same sound or none, or has its generation_id;
\* and the sweep leaves the cells of what was accepted where they are (_find_duplicate,
\* screen, gc_rejected), however encodes, submissions and sweeps interleave.
THEOREM FirstAlwaysWins == ScreenSpec => []FirstWins
<1>1. ScreenInv => FirstWins
  <2> SUFFICES ASSUME ScreenInv PROVE FirstWins
    OBVIOUS
  <2>1. ScreenTypes /\ Submitted /\ InPlace /\ Once /\ Firsts
    BY DEF ScreenInv
  <2>2. \A i \in Accepted : i \in DOMAIN contents /\ contents[i].cells \in Seq(CellType) /\ contents[i].dir \in Stems
    <3>1. \A i \in DOMAIN contents : contents[i] \in SubmissionType
      BY <2>1 DEF ScreenTypes
    <3> QED BY <3>1 DEF Accepted, SubmissionType
  <2>3. ASSUME NEW j \in Accepted, NEW i \in Accepted, i < j, NEW image \in {Flip, [x \in Images |-> x]},
               Repeats(contents[j].cells, contents[i].cells, image)
        PROVE  FALSE
    <3>1. Matched(contents[j].cells, contents[i].cells) >= Needed(Len(contents[j].cells))
      BY <2>2, <2>3, RepeatsMatch
    <3>2. Matched(contents[j].cells, contents[i].cells) < Needed(Len(contents[j].cells))
      BY <2>1, <2>3 DEF Firsts, Repeats
    <3>3. Matched(contents[j].cells, contents[i].cells) \in Nat /\ Needed(Len(contents[j].cells)) \in Int
      BY <2>2, MatchedNat DEF Needed
    <3> QED BY <3>1, <3>2, <3>3
  <2>4. ASSUME NEW j \in Accepted, contents[j].dir \notin reused
        PROVE  cellsDir[contents[j].dir] = contents[j].cells
    <3> DEFINE s == contents[j].dir
    <3>1. manifest[s] # NoManifest /\ contents[j].id = ContentId(manifest[s]) /\ contents[j].cells = manifest[s].cells
      BY <2>1, <2>2, <2>4 DEF Submitted
    <3>2. ASSUME NEW i \in Rejections, contents[i].dir = s PROVE FALSE
      <4>1. contents[i].id = ContentId(manifest[s]) /\ i \in DOMAIN contents
        BY <2>1, <2>4, <3>2 DEF Submitted, Rejections
      <4>2. i = j
        BY <2>1, <2>2, <3>1, <4>1 DEF Once
      <4> QED BY <4>2 DEF Accepted, Rejections
    <3> QED BY <2>1, <2>2, <2>4, <3>1, <3>2 DEF InPlace
  <2>5. ASSUME NEW j \in Accepted, NEW i \in Accepted, i < j
        PROVE  /\ contents[j].cells # <<>> =>
                    Matched(contents[j].cells, contents[i].cells) < Needed(Len(contents[j].cells))
               /\ contents[j].generation \in {NoGeneration} \/
                    contents[j].generation # contents[i].generation
    BY <2>1, <2>5 DEF Firsts
  <2>6. ASSUME NEW j \in Accepted
        PROVE  ~ \E i \in Accepted : i < j /\ \E image \in {Flip, [x \in Images |-> x]} :
                 Repeats(contents[j].cells, contents[i].cells, image)
    BY <2>3
  <2>7. ASSUME NEW j \in Accepted
        PROVE  \A i \in Accepted : i < j =>
                 /\ contents[j].cells # <<>> =>
                      Matched(contents[j].cells, contents[i].cells) < Needed(Len(contents[j].cells))
                 /\ contents[j].generation \in {NoGeneration} \/
                      contents[j].generation # contents[i].generation
    BY <2>5
  <2> QED BY <2>4, <2>6, <2>7, Zenon DEF FirstWins
<1>2. QED
  BY <1>1, ScreenBegins, ScreenStep, PTL DEF ScreenSpec

-----------------------------------------------------------------------------
(***************************************************************************)
(* morm-core: what the commands leave behind.  While hls-encode renames,   *)
(* the first segments of a rung are listed under their hashes and the      *)
(* others are yet to be renamed, in the order of the text (Turned).        *)
(***************************************************************************)
SegmentData == {d \in Sources \X Rungs \X Nat : d[3] \in 1..Segments[d[1]]}
Hashes == {Unknown} \X SegmentData
SegmentType ==
    {f \in [n : Nat, tag : {Unknown} \cup Hashes, data : SegmentData] :
        f.tag \in {Unknown, <<Unknown, f.data>>}}
SegmentName == [n : Nat, tag : {Unknown} \cup Hashes]
PackingType ==
    {Idle} \cup {[step |-> "ffmpeg", id |-> i, src |-> s] : i \in MediaIds, s \in Sources}
    \cup [step : {"glob"}, id : MediaIds, rung : Rungs, listed : [Rungs -> Seq(SegmentType)]]
    \cup [step : {"rename"}, id : MediaIds, rung : Rungs, listed : [Rungs -> Seq(SegmentType)],
          todo : SUBSET SegmentType, text : Seq(SegmentName)]
    \cup [step : {"manifest"}, id : MediaIds, listed : [Rungs -> Seq(SegmentType)]]

HlsTypes ==
    /\ files \in [MediaIds -> [Rungs -> SUBSET SegmentType]]
    /\ playlist \in [MediaIds -> [Rungs -> Seq(SegmentName)]]
    /\ listing \in [MediaIds -> [Rungs -> Seq(SegmentType)] \cup {Unknown}]
    /\ cut \in [MediaIds -> {"never", "before", "last"}]
    /\ packing \in PackingType
    /\ packing.step = "ffmpeg" => packing.id \in {packing.src} \cup GivenIds

Listed(fs, list) == \A k \in DOMAIN list : list[k] \in fs /\ ~ Unrenamed(list[k])
Renaming == packing.step \in {"glob", "rename", "manifest"}
Fit(i) == cut[i] = "never" \/ i \in Sources

ListedStays ==
    /\ \A i \in MediaIds, r \in Rungs : listing[i] # Unknown => Listed(files[i][r], listing[i][r])
    /\ \A r \in Rungs : Renaming => Listed(files[packing.id][r], packing.listed[r])
Leftovers ==
    \A i \in MediaIds, r \in Rungs : \A f \in files[i][r] : Unrenamed(f) =>
        /\ i \in Sources => f.n <= Segments[i]
        /\ cut[i] # "never" \/ (Renaming /\ packing.id = i)
Settled ==
    \A i \in MediaIds, r \in Rungs :
        listing[i] # Unknown /\ ~ (Renaming /\ packing.id = i) /\ cut[i] # "last" /\ Fit(i) =>
            playlist[i][r] = [k \in DOMAIN listing[i][r] |-> NameOf(listing[i][r][k])]

Turned(fs, text, list) ==
    /\ Len(list) <= Len(text)
    /\ \A k \in 1..Len(list) : text[k] = NameOf(list[k])
    /\ \A k \in (Len(list) + 1)..Len(text) :
         text[k] = Plain(k) /\ \E f \in fs : Unrenamed(f) /\ f.n = k
    /\ \A f \in fs : Unrenamed(f) => f.n \in (Len(list) + 1)..Len(text)
    /\ \A f, g \in fs : Unrenamed(f) /\ Unrenamed(g) /\ f.n = g.n => f = g
RungDone(r) == packing.step = "manifest" \/ r < packing.rung
TextOf(r) ==
    IF packing.step = "rename" /\ packing.rung = r THEN packing.text ELSE playlist[packing.id][r]
UnderWay ==
    /\ packing.step = "rename" =>
         packing.todo = {f \in files[packing.id][packing.rung] : Unrenamed(f)}
    /\ Renaming /\ Fit(packing.id) => \A r \in Rungs :
         /\ Turned(files[packing.id][r], TextOf(r), packing.listed[r])
         /\ RungDone(r) => Len(packing.listed[r]) = Len(playlist[packing.id][r])
         /\ ~ RungDone(r) => packing.listed[r] = <<>> \/ (packing.step = "rename" /\ packing.rung = r)

HlsInv == HlsTypes /\ ListedStays /\ Leftovers /\ Settled /\ UnderWay

\* A number says which segments are the same; the name with the hash, whichever
LEMMA HashTells ==
    /\ \A d \in SegmentData : <<Unknown, d>> # Unknown
    /\ \A h \in Hashes : h # Unknown
<1>1. ASSUME NEW d \in SegmentData PROVE <<Unknown, d>> # Unknown
  <2>1. /\ d[1] \in Sources /\ d[2] \in Rungs /\ d[3] \in 1..Segments[d[1]]
        /\ d = <<d[1], d[2], d[3]>>
    BY DEF SegmentData
  <2>2. <<Unknown, <<d[1], d[2], d[3]>>>> # Unknown
    BY <2>1, MediaAssumption
  <2> QED BY <2>1, <2>2
<1>2. ASSUME NEW h \in Hashes PROVE h # Unknown
  <2>1. PICK d \in SegmentData : h = <<Unknown, d>>
    BY DEF Hashes
  <2> QED BY <1>1, <2>1
<1> QED BY <1>1, <1>2

LEMMA TaggedSegment ==
    ASSUME NEW f \in SegmentType, Unrenamed(f)
    PROVE  /\ Tagged(f) \in SegmentType /\ ~ Unrenamed(Tagged(f)) /\ Tagged(f).n = f.n
           /\ Tagged(f) # f
           /\ \A g \in SegmentType : NameOf(g) = NameOf(Tagged(f)) => g = Tagged(f)
<1> DEFINE t == [n |-> f.n, tag |-> <<Unknown, f.data>>, data |-> f.data]
<1>1. /\ f.n \in Nat /\ f.data \in SegmentData /\ f.tag = Unknown
      /\ f = [n |-> f.n, tag |-> f.tag, data |-> f.data]
  BY DEF SegmentType, Unrenamed
<1>2. Tagged(f) = t
  BY <1>1 DEF Tagged
<1>3. t \in SegmentType /\ t.tag # Unknown
  BY <1>1, HashTells DEF SegmentType, Hashes
<1>4. ASSUME NEW g \in SegmentType, NameOf(g) = NameOf(t) PROVE g = t
  <2>1. /\ g = [n |-> g.n, tag |-> g.tag, data |-> g.data]
        /\ g.tag \in {Unknown, <<Unknown, g.data>>}
    BY DEF SegmentType
  <2>2. g.n = f.n /\ g.tag = <<Unknown, f.data>>
    BY <1>4 DEF NameOf
  <2>3. g.tag # Unknown
    BY <1>3, <2>2
  <2>4. g.data = f.data
    BY <2>1, <2>2, <2>3
  <2> QED BY <2>1, <2>2, <2>4
<1> QED BY <1>1, <1>2, <1>3, <1>4 DEF Unrenamed

LEMMA WrittenSegments ==
    ASSUME NEW i \in MediaIds, NEW s \in Sources, NEW r \in Rungs, NEW k \in 1..Segments[s],
           files[i][r] \subseteq SegmentType
    PROVE  /\ Written(i, s, r, k) \subseteq SegmentType
           /\ \A f \in files[i][r] : ~ Unrenamed(f) => f \in Written(i, s, r, k)
           /\ \A f \in Written(i, s, r, k) : Unrenamed(f) =>
                \/ f \in files[i][r] /\ f.n > k
                \/ f.n \in 1..k /\ f = [n |-> f.n, tag |-> Unknown, data |-> <<s, r, f.n>>]
           /\ \A n \in 1..k : [n |-> n, tag |-> Unknown, data |-> <<s, r, n>>] \in Written(i, s, r, k)
<1>1. Segments[s] \in Nat
  BY MediaAssumption
<1>2. ASSUME NEW n \in 1..k PROVE [n |-> n, tag |-> Unknown, data |-> <<s, r, n>>] \in SegmentType
  <2>1. <<s, r, n>> \in SegmentData
    BY <1>1 DEF SegmentData
  <2> QED BY <1>1, <2>1 DEF SegmentType
<1>3. Written(i, s, r, k) = {f \in files[i][r] : f.tag # Unknown \/ f.n > k}
                              \cup {[n |-> n, tag |-> Unknown, data |-> <<s, r, n>>] : n \in 1..k}
  BY DEF Written
<1>4. Written(i, s, r, k) \subseteq SegmentType
  BY <1>2, <1>3
<1>5. \A f \in files[i][r] : ~ Unrenamed(f) => f \in Written(i, s, r, k)
  BY <1>3 DEF Unrenamed
<1>6. ASSUME NEW f \in Written(i, s, r, k), Unrenamed(f)
      PROVE  \/ f \in files[i][r] /\ f.n > k
             \/ f.n \in 1..k /\ f = [n |-> f.n, tag |-> Unknown, data |-> <<s, r, f.n>>]
  BY <1>3, <1>6 DEF Unrenamed
<1> QED BY <1>3, <1>4, <1>5, <1>6

LEMMA FreshTurned ==
    ASSUME NEW i \in MediaIds, NEW s \in Sources, NEW r \in Rungs,
           files[i][r] \subseteq SegmentType,
           \A f \in files[i][r] : Unrenamed(f) => f.n <= Segments[s]
    PROVE  Turned(Written(i, s, r, Segments[s]), [k \in 1..Segments[s] |-> Plain(k)], <<>>)
<1> DEFINE size == Segments[s]
           fs == Written(i, s, r, size)
           text == [k \in 1..size |-> Plain(k)]
<1>1. size \in Nat /\ size \in 1..size
  BY MediaAssumption
<1>2. /\ fs \subseteq SegmentType
      /\ \A f \in fs : Unrenamed(f) =>
           \/ f \in files[i][r] /\ f.n > size
           \/ f.n \in 1..size /\ f = [n |-> f.n, tag |-> Unknown, data |-> <<s, r, f.n>>]
      /\ \A n \in 1..size : [n |-> n, tag |-> Unknown, data |-> <<s, r, n>>] \in fs
  BY <1>1, WrittenSegments
<1> HIDE DEF fs
<1>3. \A f \in fs : f.n \in Nat
  BY <1>2 DEF SegmentType
<1>4. \A f \in fs : Unrenamed(f) =>
        f.n \in 1..size /\ f = [n |-> f.n, tag |-> Unknown, data |-> <<s, r, f.n>>]
  BY <1>1, <1>2, <1>3
<1>5. \A n \in 1..size : \E f \in fs : Unrenamed(f) /\ f.n = n
  BY <1>2 DEF Unrenamed
<1>6. Len(text) = size /\ Len(<<>>) = 0 /\ \A k \in 1..size : text[k] = Plain(k)
  BY <1>1
<1>7. Turned(fs, text, <<>>)
  BY <1>1, <1>4, <1>5, <1>6 DEF Turned
<1> QED BY <1>7 DEF fs

LEMMA RenameTurned ==
    ASSUME NEW fs \in SUBSET SegmentType, NEW text \in Seq(SegmentName),
           NEW list \in Seq(SegmentType), Turned(fs, text, list), Listed(fs, list),
           NEW f \in fs, Unrenamed(f), \A g \in fs : Unrenamed(g) => f.n <= g.n
    PROVE  LET t == Tagged(f)
           IN  Turned({g \in fs : g # f /\ NameOf(g) # NameOf(t)} \cup {t},
                      [k \in DOMAIN text |-> IF text[k] = NameOf(f) THEN NameOf(t) ELSE text[k]],
                      Append(list, t))
<1> DEFINE t == Tagged(f)
           new == {g \in fs : g # f /\ NameOf(g) # NameOf(t)} \cup {t}
           said == [k \in DOMAIN text |-> IF text[k] = NameOf(f) THEN NameOf(t) ELSE text[k]]
           longer == Append(list, t)
           m == Len(list)
<1>1. /\ t \in SegmentType /\ ~ Unrenamed(t) /\ t.n = f.n
      /\ \A g \in SegmentType : NameOf(g) = NameOf(t) => g = t
  BY TaggedSegment
<1>2. /\ m \in Nat /\ Len(text) \in Nat /\ DOMAIN text = 1..Len(text) /\ DOMAIN list = 1..m
      /\ Len(longer) = m + 1 /\ longer[m + 1] = t /\ \A k \in 1..m : longer[k] = list[k]
      /\ Len(said) = Len(text)
  BY <1>1
<1>3. /\ m <= Len(text)
      /\ \A k \in 1..m : text[k] = NameOf(list[k])
      /\ \A k \in (m + 1)..Len(text) :
           text[k] = Plain(k) /\ \E g \in fs : Unrenamed(g) /\ g.n = k
      /\ \A g \in fs : Unrenamed(g) => g.n \in (m + 1)..Len(text)
      /\ \A g, h \in fs : Unrenamed(g) /\ Unrenamed(h) /\ g.n = h.n => g = h
  BY DEF Turned
<1>4. f.n = m + 1 /\ m + 1 <= Len(text)
  <2>1. f.n \in (m + 1)..Len(text)
    BY <1>3
  <2>2. PICK g \in fs : Unrenamed(g) /\ g.n = m + 1
    BY <1>2, <1>3, <2>1
  <2> QED BY <1>2, <2>1, <2>2
<1>5. NameOf(f) = Plain(m + 1)
  BY <1>4 DEF NameOf, Plain, Unrenamed
<1>6. \A g \in fs : Unrenamed(g) => (g \in new <=> g # f)
  BY <1>1 DEF NameOf, Unrenamed
<1>7. \A g \in new : Unrenamed(g) => g \in fs /\ g # f
  BY <1>1
<1> HIDE DEF t, new, longer, m
<1>8. ASSUME NEW k \in 1..m PROVE said[k] = NameOf(longer[k])
  <2>1. text[k] = NameOf(list[k]) /\ ~ Unrenamed(list[k]) /\ k \in DOMAIN text
    BY <1>2, <1>3 DEF Listed
  <2>2. text[k] # NameOf(f)
    BY <2>1 DEF NameOf, Unrenamed
  <2> QED BY <1>2, <2>1, <2>2
<1>9. said[m + 1] = NameOf(longer[m + 1])
  BY <1>2, <1>3, <1>4, <1>5
<1>10. ASSUME NEW k \in (m + 2)..Len(text)
       PROVE  said[k] = Plain(k) /\ \E g \in new : Unrenamed(g) /\ g.n = k
  <2>1. k \in (m + 1)..Len(text) /\ k # m + 1 /\ k \in DOMAIN text
    BY <1>2
  <2>2. text[k] = Plain(k) /\ Plain(k) # NameOf(f)
    BY <1>3, <1>5, <2>1 DEF Plain
  <2>3. PICK g \in fs : Unrenamed(g) /\ g.n = k
    BY <1>3, <2>1
  <2>4. g \in new
    BY <1>4, <1>6, <2>1, <2>3
  <2> QED BY <2>1, <2>2, <2>3, <2>4
<1>11. ASSUME NEW g \in new, Unrenamed(g) PROVE g.n \in (m + 2)..Len(text)
  <2>1. g \in fs /\ g # f /\ g.n \in (m + 1)..Len(text)
    BY <1>3, <1>7, <1>11
  <2>2. g.n # m + 1
    BY <1>3, <1>4, <1>11, <2>1
  <2> QED BY <1>2, <2>1, <2>2
<1>12. \A g, h \in new : Unrenamed(g) /\ Unrenamed(h) /\ g.n = h.n => g = h
  BY <1>3, <1>7
<1> HIDE DEF said
<1>13. Turned(new, said, longer)
  <2>1. Len(longer) <= Len(said) /\ Len(longer) + 1 = m + 2
    BY <1>2, <1>4
  <2>2. \A k \in 1..Len(longer) : said[k] = NameOf(longer[k])
    BY <1>2, <1>8, <1>9
  <2> QED BY <1>2, <1>10, <1>11, <1>12, <2>1, <2>2 DEF Turned
<1> QED BY <1>13 DEF new, said, longer, t

-----------------------------------------------------------------------------
LEMMA Stages ==
    ASSUME HlsTypes
    PROVE  /\ packing.step \in {"idle", "ffmpeg", "glob", "rename", "manifest"}
           /\ packing.step = "idle" <=> packing = Idle
           /\ packing.step = "ffmpeg" =>
                packing.id \in MediaIds /\ packing.src \in Sources
                /\ packing.id \in {packing.src} \cup GivenIds
           /\ Renaming => packing.id \in MediaIds /\ packing.listed \in [Rungs -> Seq(SegmentType)]
           /\ packing.step \in {"glob", "rename"} => packing.rung \in Rungs
           /\ packing.step = "rename" =>
                /\ packing = [step |-> "rename", id |-> packing.id, rung |-> packing.rung,
                              listed |-> packing.listed, todo |-> packing.todo, text |-> packing.text]
                /\ packing.todo \in SUBSET SegmentType /\ packing.text \in Seq(SegmentName)
BY DEF HlsTypes, PackingType, Renaming, Idle

LEMMA Ladder == 1 \in Rungs /\ \A r \in Rungs : r \in Nat /\ r >= 1
<1>1. PICK top \in Rungs : top \in Nat /\ Rungs = 1..top
  BY MediaAssumption
<1> QED BY <1>1

LEMMA EncodeHlsKeeps ==
    ASSUME HlsInv, NEW src \in Sources, NEW id \in MediaIds, EncodeHls(src, id)
    PROVE  HlsInv'
<1>1. HlsTypes /\ ListedStays /\ Leftovers /\ Settled
  BY DEF HlsInv
<1>2. /\ packing = Idle /\ id \in {src} \cup GivenIds
      /\ packing' = [step |-> "ffmpeg", id |-> id, src |-> src]
      /\ UNCHANGED <<files, playlist, listing, cut>>
  BY DEF EncodeHls
<1>3. ~ Renaming /\ ~ Renaming'
  BY <1>2 DEF Renaming, Idle
<1>4. HlsTypes'
  BY <1>1, <1>2 DEF HlsTypes, PackingType
<1>5. ListedStays'
  BY <1>1, <1>2, <1>3 DEF ListedStays, Listed
<1>6. Leftovers' /\ Settled'
  BY <1>1, <1>2, <1>3 DEF Leftovers, Settled, Fit
<1>7. UnderWay'
  BY <1>2, <1>3 DEF UnderWay
<1> QED BY <1>4, <1>5, <1>6, <1>7 DEF HlsInv

LEMMA FfmpegKeeps == ASSUME HlsInv, Ffmpeg PROVE HlsInv'
<1> DEFINE i == packing.id
           s == packing.src
           n == Segments[s]
<1>1. HlsTypes /\ ListedStays /\ Leftovers /\ Settled
  BY DEF HlsInv
<1>2. /\ packing.step = "ffmpeg"
      /\ files' = [files EXCEPT ![i] = [r \in Rungs |-> Written(i, s, r, n)]]
      /\ playlist' = [playlist EXCEPT ![i] = [r \in Rungs |-> [k \in 1..n |-> Plain(k)]]]
      /\ packing' = [step |-> "glob", id |-> i, rung |-> 1, listed |-> [r \in Rungs |-> <<>>]]
      /\ UNCHANGED <<listing, cut>>
  BY DEF Ffmpeg
<1>3. i \in MediaIds /\ s \in Sources /\ i \in {s} \cup GivenIds /\ n \in Nat /\ n \in 1..n
  BY <1>1, <1>2, Stages, MediaAssumption
<1>4. ~ Renaming /\ Renaming' /\ packing'.id = i /\ (Sources \cap GivenIds = {})
  BY <1>2, MediaAssumption DEF Renaming
<1>5. /\ files \in [MediaIds -> [Rungs -> SUBSET SegmentType]]
      /\ playlist \in [MediaIds -> [Rungs -> Seq(SegmentName)]]
  BY <1>1 DEF HlsTypes
<1> HIDE DEF i, s, n
<1>6. ASSUME NEW r \in Rungs
      PROVE  /\ Written(i, s, r, n) \subseteq SegmentType
             /\ \A f \in files[i][r] : ~ Unrenamed(f) => f \in Written(i, s, r, n)
             /\ \A f \in Written(i, s, r, n) : Unrenamed(f) =>
                  \/ f \in files[i][r] /\ f.n > n
                  \/ f.n \in 1..n
  <2>1. files[i][r] \subseteq SegmentType /\ n \in 1..Segments[s]
    BY <1>3, <1>5 DEF n
  <2> QED BY <1>3, <2>1, WrittenSegments, Zenon
<1>7. /\ \A r \in Rungs : files'[i][r] = Written(i, s, r, n) /\ playlist'[i][r] = [k \in 1..n |-> Plain(k)]
      /\ \A j \in MediaIds \ {i} : files'[j] = files[j] /\ playlist'[j] = playlist[j]
      /\ files' \in [MediaIds -> [Rungs -> SUBSET SegmentType]]
  BY <1>2, <1>3, <1>5, <1>6
<1>8. playlist' \in [MediaIds -> [Rungs -> Seq(SegmentName)]]
  <2>1. [k \in 1..n |-> Plain(k)] \in Seq(SegmentName)
    BY <1>3 DEF Plain, SegmentName
  <2> QED BY <1>2, <1>3, <1>5, <2>1
<1>9. packing' \in PackingType /\ packing'.step = "glob" /\ packing'.rung = 1
      /\ packing'.listed = [r \in Rungs |-> <<>>]
  BY <1>2, <1>3, Ladder DEF PackingType
<1>10. HlsTypes'
  BY <1>1, <1>2, <1>7, <1>8, <1>9 DEF HlsTypes
<1>11. ListedStays'
  <2>1. ASSUME NEW j \in MediaIds, NEW r \in Rungs, listing[j] # Unknown
        PROVE  Listed(files'[j][r], listing[j][r])
    <3>1. Listed(files[j][r], listing[j][r])
      BY <1>1, <2>1 DEF ListedStays
    <3>2. CASE j # i
      <4>1. files'[j][r] = files[j][r]
        BY <1>7, <3>2
      <4> QED BY <3>1, <4>1
    <3>3. CASE j = i
      <4>1. files'[j][r] = Written(i, s, r, n)
        BY <1>7, <3>3
      <4>2. \A k \in DOMAIN listing[j][r] :
              listing[j][r][k] \in files[i][r] /\ ~ Unrenamed(listing[j][r][k])
        BY <3>1, <3>3 DEF Listed
      <4> QED BY <1>6, <4>1, <4>2 DEF Listed
    <3> QED BY <3>2, <3>3
  <2>2. \A r \in Rungs : Listed(files'[i][r], packing'.listed[r])
    BY <1>9 DEF Listed
  <2> QED BY <1>2, <1>4, <2>1, <2>2 DEF ListedStays
<1>12. ASSUME NEW r \in Rungs, NEW f \in files[i][r], Unrenamed(f), i \in Sources \/ cut[i] = "never"
       PROVE  f.n <= n
  <2>1. i \in Sources /\ i = s
    BY <1>1, <1>3, <1>4, <1>12 DEF Leftovers
  <2> QED BY <1>1, <1>3, <1>12, <2>1 DEF Leftovers, n
<1>13. Leftovers'
  <2>1. ASSUME NEW j \in MediaIds, NEW r \in Rungs, NEW f \in files'[j][r], Unrenamed(f)
        PROVE  /\ j \in Sources => f.n <= Segments[j]
               /\ cut[j] # "never" \/ j = i
    <3>1. CASE j # i
      BY <1>1, <1>4, <1>7, <2>1, <3>1 DEF Leftovers
    <3>2. CASE j = i /\ i \in Sources
      <4>1. i = s /\ f \in Written(i, s, r, n)
        BY <1>3, <1>4, <1>7, <3>2
      <4>2. f.n <= n
        BY <1>3, <1>6, <1>12, <2>1, <3>2, <4>1
      <4> QED BY <3>2, <4>1, <4>2 DEF n
    <3> QED BY <3>1, <3>2
  <2> QED BY <1>2, <1>4, <2>1 DEF Leftovers, Unrenamed
<1>14. Settled'
  <2>1. ASSUME NEW j \in MediaIds, NEW r \in Rungs, listing[j] # Unknown, j # i, cut[j] # "last", Fit(j)
        PROVE  playlist'[j][r] = [k \in DOMAIN listing[j][r] |-> NameOf(listing[j][r][k])]
    BY <1>1, <1>4, <1>7, <2>1 DEF Settled
  <2> QED BY <1>2, <1>4, <2>1 DEF Settled, Fit, NameOf
<1>15. UnderWay'
  <2>1. ASSUME Fit(i), NEW r \in Rungs
        PROVE  Turned(files'[i][r], playlist'[i][r], packing'.listed[r])
    <3>1. files[i][r] \subseteq SegmentType /\ \A f \in files[i][r] : Unrenamed(f) => f.n <= n
      BY <1>3, <1>5, <1>12, <2>1 DEF Fit
    <3>2. Turned(Written(i, s, r, n), [k \in 1..n |-> Plain(k)], <<>>)
      BY <1>3, <3>1, FreshTurned, Zenon DEF n
    <3> QED BY <1>7, <1>9, <3>2
  <2>2. \A r \in Rungs : ~ (r < 1)
    BY Ladder
  <2> QED BY <1>2, <1>4, <1>9, <2>1, <2>2 DEF UnderWay, Fit, TextOf, RungDone
<1> QED BY <1>10, <1>11, <1>13, <1>14, <1>15 DEF HlsInv

LEMMA GlobKeeps == ASSUME HlsInv, Glob PROVE HlsInv'
<1> DEFINE i == packing.id
           q == packing.rung
<1>1. HlsTypes /\ ListedStays /\ Leftovers /\ Settled /\ UnderWay
  BY DEF HlsInv
<1>2. /\ packing.step = "glob"
      /\ packing' = [step |-> "rename", id |-> i, rung |-> q, listed |-> packing.listed,
                     todo |-> {f \in files[i][q] : Unrenamed(f)}, text |-> playlist[i][q]]
      /\ UNCHANGED <<files, playlist, listing, cut>>
  BY DEF Glob
<1>3. i \in MediaIds /\ q \in Rungs /\ Renaming /\ packing.listed \in [Rungs -> Seq(SegmentType)]
  BY <1>1, <1>2, Stages DEF Renaming
<1>4. Renaming' /\ packing'.id = i /\ packing'.rung = q /\ packing'.listed = packing.listed
      /\ packing'.step = "rename" /\ packing'.text = playlist[i][q]
      /\ packing'.todo = {f \in files[i][q] : Unrenamed(f)}
  BY <1>2 DEF Renaming
<1>5. HlsTypes'
  <2>1. {f \in files[i][q] : Unrenamed(f)} \subseteq SegmentType /\ playlist[i][q] \in Seq(SegmentName)
    BY <1>1, <1>3 DEF HlsTypes
  <2>2. packing' \in PackingType
    BY <1>2, <1>3, <2>1 DEF PackingType
  <2> QED BY <1>1, <1>2, <1>4, <2>2 DEF HlsTypes
<1>6. ListedStays'
  BY <1>1, <1>2, <1>3, <1>4 DEF ListedStays, Listed, Unrenamed
<1>7. Leftovers' /\ Settled'
  BY <1>1, <1>2, <1>3, <1>4 DEF Leftovers, Settled, Fit, Unrenamed, NameOf
<1>8. UnderWay'
  <2>1. ASSUME Fit(i), NEW r \in Rungs
        PROVE  /\ Turned(files[i][r], playlist[i][r], packing.listed[r])
               /\ r < q => Len(packing.listed[r]) = Len(playlist[i][r])
               /\ ~ (r < q) => packing.listed[r] = <<>>
    BY <1>1, <1>2, <1>3, <2>1 DEF UnderWay, TextOf, RungDone
  <2>2. ASSUME NEW r \in Rungs
        PROVE  /\ TextOf(r)' = playlist[i][r] /\ (RungDone(r)' <=> r < q)
    BY <1>2, <1>4 DEF TextOf, RungDone
  <2> QED BY <1>2, <1>4, <2>1, <2>2 DEF UnderWay, Fit, Unrenamed
<1> QED BY <1>5, <1>6, <1>7, <1>8 DEF HlsInv

LEMMA RenameKeeps ==
    ASSUME HlsInv, packing.step = "rename", NEW f \in packing.todo, Rename(f)
    PROVE  HlsInv'
<1> DEFINE i == packing.id
           q == packing.rung
           t == Tagged(f)
           list == packing.listed[q]
           fs == files[i][q]
           rest == {g \in fs : g # f /\ NameOf(g) # NameOf(t)} \cup {t}
           said == [k \in DOMAIN packing.text |->
                      IF packing.text[k] = NameOf(f) THEN NameOf(t) ELSE packing.text[k]]
<1>1. HlsTypes /\ ListedStays /\ Leftovers /\ Settled /\ UnderWay
  BY DEF HlsInv
<1>2. /\ packing = [step |-> "rename", id |-> i, rung |-> q, listed |-> packing.listed,
                    todo |-> packing.todo, text |-> packing.text]
      /\ i \in MediaIds /\ q \in Rungs /\ packing.listed \in [Rungs -> Seq(SegmentType)]
      /\ packing.text \in Seq(SegmentName) /\ Renaming
      /\ packing.todo = {g \in fs : Unrenamed(g)} /\ fs \in SUBSET SegmentType
      /\ packing.todo \in SUBSET SegmentType
  BY <1>1, Stages DEF Renaming, UnderWay, HlsTypes
<1>3. f \in SegmentType /\ f \in fs /\ Unrenamed(f)
  BY <1>2
<1>4. /\ \A g \in packing.todo : f.n <= g.n
      /\ files' = [files EXCEPT ![i][q] = rest]
      /\ packing' = [packing EXCEPT !.todo = @ \ {f}, !.listed[q] = Append(@, t), !.text = said]
      /\ UNCHANGED <<playlist, listing, cut>>
  BY DEF Rename
<1>5. /\ t \in SegmentType /\ ~ Unrenamed(t) /\ t # f
      /\ \A g \in SegmentType : NameOf(g) = NameOf(t) => g = t
      /\ t.n = f.n
  BY <1>3, TaggedSegment
<1>6. /\ rest \subseteq SegmentType
      /\ \A g \in fs : ~ Unrenamed(g) => g \in rest
      /\ {g \in rest : Unrenamed(g)} = packing.todo \ {f}
  <2>1. \A g \in fs : ~ Unrenamed(g) => g \in rest
    BY <1>2, <1>3, <1>5
  <2>2. ASSUME NEW g \in fs, Unrenamed(g), NameOf(g) = NameOf(t) PROVE FALSE
    BY <1>2, <1>5, <2>2
  <2> QED BY <1>2, <1>3, <1>5, <2>1, <2>2
<1>7. packing' = [step |-> "rename", id |-> i, rung |-> q,
                  listed |-> [packing.listed EXCEPT ![q] = Append(list, t)],
                  todo |-> packing.todo \ {f}, text |-> said]
  BY <1>2, <1>4
<1>8. said \in Seq(SegmentName)
  <2>1. NameOf(t) \in SegmentName
    BY <1>5 DEF NameOf, SegmentType, SegmentName, Hashes
  <2> HIDE DEF t
  <2> QED BY <1>2, <2>1
<1> HIDE DEF i, q, t, list, fs, rest, said
<1>9. /\ packing'.id = i /\ packing'.rung = q /\ packing'.step = "rename" /\ packing'.text = said
      /\ packing'.todo = packing.todo \ {f} /\ Renaming'
      /\ packing'.listed = [packing.listed EXCEPT ![q] = Append(list, t)]
  BY <1>7 DEF Renaming
<1>10. /\ list \in Seq(SegmentType) /\ Append(list, t) \in Seq(SegmentType)
       /\ packing'.listed[q] = Append(list, t)
       /\ \A r \in Rungs \ {q} : packing'.listed[r] = packing.listed[r]
  <2>1. list \in Seq(SegmentType)
    BY <1>2 DEF list
  <2> QED BY <1>2, <1>5, <1>9, <2>1
<1>11. /\ files' \in [MediaIds -> [Rungs -> SUBSET SegmentType]]
       /\ files'[i][q] = rest /\ \A r \in Rungs \ {q} : files'[i][r] = files[i][r]
       /\ \A j \in MediaIds \ {i} : files'[j] = files[j]
  <2>1. files \in [MediaIds -> [Rungs -> SUBSET SegmentType]]
    BY <1>1 DEF HlsTypes
  <2> QED BY <1>2, <1>4, <1>6, <2>1
<1>12. \A j \in MediaIds, r \in Rungs : \A g \in files[j][r] : ~ Unrenamed(g) => g \in files'[j][r]
  BY <1>6, <1>11 DEF fs
<1>13. \A j \in MediaIds, r \in Rungs : \A g \in files'[j][r] : Unrenamed(g) => g \in files[j][r]
  BY <1>2, <1>6, <1>11 DEF fs
<1>14. HlsTypes'
  <2>1. packing' \in PackingType
    <3>1. [packing.listed EXCEPT ![q] = Append(list, t)] \in [Rungs -> Seq(SegmentType)]
      BY <1>2, <1>10
    <3>2. packing.todo \ {f} \in SUBSET SegmentType
      BY <1>2
    <3> QED BY <1>2, <1>7, <1>8, <3>1, <3>2 DEF PackingType
  <2> QED BY <1>1, <1>4, <1>9, <1>11, <2>1 DEF HlsTypes
<1>15. ListedStays'
  <2>1. ASSUME NEW j \in MediaIds, NEW r \in Rungs, listing[j] # Unknown
        PROVE  Listed(files'[j][r], listing[j][r])
    BY <1>1, <1>12, <2>1 DEF ListedStays, Listed
  <2>2. \A r \in Rungs : Listed(files[i][r], packing.listed[r])
    BY <1>1, <1>2 DEF ListedStays, i
  <2>3. ASSUME NEW r \in Rungs PROVE Listed(files'[i][r], packing'.listed[r])
    <3>1. CASE r # q
      BY <1>10, <1>11, <2>2, <3>1
    <3>2. CASE r = q
      <4>1. Listed(rest, list)
        BY <1>2, <1>6, <2>2 DEF Listed, list, fs
      <4>2. t \in rest /\ ~ Unrenamed(t)
        BY <1>5 DEF rest
      <4>3. DOMAIN Append(list, t) = 1..(Len(list) + 1) /\ DOMAIN list = 1..Len(list) /\ Len(list) \in Nat
            /\ Append(list, t)[Len(list) + 1] = t /\ \A k \in 1..Len(list) : Append(list, t)[k] = list[k]
        BY <1>5, <1>10
      <4>4. Listed(rest, Append(list, t))
        BY <4>1, <4>2, <4>3 DEF Listed
      <4> QED BY <1>10, <1>11, <3>2, <4>4
    <3> QED BY <3>1, <3>2
  <2> QED BY <1>4, <1>9, <2>1, <2>3 DEF ListedStays, Listed, Unrenamed
<1>16. Leftovers' /\ Settled'
  <2>1. i = packing.id
    BY DEF i
  <2>2. Leftovers'
    BY <1>1, <1>2, <1>4, <1>9, <1>13, <2>1 DEF Leftovers, Unrenamed
  <2>3. Settled'
    BY <1>1, <1>2, <1>4, <1>9, <2>1 DEF Settled, Fit, NameOf
  <2> QED BY <2>2, <2>3
<1>17. UnderWay'
  <2>1. i = packing.id /\ q = packing.rung
    BY DEF i, q
  <2>2. ASSUME Fit(i), NEW r \in Rungs
        PROVE  /\ Turned(files[i][r], TextOf(r), packing.listed[r])
               /\ r < q => Len(packing.listed[r]) = Len(playlist[i][r])
               /\ ~ (r < q) => packing.listed[r] = <<>> \/ r = q
    BY <1>1, <1>2, <2>1, <2>2 DEF UnderWay, RungDone
  <2>3. ASSUME Fit(i), NEW r \in Rungs
        PROVE  /\ Turned(files'[i][r], TextOf(r)', packing'.listed[r])
               /\ r < q => Len(packing'.listed[r]) = Len(playlist[i][r])
               /\ ~ (r < q) => packing'.listed[r] = <<>> \/ r = q
    <3>1. CASE r # q
      <4>1. TextOf(r)' = playlist[i][r] /\ TextOf(r) = playlist[i][r]
        BY <1>4, <1>9, <2>1, <3>1 DEF TextOf
      <4> QED BY <1>10, <1>11, <2>2, <2>3, <3>1, <4>1
    <3>2. CASE r = q
      <4>1. TextOf(r)' = said /\ TextOf(r) = packing.text /\ ~ (q < q)
        <5>1. q \in Nat
          BY <1>2, Ladder
        <5> QED BY <1>9, <2>1, <3>2, <5>1 DEF TextOf
      <4>2. Turned(fs, packing.text, list)
        BY <2>2, <2>3, <3>2, <4>1, <2>1 DEF fs, list
      <4>3. Listed(fs, list)
        BY <1>1, <1>2, <2>1 DEF ListedStays, fs, list
      <4>4. \A g \in fs : Unrenamed(g) => f.n <= g.n
        BY <1>2, <1>4
      <4>5. Turned(rest, said, Append(list, t))
        BY <1>2, <1>3, <1>10, <4>2, <4>3, <4>4, RenameTurned DEF rest, said, t
      <4> QED BY <1>10, <1>11, <3>2, <4>1, <4>5
    <3> QED BY <3>1, <3>2
  <2>4. packing'.todo = {g \in files'[i][q] : Unrenamed(g)}
    BY <1>6, <1>9, <1>11
  <2> QED BY <1>4, <1>9, <2>1, <2>3, <2>4 DEF UnderWay, Fit, RungDone, Unrenamed
<1> QED BY <1>14, <1>15, <1>16, <1>17 DEF HlsInv

LEMMA PatchKeeps == ASSUME HlsInv, PatchPlaylist PROVE HlsInv'
<1> DEFINE i == packing.id
           q == packing.rung
<1>1. HlsTypes /\ ListedStays /\ Leftovers /\ Settled /\ UnderWay
  BY DEF HlsInv
<1>2. /\ packing.step = "rename" /\ packing.todo = {}
      /\ playlist' = [playlist EXCEPT ![i][q] = packing.text]
      /\ packing' = IF q + 1 \in Rungs
                    THEN [step |-> "glob", id |-> i, rung |-> q + 1, listed |-> packing.listed]
                    ELSE [step |-> "manifest", id |-> i, listed |-> packing.listed]
      /\ UNCHANGED <<files, listing, cut>>
  BY DEF PatchPlaylist
<1>3. /\ i \in MediaIds /\ q \in Rungs /\ packing.listed \in [Rungs -> Seq(SegmentType)]
      /\ packing.text \in Seq(SegmentName) /\ Renaming
      /\ {f \in files[i][q] : Unrenamed(f)} = {} /\ q \in Nat
  BY <1>1, <1>2, Stages, Ladder DEF Renaming, UnderWay
<1> HIDE DEF i, q
<1>4. /\ packing'.id = i /\ packing'.listed = packing.listed /\ Renaming'
      /\ packing' \in PackingType /\ packing'.step \in {"glob", "manifest"}
      /\ packing'.step = "glob" => packing'.rung = q + 1
      /\ packing'.step = "manifest" => q + 1 \notin Rungs
  <2>1. CASE q + 1 \in Rungs
    BY <1>2, <1>3, <2>1 DEF PackingType, Renaming
  <2>2. CASE q + 1 \notin Rungs
    BY <1>2, <1>3, <2>2 DEF PackingType, Renaming
  <2> QED BY <2>1, <2>2
<1>5. /\ playlist' \in [MediaIds -> [Rungs -> Seq(SegmentName)]]
      /\ playlist'[i][q] = packing.text /\ \A r \in Rungs \ {q} : playlist'[i][r] = playlist[i][r]
      /\ \A j \in MediaIds \ {i} : playlist'[j] = playlist[j]
  <2>1. playlist \in [MediaIds -> [Rungs -> Seq(SegmentName)]]
    BY <1>1 DEF HlsTypes
  <2> QED BY <1>2, <1>3, <2>1
<1>6. HlsTypes'
  BY <1>1, <1>2, <1>4, <1>5 DEF HlsTypes
<1>7. i = packing.id /\ q = packing.rung
  BY DEF i, q
<1>8. ListedStays'
  BY <1>1, <1>2, <1>3, <1>4, <1>7 DEF ListedStays, Listed, Unrenamed
<1>9. Leftovers'
  BY <1>1, <1>2, <1>3, <1>4, <1>7 DEF Leftovers, Unrenamed
<1>10. Settled'
  <2>1. ASSUME NEW j \in MediaIds, NEW r \in Rungs, listing[j] # Unknown, j # i, cut[j] # "last", Fit(j)
        PROVE  playlist'[j][r] = [k \in DOMAIN listing[j][r] |-> NameOf(listing[j][r][k])]
    BY <1>1, <1>5, <1>7, <2>1 DEF Settled
  <2> QED BY <1>2, <1>4, <2>1 DEF Settled, Fit, NameOf
<1>11. UnderWay'
  <2>1. ASSUME Fit(i), NEW r \in Rungs
        PROVE  /\ Turned(files[i][r], TextOf(r), packing.listed[r])
               /\ r < q => Len(packing.listed[r]) = Len(playlist[i][r])
               /\ ~ (r < q) => packing.listed[r] = <<>> \/ r = q
    BY <1>1, <1>2, <1>3, <1>7, <2>1 DEF UnderWay, RungDone
  <2>2. ASSUME NEW r \in Rungs PROVE TextOf(r)' = TextOf(r) /\ TextOf(r) = playlist'[i][r]
    BY <1>2, <1>4, <1>5, <1>7, <2>2 DEF TextOf
  <2>3. ASSUME Fit(i), NEW r \in Rungs
        PROVE  r <= q => Len(packing.listed[r]) = Len(playlist'[i][r])
    <3>1. CASE r = q
      <4>1. Turned(files[i][q], packing.text, packing.listed[q])
        BY <1>5, <2>1, <2>2, <2>3, <3>1
      <4>2. Len(packing.listed[q]) \in Nat /\ Len(packing.text) \in Nat
        BY <1>3
      <4>3. ~ \E k \in (Len(packing.listed[q]) + 1)..Len(packing.text) : TRUE
        BY <1>3, <4>1 DEF Turned
      <4>4. Len(packing.listed[q]) = Len(packing.text)
        <5>1. Len(packing.listed[q]) <= Len(packing.text)
          BY <4>1 DEF Turned
        <5> QED BY <4>2, <4>3, <5>1
      <4> QED BY <1>5, <3>1, <4>4
    <3>2. CASE r # q
      <4>1. r \in Nat
        BY Ladder
      <4>2. r <= q => r < q
        BY <1>3, <3>2, <4>1
      <4> QED BY <1>5, <2>1, <2>3, <3>2, <4>2
    <3> QED BY <3>1, <3>2
  <2>4. ASSUME NEW r \in Rungs
        PROVE  /\ RungDone(r)' => r <= q
               /\ ~ RungDone(r)' => r > q
    <3>1. \A s \in Rungs : s \in Nat /\ s >= 1
      BY Ladder
    <3>2. q + 1 \notin Rungs => r <= q
      <4>1. PICK top \in Rungs : top \in Nat /\ Rungs = 1..top
        BY MediaAssumption
      <4> QED BY <1>3, <4>1
    <3>3. RungDone(r)' <=> (packing'.step = "manifest" \/ r < packing'.rung)
      BY DEF RungDone
    <3>4. CASE packing'.step = "manifest"
      BY <1>4, <3>2, <3>3, <3>4
    <3>5. CASE packing'.step = "glob"
      <4>1. packing'.rung = q + 1 /\ r \in Nat /\ packing'.step # "manifest"
        BY <1>4, <3>1, <3>5
      <4> QED BY <1>3, <3>3, <4>1
    <3> QED BY <1>4, <3>4, <3>5
  <2>5. ASSUME Fit(i), NEW r \in Rungs
        PROVE  /\ Turned(files'[i][r], TextOf(r)', packing'.listed[r])
               /\ RungDone(r)' => Len(packing'.listed[r]) = Len(playlist'[i][r])
               /\ ~ RungDone(r)' => packing'.listed[r] = <<>>
    <3>1. r \in Nat
      BY Ladder
    <3>2. Turned(files'[i][r], TextOf(r)', packing'.listed[r])
      BY <1>2, <1>4, <2>1, <2>2, <2>5
    <3>3. RungDone(r)' => Len(packing'.listed[r]) = Len(playlist'[i][r])
      BY <1>4, <2>3, <2>4, <2>5
    <3>4. ~ RungDone(r)' => packing'.listed[r] = <<>>
      <4>1. r > q => ~ (r < q) /\ r # q
        BY <1>3, <3>1
      <4> QED BY <1>4, <2>1, <2>4, <2>5, <4>1
    <3> QED BY <3>2, <3>3, <3>4
  <2> QED BY <1>2, <1>4, <2>5 DEF UnderWay, Fit
<1> QED BY <1>6, <1>8, <1>9, <1>10, <1>11 DEF HlsInv

LEMMA ListingKeeps == ASSUME HlsInv, WriteListing PROVE HlsInv'
<1> DEFINE i == packing.id
<1>1. HlsTypes /\ ListedStays /\ Leftovers /\ Settled /\ UnderWay
  BY DEF HlsInv
<1>2. /\ packing.step = "manifest" /\ packing' = Idle
      /\ listing' = [listing EXCEPT ![i] = packing.listed]
      /\ cut' = [cut EXCEPT ![i] = IF @ = "last" THEN "before" ELSE @]
      /\ UNCHANGED <<files, playlist>>
  BY DEF WriteListing
<1>3. i \in MediaIds /\ Renaming /\ packing.listed \in [Rungs -> Seq(SegmentType)]
      /\ ~ Renaming'
  BY <1>1, <1>2, Stages DEF Renaming, Idle
<1> HIDE DEF i
<1>4. /\ listing' \in [MediaIds -> [Rungs -> Seq(SegmentType)] \cup {Unknown}]
      /\ listing'[i] = packing.listed /\ \A j \in MediaIds \ {i} : listing'[j] = listing[j]
      /\ cut' \in [MediaIds -> {"never", "before", "last"}]
      /\ \A j \in MediaIds \ {i} : cut'[j] = cut[j]
      /\ cut'[i] = "never" <=> cut[i] = "never"
  BY <1>1, <1>2, <1>3 DEF HlsTypes
<1>5. i = packing.id
  BY DEF i
<1>6. HlsTypes'
  BY <1>1, <1>2, <1>4 DEF HlsTypes, PackingType, Idle
<1>7. ListedStays'
  <2>1. ASSUME NEW j \in MediaIds, NEW r \in Rungs, listing'[j] # Unknown
        PROVE  Listed(files[j][r], listing'[j][r])
    BY <1>1, <1>3, <1>4, <1>5, <2>1 DEF ListedStays
  <2> QED BY <1>2, <1>3, <2>1 DEF ListedStays, Listed, Unrenamed
<1>8. ASSUME Fit(i), NEW r \in Rungs
      PROVE  /\ playlist[i][r] = [k \in DOMAIN packing.listed[r] |-> NameOf(packing.listed[r][k])]
             /\ \A f \in files[i][r] : ~ Unrenamed(f)
  <2>1. /\ Turned(files[i][r], playlist[i][r], packing.listed[r])
        /\ Len(packing.listed[r]) = Len(playlist[i][r])
    BY <1>1, <1>2, <1>3, <1>5, <1>8 DEF UnderWay, RungDone, TextOf
  <2>2. packing.listed[r] \in Seq(SegmentType) /\ playlist[i][r] \in Seq(SegmentName)
    BY <1>1, <1>3 DEF HlsTypes
  <2>3. DOMAIN packing.listed[r] = DOMAIN playlist[i][r]
        /\ \A k \in DOMAIN playlist[i][r] : playlist[i][r][k] = NameOf(packing.listed[r][k])
    BY <2>1, <2>2 DEF Turned
  <2>4. playlist[i][r] = [k \in DOMAIN packing.listed[r] |-> NameOf(packing.listed[r][k])]
    BY <2>2, <2>3
  <2>5. (Len(packing.listed[r]) + 1)..Len(playlist[i][r]) = {}
    BY <2>1, <2>2
  <2> QED BY <2>1, <2>4, <2>5 DEF Turned
<1>9. Leftovers'
  <2>1. ASSUME NEW j \in MediaIds, NEW r \in Rungs, NEW f \in files[j][r], Unrenamed(f)
        PROVE  /\ j \in Sources => f.n <= Segments[j]
               /\ cut'[j] # "never"
    <3>1. j \in Sources => f.n <= Segments[j]
      BY <1>1, <2>1 DEF Leftovers
    <3>2. CASE j = i
      BY <1>4, <1>8, <2>1, <3>1, <3>2 DEF Fit
    <3>3. CASE j # i
      BY <1>1, <1>4, <1>5, <2>1, <3>1, <3>3 DEF Leftovers
    <3> QED BY <3>2, <3>3
  <2> QED BY <1>2, <1>3, <2>1 DEF Leftovers, Unrenamed
<1>10. Settled'
  <2>1. ASSUME NEW j \in MediaIds, NEW r \in Rungs, listing'[j] # Unknown, cut'[j] # "last", Fit(j)'
        PROVE  playlist[j][r] = [k \in DOMAIN listing'[j][r] |-> NameOf(listing'[j][r][k])]
    <3>1. CASE j = i
      BY <1>4, <1>8, <2>1, <3>1 DEF Fit
    <3>2. CASE j # i
      BY <1>1, <1>4, <1>5, <2>1, <3>2 DEF Settled, Fit
    <3> QED BY <3>1, <3>2
  <2> QED BY <1>2, <1>3, <2>1 DEF Settled, NameOf
<1>11. UnderWay'
  BY <1>2, <1>3 DEF UnderWay, Idle
<1> QED BY <1>6, <1>7, <1>9, <1>10, <1>11 DEF HlsInv

LEMMA HlsCutKeeps == ASSUME HlsInv, HlsCut PROVE HlsInv'
<1> DEFINE i == packing.id
<1>1. HlsTypes /\ ListedStays /\ Leftovers /\ Settled
  BY DEF HlsInv
<1>2. /\ packing # Idle /\ packing' = Idle /\ cut' = [cut EXCEPT ![i] = "last"]
      /\ UNCHANGED <<playlist, listing>>
  BY DEF HlsCut
<1>3. i \in MediaIds /\ ~ Renaming'
  <2>1. packing.step \in {"ffmpeg", "glob", "rename", "manifest"}
    BY <1>1, <1>2, Stages
  <2>2. Idle.step \notin {"glob", "rename", "manifest"}
    BY DEF Idle
  <2> QED BY <1>1, <1>2, <2>1, <2>2, Stages DEF Renaming
<1> HIDE DEF i
<1>4. i = packing.id
  BY DEF i
<1>5. /\ files' \in [MediaIds -> [Rungs -> SUBSET SegmentType]]
      /\ \A j \in MediaIds, r \in Rungs : \A f \in files[j][r] : ~ Unrenamed(f) => f \in files'[j][r]
      /\ \A j \in MediaIds, r \in Rungs : \A f \in files'[j][r] : Unrenamed(f) =>
           \/ f \in files[j][r]
           \/ j = i /\ (i \in Sources => f.n <= Segments[i])
  <2>1. CASE UNCHANGED files
    BY <1>1, <2>1 DEF HlsTypes
  <2>2. CASE /\ packing.step = "ffmpeg"
             /\ \E k \in 1..Segments[packing.src] :
                  files' = [files EXCEPT ![i] = [r \in Rungs |-> Written(i, packing.src, r, k)]]
    <3> DEFINE s == packing.src
    <3> PICK k \in 1..Segments[s] :
               files' = [files EXCEPT ![i] = [r \in Rungs |-> Written(i, s, r, k)]]
      BY <2>2
    <3>1. s \in Sources /\ i \in {s} \cup GivenIds /\ Sources \cap GivenIds = {} /\ Segments[s] \in Nat
      BY <1>1, <1>4, <2>2, Stages, MediaAssumption
    <3>2. files \in [MediaIds -> [Rungs -> SUBSET SegmentType]]
      BY <1>1 DEF HlsTypes
    <3>6. files' = [files EXCEPT ![i] = [r \in Rungs |-> Written(i, s, r, k)]] /\ k \in 1..Segments[s]
      OBVIOUS
    <3> HIDE DEF s
    <3>3. ASSUME NEW r \in Rungs
          PROVE  /\ Written(i, s, r, k) \subseteq SegmentType
                 /\ \A f \in files[i][r] : ~ Unrenamed(f) => f \in Written(i, s, r, k)
                 /\ \A f \in Written(i, s, r, k) : Unrenamed(f) =>
                      \/ f \in files[i][r] /\ f.n > k
                      \/ f.n \in 1..k
      <4>1. files[i][r] \subseteq SegmentType /\ k \in 1..Segments[s]
        BY <1>3, <3>2, <3>6
      <4> QED BY <1>3, <3>1, <4>1, WrittenSegments, Zenon
    <3>4. /\ files' \in [MediaIds -> [Rungs -> SUBSET SegmentType]]
          /\ \A r \in Rungs : files'[i][r] = Written(i, s, r, k)
          /\ \A j \in MediaIds \ {i} : files'[j] = files[j]
      BY <1>3, <3>2, <3>3, <3>6
    <3>5. \A n \in 1..k : i \in Sources => n <= Segments[i]
      BY <3>1, <3>6
    <3> QED BY <3>3, <3>4, <3>5
  <2>3. HlsCut
    OBVIOUS
  <2> QED BY <2>1, <2>2, <2>3, Zenon DEF HlsCut, i
<1>6. HlsTypes'
  <2>1. cut' \in [MediaIds -> {"never", "before", "last"}]
    BY <1>1, <1>2, <1>3 DEF HlsTypes
  <2>2. packing' \in PackingType /\ packing'.step # "ffmpeg"
    BY <1>2 DEF PackingType, Idle
  <2> QED BY <1>1, <1>2, <1>5, <2>1, <2>2 DEF HlsTypes
<1>7. ListedStays'
  BY <1>1, <1>2, <1>3, <1>5 DEF ListedStays, Listed, Unrenamed
<1>8. cut'[i] = "last" /\ \A j \in MediaIds \ {i} : cut'[j] = cut[j]
  BY <1>1, <1>2, <1>3 DEF HlsTypes
<1>9. Leftovers'
  <2>1. ASSUME NEW j \in MediaIds, NEW r \in Rungs, NEW f \in files'[j][r], Unrenamed(f)
        PROVE  /\ j \in Sources => f.n <= Segments[j]
               /\ cut'[j] # "never"
    BY <1>1, <1>4, <1>5, <1>8, <2>1 DEF Leftovers
  <2> QED BY <1>3, <2>1 DEF Leftovers, Unrenamed
<1>10. Settled'
  <2>1. ASSUME NEW j \in MediaIds, NEW r \in Rungs, listing[j] # Unknown, cut'[j] # "last", Fit(j)'
        PROVE  playlist[j][r] = [k \in DOMAIN listing[j][r] |-> NameOf(listing[j][r][k])]
    BY <1>1, <1>4, <1>8, <2>1 DEF Settled, Fit
  <2> QED BY <1>2, <1>3, <2>1 DEF Settled, NameOf
<1>11. UnderWay'
  BY <1>2, <1>3 DEF UnderWay, Idle
<1> QED BY <1>6, <1>7, <1>9, <1>10, <1>11 DEF HlsInv

LEMMA HlsStays == ASSUME HlsInv, UNCHANGED hls PROVE HlsInv'
<1>1. HlsTypes' /\ ListedStays' /\ Leftovers' /\ Settled'
  BY DEF HlsInv, hls, HlsTypes, ListedStays, Leftovers, Settled, Listed, Renaming, Fit, NameOf, Unrenamed
<1>2. UnderWay'
  BY DEF HlsInv, hls, UnderWay, Renaming, Fit, Turned, TextOf, RungDone, Unrenamed, NameOf, Plain
<1> QED BY <1>1, <1>2 DEF HlsInv

LEMMA HlsStep == HlsInv /\ [HlsNext]_hls => HlsInv'
BY EncodeHlsKeeps, FfmpegKeeps, GlobKeeps, RenameKeeps, PatchKeeps, ListingKeeps, HlsCutKeeps,
   HlsStays DEF HlsNext

LEMMA HlsBegins == MediaInit => HlsInv
<1> SUFFICES ASSUME MediaInit PROVE HlsInv
  OBVIOUS
<1>1. ~ Renaming
  BY DEF MediaInit, Renaming, Idle
<1>2. HlsTypes
  BY DEF MediaInit, HlsTypes, PackingType, Idle
<1>3. ListedStays /\ Leftovers /\ Settled /\ UnderWay
  BY <1>1 DEF MediaInit, ListedStays, Leftovers, Settled, UnderWay, Idle
<1> QED BY <1>2, <1>3 DEF HlsInv

-----------------------------------------------------------------------------
(***************************************************************************)
(* Evidence: between the encoding and evidence.json the directory begins   *)
(* with the whole recording, so what is hashed does.                       *)
(***************************************************************************)
MarkType == [order : Orders, block : Nat]
BurnedType == [rec : Recordings, n : Nat, mark : MarkType]
Begins(found, rec, mark) ==
    /\ Len(found) >= Pieces[rec]
    /\ \A j \in 1..Pieces[rec] : found[j] = [rec |-> rec, n |-> j, mark |-> mark]

EvidenceTypes ==
    /\ cells \in [Places -> Seq(BurnedType)] /\ tip \in Nat /\ stale \subseteq Places
    /\ wrapping \in {Idle} \cup [step : {"encode", "hash"}, place : Places, rec : Recordings, mark : MarkType]
    /\ DOMAIN meta = Places
EvidenceInv ==
    /\ EvidenceTypes
    /\ wrapping.step = "hash" => Begins(cells[wrapping.place], wrapping.rec, wrapping.mark)
    /\ \A p \in Places :
         meta[p] # Unknown /\ p \notin stale /\ ~ (wrapping.step = "hash" /\ wrapping.place = p) =>
             /\ meta[p].proof = RootHash(meta[p].mark, cells[p])
             /\ Begins(cells[p], meta[p].rec, meta[p].mark)

\* The burned cells, then those that were there beyond them.
LEMMA BurnedCells ==
    ASSUME EvidenceTypes, wrapping # Idle, NEW k \in 1..Pieces[wrapping.rec]
    PROVE  /\ Burned(k) \in Seq(BurnedType) /\ Len(Burned(k)) >= k
           /\ \A j \in 1..k : Burned(k)[j] = [rec |-> wrapping.rec, n |-> j, mark |-> wrapping.mark]
<1> DEFINE old == cells[wrapping.place]
           head == [j \in 1..k |-> [rec |-> wrapping.rec, n |-> j, mark |-> wrapping.mark]]
           rest == SubSeq(old, k + 1, Len(old))
<1>1. /\ wrapping.place \in Places /\ wrapping.rec \in Recordings /\ wrapping.mark \in MarkType
      /\ old \in Seq(BurnedType)
  BY DEF EvidenceTypes
<1>2. k \in Nat
  BY <1>1, MediaAssumption
<1>3. head \in Seq(BurnedType) /\ Len(head) = k
  BY <1>1, <1>2 DEF BurnedType
<1>4. rest \in Seq(BurnedType) /\ Len(rest) \in Nat
  BY <1>1, <1>2
<1>5. Burned(k) = head \o rest
  BY DEF Burned
<1>6. \A j \in 1..k : head[j] = [rec |-> wrapping.rec, n |-> j, mark |-> wrapping.mark]
  OBVIOUS
<1> HIDE DEF head, rest
<1>7. /\ head \o rest \in Seq(BurnedType) /\ Len(head \o rest) = k + Len(rest)
      /\ \A j \in 1..k : (head \o rest)[j] = head[j]
  BY <1>2, <1>3, <1>4
<1> QED BY <1>2, <1>4, <1>5, <1>6, <1>7

LEMMA BindKeeps ==
    ASSUME EvidenceInv, NEW p \in Places, NEW o \in Orders, NEW rec \in Recordings, BindEvidence(p, o, rec)
    PROVE  EvidenceInv'
<1>1. /\ wrapping' = [step |-> "encode", place |-> p, rec |-> rec, mark |-> [order |-> o, block |-> tip]]
      /\ wrapping = Idle /\ UNCHANGED <<cells, meta, stale, tip>>
  BY DEF BindEvidence
<1>2. wrapping.step # "hash" /\ wrapping'.step # "hash"
  BY <1>1 DEF Idle
<1>3. EvidenceTypes'
  BY <1>1 DEF EvidenceInv, EvidenceTypes, MarkType
<1> QED BY <1>1, <1>2, <1>3 DEF EvidenceInv, Begins, RootHash

LEMMA EncodeKeepsProofs == ASSUME EvidenceInv, EncodeEvidence PROVE EvidenceInv'
<1> DEFINE q == wrapping.place
           size == Pieces[wrapping.rec]
<1>1. EvidenceTypes
  BY DEF EvidenceInv
<1>2. /\ wrapping.step = "encode" /\ cells' = [cells EXCEPT ![q] = Burned(size)]
      /\ wrapping' = [wrapping EXCEPT !.step = "hash"] /\ UNCHANGED <<meta, stale, tip>>
  BY DEF EncodeEvidence
<1>3. wrapping # Idle /\ q \in Places /\ wrapping.rec \in Recordings /\ wrapping.mark \in MarkType
      /\ wrapping' = [step |-> "hash", place |-> q, rec |-> wrapping.rec, mark |-> wrapping.mark]
  BY <1>1, <1>2 DEF EvidenceTypes, Idle
<1>4. size \in 1..size /\ size \in Nat
  BY <1>3, MediaAssumption
<1>5. /\ Burned(size) \in Seq(BurnedType) /\ Len(Burned(size)) >= size
      /\ \A j \in 1..size : Burned(size)[j] = [rec |-> wrapping.rec, n |-> j, mark |-> wrapping.mark]
  BY <1>1, <1>3, <1>4, BurnedCells
<1> HIDE DEF q
<1>6. /\ cells' \in [Places -> Seq(BurnedType)] /\ cells'[q] = Burned(size)
      /\ \A p \in Places \ {q} : cells'[p] = cells[p]
  BY <1>1, <1>2, <1>3, <1>5 DEF EvidenceTypes
<1>7. EvidenceTypes'
  BY <1>1, <1>2, <1>3, <1>6 DEF EvidenceTypes
<1>8. Begins(cells'[q], wrapping.rec, wrapping.mark)
  BY <1>5, <1>6 DEF Begins
<1>9. ASSUME NEW p \in Places, meta[p] # Unknown, p \notin stale, p # q
      PROVE  /\ meta[p].proof = RootHash(meta[p].mark, cells'[p])
             /\ Begins(cells'[p], meta[p].rec, meta[p].mark)
  BY <1>2, <1>6, <1>9 DEF EvidenceInv
<1>10. wrapping'.step = "hash" /\ wrapping'.place = q /\ wrapping'.rec = wrapping.rec
       /\ wrapping'.mark = wrapping.mark
  BY <1>3
<1> QED BY <1>2, <1>7, <1>8, <1>9, <1>10 DEF EvidenceInv, Begins, RootHash

LEMMA MetaKeeps == ASSUME EvidenceInv, WriteMeta PROVE EvidenceInv'
<1> DEFINE q == wrapping.place
<1>1. EvidenceTypes
  BY DEF EvidenceInv
<1>2. /\ wrapping.step = "hash" /\ wrapping' = Idle /\ stale' = stale \ {q}
      /\ meta' = [meta EXCEPT ![q] = [rec |-> wrapping.rec, mark |-> wrapping.mark,
                                      proof |-> RootHash(wrapping.mark, cells[q])]]
      /\ UNCHANGED <<cells, tip>>
  BY DEF WriteMeta
<1>3. q \in Places /\ Begins(cells[q], wrapping.rec, wrapping.mark)
  BY <1>1, <1>2 DEF EvidenceInv, EvidenceTypes, Idle
<1> HIDE DEF q
<1>4. /\ meta'[q] = [rec |-> wrapping.rec, mark |-> wrapping.mark, proof |-> RootHash(wrapping.mark, cells[q])]
      /\ \A p \in Places \ {q} : meta'[p] = meta[p]
      /\ DOMAIN meta' = Places
  BY <1>1, <1>2, <1>3 DEF EvidenceTypes
<1>5. EvidenceTypes'
  BY <1>1, <1>2, <1>4 DEF EvidenceTypes
<1>6. ASSUME NEW p \in Places, meta'[p] # Unknown, p \notin stale'
      PROVE  /\ meta'[p].proof = RootHash(meta'[p].mark, cells[p])
             /\ Begins(cells[p], meta'[p].rec, meta'[p].mark)
  <2>1. CASE p = q
    <3>1. meta'[p].proof = RootHash(wrapping.mark, cells[p]) /\ meta'[p].mark = wrapping.mark
          /\ meta'[p].rec = wrapping.rec
      BY <1>4, <2>1
    <3> QED BY <1>3, <2>1, <3>1
  <2>2. CASE p # q
    BY <1>2, <1>4, <1>6, <2>2 DEF EvidenceInv, q
  <2> QED BY <2>1, <2>2
<1>7. wrapping'.step # "hash"
  BY <1>2 DEF Idle
<1> QED BY <1>2, <1>5, <1>6, <1>7 DEF EvidenceInv, Begins, RootHash

LEMMA EvidenceCutKeeps == ASSUME EvidenceInv, EvidenceCut PROVE EvidenceInv'
<1> DEFINE q == wrapping.place
<1>1. EvidenceTypes
  BY DEF EvidenceInv
<1>2. /\ wrapping # Idle /\ wrapping' = Idle /\ stale' = stale \cup {q} /\ UNCHANGED <<meta, tip>>
  BY DEF EvidenceCut
<1>3. q \in Places
  BY <1>1, <1>2 DEF EvidenceTypes
<1>4. cells' \in [Places -> Seq(BurnedType)] /\ \A p \in Places \ {q} : cells'[p] = cells[p]
  <2>1. CASE UNCHANGED cells
    BY <1>1, <2>1 DEF EvidenceTypes
  <2>2. ASSUME NEW k \in 1..Pieces[wrapping.rec], cells' = [cells EXCEPT ![q] = Burned(k)]
        PROVE  cells' \in [Places -> Seq(BurnedType)] /\ \A p \in Places \ {q} : cells'[p] = cells[p]
    <3>1. Burned(k) \in Seq(BurnedType)
      BY <1>1, <1>2, BurnedCells
    <3> HIDE DEF q
    <3> QED BY <1>1, <1>3, <2>2, <3>1 DEF EvidenceTypes
  <2> QED BY <2>1, <2>2 DEF EvidenceCut
<1>5. EvidenceTypes'
  BY <1>1, <1>2, <1>3, <1>4 DEF EvidenceTypes
<1>6. wrapping'.step # "hash"
  BY <1>2 DEF Idle
<1>7. ASSUME NEW p \in Places, meta[p] # Unknown, p \notin stale, p # q
      PROVE  /\ meta[p].proof = RootHash(meta[p].mark, cells'[p])
             /\ Begins(cells'[p], meta[p].rec, meta[p].mark)
  BY <1>4, <1>7 DEF EvidenceInv
<1> QED BY <1>2, <1>5, <1>6, <1>7 DEF EvidenceInv, Begins, RootHash

LEMMA EvidenceStays == ASSUME EvidenceInv, UNCHANGED <<cells, meta, wrapping, stale>>, tip' \in Nat
                       PROVE  EvidenceInv'
BY DEF EvidenceInv, EvidenceTypes, Begins, RootHash

LEMMA EvidenceStep == EvidenceInv /\ [EvidenceNext]_evidence => EvidenceInv'
<1> SUFFICES ASSUME EvidenceInv, [EvidenceNext]_evidence PROVE EvidenceInv'
  OBVIOUS
<1>1. tip \in Nat
  BY DEF EvidenceInv, EvidenceTypes
<1>2. CASE NewBlock
  BY <1>1, <1>2, EvidenceStays DEF NewBlock
<1>3. CASE UNCHANGED evidence
  BY <1>1, <1>3, EvidenceStays DEF evidence
<1> QED BY <1>2, <1>3, BindKeeps, EncodeKeepsProofs, MetaKeeps, EvidenceCutKeeps DEF EvidenceNext

\* What a manifest lists stays in its place and is what the playlists say once a
\* run has ended, and a proof that evidence.json names is the hash of the whole
\* recording under the order and the block it names (encode_hls, cmd_evidence),
\* wherever runs are cut short and in whatever order they come.
THEOREM OutputsAlwaysWhole == MediaSpec => []OutputsWhole
<1> DEFINE IInv == HlsInv /\ EvidenceInv
<1>1. MediaInit => IInv
  <2>1. MediaInit => EvidenceInv
    BY DEF MediaInit, EvidenceInv, EvidenceTypes, Idle
  <2> QED BY <2>1, HlsBegins
<1>2. IInv /\ [MediaNext]_<<hls, evidence>> => IInv'
  <2> SUFFICES ASSUME IInv, [MediaNext]_<<hls, evidence>> PROVE IInv'
    OBVIOUS
  <2>1. CASE HlsNext
    <3>1. UNCHANGED evidence
      BY <2>1 DEF HlsNext, EncodeHls, Ffmpeg, Glob, Rename, PatchPlaylist, WriteListing, HlsCut
    <3> QED BY <2>1, <3>1, HlsStep, EvidenceStep
  <2>2. CASE EvidenceNext
    <3>1. UNCHANGED hls
      BY <2>2 DEF EvidenceNext, NewBlock, BindEvidence, EncodeEvidence, WriteMeta, EvidenceCut
    <3> QED BY <2>2, <3>1, HlsStep, EvidenceStep
  <2> QED BY <2>1, <2>2, HlsStep, EvidenceStep DEF MediaNext
<1>3. IInv => OutputsWhole
  <2> SUFFICES ASSUME IInv PROVE OutputsWhole
    OBVIOUS
  <2>1. HlsTypes /\ ListedStays /\ Settled
    BY DEF HlsInv
  <2>2. ASSUME NEW i \in MediaIds, listing[i] # Unknown, NEW r \in Rungs
        PROVE  ToSet(listing[i][r]) \subseteq files[i][r]
    BY <2>1, <2>2 DEF ListedStays, Listed, ToSet
  <2>3. ASSUME NEW i \in MediaIds, listing[i] # Unknown, Ended(i), NEW r \in Rungs
        PROVE  playlist[i][r] = [k \in DOMAIN listing[i][r] |-> NameOf(listing[i][r][k])]
    <3>1. ~ (Renaming /\ packing.id = i)
      BY <2>3 DEF Ended, Renaming, Idle
    <3>2. cut[i] # "last" /\ Fit(i)
      BY <2>3 DEF Ended, Fit
    <3> QED BY <2>1, <2>3, <3>1, <3>2 DEF Settled
  <2>4. HlsWhole
    BY <2>2, <2>3 DEF HlsWhole
  <2>5. EvidenceBound
    BY DEF EvidenceInv, EvidenceBound, Begins, Idle
  <2> QED BY <2>4, <2>5 DEF OutputsWhole
<1>4. QED
  BY <1>1, <1>2, <1>3, PTL DEF MediaSpec

-----------------------------------------------------------------------------
(***************************************************************************)
(* What Select keeps of a sequence, one element at a time.                 *)
(***************************************************************************)
Selecting(g, s, S, n) ==
    g = [i \in 0 .. n |-> IF i = 0 THEN <<>>
                          ELSE IF s[i] \in S THEN Append(g[i - 1], s[i]) ELSE g[i - 1]]

LEMMA SelectIsChosen ==
    \A s, S : Select(s, S) = (CHOOSE g : Selecting(g, s, S, Len(s)))[Len(s)]
BY DEF Select, Selecting

LEMMA SelectingAt ==
    ASSUME NEW g, NEW s, NEW S, NEW n \in Nat, Selecting(g, s, S, n), NEW i \in 0 .. n
    PROVE  g[i] = IF i = 0 THEN <<>>
                  ELSE IF s[i] \in S THEN Append(g[i - 1], s[i]) ELSE g[i - 1]
BY DEF Selecting

LEMMA SelectingOneMore ==
    ASSUME NEW s, NEW S, NEW n \in Nat, NEW g, Selecting(g, s, S, n)
    PROVE  \E h : Selecting(h, s, S, n + 1)
<1> DEFINE h == [i \in 0 .. (n + 1) |-> IF i = 0 THEN <<>>
                    ELSE IF s[i] \in S THEN Append(g[i - 1], s[i]) ELSE g[i - 1]]
<1>1. ASSUME NEW i \in 0 .. (n + 1), i # 0 PROVE g[i - 1] = h[i - 1]
  <2>1. i - 1 \in 0 .. n /\ i - 1 \in 0 .. (n + 1)
    BY <1>1
  <2> QED BY <2>1, SelectingAt
<1>2. h = [i \in 0 .. (n + 1) |-> IF i = 0 THEN <<>>
             ELSE IF s[i] \in S THEN Append(h[i - 1], s[i]) ELSE h[i - 1]]
  BY <1>1
<1>3. Selecting(h, s, S, n + 1)
  BY <1>2 DEF Selecting
<1> QED BY <1>3

LEMMA SelectingExists ==
    ASSUME NEW s, NEW S
    PROVE  \A n \in Nat : \E g : Selecting(g, s, S, n)
<1> DEFINE Bad == {n \in Nat : ~ \E g : Selecting(g, s, S, n)}
<1> SUFFICES ASSUME Bad # {} PROVE FALSE
  OBVIOUS
<1>1. PICK n \in Bad : \A m \in Bad : n <= m
  BY LeastNat
<1>2. CASE n = 0
  <2> DEFINE g == [i \in 0 .. 0 |-> <<>>]
  <2>1. g = [i \in 0 .. 0 |-> IF i = 0 THEN <<>>
               ELSE IF s[i] \in S THEN Append(g[i - 1], s[i]) ELSE g[i - 1]]
    OBVIOUS
  <2>2. Selecting(g, s, S, 0)
    BY <2>1 DEF Selecting
  <2> QED BY <1>2, <2>2
<1>3. CASE n # 0
  <2>1. n - 1 \in Nat /\ n - 1 \notin Bad /\ (n - 1) + 1 = n
    BY <1>1, <1>3
  <2>2. PICK g : Selecting(g, s, S, n - 1)
    BY <2>1
  <2>3. \E h : Selecting(h, s, S, (n - 1) + 1)
    BY <2>1, <2>2, SelectingOneMore
  <2> QED BY <2>1, <2>3
<1> QED BY <1>2, <1>3

LEMMA SelectSteps ==
    ASSUME NEW s, NEW S, Len(s) \in Nat
    PROVE  \E g : Selecting(g, s, S, Len(s)) /\ Select(s, S) = g[Len(s)]
<1>1. \E g : Selecting(g, s, S, Len(s))
  BY SelectingExists
<1> QED BY <1>1, SelectIsChosen

\* Two ways of selecting that agree on what is before n agree there.
LEMMA SelectingAgree ==
    ASSUME NEW s, NEW t, NEW S, NEW T, NEW n \in Nat, NEW m \in Nat, NEW k \in Nat, k <= n, k <= m,
           NEW g, NEW h, Selecting(g, s, S, n), Selecting(h, t, T, m),
           \A i \in 1 .. k : s[i] = t[i] /\ (s[i] \in S <=> t[i] \in T)
    PROVE  g[k] = h[k]
<1> DEFINE Bad == {i \in Nat : i <= k /\ g[i] # h[i]}
<1> SUFFICES ASSUME Bad # {} PROVE FALSE
  OBVIOUS
<1>1. PICK i \in Bad : \A j \in Bad : i <= j
  BY LeastNat
<1>2. i \in 0 .. n /\ i \in 0 .. m /\ i <= k /\ g[i] # h[i]
  BY <1>1
<1>3. /\ g[i] = IF i = 0 THEN <<>> ELSE IF s[i] \in S THEN Append(g[i - 1], s[i]) ELSE g[i - 1]
      /\ h[i] = IF i = 0 THEN <<>> ELSE IF t[i] \in T THEN Append(h[i - 1], t[i]) ELSE h[i - 1]
  BY <1>2, SelectingAt
<1>4. CASE i = 0
  BY <1>2, <1>3, <1>4
<1>5. CASE i # 0
  <2>1. i - 1 \in Nat /\ i - 1 <= k /\ i - 1 \notin Bad /\ i \in 1 .. k
    BY <1>1, <1>2, <1>5
  <2>2. g[i - 1] = h[i - 1]
    BY <2>1
  <2> QED BY <1>2, <1>3, <1>5, <2>1, <2>2
<1> QED BY <1>4, <1>5

LEMMA AppendRange ==
    ASSUME NEW X, NEW s \in Seq(X), NEW x \in X
    PROVE  Range(Append(s, x)) = Range(s) \cup {x}
<1>1. PICK n \in Nat : n = Len(s) /\ DOMAIN s = 1 .. n
  OBVIOUS
<1>2. /\ DOMAIN Append(s, x) = 1 .. (n + 1) /\ Append(s, x)[n + 1] = x
      /\ \A i \in 1 .. n : Append(s, x)[i] = s[i]
  BY <1>1
<1>3. 1 .. (n + 1) = 1 .. n \cup {n + 1}
  BY <1>1
<1> QED BY <1>1, <1>2, <1>3 DEF Range

LEMMA ConcatOfAppend ==
    ASSUME NEW X, NEW s \in Seq(X), NEW t \in Seq(X), NEW x \in X
    PROVE  s \o Append(t, x) = Append(s \o t, x)
<1>1. <<x>> \in Seq(X)
  OBVIOUS
<1>2. Append(t, x) = t \o <<x>> /\ Append(s \o t, x) = (s \o t) \o <<x>>
  BY AppendIsConcat, ConcatProperties
<1> QED BY <1>1, <1>2, ConcatAssociative

LEMMA SelectEmpty == ASSUME NEW S PROVE Select(<<>>, S) = <<>>
<1>1. Len(<<>>) = 0
  OBVIOUS
<1>2. PICK g : Selecting(g, <<>>, S, 0) /\ Select(<<>>, S) = g[0]
  BY <1>1, SelectSteps
<1> QED BY <1>2, SelectingAt

LEMMA SelectAppend ==
    ASSUME NEW X, NEW s \in Seq(X), NEW x \in X, NEW S
    PROVE  Select(Append(s, x), S) = IF x \in S THEN Append(Select(s, S), x) ELSE Select(s, S)
<1> DEFINE t == Append(s, x)
           n == Len(s)
<1>1. n \in Nat /\ Len(t) = n + 1 /\ t[n + 1] = x /\ \A i \in 1 .. n : t[i] = s[i]
  OBVIOUS
<1> HIDE DEF t, n
<1>2. PICK g : Selecting(g, s, S, n) /\ Select(s, S) = g[n]
  BY <1>1, SelectSteps DEF n
<1>3. PICK h : Selecting(h, t, S, n + 1) /\ Select(t, S) = h[n + 1]
  BY <1>1, SelectSteps
<1>4. g[n] = h[n]
  <2>1. n + 1 \in Nat /\ n <= n /\ n <= n + 1 /\ \A i \in 1 .. n : s[i] = t[i] /\ (s[i] \in S <=> t[i] \in S)
    BY <1>1
  <2> QED BY <1>1, <1>2, <1>3, <2>1, SelectingAgree
<1>5. n + 1 \in 0 .. (n + 1) /\ n + 1 # 0 /\ (n + 1) - 1 = n
  BY <1>1
<1>6. h[n + 1] = IF t[n + 1] \in S THEN Append(h[n], t[n + 1]) ELSE h[n]
  <2>1. PICK k \in Nat : k = n + 1
    BY <1>1
  <2>2. k \in 0 .. k /\ Selecting(h, t, S, k)
    BY <1>3, <2>1
  <2>3. h[k] = IF k = 0 THEN <<>> ELSE IF t[k] \in S THEN Append(h[k - 1], t[k]) ELSE h[k - 1]
    BY <2>2, SelectingAt
  <2>4. k # 0 /\ k - 1 = n
    BY <1>5, <2>1
  <2> QED BY <2>1, <2>3, <2>4
<1> QED BY <1>1, <1>2, <1>3, <1>4, <1>6 DEF t

LEMMA SelectSame ==
    ASSUME NEW X, NEW s \in Seq(X), NEW S, NEW T, \A i \in 1 .. Len(s) : s[i] \in S <=> s[i] \in T
    PROVE  Select(s, S) = Select(s, T)
<1> DEFINE n == Len(s)
<1>1. n \in Nat /\ n <= n
  OBVIOUS
<1> HIDE DEF n
<1>2. PICK g : Selecting(g, s, S, n) /\ Select(s, S) = g[n]
  BY <1>1, SelectSteps DEF n
<1>3. PICK h : Selecting(h, s, T, n) /\ Select(s, T) = h[n]
  BY <1>1, SelectSteps DEF n
<1>4. \A i \in 1 .. n : s[i] = s[i] /\ (s[i] \in S <=> s[i] \in T)
  BY DEF n
<1>5. g[n] = h[n]
  BY <1>1, <1>2, <1>3, <1>4, SelectingAgree
<1> QED BY <1>2, <1>3, <1>5

(***************************************************************************)
(* The laws of Select, each by a least counterexample among the lengths.   *)
(***************************************************************************)
LEMMA SelectedOf ==
    ASSUME NEW X, NEW s \in Seq(X), NEW S
    PROVE  /\ Select(s, S) \in Seq(X)
           /\ Range(Select(s, S)) = Range(s) \cap S
<1> DEFINE Fine(t) == Select(t, S) \in Seq(X) /\ Range(Select(t, S)) = Range(t) \cap S
           Bad == {n \in Nat : \E t \in Seq(X) : Len(t) = n /\ ~ Fine(t)}
<1>1. ASSUME Bad # {} PROVE FALSE
  <2>1. PICK n \in Bad : \A m \in Bad : n <= m
    BY <1>1, LeastNat
  <2>2. PICK t \in Seq(X) : Len(t) = n /\ ~ Fine(t)
    BY <2>1
  <2>3. CASE t = <<>>
    <3>1. Range(<<>>) = {} /\ <<>> \in Seq(X)
      BY DEF Range
    <3> QED BY <2>2, <2>3, <3>1, SelectEmpty
  <2>4. CASE t # <<>>
    <3>1. PICK u \in Seq(X), x \in X : t = Append(u, x)
      BY <2>4, SequenceEmptyOrAppend
    <3>2. Len(u) \in Nat /\ Len(u) < n
      BY <2>2, <3>1
    <3>3. Fine(u)
      BY <2>1, <3>2
    <3>4. Range(t) = Range(u) \cup {x}
      BY <3>1, AppendRange
    <3>5. Select(t, S) = IF x \in S THEN Append(Select(u, S), x) ELSE Select(u, S)
      BY <3>1, SelectAppend
    <3>6. Range(Append(Select(u, S), x)) = Range(Select(u, S)) \cup {x}
      BY <3>3, AppendRange
    <3>7. Append(Select(u, S), x) \in Seq(X)
      BY <3>3
    <3> QED BY <2>2, <3>3, <3>4, <3>5, <3>6, <3>7
  <2> QED BY <2>3, <2>4
<1>2. Len(s) \in Nat
  OBVIOUS
<1> QED BY <1>1, <1>2

LEMMA SelectAll ==
    ASSUME NEW X, NEW s \in Seq(X), NEW S, Range(s) \subseteq S
    PROVE  Select(s, S) = s
<1> DEFINE Bad == {n \in Nat : \E t \in Seq(X) : Len(t) = n /\ Range(t) \subseteq S /\ Select(t, S) # t}
<1>1. ASSUME Bad # {} PROVE FALSE
  <2>1. PICK n \in Bad : \A m \in Bad : n <= m
    BY <1>1, LeastNat
  <2>2. PICK t \in Seq(X) : Len(t) = n /\ Range(t) \subseteq S /\ Select(t, S) # t
    BY <2>1
  <2>3. t # <<>>
    BY <2>2, SelectEmpty
  <2>4. PICK u \in Seq(X), x \in X : t = Append(u, x)
    BY <2>3, SequenceEmptyOrAppend
  <2>5. Len(u) \in Nat /\ Len(u) < n
    BY <2>2, <2>4
  <2>6. Range(u) \subseteq S /\ x \in S
    BY <2>2, <2>4, AppendRange
  <2>7. Select(u, S) = u
    BY <2>1, <2>5, <2>6
  <2> QED BY <2>2, <2>4, <2>6, <2>7, SelectAppend
<1>2. Len(s) \in Nat
  OBVIOUS
<1> QED BY <1>1, <1>2

LEMMA SelectConcat ==
    ASSUME NEW X, NEW s \in Seq(X), NEW t \in Seq(X), NEW S
    PROVE  Select(s \o t, S) = Select(s, S) \o Select(t, S)
<1> DEFINE Fine(u) == Select(s \o u, S) = Select(s, S) \o Select(u, S)
           Bad == {n \in Nat : \E u \in Seq(X) : Len(u) = n /\ ~ Fine(u)}
<1>0. Select(s, S) \in Seq(X)
  BY SelectedOf
<1>1. ASSUME Bad # {} PROVE FALSE
  <2>1. PICK n \in Bad : \A m \in Bad : n <= m
    BY <1>1, LeastNat
  <2>2. PICK u \in Seq(X) : Len(u) = n /\ ~ Fine(u)
    BY <2>1
  <2>3. CASE u = <<>>
    <3>1. s \o <<>> = s /\ Select(s, S) \o <<>> = Select(s, S)
      BY <1>0, ConcatEmptySeq
    <3> QED BY <2>2, <2>3, <3>1, SelectEmpty
  <2>4. CASE u # <<>>
    <3>1. PICK v \in Seq(X), x \in X : u = Append(v, x)
      BY <2>4, SequenceEmptyOrAppend
    <3>2. Len(v) \in Nat /\ Len(v) < n
      BY <2>2, <3>1
    <3>3. Fine(v)
      BY <2>1, <3>2
    <3>4. s \o v \in Seq(X) /\ Select(v, S) \in Seq(X)
      BY SelectedOf
    <3>5. s \o Append(v, x) = Append(s \o v, x)
      BY ConcatOfAppend
    <3>6. Select(s \o u, S) = IF x \in S THEN Append(Select(s \o v, S), x) ELSE Select(s \o v, S)
      <4>1. PICK w \in Seq(X) : w = s \o v
        BY <3>4
      <4>2. Select(Append(w, x), S) = IF x \in S THEN Append(Select(w, S), x) ELSE Select(w, S)
        BY SelectAppend
      <4> QED BY <3>1, <3>5, <4>1, <4>2
    <3>7. Select(u, S) = IF x \in S THEN Append(Select(v, S), x) ELSE Select(v, S)
      BY <3>1, SelectAppend
    <3>8. Select(s, S) \o Append(Select(v, S), x) = Append(Select(s, S) \o Select(v, S), x)
      <4>1. PICK a \in Seq(X), b \in Seq(X) : a = Select(s, S) /\ b = Select(v, S)
        BY <1>0, <3>4
      <4>2. a \o Append(b, x) = Append(a \o b, x)
        BY <4>1, ConcatOfAppend
      <4> QED BY <4>1, <4>2
    <3> QED BY <2>2, <3>3, <3>6, <3>7, <3>8
  <2> QED BY <2>3, <2>4
<1>2. Len(t) \in Nat
  OBVIOUS
<1> QED BY <1>1, <1>2

\* Concatenation and prefixes as operators that the provers leave alone.
Cat(s, t) == s \o t
First(s, n) == SubSeq(s, 1, n)
Part(s, m, n) == SubSeq(s, m + 1, n)

LEMMA CatRange ==
    ASSUME NEW X, NEW s \in Seq(X), NEW t \in Seq(X)
    PROVE  Cat(s, t) \in Seq(X) /\ Range(Cat(s, t)) = Range(s) \cup Range(t)
BY ConcatProperties, RangeConcatenation DEF Cat

LEMMA CatAssociative ==
    ASSUME NEW X, NEW s \in Seq(X), NEW t \in Seq(X), NEW u \in Seq(X)
    PROVE  Cat(Cat(s, t), u) = Cat(s, Cat(t, u))
BY ConcatAssociative DEF Cat

LEMMA SelectCat ==
    ASSUME NEW X, NEW s \in Seq(X), NEW t \in Seq(X), NEW S
    PROVE  Select(Cat(s, t), S) = Cat(Select(s, S), Select(t, S))
BY SelectConcat DEF Cat

LEMMA CatHead ==
    ASSUME NEW X, NEW s \in Seq(X), NEW t \in Seq(X), s # <<>>
    PROVE  Head(Cat(s, t)) = Head(s) /\ Cat(s, t) # <<>>
<1>1. Len(s) \in Nat /\ Len(s) # 0 /\ Len(t) \in Nat
  OBVIOUS
<1>2. Cat(s, t) # <<>> /\ Cat(s, t)[1] = s[1]
  BY <1>1 DEF Cat
<1> QED BY <1>2

LEMMA FirstIs ==
    ASSUME NEW X, NEW s \in Seq(X), NEW n \in 0 .. Len(s)
    PROVE  /\ First(s, n) \in Seq(X) /\ Len(First(s, n)) = n
           /\ \A i \in 1 .. n : First(s, n)[i] = s[i]
BY DEF First

(***************************************************************************)
(* Folding equal titles onto the best, one row at a time.                  *)
(***************************************************************************)
Folding(g, s, n) ==
    g = [i \in 0 .. n |->
          IF i = 0 THEN <<>>
          ELSE IF \E x \in Range(g[i - 1]) : TitleOf[x] = TitleOf[s[i]] THEN g[i - 1]
          ELSE Append(g[i - 1], s[i])]

LEMMA FoldIsChosen == \A s : Fold(s) = (CHOOSE g : Folding(g, s, Len(s)))[Len(s)]
BY DEF Fold, Folding

LEMMA FoldingAt ==
    ASSUME NEW g, NEW s, NEW n \in Nat, Folding(g, s, n), NEW i \in 0 .. n
    PROVE  g[i] = IF i = 0 THEN <<>>
                  ELSE IF \E x \in Range(g[i - 1]) : TitleOf[x] = TitleOf[s[i]] THEN g[i - 1]
                  ELSE Append(g[i - 1], s[i])
BY DEF Folding

LEMMA FoldingOneMore ==
    ASSUME NEW s, NEW n \in Nat, NEW g, Folding(g, s, n)
    PROVE  \E h : Folding(h, s, n + 1)
<1> DEFINE h == [i \in 0 .. (n + 1) |->
                  IF i = 0 THEN <<>>
                  ELSE IF \E x \in Range(g[i - 1]) : TitleOf[x] = TitleOf[s[i]] THEN g[i - 1]
                  ELSE Append(g[i - 1], s[i])]
<1>1. ASSUME NEW i \in 0 .. (n + 1), i # 0 PROVE g[i - 1] = h[i - 1]
  <2>1. i - 1 \in 0 .. n /\ i - 1 \in 0 .. (n + 1)
    BY <1>1
  <2> QED BY <2>1, FoldingAt
<1>2. h = [i \in 0 .. (n + 1) |->
            IF i = 0 THEN <<>>
            ELSE IF \E x \in Range(h[i - 1]) : TitleOf[x] = TitleOf[s[i]] THEN h[i - 1]
            ELSE Append(h[i - 1], s[i])]
  BY <1>1
<1>3. Folding(h, s, n + 1)
  BY <1>2 DEF Folding
<1> QED BY <1>3

LEMMA FoldingExists ==
    ASSUME NEW s
    PROVE  \A n \in Nat : \E g : Folding(g, s, n)
<1> DEFINE Bad == {n \in Nat : ~ \E g : Folding(g, s, n)}
<1> SUFFICES ASSUME Bad # {} PROVE FALSE
  OBVIOUS
<1>1. PICK n \in Bad : \A m \in Bad : n <= m
  BY LeastNat
<1>2. CASE n = 0
  <2> DEFINE g == [i \in 0 .. 0 |-> <<>>]
  <2>1. g = [i \in 0 .. 0 |->
              IF i = 0 THEN <<>>
              ELSE IF \E x \in Range(g[i - 1]) : TitleOf[x] = TitleOf[s[i]] THEN g[i - 1]
              ELSE Append(g[i - 1], s[i])]
    OBVIOUS
  <2>2. Folding(g, s, 0)
    BY <2>1 DEF Folding
  <2> QED BY <1>2, <2>2
<1>3. CASE n # 0
  <2>1. n - 1 \in Nat /\ n - 1 \notin Bad /\ (n - 1) + 1 = n
    BY <1>1, <1>3
  <2>2. PICK g : Folding(g, s, n - 1)
    BY <2>1
  <2>3. \E h : Folding(h, s, (n - 1) + 1)
    BY <2>1, <2>2, FoldingOneMore
  <2> QED BY <2>1, <2>3
<1> QED BY <1>2, <1>3

\* No element twice.
Distinct(s) == \A i, j \in 1 .. Len(s) : i # j => s[i] # s[j]

LEMMA DistinctAppend ==
    ASSUME NEW X, NEW s \in Seq(X), Distinct(s), NEW x \in X, x \notin Range(s)
    PROVE  Distinct(Append(s, x))
<1>1. PICK n \in Nat : n = Len(s) /\ DOMAIN s = 1 .. n
  OBVIOUS
<1>2. /\ Len(Append(s, x)) = n + 1 /\ Append(s, x)[n + 1] = x
      /\ \A i \in 1 .. n : Append(s, x)[i] = s[i]
  BY <1>1
<1>3. \A i \in 1 .. n : s[i] # x
  BY <1>1 DEF Range
<1>4. \A i \in 1 .. (n + 1) : i \in 1 .. n \/ i = n + 1
  BY <1>1
<1> QED BY <1>1, <1>2, <1>3, <1>4 DEF Distinct

LEMMA FoldOnce ==
    ASSUME NEW X, NEW s \in Seq(X)
    PROVE  /\ Fold(s) \in Seq(X) /\ Distinct(Fold(s))
           /\ Fold(s) = <<>> => s = <<>>
<1>1. PICK n \in Nat : n = Len(s) /\ DOMAIN s = 1 .. n /\ \A i \in 1 .. n : s[i] \in X
  OBVIOUS
<1>2. PICK g : Folding(g, s, n)
  BY FoldingExists
<1>2a. \E h : Folding(h, s, n) /\ Fold(s) = h[n]
  BY <1>1, <1>2, FoldIsChosen
<1>3. PICK h : Folding(h, s, n) /\ Fold(s) = h[n]
  BY <1>2a
<1> DEFINE Fine(i) == h[i] \in Seq(X) /\ Distinct(h[i]) /\ (h[i] = <<>> => i = 0)
           Bad == {i \in Nat : i <= n /\ ~ Fine(i)}
<1>4. ASSUME Bad # {} PROVE FALSE
  <2>1. PICK i \in Bad : \A j \in Bad : i <= j
    BY <1>4, LeastNat
  <2>2. i \in 0 .. n /\ ~ Fine(i)
    BY <2>1
  <2>3. h[i] = IF i = 0 THEN <<>>
               ELSE IF \E x \in Range(h[i - 1]) : TitleOf[x] = TitleOf[s[i]] THEN h[i - 1]
               ELSE Append(h[i - 1], s[i])
    BY <1>3, <2>2, FoldingAt
  <2>4. CASE i = 0
    <3>1. <<>> \in Seq(X) /\ Distinct(<<>>)
      BY DEF Distinct
    <3> QED BY <2>2, <2>3, <2>4, <3>1
  <2>5. CASE i # 0
    <3>1. i - 1 \in Nat /\ i \in 1 .. n /\ i - 1 \notin Bad /\ i - 1 <= n
      BY <2>1, <2>2, <2>5
    <3>2. Fine(i - 1)
      BY <3>1
    <3>3. s[i] \in X
      BY <1>1, <3>1
    <3>4. CASE \E x \in Range(h[i - 1]) : TitleOf[x] = TitleOf[s[i]]
      <4>1. h[i] = h[i - 1] /\ h[i - 1] # <<>>
        BY <2>3, <2>5, <3>4 DEF Range
      <4> QED BY <2>2, <3>2, <4>1
    <3>5. CASE ~ \E x \in Range(h[i - 1]) : TitleOf[x] = TitleOf[s[i]]
      <4>1. h[i] = Append(h[i - 1], s[i]) /\ s[i] \notin Range(h[i - 1])
        BY <2>3, <2>5, <3>5
      <4>2. Append(h[i - 1], s[i]) \in Seq(X) /\ Append(h[i - 1], s[i]) # <<>>
        BY <3>2, <3>3, AppendProperties
      <4>3. Distinct(Append(h[i - 1], s[i]))
        BY <3>2, <3>3, <4>1, DistinctAppend
      <4> QED BY <2>2, <4>1, <4>2, <4>3
    <3> QED BY <3>4, <3>5
  <2> QED BY <2>4, <2>5
<1>5. Fine(n)
  BY <1>1, <1>4
<1>6. n = 0 => s = <<>>
  BY <1>1
<1> QED BY <1>3, <1>5, <1>6

-----------------------------------------------------------------------------
(***************************************************************************)
(* The strengthening.  What an untangled view shows is, behind its Lead,   *)
(* the first Upto titles of its query; and it awaits one fetch at most, of *)
(* the page that comes next.                                               *)
(***************************************************************************)
Pager == [off : Nat, loading : BOOLEAN, done : BOOLEAN, shown : Seq(Cards)]
Answers == [items : Seq(Cards), next : Nat]
FetchType == [view : Views, query : Queries, off : Nat, id : Nat, answer : {Nil} \cup Answers]

PageTypes ==
    /\ ranking \in Seq(Cards) /\ Range(ranking) = Cards
    /\ query \in Queries /\ loads \in Nat
    /\ pager \in [Views -> Pager]
    /\ fetches \subseteq FetchType

All == IF query \in Gated THEN <<>> ELSE Fold(Ranked(query))
FeedOf(all, off, limit) ==
    [items |-> Slice(all, off, limit), next |-> IF off + limit < Len(all) THEN off + limit ELSE 0]

\* The video the player was opened with.
Lead(v) == IF v = "home" THEN <<>> ELSE <<Head(pager[v].shown)>>
Others(s) == Cards \ Range(s)
Upto(v) == IF pager[v].done THEN Len(All) ELSE pager[v].off
Shows(v) ==
    /\ v = "player" => pager[v].shown # <<>>
    /\ Upto(v) <= Len(All)
    /\ pager[v].shown = Cat(Lead(v), Select(First(All, Upto(v)), Others(Lead(v))))

Awaits(v) ==
    \A f \in fetches : f.view = v =>
        /\ pager[v].loading /\ ~ pager[v].done
        /\ f.query = query /\ f.off = pager[v].off
        /\ f.answer # Nil => f.answer = FeedOf(All, f.off, PageSize[v])
        /\ \A g \in fetches : g.view = v => g = f

PageInv ==
    /\ PageTypes
    /\ \A v \in Views \ tangled : Shows(v) /\ Awaits(v)

LEMMA AllTyped == ASSUME PageTypes PROVE All \in Seq(Cards) /\ Distinct(All) /\ Len(All) \in Nat
<1>1. Ranked(query) \in Seq(Cards)
  BY SelectedOf DEF PageTypes, Ranked
<1>2. Fold(Ranked(query)) \in Seq(Cards) /\ Distinct(Fold(Ranked(query)))
  BY <1>1, FoldOnce
<1>3. <<>> \in Seq(Cards) /\ Distinct(<<>>)
  BY DEF Distinct
<1>4. All \in Seq(Cards) /\ Distinct(All)
  BY <1>2, <1>3 DEF All
<1> QED BY <1>4

LEMMA AllTypedNext == ASSUME PageTypes' PROVE All' \in Seq(Cards) /\ Len(All') \in Nat
<1>1. Ranked(query)' \in Seq(Cards)
  BY SelectedOf DEF PageTypes, Ranked
<1>2. Fold(Ranked(query)') \in Seq(Cards)
  BY <1>1, FoldOnce
<1>3. <<>> \in Seq(Cards)
  OBVIOUS
<1>4. All' \in Seq(Cards)
  BY <1>2, <1>3 DEF All
<1> QED BY <1>4

LEMMA SliceTyped ==
    ASSUME NEW all \in Seq(Cards), NEW off \in Nat, NEW limit \in Nat
    PROVE  FeedOf(all, off, limit) \in Answers
<1> DEFINE m == IF off + limit < Len(all) THEN off + limit ELSE Len(all)
<1>1. off + 1 \in Int /\ m \in Int /\ \A i \in off + 1 .. m : all[i] \in Cards
  OBVIOUS
<1>2. SubSeq(all, off + 1, m) \in Seq(Cards)
  BY <1>1, SubSeqProperties
<1> QED BY <1>2 DEF FeedOf, Slice, Answers

LEMMA FeedIs ==
    ASSUME NEW qu, NEW off, NEW limit, qu = query, qu \notin Gated
    PROVE  Feed(qu, off, limit) = FeedOf(All, off, limit)
BY DEF Feed, FeedOf, All

LEMMA FeedTyped ==
    ASSUME PageTypes, NEW qu \in Queries, NEW off \in Nat, NEW limit \in Nat
    PROVE  Feed(qu, off, limit) \in Answers
<1>1. Ranked(qu) \in Seq(Cards)
  BY SelectedOf DEF PageTypes, Ranked
<1>2. PICK all \in Seq(Cards) : all = Fold(Ranked(qu))
  BY <1>1, FoldOnce
<1>3. Feed(qu, off, limit) = FeedOf(all, off, limit)
  BY <1>2 DEF Feed, FeedOf
<1> QED BY <1>2, <1>3, SliceTyped

LEMMA FeedGated ==
    ASSUME query \in Gated, NEW off \in Nat, NEW limit \in Nat
    PROVE  FeedOf(All, off, limit) = [items |-> <<>>, next |-> 0]
<1>1. All = <<>> /\ Len(<<>>) = 0 /\ ~ off + limit < 0 /\ off + 1 \in Int /\ 0 < off + 1
  BY DEF All
<1>2. SubSeq(<<>>, off + 1, 0) = <<>>
  BY <1>1, SubSeqEmpty
<1> QED BY <1>1, <1>2 DEF FeedOf, Slice

\* The next page, without what is shown, is the next page without the lead.
LEMMA PageGrows ==
    ASSUME NEW all \in Seq(Cards), Distinct(all), NEW lead \in Seq(Cards),
           NEW off \in 0 .. Len(all), NEW m \in off .. Len(all),
           NEW had, had = Cat(lead, Select(First(all, off), Others(lead))),
           NEW items, items = Part(all, off, m)
    PROVE  Cat(had, Select(items, Others(had))) = Cat(lead, Select(First(all, m), Others(lead)))
<1> DEFINE rest == Others(lead)
           unseen == Others(had)
<1>a. rest = Cards \ Range(lead) /\ unseen = Cards \ Range(had)
  BY DEF Others
<1> HIDE DEF rest, unseen
<1>0. PICK n \in Nat : n = Len(all) /\ \A i \in 1 .. n : all[i] \in Cards
  OBVIOUS
<1>1. PICK a \in Seq(Cards) : /\ a = First(all, off) /\ Len(a) = off
                              /\ \A i \in 1 .. off : a[i] = all[i]
  BY FirstIs
<1>2. PICK b \in Seq(Cards) : /\ b = SubSeq(all, off + 1, m) /\ Len(b) = m - off
                              /\ \A i \in 1 .. m - off : b[i] = all[off + i]
  <2>1. SubSeq(all, off + 1, m) \in Seq(Cards) /\ Len(SubSeq(all, off + 1, m)) = m - off
        /\ \A i \in 1 .. m - off : SubSeq(all, off + 1, m)[i] = all[off + i]
    <3>1. off + 1 \in Int /\ m \in Int /\ \A i \in off + 1 .. m : i \in 1 .. n
      BY <1>0
    <3>2. \A i \in off + 1 .. m : all[i] \in Cards
      BY <1>0, <3>1
    <3>3. /\ SubSeq(all, off + 1, m) \in Seq(Cards)
          /\ Len(SubSeq(all, off + 1, m)) = IF off + 1 <= m THEN m - (off + 1) + 1 ELSE 0
          /\ \A i \in 1 .. m - (off + 1) + 1 :
               SubSeq(all, off + 1, m)[i] = all[off + 1 + i - 1]
      BY <3>1, <3>2, SubSeqProperties
    <3>4. m - (off + 1) + 1 = m - off /\ \A i \in Int : off + 1 + i - 1 = off + i
      BY <1>0
    <3>5. off + 1 <= m \/ m - off = 0
      BY <1>0
    <3> QED BY <3>3, <3>4, <3>5
  <2> QED BY <2>1
<1>3. Cat(a, b) = First(all, m)
  <2>1. 1 \in 1 .. Len(all) + 1 /\ off \in 1 - 1 .. Len(all) /\ m \in off .. Len(all)
    BY <1>0
  <2>2. SubSeq(all, 1, off) \o SubSeq(all, off + 1, m) = SubSeq(all, 1, m)
    BY <2>1, ConcatAdjacentSubSeq
  <2> QED BY <1>1, <1>2, <2>2 DEF Cat, First
<1>4. PICK c \in Seq(Cards) : c = Select(a, rest) /\ Range(c) = Range(a) \cap rest
  <2>0. a \in Seq(Cards)
    BY <1>1
  <2>1. Select(a, rest) \in Seq(Cards) /\ Range(Select(a, rest)) = Range(a) \cap rest
    BY ONLY <2>0, SelectedOf
  <2> QED BY ONLY <2>1
<1>5. had = Cat(lead, c) /\ Range(had) = Range(lead) \cup Range(c)
  <2>1. had = Cat(lead, c)
    BY <1>1, <1>4 DEF rest
  <2>2. Range(Cat(lead, c)) = Range(lead) \cup Range(c)
    BY <1>4, CatRange
  <2> QED BY ONLY <2>1, <2>2
<1>6. ASSUME NEW i \in 1 .. Len(b) PROVE b[i] \in unseen <=> b[i] \in rest
  <2>0. Len(b) = m - off /\ (\A k \in 1 .. m - off : b[k] = all[off + k])
        /\ n = Len(all) /\ \A k \in 1 .. n : all[k] \in Cards
    BY <1>0, <1>2
  <2>1. off + i \in 1 .. n /\ b[i] = all[off + i] /\ b[i] \in Cards
    BY ONLY <2>0
  <2>2. \A j \in 1 .. off : j \in 1 .. n /\ j # off + i
    BY <1>0, <1>2
  <2>3. \A j \in 1 .. off : a[j] # b[i]
    BY <1>0, <1>1, <2>1, <2>2 DEF Distinct
  <2>4. b[i] \notin Range(a)
    BY <1>1, <2>3 DEF Range
  <2> QED BY ONLY <1>a, <1>4, <1>5, <2>1, <2>4
<1>7. Select(b, unseen) = Select(b, rest)
  BY <1>2, <1>6, SelectSame
<1>8. PICK d \in Seq(Cards) : d = Select(b, rest)
  BY <1>2, SelectedOf
<1>9. Cat(Cat(lead, c), d) = Cat(lead, Cat(c, d))
  BY <1>4, <1>8, CatAssociative
<1>10. Cat(c, d) = Select(Cat(a, b), rest)
  <2>1. a \in Seq(Cards) /\ b \in Seq(Cards)
    BY <1>1, <1>2
  <2>2. Select(Cat(a, b), rest) = Cat(Select(a, rest), Select(b, rest))
    BY ONLY <2>1, SelectCat
  <2> QED BY <1>4, <1>8, <2>2
<1>11. items = b
  BY <1>2 DEF Part
<1> QED BY <1>3, <1>5, <1>7, <1>8, <1>9, <1>10, <1>11 DEF rest, unseen

LEMMA AllFixed == ASSUME query' = query, ranking' = ranking PROVE All' = All
BY DEF All, Ranked

LEMMA ShowsFixed ==
    ASSUME NEW v, Shows(v), All' = All,
           pager'[v].shown = pager[v].shown, pager'[v].done = pager[v].done, pager'[v].off = pager[v].off
    PROVE  Shows(v)'
<1>1. Lead(v)' = Lead(v) /\ Upto(v)' = Upto(v)
  BY DEF Lead, Upto
<1> QED BY <1>1 DEF Shows

LEMMA AwaitsFixed ==
    ASSUME NEW v, Awaits(v), All' = All, query' = query, pager'[v] = pager[v],
           \A f \in fetches' : f.view = v => f \in fetches
    PROVE  Awaits(v)'
BY DEF Awaits

LEMMA PageInitInv == PageInit => PageInv
<1> SUFFICES ASSUME PageInit PROVE PageInv
  OBVIOUS
<1>1. PageTypes
  <2>1. Cardinality(Cards) \in Nat
    BY PageAssumption, FS_CardinalityType
  <2>2. ranking \in [1 .. Cardinality(Cards) -> Cards] /\ IsInjective(ranking)
    BY DEF PageInit
  <2>3. ranking \in Injection(1 .. Cardinality(Cards), Cards)
    BY <2>2 DEF Injection
  <2>4. Cardinality(1 .. Cardinality(Cards)) = Cardinality(Cards)
    BY <2>1, FS_Interval
  <2>5. ranking \in Surjection(1 .. Cardinality(Cards), Cards)
    BY <2>3, <2>4, PageAssumption, FS_Injection
  <2>6. Range(ranking) = Cards
    BY <2>5 DEF Surjection, Range
  <2>7. ranking \in Seq(Cards)
    BY <2>1, <2>2
  <2>8. FreshPager \in Pager
    <3>1. <<>> \in Seq(Cards)
      OBVIOUS
    <3> QED BY <3>1 DEF FreshPager, Pager
  <2> QED BY <2>6, <2>7, <2>8 DEF PageInit, PageTypes
<1>2. ASSUME NEW v \in Views \ tangled PROVE Shows(v) /\ Awaits(v)
  <2>1. v = "home" /\ pager[v] = FreshPager /\ fetches = {}
    BY <1>2 DEF PageInit, Views
  <2>2. Lead(v) = <<>> /\ Upto(v) = 0 /\ pager[v].shown = <<>>
    BY <2>1 DEF Lead, Upto, FreshPager
  <2>3. All \in Seq(Cards) /\ Len(All) \in Nat
    BY <1>1, AllTyped
  <2>4. First(All, 0) = <<>>
    BY <2>3, SubSeqEmpty DEF First
  <2>5. Cat(<<>>, Select(<<>>, Others(Lead(v)))) = <<>>
    BY SelectEmpty DEF Cat
  <2>6. Shows(v)
    BY <2>1, <2>2, <2>3, <2>4, <2>5 DEF Shows
  <2> QED BY <2>1, <2>6 DEF Awaits
<1> QED BY <1>1, <1>2 DEF PageInv

LEMMA LoadKeeps ==
    ASSUME PageInv, NEW v \in Views, Load(v)
    PROVE  PageInv'
<1> DEFINE F == [view |-> v, query |-> query, off |-> pager[v].off, id |-> loads', answer |-> Nil]
<1>1. /\ loads' = loads + 1 /\ ~ pager[v].loading /\ ~ pager[v].done
      /\ query' = query /\ ranking' = ranking /\ tangled' = tangled
      /\ pager' = [pager EXCEPT ![v].loading = TRUE] /\ fetches' = fetches \cup {F}
  BY DEF Load, Fetch
<1>2. pager \in [Views -> Pager] /\ fetches \subseteq FetchType
  BY DEF PageInv, PageTypes
<1>3. /\ pager'[v].shown = pager[v].shown /\ pager'[v].done = pager[v].done
      /\ pager'[v].off = pager[v].off /\ pager'[v].loading /\ pager'[v] \in Pager
      /\ \A w \in Views : w # v => pager'[w] = pager[w]
  BY <1>1, <1>2 DEF Pager
<1>4. pager' \in [Views -> Pager]
  BY <1>1, <1>2, <1>3
<1>5. F \in FetchType
  BY <1>1, <1>2 DEF PageInv, PageTypes, FetchType, Pager
<1>6. PageTypes'
  BY <1>1, <1>2, <1>4, <1>5 DEF PageInv, PageTypes
<1>7. ASSUME NEW w \in Views \ tangled' PROVE Shows(w)' /\ Awaits(w)'
  <2>1. Shows(w) /\ Awaits(w) /\ All' = All
    BY <1>1, <1>7, AllFixed DEF PageInv
  <2>2. Shows(w)'
    BY <1>3, <1>7, <2>1, ShowsFixed
  <2>3. CASE w # v
    BY <1>1, <1>3, <1>7, <2>1, <2>2, <2>3, AwaitsFixed
  <2>4. CASE w = v
    <3>1. \A f \in fetches' : f.view = v => f = F
      BY <1>1, <2>1, <2>4 DEF Awaits
    <3>2. F.query = query' /\ F.off = pager'[v].off /\ F.answer = Nil
      BY <1>1, <1>3
    <3> QED BY <1>1, <1>3, <2>2, <2>4, <3>1, <3>2 DEF Awaits
  <2> QED BY <2>3, <2>4
<1> QED BY <1>6, <1>7 DEF PageInv

LEMMA ServeKeeps ==
    ASSUME PageInv, NEW f \in fetches, Serve(f)
    PROVE  PageInv'
<1> DEFINE A == IF f.query \in Gated THEN [items |-> <<>>, next |-> 0]
                ELSE Feed(f.query, f.off, PageSize[f.view])
           F == [f EXCEPT !.answer = A]
<1>1. UNCHANGED <<ranking, query, pager, tangled, loads>> /\ fetches' = (fetches \ {f}) \cup {F}
  BY DEF Serve, form
<1>2. PageTypes /\ f \in FetchType
  BY DEF PageInv, PageTypes
<1>3. f.view \in Views /\ f.query \in Queries /\ f.off \in Nat /\ PageSize[f.view] \in Nat
  BY <1>2, PageAssumption DEF FetchType
<1>4. A \in Answers
  <2>1. [items |-> <<>>, next |-> 0] \in Answers
    BY DEF Answers
  <2> QED BY <1>2, <1>3, <2>1, FeedTyped
<1>5. F \in FetchType /\ F.view = f.view /\ F.query = f.query /\ F.off = f.off /\ F.answer = A
  <2> HIDE DEF A
  <2> QED BY <1>2, <1>4 DEF FetchType
<1>6. PageTypes'
  BY <1>1, <1>2, <1>5 DEF PageTypes
<1>7. ASSUME NEW w \in Views \ tangled' PROVE Shows(w)' /\ Awaits(w)'
  <2>1. Shows(w) /\ Awaits(w) /\ All' = All /\ pager'[w] = pager[w]
    BY <1>1, <1>7, AllFixed DEF PageInv
  <2>2. Shows(w)'
    BY <2>1, ShowsFixed
  <2>3. CASE f.view # w
    BY <1>1, <1>5, <2>1, <2>2, <2>3, AwaitsFixed
  <2>4. CASE f.view = w
    <3>1. \A g \in fetches : g.view = w => g = f
      BY <2>1, <2>4 DEF Awaits
    <3>2. f.query = query /\ f.off = pager[w].off /\ pager[w].loading /\ ~ pager[w].done
      BY <2>1, <2>4 DEF Awaits
    <3>3. A = FeedOf(All, f.off, PageSize[f.view])
      BY <1>3, <3>2, FeedIs, FeedGated
    <3> HIDE DEF F, A
    <3>4. \A g \in fetches' : g.view = w => g = F
      BY <1>1, <3>1
    <3> QED BY <1>1, <1>5, <2>1, <2>2, <2>4, <3>2, <3>3, <3>4 DEF Awaits
  <2> QED BY <2>3, <2>4
<1> QED BY <1>6, <1>7 DEF PageInv

LEMMA LandKeeps ==
    ASSUME PageInv, NEW f \in fetches, Land(f)
    PROVE  PageInv'
<1> DEFINE v == f.view
           p == pager[v]
           unseen == Cards \ Range(p.shown)
           new == Select(f.answer.items, unseen)
           q == [shown |-> p.shown \o new, loading |-> FALSE, done |-> p.done \/ f.answer.next = 0,
                 off |-> IF f.answer.next = 0 THEN p.off ELSE f.answer.next]
<1>1. /\ UNCHANGED <<ranking, query, tangled, loads>> /\ fetches' = fetches \ {f}
      /\ f.answer # Nil
  BY DEF Land, form
<1>1a. pager' = [pager EXCEPT ![v] = q]
  BY DEF Land
<1>2. PageTypes /\ f \in FetchType /\ pager \in [Views -> Pager]
  BY DEF PageInv, PageTypes
<1>3. v \in Views /\ p \in Pager /\ f.answer \in Answers
  BY <1>1, <1>2 DEF FetchType
<1>4. p.shown \in Seq(Cards) /\ f.answer.items \in Seq(Cards) /\ f.answer.next \in Nat /\ p.off \in Nat
  BY <1>3 DEF Pager, Answers
<1>5. new \in Seq(Cards)
  BY <1>4, SelectedOf
<1> HIDE DEF new, unseen, p, v
<1>6. q \in Pager
  <2>1. p.shown \o new \in Seq(Cards)
    BY <1>4, <1>5, ConcatProperties
  <2>2. p.done \in BOOLEAN
    BY <1>3 DEF Pager
  <2> QED BY <1>4, <2>1, <2>2 DEF Pager
<1>7. /\ pager'[v] = q /\ \A w \in Views : w # v => pager'[w] = pager[w]
      /\ pager' \in [Views -> Pager]
  <2> HIDE DEF q
  <2> QED BY <1>1a, <1>2, <1>3, <1>6
<1>8. PageTypes'
  BY <1>1, <1>2, <1>7 DEF PageTypes
<1>9. ASSUME NEW w \in Views \ tangled' PROVE Shows(w)' /\ Awaits(w)'
  <2>1. Shows(w) /\ Awaits(w) /\ All' = All
    BY <1>1, <1>9, AllFixed DEF PageInv
  <2>2. CASE w # v
    <3>1. pager'[w] = pager[w]
      BY <1>7, <1>9, <2>2
    <3> QED BY <1>1, <2>1, <3>1, ShowsFixed, AwaitsFixed
  <2>3. CASE w = v
    <3>1. Awaits(w)'
      <4>1. \A g \in fetches' : g.view # w
        BY <1>1, <2>1, <2>3 DEF Awaits, v
      <4> QED BY <4>1 DEF Awaits
    <3>2. ~ p.done /\ f.off = p.off /\ f.answer = FeedOf(All, f.off, PageSize[v])
      BY <1>1, <2>1, <2>3 DEF Awaits, v, p
    <3>3. PICK n \in Nat, off \in Nat, limit \in Nat \ {0} :
            /\ n = Len(All) /\ off = p.off /\ limit = PageSize[v] /\ off <= n
            /\ All \in Seq(Cards) /\ Distinct(All)
      <4>1. All \in Seq(Cards) /\ Distinct(All) /\ Len(All) \in Nat
        BY <1>2, AllTyped
      <4>2. PageSize[v] \in Nat \ {0}
        BY <1>3, PageAssumption
      <4>3. p.off <= Len(All)
        BY <2>1, <2>3, <3>2 DEF Shows, Upto, p
      <4> QED BY <1>4, <4>1, <4>2, <4>3
    <3>4. PICK m \in off .. n :
            /\ m = IF off + limit < n THEN off + limit ELSE n
            /\ f.answer.items = SubSeq(All, off + 1, m)
            /\ f.answer.next = IF off + limit < n THEN m ELSE 0
      <4>1. (IF off + limit < n THEN off + limit ELSE n) \in off .. n
        BY <3>3
      <4>2. /\ f.answer.items = Slice(All, off, limit)
            /\ f.answer.next = IF off + limit < n THEN off + limit ELSE 0
        BY <3>2, <3>3 DEF FeedOf
      <4> QED BY <3>3, <4>1, <4>2 DEF Slice
    <3>5. Lead(w) \in Seq(Cards) /\ Lead(w)' = Lead(w)
      <4>1. CASE w = "home"
        <5>1. <<>> \in Seq(Cards)
          OBVIOUS
        <5> QED BY <4>1, <5>1 DEF Lead
      <4>2. CASE w # "home"
        <5>1. p.shown # <<>>
          BY <1>9, <2>1, <2>3, <4>2 DEF Shows, Views, p
        <5>2. Head(p.shown) \in Cards
          BY <1>4, <5>1
        <5>3. Head(Cat(p.shown, new)) = Head(p.shown)
          <6>1. p.shown \in Seq(Cards)
            BY <1>4
          <6> QED BY ONLY <6>1, <1>5, <5>1, CatHead
        <5>4. Head(pager'[w].shown) = Head(pager[w].shown)
          <6>1. pager'[w].shown = Cat(p.shown, new)
            BY <1>7, <2>3 DEF Cat
          <6>2. p.shown = pager[w].shown
            BY <2>3 DEF p
          <6> QED BY ONLY <5>3, <6>1, <6>2
        <5>5. <<Head(p.shown)>> \in Seq(Cards)
          BY <5>2
        <5> QED BY <2>3, <4>2, <5>4, <5>5 DEF Lead, p
      <4> QED BY <4>1, <4>2
    <3>7. p.shown = Cat(Lead(w), Select(First(All, off), Others(Lead(w))))
      BY <2>1, <2>3, <3>2, <3>3 DEF Shows, Upto, p
    <3>8. Cat(p.shown, new) = Cat(Lead(w), Select(First(All, m), Others(Lead(w))))
      <4>1. off \in 0 .. Len(All) /\ m \in off .. Len(All)
        BY <3>3, <3>4
      <4>2. new = Select(f.answer.items, Others(p.shown))
        BY DEF new, unseen, Others
      <4>3. All \in Seq(Cards) /\ Distinct(All) /\ Lead(w) \in Seq(Cards)
        BY <3>3, <3>5
      <4>4. f.answer.items = Part(All, off, m)
        BY <3>4 DEF Part
      <4>5. Cat(p.shown, Select(f.answer.items, Others(p.shown)))
              = Cat(Lead(w), Select(First(All, m), Others(Lead(w))))
        BY ONLY <3>7, <4>1, <4>3, <4>4, PageGrows
      <4> QED BY ONLY <4>2, <4>5
    <3>9. Upto(w)' = m
      <4>1. pager'[w].done = (f.answer.next = 0)
            /\ pager'[w].off = IF f.answer.next = 0 THEN off ELSE f.answer.next
        BY <1>7, <2>3, <3>2, <3>3
      <4>2. f.answer.next = 0 <=> ~ off + limit < n
        BY <3>3, <3>4
      <4>3. Upto(w)' = IF pager'[w].done THEN Len(All') ELSE pager'[w].off
        BY DEF Upto
      <4> QED BY <2>1, <3>3, <3>4, <4>1, <4>2, <4>3
    <3>10. pager'[w].shown = Cat(p.shown, new)
      BY <1>7, <2>3 DEF Cat
    <3>11. w = "player" => pager'[w].shown # <<>>
      <4>1. w = "player" => p.shown # <<>>
        BY <2>1, <2>3 DEF Shows, p
      <4>2. p.shown # <<>> => p.shown \o new # <<>>
        BY <1>4, <1>5
      <4> QED BY <1>7, <2>3, <4>1, <4>2
    <3>12. Shows(w)'
      <4>1. Upto(w)' <= Len(All)'
        BY <2>1, <3>3, <3>4, <3>9
      <4>2. pager'[w].shown = Cat(Lead(w)', Select(First(All', Upto(w)'), Others(Lead(w))'))
        BY <2>1, <3>5, <3>8, <3>9, <3>10
      <4> QED BY <3>11, <4>1, <4>2 DEF Shows
    <3> QED BY <3>1, <3>12
  <2> QED BY <2>2, <2>3
<1> QED BY <1>8, <1>9 DEF PageInv

\* An empty pager shows nothing but its lead.
LEMMA NothingYet ==
    ASSUME NEW all \in Seq(Cards), NEW lead \in Seq(Cards), NEW S
    PROVE  Cat(lead, Select(First(all, 0), S)) = lead
<1>1. First(all, 0) = <<>>
  BY SubSeqEmpty DEF First
<1>2. Select(First(all, 0), S) = <<>>
  BY <1>1, SelectEmpty
<1>3. lead \o <<>> = lead
  BY ConcatEmptySeq
<1> QED BY <1>2, <1>3 DEF Cat

LEMMA EmptyShows ==
    ASSUME NEW v, PageTypes', Lead(v)' \in Seq(Cards),
           Upto(v)' = 0, pager'[v].shown = Lead(v)', v = "player" => pager'[v].shown # <<>>
    PROVE  Shows(v)'
<1>1. All' \in Seq(Cards) /\ 0 <= Len(All')
  BY AllTypedNext
<1>2. Cat(Lead(v)', Select(First(All', 0), Others(Lead(v))')) = Lead(v)'
  BY <1>1, NothingYet
<1>3. pager'[v].shown = Cat(Lead(v)', Select(First(All', Upto(v)'), Others(Lead(v))'))
  BY <1>2
<1>4. Upto(v)' <= Len(All')
  BY <1>1
<1> QED BY <1>3, <1>4 DEF Shows

LEMMA LoadFailsKeeps ==
    ASSUME PageInv, NEW f \in fetches, LoadFails(f)
    PROVE  PageInv'
<1>1. UNCHANGED <<ranking, query, pager, tangled, loads>> /\ fetches' = fetches \ {f}
  BY DEF LoadFails, form
<1>2. PageTypes'
  BY <1>1 DEF PageInv, PageTypes
<1>3. ASSUME NEW w \in Views \ tangled' PROVE Shows(w)' /\ Awaits(w)'
  <2>1. Shows(w) /\ Awaits(w) /\ All' = All /\ pager'[w] = pager[w]
    BY <1>1, <1>3, AllFixed DEF PageInv
  <2> QED BY <1>1, <2>1, ShowsFixed, AwaitsFixed
<1> QED BY <1>2, <1>3 DEF PageInv

LEMMA ChangeQueryKeeps ==
    ASSUME PageInv, NEW qu \in Queries, ChangeQuery(qu)
    PROVE  PageInv'
<1> DEFINE F == [view |-> "home", query |-> query', off |-> 0, id |-> loads', answer |-> Nil]
           P == [FreshPager EXCEPT !.loading = TRUE]
<1>1. /\ query' = qu /\ ranking' = ranking
      /\ pager' = [pager EXCEPT !["home"] = P]
      /\ tangled' = (tangled \ {"home"}) \cup {"player"} \cup
                    (IF pager["home"].loading \/ \E f \in fetches : f.view = "home"
                     THEN {"home"} ELSE {})
  BY DEF ChangeQuery
<1>2. loads' \in Nat /\ fetches' \subseteq fetches \cup {F}
      /\ (pager["home"].loading \/ fetches' = fetches \cup {F})
  <2>1. loads \in Nat
    BY DEF PageInv, PageTypes
  <2> QED BY <2>1 DEF ChangeQuery, Fetch, FreshPager
<1>3. PageTypes
  BY DEF PageInv
<1>4. P \in Pager /\ P.shown = <<>> /\ P.off = 0 /\ ~ P.done /\ P.loading
  <2>1. <<>> \in Seq(Cards)
    OBVIOUS
  <2> QED BY <2>1 DEF FreshPager, Pager
<1>5. F \in FetchType
  BY <1>1, <1>2 DEF FetchType, Views
<1> HIDE DEF P
<1>6. PageTypes'
  <2>1. pager' \in [Views -> Pager]
    BY <1>1, <1>3, <1>4 DEF PageTypes
  <2>2. fetches' \subseteq FetchType
    BY <1>2, <1>3, <1>5 DEF PageTypes
  <2> QED BY <1>1, <1>2, <1>3, <2>1, <2>2 DEF PageTypes
<1>7. ASSUME NEW w \in Views \ tangled' PROVE Shows(w)' /\ Awaits(w)'
  <2>1. w = "home" /\ ~ pager["home"].loading /\ \A f \in fetches : f.view # "home"
    BY <1>1, <1>7 DEF Views
  <2>2. pager'[w] = P
    BY <1>1, <1>3, <2>1 DEF PageTypes, Views
  <2>3. Awaits(w)'
    <3>1. \A f \in fetches' : f.view = w => f = F
      BY <1>2, <2>1
    <3>2. F.query = query' /\ F.off = 0 /\ F.answer = Nil
      OBVIOUS
    <3> HIDE DEF F
    <3> QED BY <1>4, <2>2, <3>1, <3>2 DEF Awaits
  <2>4. Shows(w)'
    <3>1. Lead(w)' = <<>> /\ Upto(w)' = 0 /\ pager'[w].shown = <<>>
      BY <1>4, <2>1, <2>2 DEF Lead, Upto
    <3>2. <<>> \in Seq(Cards)
      OBVIOUS
    <3> QED BY <1>6, <2>1, <3>1, <3>2, EmptyShows
  <2> QED BY <2>3, <2>4
<1> QED BY <1>6, <1>7 DEF PageInv

LEMMA OpenPlayerKeeps ==
    ASSUME PageInv, NEW c \in Cards, OpenPlayer(c)
    PROVE  PageInv'
<1> DEFINE F == [view |-> "player", query |-> query', off |-> 0, id |-> loads', answer |-> Nil]
           P == [FreshPager EXCEPT !.shown = <<c>>, !.loading = TRUE]
<1>1. /\ query' = query /\ ranking' = ranking /\ loads' = loads + 1
      /\ pager' = [pager EXCEPT !["player"] = P] /\ fetches' = fetches \cup {F}
      /\ tangled' = (tangled \ {"player"}) \cup
                    (IF \E f \in fetches : f.view = "player" THEN {"player"} ELSE {})
  BY DEF OpenPlayer, Fetch, FreshPager
<1>2. PageTypes
  BY DEF PageInv
<1>3. <<c>> \in Seq(Cards) /\ <<c>> # <<>> /\ Head(<<c>>) = c
  OBVIOUS
<1>4. P \in Pager /\ P.shown = <<c>> /\ P.off = 0 /\ ~ P.done /\ P.loading
  BY <1>3 DEF FreshPager, Pager
<1>5. F \in FetchType
  BY <1>1, <1>2 DEF FetchType, Views, PageTypes
<1> HIDE DEF P
<1>6. PageTypes'
  <2>1. pager' \in [Views -> Pager]
    BY <1>1, <1>2, <1>4 DEF PageTypes
  <2>2. fetches' \subseteq FetchType /\ loads' \in Nat
    BY <1>1, <1>2, <1>5 DEF PageTypes
  <2> QED BY <1>1, <1>2, <2>1, <2>2 DEF PageTypes
<1>7. ASSUME NEW w \in Views \ tangled' PROVE Shows(w)' /\ Awaits(w)'
  <2>1. CASE w = "player"
    <3>1. \A f \in fetches : f.view # "player"
      BY <1>1, <1>7, <2>1
    <3>2. pager'[w] = P
      BY <1>1, <1>2, <2>1 DEF PageTypes, Views
    <3>3. Awaits(w)'
      <4>1. \A f \in fetches' : f.view = w => f = F
        BY <1>1, <2>1, <3>1
      <4>2. F.query = query' /\ F.off = 0 /\ F.answer = Nil
        OBVIOUS
      <4> HIDE DEF F
      <4> QED BY <1>4, <3>2, <4>1, <4>2 DEF Awaits
    <3>4. Lead(w)' = <<c>> /\ Upto(w)' = 0 /\ pager'[w].shown = <<c>>
      BY <1>3, <1>4, <2>1, <3>2 DEF Lead, Upto
    <3>5. Shows(w)'
      BY <1>3, <1>6, <3>4, EmptyShows
    <3> QED BY <3>3, <3>5
  <2>2. CASE w # "player"
    <3>1. Shows(w) /\ Awaits(w) /\ All' = All
      BY <1>1, <1>7, <2>2, AllFixed DEF PageInv
    <3>2. pager'[w] = pager[w]
      BY <1>1, <1>2, <1>7, <2>2 DEF PageTypes
    <3>3. \A f \in fetches' : f.view = w => f \in fetches
      BY <1>1, <2>2
    <3> QED BY <1>1, <3>1, <3>2, <3>3, ShowsFixed, AwaitsFixed
  <2> QED BY <2>1, <2>2
<1> QED BY <1>6, <1>7 DEF PageInv

LEMMA FoldEmpty == Fold(<<>>) = <<>>
<1>1. Len(<<>>) = 0
  OBVIOUS
<1>2. PICK g : Folding(g, <<>>, 0)
  BY FoldingExists
<1>3. \E h : Folding(h, <<>>, 0) /\ Fold(<<>>) = h[0]
  BY <1>1, <1>2, FoldIsChosen
<1> QED BY <1>3, FoldingAt

LEMMA RangeEmpty ==
    ASSUME NEW X, NEW s \in Seq(X)
    PROVE  Range(s) = {} <=> s = <<>>
<1>1. s # <<>> => 1 \in DOMAIN s
  OBVIOUS
<1> QED BY <1>1 DEF Range

\* Another ranking of the same rows: a query that selects none still does.
LEMMA NoneStaysNone ==
    ASSUME PageTypes, PageTypes', query' = query, All = <<>>
    PROVE  All' = <<>>
<1>1. CASE query \in Gated
  BY <1>1 DEF All
<1>2. CASE query \notin Gated
  <2>1. ranking \in Seq(Cards) /\ ranking' \in Seq(Cards)
        /\ Range(ranking) = Cards /\ Range(ranking') = Cards
    BY DEF PageTypes
  <2>2. /\ Select(ranking, Match[query]) \in Seq(Cards)
        /\ Range(Select(ranking, Match[query])) = Cards \cap Match[query]
    BY <2>1, SelectedOf
  <2>3. /\ Select(ranking', Match[query]) \in Seq(Cards)
        /\ Range(Select(ranking', Match[query])) = Cards \cap Match[query]
    BY <2>1, SelectedOf
  <2>4. Fold(Select(ranking, Match[query])) = <<>>
    BY <1>2 DEF All, Ranked
  <2>5. Select(ranking, Match[query]) = <<>>
    BY <2>2, <2>4, FoldOnce
  <2>6. Select(ranking', Match[query]) = <<>>
    BY <2>2, <2>3, <2>5, RangeEmpty
  <2> QED BY <1>2, <2>6, FoldEmpty DEF All, Ranked
<1> QED BY <1>1, <1>2

One(c) == <<c>>

LEMMA OneIs ==
    ASSUME NEW c \in Cards
    PROVE  One(c) \in Seq(Cards) /\ Range(One(c)) = {c} /\ Others(One(c)) = Cards \ {c}
<1>1. One(c) \in Seq(Cards) /\ Range(One(c)) = {c}
  BY DEF One, Range
<1> QED BY <1>1 DEF Others

LEMMA RerankKeeps ==
    ASSUME PageInv, NEW c \in Cards, Rerank(c)
    PROVE  PageInv'
<1>1. /\ ranking' = <<c>> \o Select(ranking, Others(<<c>>))
      /\ tangled' = tangled \cup {v \in Views : pager[v].loading \/ pager[v].shown # <<>>}
      /\ UNCHANGED <<query, pager, fetches, loads>>
  <2>1. Others(<<c>>) = Cards \ {c}
    BY DEF Others, Range
  <2> QED BY <2>1 DEF Rerank
<1>2. PageTypes
  BY DEF PageInv
<1>3. ranking' \in Seq(Cards) /\ Range(ranking') = Cards
  <2>1. ranking \in Seq(Cards) /\ Range(ranking) = Cards
    BY <1>2 DEF PageTypes
  <2>2. One(c) \in Seq(Cards) /\ Range(One(c)) = {c} /\ Others(One(c)) = Cards \ {c}
    BY OneIs
  <2>3. PICK s \in Seq(Cards) : s = Select(ranking, Others(One(c)))
    BY <2>1, SelectedOf
  <2>4. Range(s) = Range(ranking) \cap Others(One(c))
    BY <2>1, <2>3, SelectedOf
  <2>5. Cat(One(c), s) \in Seq(Cards) /\ Range(Cat(One(c), s)) = Range(One(c)) \cup Range(s)
    <3>1. One(c) \in Seq(Cards) /\ s \in Seq(Cards)
      BY <2>2
    <3> QED BY ONLY <3>1, CatRange
  <2>6. ranking' = Cat(One(c), s)
    BY <1>1, <2>3 DEF Cat, One
  <2>7. Range(One(c)) \cup Range(s) = Cards
    BY <2>1, <2>2, <2>4
  <2> QED BY <2>5, <2>6, <2>7
<1>4. PageTypes'
  BY <1>1, <1>2, <1>3 DEF PageTypes
<1>5. ASSUME NEW w \in Views \ tangled' PROVE Shows(w)' /\ Awaits(w)'
  <2>1. Shows(w) /\ Awaits(w) /\ ~ pager[w].loading /\ pager[w].shown = <<>>
    BY <1>1, <1>5 DEF PageInv
  <2>2. w = "home"
    BY <1>5, <2>1 DEF Shows, Views
  <2>3. Awaits(w)'
    BY <1>1, <2>1 DEF Awaits
  <2>4. All \in Seq(Cards) /\ Len(All) \in Nat /\ pager[w] \in Pager
    BY <1>2, <1>5, AllTyped DEF PageTypes
  <2>5. PICK n \in 0 .. Len(All) : n = Upto(w)
    BY <2>1, <2>4 DEF Shows, Upto, Pager
  <2>6. PICK a \in Seq(Cards) : a = First(All, n) /\ Len(a) = n
    BY <2>4, FirstIs
  <2>7. Select(a, Others(<<>>)) = a
    <3>1. Range(a) \subseteq Cards /\ Others(<<>>) = Cards
      BY DEF Others, Range
    <3> QED BY <3>1, SelectAll
  <2>8. Cat(<<>>, a) = a
    BY ConcatEmptySeq DEF Cat
  <2>9. a = <<>>
    BY <2>1, <2>2, <2>5, <2>6, <2>7, <2>8 DEF Shows, Lead
  <2>10. n = 0
    BY <2>6, <2>9
  <2>11. Upto(w)' = 0
    <3>1. CASE pager[w].done
      <4>1. Len(All) = 0
        BY <2>5, <2>10, <3>1 DEF Upto
      <4>2. All = <<>>
        BY <2>4, <4>1
      <4>3. All' = <<>>
        BY <1>1, <1>2, <1>4, <4>2, NoneStaysNone
      <4> QED BY <1>1, <3>1, <4>3 DEF Upto
    <3>2. CASE ~ pager[w].done
      BY <1>1, <2>5, <2>10, <3>2 DEF Upto
    <3> QED BY <3>1, <3>2
  <2>12. Lead(w)' = <<>> /\ pager'[w].shown = <<>>
    BY <1>1, <2>1, <2>2 DEF Lead
  <2>13. <<>> \in Seq(Cards)
    OBVIOUS
  <2>14. Shows(w)'
    BY <1>4, <2>2, <2>11, <2>12, <2>13, EmptyShows
  <2> QED BY <2>3, <2>14
<1> QED BY <1>4, <1>5 DEF PageInv

LEMMA PageInvFixed ==
    ASSUME PageInv, UNCHANGED <<pages, loads>>
    PROVE  PageInv'
<1>1. UNCHANGED <<ranking, query, pager, fetches, tangled, loads>>
  BY DEF pages
<1>2. PageTypes'
  BY <1>1 DEF PageInv, PageTypes
<1>3. ASSUME NEW w \in Views \ tangled' PROVE Shows(w)' /\ Awaits(w)'
  BY <1>1, <1>3, AllFixed, ShowsFixed, AwaitsFixed DEF PageInv
<1> QED BY <1>2, <1>3 DEF PageInv

LEMMA PageInvComplete == ASSUME PageInv PROVE PagingComplete
<1> DEFINE all == IF query \in Gated THEN <<>> ELSE Fold(Ranked(query))
<1>1. all = All
  BY DEF All
<1>2. All \in Seq(Cards) /\ Len(All) \in Nat /\ pager \in [Views -> Pager]
  BY AllTyped DEF PageInv, PageTypes
<1>3. ASSUME NEW v \in Views \ tangled, pager[v].done
      PROVE  IF v = "home" THEN pager[v].shown = All
             ELSE Tail(pager[v].shown) = Select(All, Cards \ {Head(pager[v].shown)})
  <2>1. Upto(v) = Len(All) /\ Shows(v)
    BY <1>3 DEF Upto, PageInv
  <2>2. First(All, Len(All)) = All
    BY <1>2, SubSeqFull DEF First
  <2>3. pager[v].shown = Cat(Lead(v), Select(All, Others(Lead(v))))
    BY <2>1, <2>2 DEF Shows
  <2>4. CASE v = "home"
    <3>1. Range(All) \subseteq Cards /\ Others(<<>>) = Cards
      BY <1>2 DEF Others, Range
    <3>2. Select(All, Others(<<>>)) = All
      BY <1>2, <3>1, SelectAll
    <3>3. Cat(<<>>, All) = All
      BY <1>2, ConcatEmptySeq DEF Cat
    <3> QED BY <2>3, <2>4, <3>2, <3>3 DEF Lead
  <2>5. CASE v # "home"
    <3>1. pager[v].shown # <<>> /\ pager[v].shown \in Seq(Cards)
      BY <1>2, <1>3, <2>1, <2>5 DEF Shows, Views, Pager
    <3>2. PICK h \in Cards : h = Head(pager[v].shown)
      BY <3>1
    <3>3. Others(One(h)) = Cards \ {h} /\ Lead(v) = One(h)
      BY <2>5, <3>2, OneIs DEF Lead, One
    <3>4. PICK s \in Seq(Cards) : s = Select(All, Others(One(h)))
      BY <1>2, SelectedOf
    <3>5. pager[v].shown = Cat(One(h), s)
      BY <2>3, <3>3, <3>4
    <3>6. Tail(Cat(One(h), s)) = s
      BY DEF Cat, One
    <3>7. s = Select(All, Cards \ {h})
      BY <3>3, <3>4
    <3> QED BY ONLY <2>5, <3>2, <3>5, <3>6, <3>7
  <2> QED BY <2>4, <2>5
<1> QED BY <1>1, <1>3 DEF PagingComplete

(***************************************************************************)
(* However the fetches, the answers, the tabs and the ranking interleave,  *)
(* a view that has come to the end without being reset while it loaded, or *)
(* ranked anew since, shows every title of its query once, in the order of *)
(* the ranking (loadHome and loadPlayer of index.html, feed).              *)
(***************************************************************************)
THEOREM PagesComplete == PageSpec => []PagingComplete
<1>1. PageInit => PageInv
  BY PageInitInv
<1>2. PageInv /\ [PageNext]_page => PageInv'
  <2> SUFFICES ASSUME PageInv, [PageNext]_page PROVE PageInv'
    OBVIOUS
  <2>1. ASSUME NEW v \in Views, Load(v) PROVE PageInv'
    BY <2>1, LoadKeeps
  <2>2. ASSUME NEW f \in fetches, Serve(f) PROVE PageInv'
    BY <2>2, ServeKeeps
  <2>3. ASSUME NEW f \in fetches, Land(f) PROVE PageInv'
    BY <2>3, LandKeeps
  <2>4. ASSUME NEW f \in fetches, LoadFails(f) PROVE PageInv'
    BY <2>4, LoadFailsKeeps
  <2>5. ASSUME NEW qu \in Queries, ChangeQuery(qu) PROVE PageInv'
    BY <2>5, ChangeQueryKeeps
  <2>6. ASSUME NEW c \in Cards, OpenPlayer(c) PROVE PageInv'
    BY <2>6, OpenPlayerKeeps
  <2>7. ASSUME NEW c \in Cards, Rerank(c) PROVE PageInv'
    BY <2>7, RerankKeeps
  <2>8. CASE UploadNext
    <3>1. UNCHANGED <<pages, loads>>
      BY <2>8 DEF UploadNext, Pick, Metadata, Submit, SendMedia, Received, Rendered, SubmitFails
    <3> QED BY <3>1, PageInvFixed
  <2>9. CASE UNCHANGED page
    BY <2>9, PageInvFixed DEF page
  <2> QED BY <2>1, <2>2, <2>3, <2>4, <2>5, <2>6, <2>7, <2>8, <2>9 DEF PageNext, FrontNext
<1>3. PageInv => PagingComplete
  BY PageInvComplete
<1> QED BY <1>1, <1>2, <1>3, PTL DEF PageSpec

=============================================================================
