------------------------------ MODULE ClearKey ------------------------------
(***************************************************************************)
(* ClearKey playback: a player asks for the init segment and the segments  *)
(* of a track; the handler of the HLS playlists (handle_decrypt_segment)   *)
(* and that of native DASH (handle_dash_segment) fetch the encrypted bytes, *)
(* decrypt them (utils/drm_decrypter.py) and answer.  The decrypter may    *)
(* need what only the init segment says, which both keep in one cache      *)
(* (_dash_init_cache).                                                     *)
(*                                                                         *)
(* A segment is a list of fragments, each one traf with one trun; a byte of *)
(* a sample is a pair of the sample's number and its place in it, and is in *)
(* the clear or not.  The cipher itself is not modelled.                   *)
(***************************************************************************)
EXTENDS Naturals, Sequences, FiniteSets, SequencesExt

CONSTANTS
    KReq,       \* requests under way
    KKid,       \* the KID of the track
    KKeys,      \* lists of KIDs the client may have given keys for
    KSegments,  \* segments the source may have: sequences of fragments
    KMoof,      \* bytes of a moof without what the decrypter removes
    KNil

\* A fragment: is it encrypted, where its sample sizes are, the sizes, how many bytes of
\* pssh and of senc, saiz, saio, sbgp and sgpd it has, and the clear bytes a sample begins with.
KFragment == [enc : BOOLEAN, where : {"trun", "trex"}, sizes : Seq(Nat \ {0}),
              pssh : Nat, boxes : Nat, lead : Nat]

ASSUME ClearKeyAssumption ==
    /\ \A keys \in KKeys : keys \in Seq(ToSet(keys)) /\ KKid \in ToSet(keys)
    /\ \A seg \in KSegments : seg \in Seq(KFragment) /\ seg # <<>>
    /\ KMoof \in Nat

VARIABLES
    kSrc,    \* the source: IV size in the init segment, segment, whether it begins with a
             \* sidx box (a styp or moof if not), keys of the client
    kCache,  \* _dash_init_cache: the keys under which the init segment is there
    kReq,    \* each request
    kAns     \* the last answer, or KNil

clearKeyVars == <<kSrc, kCache, kReq, kAns>>

KIdle == [pc |-> "idle", kind |-> "hls", piece |-> "media", cached |-> FALSE,
          init |-> "empty", seg |-> "empty"]

ClearKeyInit ==
    /\ \E iv \in {0, 8, 16}, seg \in KSegments, keys \in KKeys, ranged, sidx \in BOOLEAN :
         kSrc = [iv |-> iv, frags |-> seg, sidx |-> sidx, keys |-> keys, ranged |-> ranged]
    /\ kCache = {} /\ kReq = [r \in KReq |-> KIdle] /\ kAns = KNil

-----------------------------------------------------------------------------
(* MP4Decrypter.  "known": the init segment is there, so moov was read.    *)

\* What moov says of the track, if it is there: the KID and the size of the IVs in tenc,
\* and that trex has the sizes of the samples that trun leaves out.
Tenc(known) == IF known THEN {[kid |-> KKid, iv |-> kSrc.iv]} ELSE {}
Trex(f, known) == IF known THEN f.sizes ELSE [i \in 1 .. Len(f.sizes) |-> 0]

Sizes(f, known) == IF f.where = "trun" THEN f.sizes ELSE Trex(f, known)

\* _parse_senc: the samples whose entry is read right.  Without tenc the size of the
\* IVs is the one that fits, and none fits when the IV is a constant of tenc.
Entries(f, known) ==
    IF ~f.enc \/ (Tenc(known) = {} /\ kSrc.iv = 0) THEN <<>> ELSE [i \in 1 .. Len(f.sizes) |-> i]

\* _get_key_for_track, for track 1: by KID, the only one, or by the number of the track.
KeyFor(known) == IF Tenc(known) # {} THEN KKid ELSE kSrc.keys[1]

Byte(s, j, clear) == [sample |-> s, at |-> j, clear |-> clear]

\* The samples of a fragment one after the other, as the source has them and in the clear.
Mdat(f, encrypted) ==
    FlattenSeq([s \in 1 .. Len(f.sizes) |->
                  [j \in 1 .. f.sizes[s] |-> Byte(s, j, ~encrypted \/ j <= f.lead)]])

\* _process_sample: the clear bytes as they are, the others by the key and the IV of the
\* entry; what belongs to another sample comes out as noise.
Sample(f, bytes, entry, known) ==
    [j \in 1 .. Len(bytes) |->
        [bytes[j] EXCEPT !.clear = @ \/ (KeyFor(known) = KKid /\ bytes[j].sample = entry
                                         /\ bytes[j].at = j)]]

\* _decrypt_mdat: entry by entry, each as long as trun says; no entries, no change.
DecryptMdat(f, known) ==
    LET data  == Mdat(f, f.enc)
        sizes == Sizes(f, known)
        Step(acc, e) ==
            LET to == acc.pos + sizes[e]
            IN  [pos |-> to, out |-> acc.out \o
                                Sample(f, SubSeq(data, acc.pos + 1, to), e, known)]
    IN  IF Entries(f, known) = <<>> THEN data
        ELSE FoldLeft(Step, [pos |-> 0, out |-> <<>>], Entries(f, known)).out

\* Mutant of Overhead: what moof had of its own is forgotten.
OverheadOfTraf(f) == f.boxes

\* encryption_overhead.
Overhead(f) == f.pssh + f.boxes

\* The sizes of a fragment as it came, and _modify_trun, _process_moof, _process_traf.
MoofSize(f)   == KMoof + f.pssh + f.boxes
DataOffset(f) == MoofSize(f) + 8
Rewritten(f, known) ==
    [moof |-> KMoof, offset |-> DataOffset(f) - Overhead(f), mdat |-> DecryptMdat(f, known)]

\* decrypt_segment, without the boxes of the init segment; _process_sidx for a sidx that
\* refers to the first fragment.
Decrypted(known) == [i \in 1 .. Len(kSrc.frags) |-> Rewritten(kSrc.frags[i], known)]
SidxSize == MoofSize(kSrc.frags[1]) - Overhead(kSrc.frags[1])

\* The segment as the source has it.
AsFetched ==
    [i \in 1 .. Len(kSrc.frags) |->
        LET f == kSrc.frags[i]
        IN  [moof |-> MoofSize(f), offset |-> DataOffset(f), mdat |-> Mdat(f, f.enc)]]

-----------------------------------------------------------------------------
(* The handlers.                                                           *)

Multi == Len(kSrc.keys) > 1

\* The cache key has the init's byte range, and "None" or nothing when it has none.
CacheKey(kind) == IF kSrc.ranged THEN "range" ELSE kind
Cached(kind)   == CacheKey(kind) \in kCache

\* More than 50 init segments: all go.
Put(kind) == kCache' \in {kCache \cup {CacheKey(kind)}, {CacheKey(kind)}}
CacheCleared == kCache # {} /\ kCache' = {} /\ UNCHANGED <<kSrc, kReq, kAns>>

\* The media requests of a playlist carry skip_init=1: they fetch the init segment only
\* when there are several keys to choose from and it is not cached.
InitFirst(kind, piece) ==
    IF Cached(kind) THEN "got"
    ELSE IF kind = "hls" /\ (piece = "init" \/ Multi) THEN "fetch" ELSE "empty"

Requested(r, kind, piece) ==
    /\ kReq[r].pc = "idle"
    /\ kReq' = [kReq EXCEPT ![r] =
                  [pc |-> "fetch", kind |-> kind, piece |-> piece, cached |-> Cached(kind),
                   init |-> InitFirst(kind, piece),
                   seg |-> IF kind = "hls" /\ piece = "init" THEN "empty" ELSE "fetch"]]
    /\ kAns' = KNil /\ UNCHANGED <<kSrc, kCache>>

Results(part) == IF part = "fetch" THEN {"got", "none", "again"} ELSE {part}

\* handle_decrypt_segment: both at once; each may fail for good, or on the connection.
HlsFetched(r) ==
    /\ kReq[r].pc = "fetch" /\ kReq[r].kind = "hls"
    /\ \E i \in Results(kReq[r].init), s \in Results(kReq[r].seg) :
         kReq' = [kReq EXCEPT ![r].init = i, ![r].seg = s,
                    ![r].pc = IF "again" \in {i, s} THEN "again" ELSE "ready"]
    /\ kAns' = KNil /\ UNCHANGED <<kSrc, kCache>>

\* What failed on the connection is fetched once more, by WARP, a tunnel brought back or
\* direct, as before; by another proxy it is not.
HlsRetried(r) ==
    /\ kReq[r].pc = "again"
    /\ \E i \in IF kReq[r].init = "again" THEN {"got", "none"} ELSE {kReq[r].init},
          s \in IF kReq[r].seg = "again" THEN {"got", "none"} ELSE {kReq[r].seg} :
         kReq' = [kReq EXCEPT ![r].init = i, ![r].seg = s, ![r].pc = "ready"]
    /\ kAns' = KNil /\ UNCHANGED <<kSrc, kCache>>

Ends(r) == kReq' = [kReq EXCEPT ![r] = KIdle]
Answered(r, known, out) ==
    kAns' = [kind |-> kReq[r].kind, piece |-> kReq[r].piece, known |-> known, out |-> out]

HlsError(r) == \/ kReq[r].piece = "init" /\ kReq[r].init = "none"
               \/ kReq[r].piece = "media" /\ kReq[r].seg = "none"

\* The cache is filled, also when the segment failed; a media segment whose init failed is
\* decrypted without.
HlsAnswers(r) ==
    /\ kReq[r].pc = "ready" /\ kReq[r].kind = "hls"
    /\ IF kReq[r].init = "got" /\ ~kReq[r].cached THEN Put("hls") ELSE UNCHANGED kCache
    /\ IF HlsError(r) THEN kAns' = KNil
       ELSE LET known == kReq[r].init = "got"
            IN  Answered(r, known, CASE kReq[r].piece = "init" -> <<>>
                                     [] kReq[r].seg = "none" -> <<>>
                                     [] OTHER -> Decrypted(known))
    /\ Ends(r) /\ UNCHANGED kSrc

\* handle_dash_segment: the piece, then the init segment if it is needed and not cached by
\* then.
DashFetched(r) ==
    /\ kReq[r].pc = "fetch" /\ kReq[r].kind = "dash"
    /\ \/ kReq' = [kReq EXCEPT ![r].pc = "ready", ![r].cached = Cached("dash"),
                     ![r].init = IF kReq[r].piece = "media" /\ ~kSrc.sidx /\ ~Cached("dash")
                                 THEN "fetch" ELSE "got"]
       \/ Ends(r)
    /\ kAns' = KNil /\ UNCHANGED <<kSrc, kCache>>

\* Its answer: what begins with a sidx box as it is, though samples follow it.
DashPiece(piece) == IF piece = "init" THEN <<>>
                    ELSE IF kSrc.sidx THEN AsFetched ELSE Decrypted(TRUE)

\* No init segment, no answer.
DashAnswers(r) ==
    /\ kReq[r].pc = "ready" /\ kReq[r].kind = "dash"
    /\ \/ /\ Answered(r, TRUE, DashPiece(kReq[r].piece))
          /\ IF kReq[r].init = "fetch" THEN Put("dash") ELSE UNCHANGED kCache
       \/ kReq[r].init = "fetch" /\ kAns' = KNil /\ UNCHANGED kCache
    /\ Ends(r) /\ UNCHANGED kSrc

ClearKeyNext ==
    \/ \E r \in KReq : \/ \E kind \in {"hls", "dash"}, piece \in {"init", "media"} :
                            Requested(r, kind, piece)
                       \/ HlsFetched(r) \/ HlsRetried(r) \/ HlsAnswers(r)
                       \/ DashFetched(r) \/ DashAnswers(r)
    \/ CacheCleared

ClearKeySpec == ClearKeyInit /\ [][ClearKeyNext]_clearKeyVars

-----------------------------------------------------------------------------
(* Properties.                                                             *)

\* What the decrypter must make of a segment: all bytes of all samples, in their order
\* and in the clear, in fragments whose sample offsets and index are those of the
\* smaller boxes.
InClear(out) ==
    /\ Len(out) = Len(kSrc.frags)
    /\ \A i \in 1 .. Len(out) : /\ out[i].mdat = Mdat(kSrc.frags[i], FALSE)
                                /\ out[i].offset = out[i].moof + 8
    /\ SidxSize = out[1].moof

\* What only the init segment says: a constant IV, sample sizes of trex, which of
\* several keys is the track's.
NeedsInit ==
    \/ kSrc.iv = 0 \/ Multi
    \/ \E i \in 1 .. Len(kSrc.frags) : kSrc.frags[i].enc /\ kSrc.frags[i].where = "trex"

Media(ans) == ans # KNil /\ ans.piece = "media"

\* A media segment is answered in the clear and complete or not at all, whatever failed,
\* was fetched again or left the cache: by native DASH unless it begins with a sidx box
\* (that one goes out exactly as it was fetched), by the HLS handler, sidx or not, whenever
\* it had the init segment or the segment says everything itself.
AnsweredInClear ==
    Media(kAns) =>
        IF kAns.kind = "dash" /\ kSrc.sidx THEN kAns.out = AsFetched
        ELSE (kAns.kind = "dash" \/ kAns.known \/ ~NeedsInit) => InClear(kAns.out)
=============================================================================
